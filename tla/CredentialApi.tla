---------------------------- MODULE CredentialApi ----------------------------
(***************************************************************************)
(* The libvcx C API to a holder's credential object                        *)
(* (libvcx/src/api_c/protocols/credential.rs), composed with the issuance *)
(* interaction.  Each vcx_credential_* function checks its C arguments     *)
(* synchronously (check_useful_c_callback!, check_useful_c_str!) and       *)
(* returns an error code at once when one is null; otherwise it spawns a  *)
(* task (execute, execute_async), returns SUCCESS_ERR_CODE, and the task   *)
(* later calls the libvcx_core operation on the handle and invokes the    *)
(* callback with the outcome.  Tasks of different calls run in any order.  *)
(* vcx_credential_release is synchronous.  The handle map and the          *)
(* operations behind it are in libvcx_core, outside the sources: one call  *)
(* of such an operation is one atomic step on the holder object, which     *)
(* exists (Live) or not (None before creation, Released after release or  *)
(* delete).  The holder is driven only through this API; the issuer's     *)
(* application acts as in Issuance.  The holder's connection also carries *)
(* messages of other interactions (HolderNoise).                          *)
(***************************************************************************)
EXTENDS Issuance, Sequences

CONSTANTS
    Cmds,         \* command handles the application passes
    HolderNoise,  \* messages of other interactions pending at the holder
    CalledOps     \* the vcx_* functions the application calls

ASSUME HolderNoiseAssumption == HolderNoise \subseteq Message

VARIABLES
    handle,   \* the credential object in libvcx_core's map: None, Live, Released
    callSt,   \* per command handle: Unused, Rejected, Pending, Returned
    callOp,   \* per command handle: the function of its last accepted call
    callRc,   \* per command handle: the callbacks its last call invoked
    saved     \* the last string vcx_credential_serialize returned, or None

apiVars == <<handle, callSt, callOp, callRc, saved>>
allVars == <<vars, apiVars>>

\* Functions that run as a task and report through a callback.
CreateOps == {"create_with_offer", "create_with_msgid", "deserialize"}
QueryOps ==
    {"get_credential", "get_attributes", "get_attachment", "get_tails_location",
     "get_tails_hash", "get_rev_reg_id", "get_thread_id", "is_revokable",
     "get_request_msg", "get_state"}
ApiOps ==
    CreateOps \cup QueryOps \cup
    {"send_request", "decline_offer", "update_state", "update_state_with_message",
     "get_offers", "serialize", "delete_credential"}

Snapshot == [st : HolderStates, thread : Threads, cred : RevIds \cup {None}]

ASSUME CalledOpsAssumption == CalledOps \subseteq ApiOps

ApiTypeOK ==
    /\ TypeOK
    /\ handle \in {"None", "Live", "Released"}
    /\ callSt \in [Cmds -> {"Unused", "Rejected", "Pending", "Returned"}]
    /\ callOp \in [Cmds -> ApiOps \cup {None}]
    /\ callRc \in [Cmds -> Seq({"Ok", "Err"})]
    /\ saved \in Snapshot \cup {None}

ApiInit ==
    /\ IssuerInit
    /\ HolderInit
    /\ toIssuer = IssuerNoise
    /\ toHolder = HolderNoise
    /\ handle = "None"
    /\ callSt = [c \in Cmds |-> "Unused"]
    /\ callOp = [c \in Cmds |-> None]
    /\ callRc = [c \in Cmds |-> <<>>]
    /\ saved = None

Live == handle = "Live"

\* The application keeps one credential object: it asks for a new one only
\* while it holds none and no creation is under way.
MayCreate ==
    /\ ~Live
    /\ \A d \in Cmds : ~(callSt[d] = "Pending" /\ callOp[d] \in CreateOps)

\* The synchronous part of every vcx_credential_* function: a null callback
\* or C string is refused with an error code, and no task is spawned;
\* otherwise the task is spawned and SUCCESS_ERR_CODE returned.  The
\* application passes a command handle whose earlier call has completed.
VcxCall(c, op) ==
    /\ callSt[c] # "Pending"
    /\ op \in CreateOps => MayCreate
    /\ callRc' = [callRc EXCEPT ![c] = <<>>]
    /\ \/ callSt' = [callSt EXCEPT ![c] = "Pending"]
          /\ callOp' = [callOp EXCEPT ![c] = op]
       \/ callSt' = [callSt EXCEPT ![c] = "Rejected"]
          /\ callOp' = [callOp EXCEPT ![c] = None]
    /\ UNCHANGED <<vars, handle, saved>>

\* The task of command c, spawned by a call of op, is scheduled.
Running(c, op) == callSt[c] = "Pending" /\ callOp[c] = op

\* The task invokes cb(command_handle, rc, ...), once.
Callback(c, rc) ==
    /\ callSt' = [callSt EXCEPT ![c] = "Returned"]
    /\ callRc' = [callRc EXCEPT ![c] = Append(@, rc)]
    /\ UNCHANGED callOp

\* The libvcx_core operation fails and changes nothing: the handle is not in
\* the map, an argument does not parse, or the agency or wallet fails.
TaskFails(c) == Callback(c, "Err") /\ UNCHANGED <<vars, handle, saved>>

\* The operation succeeds without changing the object or the connection.
TaskReads(c) == Live /\ Callback(c, "Ok") /\ UNCHANGED <<vars, handle, saved>>

\* The holder object is replaced; the issuer and the handle map keep theirs.
HolderChanges(c, rc) ==
    /\ Callback(c, rc)
    /\ UNCHANGED <<issuerVars, handle, saved>>

(***************************************************************************)
(* The tasks, one per vcx_* function.  Each is the whole task: the         *)
(* libvcx_core operation on the handle and the callback.                  *)
(***************************************************************************)

\* credential_create_with_offer: a holder object from an offer the
\* application read from its connection, in a new handle.
vcx_credential_create_with_offer(c) ==
    /\ Running(c, "create_with_offer")
    /\ \/ TaskFails(c)
       \/ \E m \in toHolder :
             /\ HolderCreateFromOffer(m)
             /\ handle' = "Live"
             /\ Callback(c, "Ok")
             /\ UNCHANGED <<issuerVars, toIssuer, toHolder, saved>>

\* credential_create_with_msgid: the offer is fetched from the connection
\* by its message id; the message is not marked read.
vcx_credential_create_with_msgid(c) ==
    /\ Running(c, "create_with_msgid")
    /\ \/ TaskFails(c)
       \/ \E m \in toHolder :
             /\ HolderCreateFromOffer(m)
             /\ handle' = "Live"
             /\ Callback(c, "Ok")
             /\ UNCHANGED <<issuerVars, toIssuer, toHolder, saved>>

\* Bug variant: the restored object loses its stored credential.
vcx_credential_deserialize_dropping_cred(c) ==
    /\ Running(c, "deserialize")
    /\ \/ TaskFails(c)
       \/ /\ saved # None
          /\ hState' = saved.st
          /\ hThread' = saved.thread
          /\ hCred' = None
          /\ handle' = "Live"
          /\ Callback(c, "Ok")
          /\ UNCHANGED <<issuerVars, toIssuer, toHolder, saved>>

\* credential::from_string: a new handle holding the serialized object.
vcx_credential_deserialize(c) ==
    /\ Running(c, "deserialize")
    /\ \/ TaskFails(c)
       \/ /\ saved # None
          /\ hState' = saved.st
          /\ hThread' = saved.thread
          /\ hCred' = saved.cred
          /\ handle' = "Live"
          /\ Callback(c, "Ok")
          /\ UNCHANGED <<issuerVars, toIssuer, toHolder, saved>>

\* credential::to_string: the application keeps the serialized object.
vcx_credential_serialize(c) ==
    /\ Running(c, "serialize")
    /\ \/ TaskFails(c)
       \/ /\ Live
          /\ saved' = [st |-> hState, thread |-> hThread, cred |-> hCred]
          /\ Callback(c, "Ok")
          /\ UNCHANGED <<vars, handle>>

\* A query of the object: InvalidState when it is not meaningful in the
\* current state, an unknown handle when the object is gone.
VcxQuery(c, op) == Running(c, op) /\ (TaskFails(c) \/ TaskReads(c))

vcx_get_credential(c) == VcxQuery(c, "get_credential")
vcx_credential_get_attributes(c) == VcxQuery(c, "get_attributes")
vcx_credential_get_attachment(c) == VcxQuery(c, "get_attachment")
vcx_credential_get_tails_location(c) == VcxQuery(c, "get_tails_location")
vcx_credential_get_tails_hash(c) == VcxQuery(c, "get_tails_hash")
vcx_credential_get_rev_reg_id(c) == VcxQuery(c, "get_rev_reg_id")
vcx_credential_get_thread_id(c) == VcxQuery(c, "get_thread_id")
vcx_credential_is_revokable(c) == VcxQuery(c, "is_revokable")
vcx_credential_get_request_msg(c) == VcxQuery(c, "get_request_msg")

\* Bug variant: an unknown handle ends the task without invoking cb.
vcx_credential_get_state_silent(c) ==
    /\ Running(c, "get_state")
    /\ \/ ~Live /\ callSt' = [callSt EXCEPT ![c] = "Returned"]
          /\ UNCHANGED <<vars, handle, callOp, callRc, saved>>
       \/ TaskReads(c)

\* credential::get_state fails only on an unknown handle.
vcx_credential_get_state(c) ==
    /\ Running(c, "get_state")
    /\ \/ ~Live /\ TaskFails(c)
       \/ TaskReads(c)

\* get_credential_offer_messages_with_conn_handle reads the connection, not
\* the object.
vcx_credential_get_offers(c) ==
    /\ Running(c, "get_offers")
    /\ \/ TaskFails(c)
       \/ Callback(c, "Ok") /\ UNCHANGED <<vars, handle, saved>>

\* delete_credential removes the stored credential from the wallet and
\* releases the handle (its documentation); the holder has a credential
\* only once Finished.
vcx_delete_credential(c) ==
    /\ Running(c, "delete_credential")
    /\ \/ TaskFails(c)
       \/ /\ Live
          /\ hState = "Finished"
          /\ handle' = "Released"
          /\ Callback(c, "Ok")
          /\ UNCHANGED <<vars, saved>>

\* send_credential_request: Holder::send_request on the object.  The
\* callback reports the step's result: Ok once the machine moved to
\* RequestSent; an error when the send failed, delivered or not.  In any
\* other state HolderSM leaves the machine unchanged.
vcx_credential_send_request(c) ==
    /\ Running(c, "send_request")
    /\ \/ TaskFails(c)
       \/ /\ Live
          /\ HolderSendRequest
          /\ HolderChanges(c, IF hState' = "RequestSent" THEN "Ok" ELSE "Err")
       \/ hState # "OfferReceived" /\ TaskReads(c)

\* decline_offer: Holder::reject_offer, reported as for send_request.
vcx_credential_decline_offer(c) ==
    /\ Running(c, "decline_offer")
    /\ \/ TaskFails(c)
       \/ /\ Live
          /\ HolderRejectOffer
          /\ HolderChanges(c, IF hState' = "Failed" THEN "Ok" ELSE "Err")
       \/ hState # "OfferReceived" /\ TaskReads(c)

\* Bug variant: an error of the operation ends the task without invoking cb.
vcx_v2_credential_update_state_silent(c) ==
    /\ Running(c, "update_state")
    /\ \/ /\ callSt' = [callSt EXCEPT ![c] = "Returned"]
          /\ UNCHANGED <<vars, handle, callOp, callRc, saved>>
       \/ (HolderIsTerminal \/ HolderHandleable = {}) /\ TaskReads(c)
       \/ /\ Live
          /\ HolderUpdateState
          /\ HolderChanges(c, IF toHolder' = toHolder THEN "Err" ELSE "Ok")

\* update_state(handle, None, connection): Holder::update_state.  It
\* returns the state at once when terminal or when the selector finds
\* nothing; an error of get_messages or of the step changes nothing; an
\* error of update_message_status comes after the machine has moved.
vcx_v2_credential_update_state(c) ==
    /\ Running(c, "update_state")
    /\ \/ TaskFails(c)
       \/ (HolderIsTerminal \/ HolderHandleable = {}) /\ TaskReads(c)
       \/ /\ Live
          /\ HolderUpdateState
          /\ HolderChanges(c, IF toHolder' = toHolder THEN "Err" ELSE "Ok")

\* A message for which HolderSM has no transition in the current state.
HolderIgnores(m) ==
    /\ m.type # "ProblemReport"
    /\ ~(hState \in {"Initial", "ProposalSent"} /\ m.type = "Offer")
    /\ ~(hState = "RequestSent" /\ m.type = "Credential")

\* Bug variant: the message reaches the handler without verify_thread_id.
vcx_v2_credential_update_state_with_message_unverified(c) ==
    /\ Running(c, "update_state_with_message")
    /\ \/ TaskFails(c)
       \/ /\ Live
          /\ \E m \in toHolder :
                \/ HolderReceiveOffer(m)
                \/ HolderReceiveCredential(m)
                \/ HolderReceiveProblemReport(m)
                \/ HolderIgnores(m) /\ UNCHANGED holderVars
          /\ UNCHANGED <<toIssuer, toHolder>>
          /\ HolderChanges(c, "Ok")

\* update_state(handle, Some(message), connection): the application's
\* message goes to the machine's handler directly, with no selector and no
\* update_message_status; verify_thread_id is the only filter.
vcx_v2_credential_update_state_with_message(c) ==
    /\ Running(c, "update_state_with_message")
    /\ \/ TaskFails(c)
       \/ /\ Live
          /\ \E m \in toHolder :
                /\ VerifyThreadId(hThread, m, hState = "Initial")
                /\ \/ HolderReceiveOffer(m)
                   \/ HolderReceiveCredential(m)
                   \/ HolderReceiveProblemReport(m)
                   \/ HolderIgnores(m) /\ UNCHANGED holderVars
          /\ UNCHANGED <<toIssuer, toHolder>>
          /\ HolderChanges(c, "Ok")

\* vcx_credential_release, synchronous: the handle leaves the map; on an
\* unknown handle it returns an error code and changes nothing.
vcx_credential_release ==
    /\ Live
    /\ handle' = "Released"
    /\ UNCHANGED <<vars, callSt, callOp, callRc, saved>>

\* The task of command c runs.
RunTask(c) ==
    \/ vcx_credential_create_with_offer(c)
    \/ vcx_credential_create_with_msgid(c)
    \/ vcx_credential_deserialize(c)
    \/ vcx_credential_serialize(c)
    \/ vcx_get_credential(c)
    \/ vcx_credential_get_attributes(c)
    \/ vcx_credential_get_attachment(c)
    \/ vcx_credential_get_tails_location(c)
    \/ vcx_credential_get_tails_hash(c)
    \/ vcx_credential_get_rev_reg_id(c)
    \/ vcx_credential_get_thread_id(c)
    \/ vcx_credential_is_revokable(c)
    \/ vcx_credential_get_request_msg(c)
    \/ vcx_credential_get_state(c)
    \/ vcx_credential_get_offers(c)
    \/ vcx_delete_credential(c)
    \/ vcx_credential_send_request(c)
    \/ vcx_credential_decline_offer(c)
    \/ vcx_v2_credential_update_state(c)
    \/ vcx_v2_credential_update_state_with_message(c)

\* The issuer's application, as in Issuance; the API is untouched.
IssuerStep ==
    /\ \/ IssuerPoll
       \/ IssuerSendOffer
       \/ IssuerSendCredential
       \/ IssuerRevokeCredential
    /\ UNCHANGED apiVars

ApiNext ==
    \/ IssuerStep
    \/ \E c \in Cmds, op \in CalledOps : VcxCall(c, op)
    \/ \E c \in Cmds : RunTask(c)
    \/ vcx_credential_release

\* The runtime behind execute and execute_async runs every spawned task to
\* completion: each pending task is eventually scheduled.  The
\* applications need not call anything.
ApiSpec == ApiInit /\ [][ApiNext]_allVars /\ \A c \in Cmds : WF_allVars(RunTask(c))

-----------------------------------------------------------------------------
\* Every call the C API accepted with SUCCESS_ERR_CODE eventually has its
\* callback invoked, whatever the task met: an unknown or released handle,
\* a failing agency, a failed acknowledgement after the step.  An embedder
\* that waits on the callback of vcx_v2_credential_update_state, or of any
\* other call, never hangs, even if it never calls again.
CallbackDelivered ==
    \A c \in Cmds : callSt[c] = "Pending" ~> callRc[c] # <<>>

=============================================================================
