------------------------------ MODULE IssuerSM ------------------------------
(***************************************************************************)
(* The Issuer state machine (aries_vcx handlers/issuance/issuer/          *)
(* state_machine.rs, IssuerSM) and the part of the anoncreds backend it    *)
(* changes: the revocation registry.                                      *)
(*                                                                         *)
(* The state data of each IssuerFullState variant is kept only as far as  *)
(* it steers a later step: the stored proposal (its thread decides the    *)
(* thread of the offer), the stored request (its thread is re-checked by  *)
(* _create_credential), whether the offer named a revocation registry,    *)
(* and the cred_rev_id recorded in the Finished state.                    *)
(***************************************************************************)
EXTENDS Connection

CONSTANT IssuerThread   \* MessageId::new() drawn by IssuerSM::new

ASSUME IssuerThreadAssumption == IssuerThread \in Threads

VARIABLES
    iState,      \* variant of IssuerFullState
    iThread,     \* IssuerSM.thread_id
    iStatus,     \* FinishedState.status (Undefined outside Finished)
    iProposal,   \* ProposalReceivedState.credential_proposal, or None
    iRequest,    \* RequestReceivedState.request, or None
    iRevReg,     \* the offer_info carried a rev_reg_id
    iCredRevId,  \* cred_rev_id of FinishedState.revocation_info_v1, or None
    issued,      \* revocation indices the registry has handed out (1..issued)
    revoked      \* revocation indices revoked through IssuerSM::revoke

issuerVars == <<iState, iThread, iStatus, iProposal, iRequest, iRevReg,
                iCredRevId, issued, revoked>>

IssuerStates ==
    {"Initial", "ProposalReceived", "OfferSent", "RequestReceived",
     "CredentialSent", "Finished"}

\* Status of a FinishedState; credential_status() is its code.
Statuses == {"Undefined", "Success", "Failed"}

IssuerTypeOK ==
    /\ iState \in IssuerStates
    /\ iThread \in Threads
    /\ iStatus \in Statuses
    /\ iProposal \in Message \cup {None}
    /\ iRequest \in Message \cup {None}
    /\ iRevReg \in BOOLEAN
    /\ iCredRevId \in RevIds \cup {None}
    /\ issued \in 0..RegistryCapacity
    /\ revoked \subseteq RevIds

\* IssuerSM::new
IssuerInit ==
    /\ iState = "Initial"
    /\ iThread = IssuerThread
    /\ iStatus = "Undefined"
    /\ iProposal = None
    /\ iRequest = None
    /\ iRevReg = FALSE
    /\ iCredRevId = None
    /\ issued = 0
    /\ revoked = {}

IsTerminal == iState = "Finished"

(***************************************************************************)
(* find_message_to_handle: the messages of the bag the issuer is willing  *)
(* to handle in its current state.  The bag is a HashMap, whose iteration *)
(* order is random, so any one of them may be the one returned.           *)
(***************************************************************************)
Handleable ==
    CASE iState = "Initial" ->
            {m \in toIssuer : m.type = "Proposal"}
      [] iState = "OfferSent" ->
            {m \in toIssuer :
                \/ m.type \in {"Request", "ProblemReport"} /\ FromThread(m, iThread)
                \/ m.type = "Proposal" /\ IsReply(m, iThread)}
      [] iState = "CredentialSent" ->
            {m \in toIssuer :
                m.type \in {"Ack", "ProblemReport"} /\ FromThread(m, iThread)}
      [] OTHER -> {}

(***************************************************************************)
(* The branches of handle_message for inbound protocol messages.          *)
(***************************************************************************)

\* Bug variant: the thread is taken from the proposal's ~thread.thid
\* instead of its @id.
ReceiveProposalAdoptingThid(m) ==
    /\ iState = "Initial" /\ m.type = "Proposal"
    /\ iState' = "ProposalReceived"
    /\ iThread' = m.thid
    /\ iProposal' = m
    /\ UNCHANGED <<iStatus, iRequest, iRevReg, iCredRevId>>

\* Initial + CredentialProposal: adopt the proposal's @id as thread id.
ReceiveProposal(m) ==
    /\ iState = "Initial" /\ m.type = "Proposal"
    /\ iState' = "ProposalReceived"
    /\ iThread' = m.id
    /\ iProposal' = m
    /\ UNCHANGED <<iStatus, iRequest, iRevReg, iCredRevId>>

\* OfferSent + CredentialRequest.
ReceiveRequest(m) ==
    /\ iState = "OfferSent" /\ m.type = "Request"
    /\ iState' = "RequestReceived"
    /\ iRequest' = m
    /\ UNCHANGED <<iThread, iStatus, iProposal, iRevReg, iCredRevId>>

\* OfferSent + CredentialProposal: renegotiation, ProposalReceivedState::new
\* (proposal, None) drops the offer_info and with it the rev_reg_id.
ReceiveCounterProposal(m) ==
    /\ iState = "OfferSent" /\ m.type = "Proposal"
    /\ iState' = "ProposalReceived"
    /\ iProposal' = m
    /\ iRevReg' = FALSE
    /\ UNCHANGED <<iThread, iStatus, iRequest, iCredRevId>>

\* OfferSent + ProblemReport: Finished with status Failed.
ReceiveProblemReport(m) ==
    /\ iState = "OfferSent" /\ m.type = "ProblemReport"
    /\ iState' = "Finished"
    /\ iStatus' = "Failed"
    /\ UNCHANGED <<iThread, iProposal, iRequest, iRevReg, iCredRevId>>

\* The issuer's update_state: pick a handleable message, verify its thread,
\* handle it, then mark it read on the connection.  A terminal issuer does
\* not poll.
IssuerUpdateState ==
    /\ ~IsTerminal
    /\ \E m \in Handleable :
          /\ VerifyThreadId(iThread, m, iState = "Initial")
          /\ \/ ReceiveProposal(m)
             \/ ReceiveRequest(m)
             \/ ReceiveCounterProposal(m)
             \/ ReceiveProblemReport(m)
          /\ toIssuer' = toIssuer \ {m}
    /\ UNCHANGED <<toHolder, issued, revoked>>

(***************************************************************************)
(* Outcome of a call of the send_message callback: the message arrives    *)
(* and Ok is returned, or (when MaySendTimeOut) it arrives and an error is *)
(* returned all the same.  A send that fails without delivering leaves    *)
(* every variable unchanged and is the stutter step.                      *)
(***************************************************************************)
SendOutcomes == IF MaySendTimeOut THEN {"Ok", "TimedOut"} ELSE {"Ok"}

\* CredentialOfferSend(offer_info, comment) in Initial: the offer's @id is
\* the issuer's thread id.  rr: the offer_info names a rev_reg_id.
OfferSendFromInitial(rr, out) ==
    /\ iState = "Initial"
    /\ toHolder' = toHolder \cup {Msg("Offer", iThread, None, None)}
    /\ IF out = "Ok"
          THEN /\ iState' = "OfferSent"
               /\ iRevReg' = rr
               /\ UNCHANGED <<iThread, iStatus, iProposal, iRequest, iCredRevId>>
          ELSE UNCHANGED <<iState, iThread, iStatus, iProposal, iRequest,
                           iRevReg, iCredRevId>>

\* Bug variant: the thread of the offer is the proposal's @id rather than
\* its get_thread_id().
OfferSendFromProposalUsingId(rr, out) ==
    /\ iState = "ProposalReceived"
    /\ toHolder' = toHolder \cup {Msg("Offer", FreshId, iProposal.id, None)}
    /\ IF out = "Ok"
          THEN /\ iState' = "OfferSent"
               /\ iThread' = iProposal.id
               /\ iRevReg' = rr
               /\ UNCHANGED <<iStatus, iProposal, iRequest, iCredRevId>>
          ELSE UNCHANGED <<iState, iThread, iStatus, iProposal, iRequest,
                           iRevReg, iCredRevId>>

\* CredentialOfferSend in ProposalReceived: the offer is threaded on, and
\* the thread id becomes, the proposal's get_thread_id().
OfferSendFromProposal(rr, out) ==
    /\ iState = "ProposalReceived"
    /\ LET tid == GetThreadId(iProposal) IN
         /\ toHolder' = toHolder \cup {Msg("Offer", FreshId, tid, None)}
         /\ IF out = "Ok"
               THEN /\ iState' = "OfferSent"
                    /\ iThread' = tid
                    /\ iRevReg' = rr
                    /\ UNCHANGED <<iStatus, iProposal, iRequest, iCredRevId>>
               ELSE UNCHANGED <<iState, iThread, iStatus, iProposal, iRequest,
                                iRevReg, iCredRevId>>

IssuerOfferSend ==
    /\ \E rr \in BOOLEAN, out \in SendOutcomes :
          OfferSendFromInitial(rr, out) \/ OfferSendFromProposal(rr, out)
    /\ UNCHANGED <<toIssuer, issued, revoked>>

(***************************************************************************)
(* CredentialSend in RequestReceived.  _create_credential first checks    *)
(* that the stored request is on the issuer's thread, then asks the       *)
(* backend to issue; a revocable credential takes the next index of the   *)
(* registry, which fails once max_cred_num indices are out.  Any backend  *)
(* call may also fail for reasons the model does not track (a malformed   *)
(* attachment, a wallet error), so failure is always a possible outcome.  *)
(***************************************************************************)
\* Bug variant: the registry's max_cred_num is not enforced.
CreateCredentialIgnoringCapacity == FromThread(iRequest, iThread)

CreateCredentialCanSucceed ==
    /\ FromThread(iRequest, iThread)
    /\ iRevReg => issued < RegistryCapacity

\* Bug variant: the Finished state is built without the cred_rev_id.
CredentialIssuedDroppingRevId(out) ==
    LET rid == IF iRevReg THEN issued + 1 ELSE None IN
    /\ CreateCredentialCanSucceed
    /\ issued' = IF iRevReg THEN issued + 1 ELSE issued
    /\ toHolder' = IF out = "Lost" THEN toHolder
                   ELSE toHolder \cup {Msg("Credential", FreshId, iThread, rid)}
    /\ IF out = "Ok"
          THEN /\ iState' = "Finished"
               /\ iStatus' = "Success"
               /\ iCredRevId' = None
          ELSE UNCHANGED <<iState, iStatus, iCredRevId>>

\* Bug variant: the registry index is spent only once the send returned Ok.
CredentialIssuedSpendingOnOk(out) ==
    LET rid == IF iRevReg THEN issued + 1 ELSE None IN
    /\ CreateCredentialCanSucceed
    /\ issued' = IF iRevReg /\ out = "Ok" THEN issued + 1 ELSE issued
    /\ toHolder' = IF out = "Lost" THEN toHolder
                   ELSE toHolder \cup {Msg("Credential", FreshId, iThread, rid)}
    /\ IF out = "Ok"
          THEN /\ iState' = "Finished"
               /\ iStatus' = "Success"
               /\ iCredRevId' = rid
          ELSE UNCHANGED <<iState, iStatus, iCredRevId>>

\* Ok((credential_msg, cred_rev_id)): the registry index is spent as soon
\* as the backend returns; then the Credential is sent.  "Lost": the send
\* fails without delivering; the `?` returns the error with the machine
\* still in RequestReceived, but the index stays spent.
CredentialIssued(out) ==
    LET rid == IF iRevReg THEN issued + 1 ELSE None IN
    /\ CreateCredentialCanSucceed
    /\ issued' = IF iRevReg THEN issued + 1 ELSE issued
    /\ toHolder' = IF out = "Lost" THEN toHolder
                   ELSE toHolder \cup {Msg("Credential", FreshId, iThread, rid)}
    /\ IF out = "Ok"
          THEN /\ iState' = "Finished"
               /\ iStatus' = "Success"
               /\ iCredRevId' = rid
          ELSE UNCHANGED <<iState, iStatus, iCredRevId>>

\* Err(err): a ProblemReport on the thread is sent and, once the send
\* returns Ok, the machine is Finished with status Failed.
CredentialNotIssued(out) ==
    /\ toHolder' = toHolder \cup {Msg("ProblemReport", FreshId, iThread, None)}
    /\ IF out = "Ok"
          THEN /\ iState' = "Finished"
               /\ iStatus' = "Failed"
          ELSE UNCHANGED <<iState, iStatus>>
    /\ UNCHANGED <<issued, iCredRevId>>

IssuerCredentialSend ==
    /\ iState = "RequestReceived"
    /\ \/ \E out \in SendOutcomes \cup {"Lost"} : CredentialIssued(out)
       \/ \E out \in SendOutcomes : CredentialNotIssued(out)
    /\ UNCHANGED <<iThread, iProposal, iRequest, iRevReg, toIssuer, revoked>>

\* Bug variant: revoke takes the revocation info out of the Finished state.
IssuerRevokeTakingRevInfo ==
    /\ iState = "Finished"
    /\ iCredRevId # None
    /\ revoked' = revoked \cup {iCredRevId}
    /\ iCredRevId' = None
    /\ UNCHANGED <<iState, iThread, iStatus, iProposal, iRequest, iRevReg,
                   issued, toIssuer, toHolder>>

\* IssuerSM::revoke(publish): only in Finished with a complete revocation
\* info; revoke_credential (publish) and revoke_credential_local both mark
\* the index revoked in the registry.  Every other case returns an error
\* and changes nothing.
IssuerRevoke ==
    /\ iState = "Finished"
    /\ iCredRevId # None
    /\ revoked' = revoked \cup {iCredRevId}
    /\ UNCHANGED <<iState, iThread, iStatus, iProposal, iRequest, iRevReg,
                   iCredRevId, issued, toIssuer, toHolder>>

IssuerNext ==
    \/ IssuerUpdateState
    \/ IssuerOfferSend
    \/ IssuerCredentialSend
    \/ IssuerRevoke

=============================================================================
