------------------------------ MODULE ApiProofs ------------------------------
(***************************************************************************)
(* Proofs about the holder driven through the libvcx C API                *)
(* (CredentialApi): its type correctness, and Agreement when the object   *)
(* may be created from any offer on the connection, restored from an      *)
(* older serialized copy, released at any time, and handed any message of *)
(* the connection by update_state_with_message.                           *)
(***************************************************************************)
EXTENDS CredentialApi, IssuanceProofs

USE NoneAssumption, FreshIdAssumption, CapacityAssumption, TimeOutAssumption,
    IssuerThreadAssumption, HolderThreadAssumption, NoiseAssumption,
    AckAssumption, HolderNoiseAssumption, CalledOpsAssumption

\* ApiTypeOK with the stored proposal of ProposalReceived a message.
ApiTypeInv == ApiTypeOK /\ ProposalStored

-----------------------------------------------------------------------------
(***************************************************************************)
(* Agreement through the API.  The thread ids of this interaction are the *)
(* two the agents drew; the other interactions on the connections are     *)
(* correlated by other uuids, open no thread at the issuer, and offer     *)
(* nothing to the holder.                                                 *)
(***************************************************************************)
OwnThreads == {IssuerThread, HolderThread}

NoForeignProposal == \A m \in IssuerNoise : m.type # "Proposal"

ForeignAtHolder ==
    \A m \in HolderNoise :
        /\ m.type # "Offer"
        /\ m.type = "Credential" => m.thid \notin OwnThreads \cup {None}

\* Both machines and the saved copy are on this interaction's threads.
ThreadsOwn ==
    /\ iThread \in OwnThreads
    /\ hThread \in OwnThreads
    /\ saved # None => saved.thread \in OwnThreads

\* No API function sends a proposal, so the issuer never adopts a thread
\* and never negotiates.
NoProposalPending ==
    /\ iState # "ProposalReceived"
    /\ \A m \in toIssuer : m.type # "Proposal"

\* Every offer at the holder names this interaction's thread.
OffersOwn == \A m \in toHolder : m.type = "Offer" => GetThreadId(m) \in OwnThreads

\* A Credential at the holder names a thread; one that names this
\* interaction's thread was sent by a successful CredentialSend.
CredentialsKnown ==
    \A m \in toHolder :
        m.type = "Credential" =>
            /\ m.thid # None
            /\ m.thid \in OwnThreads =>
                  /\ iState = "Finished"
                  /\ iStatus = "Success"
                  /\ m.rev = iCredRevId

\* A saved copy of a finished holder holds the recorded credential.
SavedAgrees ==
    saved # None /\ saved.st = "Finished" =>
        /\ iState = "Finished"
        /\ iStatus = "Success"
        /\ saved.cred = iCredRevId

InteractionAgrees ==
    /\ ThreadsOwn
    /\ NoProposalPending
    /\ OffersOwn
    /\ CredentialsKnown
    /\ SavedAgrees
    /\ Agreement

ApiAgreementInv == ApiTypeInv /\ InteractionAgrees

-----------------------------------------------------------------------------
(***************************************************************************)
(* What a step of the API does to the interaction.  A task either leaves *)
(* the issuer, the holder and the connection alone, or runs one of the    *)
(* Holder methods Issuance models (update_state, send_request,            *)
(* reject_offer), or does one of three things only the API does: build a  *)
(* holder from an offer, restore a saved one, or hand the holder a        *)
(* message of the connection without the selector.                        *)
(***************************************************************************)
HolderAdopt ==
    /\ \E m \in toHolder : HolderCreateFromOffer(m)
    /\ UNCHANGED <<issuerVars, toIssuer, toHolder>>

HolderRestore ==
    /\ saved # None
    /\ hState' = saved.st /\ hThread' = saved.thread /\ hCred' = saved.cred
    /\ UNCHANGED <<issuerVars, toIssuer, toHolder>>

HolderTakes ==
    /\ \E m \in toHolder :
          /\ VerifyThreadId(hThread, m, hState = "Initial")
          /\ \/ HolderReceiveOffer(m)
             \/ HolderReceiveCredential(m)
             \/ HolderReceiveProblemReport(m)
             \/ HolderIgnores(m) /\ UNCHANGED holderVars
    /\ UNCHANGED <<issuerVars, toIssuer, toHolder>>

ApiOnlyStep == HolderAdopt \/ HolderRestore \/ HolderTakes

LEMMA CreateStep ==
    ASSUME NEW c \in Cmds,
           vcx_credential_create_with_offer(c) \/ vcx_credential_create_with_msgid(c)
           \/ vcx_credential_deserialize(c)
    PROVE  UNCHANGED vars \/ HolderAdopt \/ HolderRestore
BY DEF vcx_credential_create_with_offer, vcx_credential_create_with_msgid,
       vcx_credential_deserialize, TaskFails, HolderAdopt, HolderRestore

LEMMA ReadStep ==
    ASSUME NEW c \in Cmds,
           \/ vcx_credential_serialize(c)
           \/ \E op \in QueryOps : VcxQuery(c, op)
           \/ vcx_credential_get_state(c)
           \/ vcx_credential_get_offers(c)
           \/ vcx_delete_credential(c)
    PROVE  UNCHANGED vars
BY DEF vcx_credential_serialize, VcxQuery, vcx_credential_get_state,
       vcx_credential_get_offers, vcx_delete_credential, TaskFails, TaskReads

LEMMA CommandStep ==
    ASSUME NEW c \in Cmds,
           vcx_credential_send_request(c) \/ vcx_credential_decline_offer(c)
    PROVE  UNCHANGED vars \/ HolderRequest \/ HolderReject
BY DEF vcx_credential_send_request, vcx_credential_decline_offer, TaskFails,
       TaskReads, HolderChanges, HolderRequest, HolderReject

LEMMA UpdateStep ==
    ASSUME NEW c \in Cmds,
           vcx_v2_credential_update_state(c)
           \/ vcx_v2_credential_update_state_with_message(c)
    PROVE  UNCHANGED vars \/ HolderPoll \/ HolderTakes
BY DEF vcx_v2_credential_update_state,
       vcx_v2_credential_update_state_with_message, TaskFails, TaskReads,
       HolderChanges, HolderPoll, HolderTakes

\* Every step of the API is a step of Issuance other than a proposal of
\* the holder, a stutter of it, or one of the three steps only the API
\* takes.
ApiIssuanceStep ==
    \/ IssuerPoll \/ IssuerSendOffer \/ IssuerSendCredential
    \/ IssuerRevokeCredential
    \/ HolderPoll \/ HolderRequest \/ HolderReject
    \/ UNCHANGED vars

LEMMA VarsStep ==
    ASSUME [ApiNext]_allVars
    PROVE  ApiIssuanceStep \/ ApiOnlyStep
<1>1. CASE IssuerStep
  BY <1>1 DEF IssuerStep, ApiIssuanceStep
<1>2. CASE \E c \in Cmds, op \in CalledOps : VcxCall(c, op)
  BY <1>2 DEF VcxCall, ApiIssuanceStep
<1>3. CASE vcx_credential_release \/ UNCHANGED allVars
  BY <1>3 DEF vcx_credential_release, allVars, ApiIssuanceStep
<1>4. CASE \E c \in Cmds : RunTask(c)
  <2>1. PICK c \in Cmds : RunTask(c)
    BY <1>4
  <2>2. CASE \E op \in QueryOps : VcxQuery(c, op)
    BY <2>2, ReadStep DEF ApiIssuanceStep
  <2>. QED
    BY <2>1, <2>2, CreateStep, ReadStep, CommandStep, UpdateStep
       DEF RunTask, ApiOnlyStep, ApiIssuanceStep, vcx_get_credential,
           vcx_credential_get_attributes, vcx_credential_get_attachment,
           vcx_credential_get_tails_location, vcx_credential_get_tails_hash,
           vcx_credential_get_rev_reg_id, vcx_credential_get_thread_id,
           vcx_credential_is_revokable, vcx_credential_get_request_msg,
           QueryOps
<1>. QED
  BY <1>1, <1>2, <1>3, <1>4 DEF ApiNext

-----------------------------------------------------------------------------
(***************************************************************************)
(* Type correctness of the API.                                            *)
(***************************************************************************)

\* The three API-only steps keep the interaction well typed: an adopted
\* thread is one an offer names, a restored object is a well-typed copy.
LEMMA ApiOnlyType ==
    ASSUME TypeInv, saved \in Snapshot \cup {None}, ApiOnlyStep
    PROVE  TypeInv'
<1>1. UNCHANGED <<issuerVars, toIssuer, toHolder>>
  BY DEF ApiOnlyStep, HolderAdopt, HolderRestore, HolderTakes
<1>2. IssuerTypeOK' /\ ProposalStored' /\ ConnectionTypeOK'
  BY <1>1, IssuerUnchanged DEF TypeInv, TypeOK, ConnectionTypeOK
<1>3. HolderTypeOK'
  <2>. USE DEF TypeInv, TypeOK, HolderTypeOK, HolderStates, ConnectionTypeOK
  <2>1. CASE HolderAdopt
    <3>1. PICK m \in toHolder : HolderCreateFromOffer(m)
      BY <2>1 DEF HolderAdopt
    <3>2. GetThreadId(m) \in Threads
      BY GetThreadIdType
    <3>. QED
      BY <3>1, <3>2 DEF HolderCreateFromOffer
  <2>2. CASE HolderRestore
    BY <2>2 DEF HolderRestore, Snapshot
  <2>3. CASE HolderTakes
    <3>1. PICK m \in toHolder :
              \/ HolderReceiveOffer(m) \/ HolderReceiveCredential(m)
              \/ HolderReceiveProblemReport(m)
              \/ UNCHANGED holderVars
      BY <2>3 DEF HolderTakes
    <3>2. GetThreadId(m) \in Threads /\ m.rev \in RevIds \cup {None}
      BY GetThreadIdType DEF Message
    <3>. QED
      BY <3>1, <3>2 DEF HolderReceiveOffer, HolderReceiveCredential,
                        HolderReceiveProblemReport, holderVars
  <2>. QED
    BY <2>1, <2>2, <2>3 DEF ApiOnlyStep
<1>. QED
  BY <1>2, <1>3 DEF TypeInv, TypeOK

\* A callback appends one return code and leaves the call's function.
LEMMA CallbackType ==
    ASSUME NEW c \in Cmds, NEW rc \in {"Ok", "Err"},
           callSt \in [Cmds -> {"Unused", "Rejected", "Pending", "Returned"}],
           callRc \in [Cmds -> Seq({"Ok", "Err"})],
           Callback(c, rc)
    PROVE  /\ callSt' \in [Cmds -> {"Unused", "Rejected", "Pending", "Returned"}]
           /\ callRc' \in [Cmds -> Seq({"Ok", "Err"})]
           /\ callOp' = callOp
BY DEF Callback

\* Every task ends in one callback, may make the object Live or release
\* it, and may save a copy of the live object.
LEMMA TaskApiStep ==
    ASSUME NEW c \in Cmds, RunTask(c)
    PROVE  /\ \E rc \in {"Ok", "Err"} : Callback(c, rc)
           /\ handle' \in {handle, "Live", "Released"}
           /\ \/ saved' = saved
              \/ saved' = [st |-> hState, thread |-> hThread, cred |-> hCred]
<1>1. CASE \/ vcx_credential_create_with_offer(c)
           \/ vcx_credential_create_with_msgid(c)
           \/ vcx_credential_deserialize(c)
  BY <1>1 DEF vcx_credential_create_with_offer, vcx_credential_create_with_msgid,
              vcx_credential_deserialize, TaskFails
<1>2. CASE vcx_credential_serialize(c)
  BY <1>2 DEF vcx_credential_serialize, TaskFails
<1>3. CASE \/ vcx_get_credential(c) \/ vcx_credential_get_attributes(c)
           \/ vcx_credential_get_attachment(c)
           \/ vcx_credential_get_tails_location(c)
           \/ vcx_credential_get_tails_hash(c)
           \/ vcx_credential_get_rev_reg_id(c) \/ vcx_credential_get_thread_id(c)
           \/ vcx_credential_is_revokable(c) \/ vcx_credential_get_request_msg(c)
  BY <1>3 DEF vcx_get_credential, vcx_credential_get_attributes,
              vcx_credential_get_attachment, vcx_credential_get_tails_location,
              vcx_credential_get_tails_hash, vcx_credential_get_rev_reg_id,
              vcx_credential_get_thread_id, vcx_credential_is_revokable,
              vcx_credential_get_request_msg, VcxQuery, TaskFails, TaskReads
<1>4. CASE \/ vcx_credential_get_state(c) \/ vcx_credential_get_offers(c)
           \/ vcx_delete_credential(c)
  BY <1>4 DEF vcx_credential_get_state, vcx_credential_get_offers,
              vcx_delete_credential, TaskFails, TaskReads
<1>5. CASE \/ vcx_credential_send_request(c) \/ vcx_credential_decline_offer(c)
           \/ vcx_v2_credential_update_state(c)
           \/ vcx_v2_credential_update_state_with_message(c)
  BY <1>5 DEF vcx_credential_send_request, vcx_credential_decline_offer,
              vcx_v2_credential_update_state,
              vcx_v2_credential_update_state_with_message, TaskFails, TaskReads,
              HolderChanges
<1>. QED
  BY <1>1, <1>2, <1>3, <1>4, <1>5 DEF RunTask

LEMMA ApiTypeInvInit == ApiInit => ApiTypeInv
<1> SUFFICES ASSUME ApiInit PROVE ApiTypeInv
  OBVIOUS
<1>1. Init \/ TRUE
  OBVIOUS
<1>2. IssuerTypeOK /\ ProposalStored
  <2>1. iRevReg \in BOOLEAN
    BY Zenon DEF ApiInit, IssuerInit
  <2>. QED
    BY <2>1 DEF ApiInit, IssuerInit, IssuerTypeOK, IssuerStates, Statuses,
                ProposalStored
<1>3. HolderTypeOK /\ ConnectionTypeOK
  BY DEF ApiInit, HolderInit, HolderTypeOK, HolderStates, ConnectionTypeOK
<1>4. /\ handle \in {"None", "Live", "Released"}
      /\ callSt \in [Cmds -> {"Unused", "Rejected", "Pending", "Returned"}]
      /\ callOp \in [Cmds -> ApiOps \cup {None}]
      /\ callRc \in [Cmds -> Seq({"Ok", "Err"})]
      /\ saved \in Snapshot \cup {None}
  BY DEF ApiInit
<1>. QED
  BY <1>2, <1>3, <1>4 DEF ApiTypeInv, ApiTypeOK, TypeOK

\* The API's own variables stay well typed.
LEMMA ApiVarsTypeNext ==
    ASSUME ApiTypeInv, [ApiNext]_allVars
    PROVE  /\ handle' \in {"None", "Live", "Released"}
           /\ callSt' \in [Cmds -> {"Unused", "Rejected", "Pending", "Returned"}]
           /\ callOp' \in [Cmds -> ApiOps \cup {None}]
           /\ callRc' \in [Cmds -> Seq({"Ok", "Err"})]
           /\ saved' \in Snapshot \cup {None}
<1>. USE DEF ApiTypeInv, ApiTypeOK
<1>1. CASE IssuerStep \/ vcx_credential_release \/ UNCHANGED allVars
  BY <1>1 DEF IssuerStep, apiVars, vcx_credential_release, allVars
<1>2. CASE \E c \in Cmds, op \in CalledOps : VcxCall(c, op)
  <2>1. PICK c \in Cmds, op \in CalledOps : VcxCall(c, op)
    BY <1>2
  <2>2. op \in ApiOps
    BY CalledOpsAssumption
  <2>3. <<>> \in Seq({"Ok", "Err"})
    OBVIOUS
  <2>4. callRc' \in [Cmds -> Seq({"Ok", "Err"})]
    BY <2>1, <2>3 DEF VcxCall
  <2>5. callSt' \in [Cmds -> {"Unused", "Rejected", "Pending", "Returned"}]
        /\ callOp' \in [Cmds -> ApiOps \cup {None}]
    BY <2>1, <2>2 DEF VcxCall
  <2>6. handle' = handle /\ saved' = saved
    BY <2>1 DEF VcxCall
  <2>. QED
    BY <2>4, <2>5, <2>6
<1>3. CASE \E c \in Cmds : RunTask(c)
  <2>1. PICK c \in Cmds : RunTask(c)
    BY <1>3
  <2>2. PICK rc \in {"Ok", "Err"} : Callback(c, rc)
    BY <2>1, TaskApiStep
  <2>3. [st |-> hState, thread |-> hThread, cred |-> hCred] \in Snapshot
    BY DEF TypeOK, HolderTypeOK, Snapshot
  <2>. QED
    BY <2>1, <2>2, <2>3, TaskApiStep, CallbackType
<1>. QED
  BY <1>1, <1>2, <1>3 DEF ApiNext

LEMMA ApiTypeInvNext == ApiTypeInv /\ [ApiNext]_allVars => ApiTypeInv'
<1> SUFFICES ASSUME ApiTypeInv, [ApiNext]_allVars PROVE ApiTypeInv'
  OBVIOUS
<1>1. TypeInv
  BY DEF ApiTypeInv, ApiTypeOK, TypeInv
<1>2. TypeInv'
  <2>1. CASE [Next]_vars
    BY <1>1, <2>1, TypeInvNext
  <2>2. CASE ApiOnlyStep
    BY <1>1, <2>2, ApiOnlyType DEF ApiTypeInv, ApiTypeOK
  <2>. QED
    BY <2>1, <2>2, VarsStep DEF ApiIssuanceStep, Next
<1>. QED
  BY <1>2, ApiVarsTypeNext DEF ApiTypeInv, ApiTypeOK, TypeInv

\* Through the C API every reachable state is well typed, whatever the
\* constants: every call's return codes are a sequence of Ok and Err, the
\* serialized copy is a well-typed holder, and every thread id the holder
\* adopts, from an offer, a message handed in or a restored copy, is a
\* thread id.
THEOREM ApiTypeCorrect == ApiSpec => []ApiTypeOK
<1>1. ApiInit => ApiTypeInv
  BY ApiTypeInvInit
<1>2. ApiTypeInv /\ [ApiNext]_allVars => ApiTypeInv'
  BY ApiTypeInvNext
<1>3. ApiTypeInv => ApiTypeOK
  BY DEF ApiTypeInv
<1>. QED
  BY <1>1, <1>2, <1>3, PTL DEF ApiSpec

-----------------------------------------------------------------------------
(***************************************************************************)
(* Agreement through the API: the lemmas.                                 *)
(***************************************************************************)
LEMMA ApiAgreementInvInit ==
    ASSUME NoForeignProposal, ForeignAtHolder
    PROVE  ApiInit => ApiAgreementInv
<1> SUFFICES ASSUME ApiInit PROVE ApiAgreementInv
  OBVIOUS
<1>1. ApiTypeInv
  BY ApiTypeInvInit
<1>2. ThreadsOwn /\ NoProposalPending
  BY DEF ApiInit, IssuerInit, HolderInit, ThreadsOwn, OwnThreads,
         NoForeignProposal, NoProposalPending
<1>3. OffersOwn /\ CredentialsKnown
  BY DEF ApiInit, ForeignAtHolder, OffersOwn, CredentialsKnown
<1>4. SavedAgrees /\ Agreement
  BY DEF ApiInit, HolderInit, SavedAgrees, Agreement
<1>. QED
  BY <1>1, <1>2, <1>3, <1>4 DEF ApiAgreementInv, InteractionAgrees

\* Before the issuer has finished, no Credential of this interaction is on
\* the connection, and neither the holder nor its saved copy has finished.
LEMMA NotFinishedApi ==
    ASSUME ApiAgreementInv, iState # "Finished"
    PROVE  /\ \A m \in toHolder : m.type = "Credential" => m.thid \notin OwnThreads
           /\ hState # "Finished"
           /\ saved # None => saved.st # "Finished"
BY DEF ApiAgreementInv, InteractionAgrees, CredentialsKnown, Agreement,
       SavedAgrees

\* Only a serialize changes the saved copy, and it changes nothing else of
\* the interaction.
LEMMA SavedStep ==
    ASSUME [ApiNext]_allVars
    PROVE  \/ saved' = saved
           \/ /\ saved' = [st |-> hState, thread |-> hThread, cred |-> hCred]
              /\ UNCHANGED vars
<1>1. CASE \/ IssuerStep \/ vcx_credential_release \/ UNCHANGED allVars
           \/ \E c \in Cmds, op \in CalledOps : VcxCall(c, op)
  BY <1>1 DEF IssuerStep, apiVars, vcx_credential_release, allVars, VcxCall
<1>2. CASE \E c \in Cmds : RunTask(c)
  <2>1. PICK c \in Cmds : RunTask(c)
    BY <1>2
  <2>2. CASE vcx_credential_serialize(c)
    BY <2>2 DEF vcx_credential_serialize, TaskFails
  <2>3. CASE ~vcx_credential_serialize(c)
    BY <2>1, <2>3 DEF RunTask,
       vcx_credential_create_with_offer, vcx_credential_create_with_msgid,
       vcx_credential_deserialize, vcx_get_credential,
       vcx_credential_get_attributes, vcx_credential_get_attachment,
       vcx_credential_get_tails_location, vcx_credential_get_tails_hash,
       vcx_credential_get_rev_reg_id, vcx_credential_get_thread_id,
       vcx_credential_is_revokable, vcx_credential_get_request_msg, VcxQuery,
       vcx_credential_get_state, vcx_credential_get_offers,
       vcx_delete_credential, vcx_credential_send_request,
       vcx_credential_decline_offer, vcx_v2_credential_update_state,
       vcx_v2_credential_update_state_with_message, TaskFails, TaskReads,
       HolderChanges
  <2>. QED
    BY <2>2, <2>3
<1>. QED
  BY <1>1, <1>2 DEF ApiNext

\* A serialize copies the live holder: the copy is on the holder's thread
\* and, when finished, agrees with the issuer as the holder does.
LEMMA ApiSaveAgrees ==
    ASSUME ApiAgreementInv, UNCHANGED vars,
           saved' = [st |-> hState, thread |-> hThread, cred |-> hCred]
    PROVE  InteractionAgrees'
<1>1. UNCHANGED <<iState, iThread, iStatus, iCredRevId, hState, hThread,
                  hCred, toIssuer, toHolder>>
  BY DEF vars, issuerVars, holderVars
<1>2. ThreadsOwn'
  BY <1>1 DEF ApiAgreementInv, InteractionAgrees, ThreadsOwn
<1>3. SavedAgrees'
  BY <1>1 DEF ApiAgreementInv, InteractionAgrees, Agreement, SavedAgrees
<1>4. (NoProposalPending /\ OffersOwn /\ CredentialsKnown /\ Agreement)'
  BY <1>1 DEF ApiAgreementInv, InteractionAgrees, NoProposalPending,
              OffersOwn, CredentialsKnown, Agreement
<1>. QED
  BY <1>2, <1>3, <1>4 DEF InteractionAgrees

\* Issuer steps through the API.  With no proposal on the connection the
\* issuer keeps the thread it drew; its offer names that thread, and only
\* a CredentialSend that returned Ok puts a Credential of the interaction
\* on the connection, recording the index it carries.
LEMMA ApiIssuerAgrees ==
    ASSUME ~MaySendTimeOut, ApiAgreementInv, saved' = saved,
           IssuerPoll \/ IssuerSendOffer \/ IssuerSendCredential
           \/ IssuerRevokeCredential
    PROVE  InteractionAgrees'
<1>. USE DEF ApiAgreementInv, InteractionAgrees
<1>1. UNCHANGED <<hState, hThread, hCred>>
  BY DEF IssuerPoll, IssuerSendOffer, IssuerSendCredential,
         IssuerRevokeCredential, holderVars
<1>2. CASE IssuerRevokeCredential
  BY <1>1, <1>2 DEF IssuerRevokeCredential, IssuerRevoke, ThreadsOwn,
     NoProposalPending, OffersOwn, CredentialsKnown, SavedAgrees, Agreement
<1>3. CASE IssuerPoll \/ IssuerSendOffer \/ IssuerSendCredential
  <2>1. iState # "Finished"
    BY <1>3 DEF IssuerPoll, IssuerUpdateState, IsTerminal, IssuerSendOffer,
           IssuerOfferSend, OfferSendFromInitial, OfferSendFromProposal,
           IssuerSendCredential, IssuerCredentialSend
  <2>2. /\ \A m \in toHolder : m.type = "Credential" => m.thid \notin OwnThreads
        /\ hState # "Finished"
        /\ saved # None => saved.st # "Finished"
    BY <2>1, NotFinishedApi
  <2>3. (SavedAgrees /\ Agreement)'
    BY <1>1, <2>2 DEF SavedAgrees, Agreement
  <2>4. iThread \in OwnThreads /\ iThread # None
    BY DEF ThreadsOwn, OwnThreads
  <2>5. CASE IssuerPoll
    <3>1. PICK m \in Handleable :
              /\ \/ ReceiveProposal(m) \/ ReceiveRequest(m)
                 \/ ReceiveCounterProposal(m) \/ ReceiveProblemReport(m)
              /\ toIssuer' = toIssuer \ {m}
              /\ toHolder' = toHolder
      BY <2>5 DEF IssuerPoll, IssuerUpdateState
    <3>2. m.type # "Proposal"
      BY HandleableInBag DEF NoProposalPending
    <3>3. ReceiveRequest(m) \/ ReceiveProblemReport(m)
      BY <3>1, <3>2 DEF ReceiveProposal, ReceiveCounterProposal
    <3>4. /\ iThread' = iThread
          /\ iState' \in {"RequestReceived", "Finished"}
      BY <3>3 DEF ReceiveRequest, ReceiveProblemReport
    <3>5. ThreadsOwn' /\ NoProposalPending' /\ OffersOwn'
      BY <1>1, <3>1, <3>4 DEF ThreadsOwn, NoProposalPending, OffersOwn
    <3>6. CredentialsKnown'
      BY <3>1, <2>2 DEF CredentialsKnown
    <3>. QED
      BY <2>3, <3>5, <3>6
  <2>6. CASE IssuerSendOffer
    <3>1. PICK rr \in BOOLEAN : OfferSendFromInitial(rr, "Ok")
      BY <2>6, OnlyOk DEF IssuerSendOffer, IssuerOfferSend,
                          OfferSendFromProposal, NoProposalPending
    <3>2. /\ toHolder' = toHolder \cup {Msg("Offer", iThread, None, None)}
          /\ iState' = "OfferSent" /\ iThread' = iThread
          /\ toIssuer' = toIssuer
      BY <2>6, <3>1 DEF IssuerSendOffer, IssuerOfferSend, OfferSendFromInitial
    <3>3. GetThreadId(Msg("Offer", iThread, None, None)) = iThread
      BY DEF GetThreadId, Msg
    <3>4. ThreadsOwn' /\ NoProposalPending' /\ OffersOwn'
      BY <1>1, <3>2, <3>3 DEF ThreadsOwn, NoProposalPending, OffersOwn
    <3>5. CredentialsKnown'
      BY <3>2, <2>2 DEF CredentialsKnown, Msg
    <3>. QED
      BY <2>3, <3>4, <3>5
  <2>7. CASE IssuerSendCredential
    <3>1. /\ iState = "RequestReceived"
          /\ UNCHANGED <<iThread, toIssuer>>
      BY <2>7 DEF IssuerSendCredential, IssuerCredentialSend
    <3>2. ThreadsOwn' /\ NoProposalPending'
      <4>1. iState' \in {"RequestReceived", "Finished"}
        <5>1. CASE \E out \in SendOutcomes \cup {"Lost"} : CredentialIssued(out)
          BY <3>1, <5>1 DEF CredentialIssued
        <5>2. CASE \E out \in SendOutcomes : CredentialNotIssued(out)
          BY <3>1, <5>2 DEF CredentialNotIssued
        <5>. QED
          BY <2>7, <5>1, <5>2 DEF IssuerSendCredential, IssuerCredentialSend
      <4>. QED
        BY <1>1, <3>1, <4>1 DEF ThreadsOwn, NoProposalPending
    <3>3. CASE \E out \in SendOutcomes \cup {"Lost"} : CredentialIssued(out)
      <4>1. PICK out \in {"Ok", "Lost"} : CredentialIssued(out)
        BY <3>3, OnlyOk
      <4>2. CASE out = "Ok"
        <5>. DEFINE rid == IF iRevReg THEN issued + 1 ELSE None
        <5>1. /\ toHolder' = toHolder \cup {Msg("Credential", FreshId, iThread, rid)}
              /\ iState' = "Finished" /\ iStatus' = "Success"
              /\ iCredRevId' = rid
          BY <4>1, <4>2 DEF CredentialIssued
        <5>2. OffersOwn'
          BY <5>1 DEF OffersOwn, Msg
        <5>3. CredentialsKnown'
          BY <5>1, <2>2, <2>4, <3>1 DEF CredentialsKnown, Msg
        <5>. QED
          BY <2>3, <3>2, <5>2, <5>3
      <4>3. CASE out = "Lost"
        BY <2>3, <3>2, <4>1, <4>3 DEF CredentialIssued, OffersOwn,
                                      CredentialsKnown
      <4>. QED
        BY <4>2, <4>3
    <3>4. CASE \E out \in SendOutcomes : CredentialNotIssued(out)
      <4>1. toHolder' = toHolder \cup {Msg("ProblemReport", FreshId, iThread, None)}
        BY <3>4 DEF CredentialNotIssued
      <4>2. OffersOwn' /\ CredentialsKnown'
        BY <4>1, <2>2 DEF OffersOwn, CredentialsKnown, Msg
      <4>. QED
        BY <2>3, <3>2, <4>2
    <3>. QED
      BY <2>7, <3>3, <3>4 DEF IssuerSendCredential, IssuerCredentialSend
  <2>. QED
    BY <1>3, <2>5, <2>6, <2>7
<1>. QED
  BY <1>2, <1>3

\* The holder handles one message of the connection, chosen by its
\* selector or handed in by the application, after verify_thread_id: an
\* offer names this interaction's thread, and a Credential that passes
\* the check is on the holder's thread, so it is the one the issuer
\* recorded.
LEMMA HolderReceivesAgrees ==
    ASSUME ApiAgreementInv, UNCHANGED <<iState, iStatus, iCredRevId>>,
           NEW m \in toHolder, VerifyThreadId(hThread, m, hState = "Initial"),
           \/ HolderReceiveOffer(m) \/ HolderReceiveCredential(m)
           \/ HolderReceiveProblemReport(m) \/ UNCHANGED holderVars
    PROVE  hThread' \in OwnThreads /\ Agreement'
<1>. USE DEF ApiAgreementInv, InteractionAgrees
<1>1. CASE HolderReceiveOffer(m)
  BY <1>1 DEF HolderReceiveOffer, OffersOwn, ThreadsOwn, Agreement
<1>2. CASE HolderReceiveCredential(m)
  <2>1. m.thid = hThread
    BY <1>2 DEF HolderReceiveCredential, VerifyThreadId, CredentialsKnown
  <2>2. iState = "Finished" /\ iStatus = "Success" /\ m.rev = iCredRevId
    BY <1>2, <2>1 DEF HolderReceiveCredential, CredentialsKnown, ThreadsOwn
  <2>. QED
    BY <1>2, <2>2 DEF HolderReceiveCredential, ThreadsOwn, Agreement
<1>3. CASE HolderReceiveProblemReport(m)
  BY <1>3 DEF HolderReceiveProblemReport, ThreadsOwn, Agreement
<1>4. CASE UNCHANGED holderVars
  BY <1>4 DEF holderVars, ThreadsOwn, Agreement
<1>. QED
  BY <1>1, <1>2, <1>3, <1>4

\* Holder steps through the API.  None touches the issuer or adds a
\* proposal or an offer; the holder's new thread is one an offer or the
\* saved copy names, and it finishes only on the recorded Credential or
\* by restoring a copy that had.
LEMMA ApiHolderAgrees ==
    ASSUME ApiAgreementInv, saved' = saved,
           HolderPoll \/ HolderRequest \/ HolderReject \/ ApiOnlyStep
    PROVE  InteractionAgrees'
<1>. USE DEF ApiAgreementInv, InteractionAgrees
<1>1. UNCHANGED <<iState, iThread, iStatus, iCredRevId>>
  BY DEF HolderPoll, HolderRequest, HolderReject, ApiOnlyStep, HolderAdopt,
         HolderRestore, HolderTakes, issuerVars
<1>2. toHolder' \subseteq toHolder
  BY DEF HolderPoll, HolderUpdateState, HolderRequest, HolderSendRequest,
         HolderReject, HolderRejectOffer, ApiOnlyStep, HolderAdopt,
         HolderRestore, HolderTakes
<1>3. \A m \in toIssuer' : m.type # "Proposal"
  BY DEF HolderPoll, HolderUpdateState, HolderRequest, HolderSendRequest,
         HolderReject, HolderRejectOffer, ApiOnlyStep, HolderAdopt,
         HolderRestore, HolderTakes, NoProposalPending, Msg
<1>4. (NoProposalPending /\ OffersOwn /\ CredentialsKnown /\ SavedAgrees)'
  BY <1>1, <1>2, <1>3 DEF NoProposalPending, OffersOwn, CredentialsKnown,
                          SavedAgrees
<1>5. hThread' \in OwnThreads /\ Agreement'
  <2>1. CASE HolderPoll
    <3>1. PICK m \in HolderHandleable :
              /\ VerifyThreadId(hThread, m, hState = "Initial")
              /\ \/ HolderReceiveOffer(m) \/ HolderReceiveCredential(m)
                 \/ HolderReceiveProblemReport(m)
      BY <2>1 DEF HolderPoll, HolderUpdateState
    <3>2. m \in toHolder
      BY HandleableInBag
    <3>. QED
      BY <1>1, <3>1, <3>2, HolderReceivesAgrees
  <2>2. CASE HolderTakes
    <3>1. PICK m \in toHolder :
              /\ VerifyThreadId(hThread, m, hState = "Initial")
              /\ \/ HolderReceiveOffer(m) \/ HolderReceiveCredential(m)
                 \/ HolderReceiveProblemReport(m) \/ UNCHANGED holderVars
      BY <2>2 DEF HolderTakes
    <3>. QED
      BY <1>1, <3>1, HolderReceivesAgrees
  <2>3. CASE HolderRequest \/ HolderReject
    BY <2>3 DEF HolderRequest, HolderSendRequest, HolderReject,
                HolderRejectOffer, ThreadsOwn, Agreement
  <2>4. CASE HolderAdopt
    <3>1. PICK m \in toHolder : HolderCreateFromOffer(m)
      BY <2>4 DEF HolderAdopt
    <3>. QED
      BY <3>1 DEF HolderCreateFromOffer, OffersOwn, Agreement
  <2>5. CASE HolderRestore
    BY <1>1, <2>5 DEF HolderRestore, ThreadsOwn, SavedAgrees, Agreement
  <2>. QED
    BY <2>1, <2>2, <2>3, <2>4, <2>5 DEF ApiOnlyStep
<1>6. ThreadsOwn'
  BY <1>1, <1>5 DEF ThreadsOwn
<1>. QED
  BY <1>4, <1>5, <1>6

LEMMA ApiAgreementInvNext ==
    ASSUME ~MaySendTimeOut
    PROVE  ApiAgreementInv /\ [ApiNext]_allVars => ApiAgreementInv'
<1> SUFFICES ASSUME ApiAgreementInv, [ApiNext]_allVars
             PROVE  ApiAgreementInv'
  OBVIOUS
<1>1. ApiTypeInv'
  BY ApiTypeInvNext DEF ApiAgreementInv
<1>. SUFFICES InteractionAgrees'
  BY <1>1 DEF ApiAgreementInv
<1>2. CASE /\ saved' = [st |-> hState, thread |-> hThread, cred |-> hCred]
           /\ UNCHANGED vars
  BY <1>2, ApiSaveAgrees
<1>3. CASE saved' = saved
  <2>1. CASE \/ IssuerPoll \/ IssuerSendOffer \/ IssuerSendCredential
             \/ IssuerRevokeCredential
    BY <1>3, <2>1, ApiIssuerAgrees
  <2>2. CASE HolderPoll \/ HolderRequest \/ HolderReject \/ ApiOnlyStep
    BY <1>3, <2>2, ApiHolderAgrees
  <2>3. CASE UNCHANGED vars
    <3>1. UNCHANGED <<iState, iThread, iStatus, iCredRevId, hState, hThread,
                      hCred, toIssuer, toHolder>>
      BY <2>3 DEF vars, issuerVars, holderVars
    <3>. QED
      BY <1>3, <3>1 DEF ApiAgreementInv, InteractionAgrees, ThreadsOwn,
         NoProposalPending, OffersOwn, CredentialsKnown, SavedAgrees, Agreement
  <2>. QED
    BY <2>1, <2>2, <2>3, VarsStep DEF ApiIssuanceStep
<1>. QED
  BY <1>2, <1>3, SavedStep

\* Agreement through the C API: whenever the holder object is Finished,
\* the issuer is Finished with success and recorded the cred_rev_id of the
\* holder's credential, for every registry size and set of foreign
\* messages, with acknowledgements that may fail, when the holder may be
\* created from any offer on the connection, restored from any older
\* serialized copy, and handed any message of the connection by
\* update_state_with_message.  Provided the send callback never reports an
\* error for a delivered message, no other interaction sharing the
\* connection sends the issuer a proposal (run foreign_proposal shows the
\* issuer then adopting the other interaction), and no foreign offer or
\* foreign Credential without a thread reaches the holder.
THEOREM ApiAgreement ==
    ASSUME ~MaySendTimeOut, NoForeignProposal, ForeignAtHolder
    PROVE  ApiSpec => []Agreement
<1>1. ApiInit => ApiAgreementInv
  BY ApiAgreementInvInit
<1>2. ApiAgreementInv /\ [ApiNext]_allVars => ApiAgreementInv'
  BY ApiAgreementInvNext
<1>3. ApiAgreementInv => Agreement
  BY DEF ApiAgreementInv, InteractionAgrees
<1>. QED
  BY <1>1, <1>2, <1>3, PTL DEF ApiSpec

=============================================================================
