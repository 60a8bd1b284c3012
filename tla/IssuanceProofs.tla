--------------------------- MODULE IssuanceProofs ---------------------------
(***************************************************************************)
(* Proofs about the Issuance specification, for every value of the        *)
(* constants that satisfies their assumptions.                            *)
(***************************************************************************)
EXTENDS Issuance, TLAPS

USE NoneAssumption, FreshIdAssumption, CapacityAssumption, TimeOutAssumption,
    IssuerThreadAssumption, HolderThreadAssumption, NoiseAssumption,
    AckAssumption

-----------------------------------------------------------------------------
(***************************************************************************)
(* Type correctness.  TypeOK alone is not inductive: CredentialOfferSend  *)
(* in ProposalReceived takes the offer's thread from the stored proposal, *)
(* so the proposal must be a message there, not None.                     *)
(***************************************************************************)
ProposalStored == iState = "ProposalReceived" => iProposal \in Message

TypeInv == TypeOK /\ ProposalStored

\* Both selectors only return messages of the bag they were given.
LEMMA HandleableInBag ==
    /\ Handleable \subseteq toIssuer
    /\ HolderHandleable \subseteq toHolder
BY DEF Handleable, HolderHandleable

\* The thread a message names is a thread id.
LEMMA GetThreadIdType ==
    ASSUME NEW m \in Message
    PROVE  GetThreadId(m) \in Threads
BY DEF GetThreadId, Message

LEMMA TypeInvInit == Init => TypeInv
<1> SUFFICES ASSUME Init PROVE TypeInv
  OBVIOUS
<1>1. IssuerTypeOK
  <2>1. iState \in IssuerStates /\ iStatus \in Statuses
    BY DEF Init, IssuerInit, IssuerStates, Statuses
  <2>2. iThread \in Threads
    BY DEF Init, IssuerInit
  <2>3. issued \in 0..RegistryCapacity /\ revoked \subseteq RevIds
    BY DEF Init, IssuerInit
  <2>4. iProposal \in Message \cup {None} /\ iRequest \in Message \cup {None}
    BY DEF Init, IssuerInit
  <2>5. iRevReg \in BOOLEAN
    BY Zenon DEF Init, IssuerInit
  <2>6. iCredRevId \in RevIds \cup {None}
    BY DEF Init, IssuerInit
  <2>. QED
    BY <2>1, <2>2, <2>3, <2>4, <2>5, <2>6 DEF IssuerTypeOK
<1>2. HolderTypeOK
  BY DEF Init, HolderInit, HolderTypeOK, HolderStates
<1>3. ConnectionTypeOK
  BY DEF Init, ConnectionTypeOK
<1>4. ProposalStored
  BY DEF Init, IssuerInit, ProposalStored
<1>. QED
  BY <1>1, <1>2, <1>3, <1>4 DEF TypeInv, TypeOK

\* Msg builds a message from fields of the right kinds.
LEMMA MsgType ==
    ASSUME NEW t \in MsgTypes, NEW i \in Threads, NEW th \in Threads \cup {None},
           NEW r \in RevIds \cup {None}
    PROVE  Msg(t, i, th, r) \in Message
BY DEF Msg, Message

\* A step that leaves a side's variables alone keeps that side well typed.
LEMMA HolderUnchanged ==
    ASSUME HolderTypeOK, UNCHANGED holderVars
    PROVE  HolderTypeOK'
BY DEF HolderTypeOK, holderVars

LEMMA IssuerUnchanged ==
    ASSUME IssuerTypeOK, ProposalStored, UNCHANGED issuerVars
    PROVE  IssuerTypeOK' /\ ProposalStored'
BY DEF IssuerTypeOK, ProposalStored, issuerVars

\* The issuer's poll keeps the invariant: each handled message is one of
\* the bag, so a stored proposal or request is a message.
LEMMA IssuerPollType ==
    ASSUME TypeInv, IssuerPoll
    PROVE  TypeInv'
<1>1. PICK m \in Handleable :
          /\ \/ ReceiveProposal(m) \/ ReceiveRequest(m)
             \/ ReceiveCounterProposal(m) \/ ReceiveProblemReport(m)
          /\ toIssuer' = toIssuer \ {m}
  BY DEF IssuerPoll, IssuerUpdateState
<1>2. m \in Message
  BY HandleableInBag DEF TypeInv, TypeOK, ConnectionTypeOK
<1>3. HolderTypeOK'
  BY HolderUnchanged DEF IssuerPoll, TypeInv, TypeOK
<1>4. ConnectionTypeOK'
  BY <1>1 DEF IssuerPoll, IssuerUpdateState, TypeInv, TypeOK, ConnectionTypeOK
<1>5. issued' \in 0..RegistryCapacity /\ revoked' \subseteq RevIds
  BY DEF IssuerPoll, IssuerUpdateState, TypeInv, TypeOK, IssuerTypeOK
<1>6. IssuerTypeOK' /\ ProposalStored'
  <2>. USE <1>2, <1>5 DEF TypeInv, TypeOK, IssuerTypeOK, ProposalStored,
                          IssuerStates, Statuses
  <2>1. CASE ReceiveProposal(m)
    BY <2>1 DEF ReceiveProposal, Message
  <2>2. CASE ReceiveRequest(m)
    BY <2>2 DEF ReceiveRequest
  <2>3. CASE ReceiveCounterProposal(m)
    <3>1. iRevReg' \in BOOLEAN
      BY <2>3, Zenon DEF ReceiveCounterProposal
    <3>. QED
      BY <2>3, <3>1 DEF ReceiveCounterProposal
  <2>4. CASE ReceiveProblemReport(m)
    BY <2>4 DEF ReceiveProblemReport
  <2>. QED
    BY <1>1, <2>1, <2>2, <2>3, <2>4
<1>. QED
  BY <1>3, <1>4, <1>6 DEF TypeInv, TypeOK

\* Sending an offer keeps the invariant: its thread is the issuer's own
\* or the one the stored proposal names.
LEMMA IssuerSendOfferType ==
    ASSUME TypeInv, IssuerSendOffer
    PROVE  TypeInv'
<1>1. PICK rr \in BOOLEAN, out \in SendOutcomes :
          OfferSendFromInitial(rr, out) \/ OfferSendFromProposal(rr, out)
  BY DEF IssuerSendOffer, IssuerOfferSend
<1>2. HolderTypeOK'
  BY HolderUnchanged DEF IssuerSendOffer, TypeInv, TypeOK
<1>3. toIssuer' \subseteq Message /\ issued' \in 0..RegistryCapacity
      /\ revoked' \subseteq RevIds
  BY DEF IssuerSendOffer, IssuerOfferSend, TypeInv, TypeOK, IssuerTypeOK,
         ConnectionTypeOK
<1>. USE <1>3 DEF TypeInv, TypeOK, IssuerTypeOK, ProposalStored, IssuerStates,
                  ConnectionTypeOK
<1>4. CASE OfferSendFromInitial(rr, out)
  <2>1. Msg("Offer", iThread, None, None) \in Message
    BY MsgType DEF MsgTypes
  <2>. QED
    BY <1>4, <2>1, <1>2 DEF OfferSendFromInitial
<1>5. CASE OfferSendFromProposal(rr, out)
  <2>1. GetThreadId(iProposal) \in Threads
    BY <1>5, GetThreadIdType DEF OfferSendFromProposal
  <2>2. Msg("Offer", FreshId, GetThreadId(iProposal), None) \in Message
    BY <2>1, MsgType DEF MsgTypes
  <2>. QED
    BY <1>5, <2>1, <2>2, <1>2 DEF OfferSendFromProposal
<1>. QED
  BY <1>1, <1>4, <1>5

\* Sending the credential keeps the invariant: a revocable credential is
\* only created while the registry has an index left.
LEMMA IssuerSendCredentialType ==
    ASSUME TypeInv, IssuerSendCredential
    PROVE  TypeInv'
<1>1. HolderTypeOK'
  BY HolderUnchanged DEF IssuerSendCredential, TypeInv, TypeOK
<1>2. /\ iState = "RequestReceived"
      /\ UNCHANGED <<iThread, iProposal, iRequest, iRevReg, toIssuer, revoked>>
  BY DEF IssuerSendCredential, IssuerCredentialSend
<1>. USE <1>1, <1>2 DEF TypeInv, TypeOK, IssuerTypeOK, ProposalStored,
                        IssuerStates, Statuses, ConnectionTypeOK
<1>3. CASE \E out \in SendOutcomes \cup {"Lost"} : CredentialIssued(out)
  <2>1. PICK out \in SendOutcomes \cup {"Lost"} : CredentialIssued(out)
    BY <1>3
  <2>2. iRevReg => issued + 1 \in RevIds
    BY <2>1 DEF CredentialIssued, CreateCredentialCanSucceed, RevIds
  <2>3. (IF iRevReg THEN issued + 1 ELSE None) \in RevIds \cup {None}
    BY <2>2
  <2>4. Msg("Credential", FreshId, iThread, IF iRevReg THEN issued + 1 ELSE None)
          \in Message
    BY <2>3, MsgType DEF MsgTypes
  <2>5. issued' \in 0..RegistryCapacity
    BY <2>1, <2>2 DEF CredentialIssued, RevIds
  <2>. QED
    BY <2>1, <2>3, <2>4, <2>5 DEF CredentialIssued
<1>4. CASE \E out \in SendOutcomes : CredentialNotIssued(out)
  <2>1. PICK out \in SendOutcomes : CredentialNotIssued(out)
    BY <1>4
  <2>2. Msg("ProblemReport", FreshId, iThread, None) \in Message
    BY MsgType DEF MsgTypes
  <2>. QED
    BY <2>1, <2>2 DEF CredentialNotIssued
<1>. QED
  BY <1>3, <1>4 DEF IssuerSendCredential, IssuerCredentialSend

\* Revocation only adds the recorded index to the registry's revoked set.
LEMMA IssuerRevokeType ==
    ASSUME TypeInv, IssuerRevokeCredential
    PROVE  TypeInv'
<1>1. HolderTypeOK'
  BY HolderUnchanged DEF IssuerRevokeCredential, TypeInv, TypeOK
<1>. QED
  BY <1>1 DEF IssuerRevokeCredential, IssuerRevoke, TypeInv, TypeOK,
              IssuerTypeOK, ProposalStored, ConnectionTypeOK

\* The holder's poll keeps the invariant: an adopted thread is the thread
\* a message names, a stored index is one a Credential carried.
LEMMA HolderPollType ==
    ASSUME TypeInv, HolderPoll
    PROVE  TypeInv'
<1>1. PICK m \in HolderHandleable :
          /\ \/ HolderReceiveOffer(m) \/ HolderReceiveCredential(m)
             \/ HolderReceiveProblemReport(m)
          /\ toHolder' \subseteq toHolder
  BY DEF HolderPoll, HolderUpdateState
<1>2. m \in Message
  BY HandleableInBag DEF TypeInv, TypeOK, ConnectionTypeOK
<1>3. GetThreadId(m) \in Threads
  BY <1>2, GetThreadIdType
<1>4. IssuerTypeOK' /\ ProposalStored'
  BY IssuerUnchanged DEF HolderPoll, TypeInv, TypeOK
<1>5. ConnectionTypeOK'
  BY <1>1 DEF HolderPoll, HolderUpdateState, TypeInv, TypeOK, ConnectionTypeOK
<1>6. HolderTypeOK'
  <2>. USE DEF TypeInv, TypeOK, HolderTypeOK, HolderStates
  <2>1. CASE HolderReceiveOffer(m)
    BY <2>1, <1>3 DEF HolderReceiveOffer
  <2>2. CASE HolderReceiveCredential(m)
    BY <2>2, <1>2 DEF HolderReceiveCredential, Message
  <2>3. CASE HolderReceiveProblemReport(m)
    BY <2>3 DEF HolderReceiveProblemReport
  <2>. QED
    BY <1>1, <2>1, <2>2, <2>3
<1>. QED
  BY <1>4, <1>5, <1>6 DEF TypeInv, TypeOK

\* The holder's commands add well-formed messages on its thread.
LEMMA HolderCommandType ==
    ASSUME TypeInv, HolderProposal \/ HolderRequest \/ HolderReject
    PROVE  TypeInv'
<1>1. UNCHANGED issuerVars
  BY DEF HolderProposal, HolderRequest, HolderReject
<1>2. IssuerTypeOK' /\ ProposalStored'
  BY <1>1, IssuerUnchanged DEF TypeInv, TypeOK
<1>6. /\ Msg("Proposal", HolderThread, None, None) \in Message
      /\ Msg("Proposal", hThread, None, None) \in Message
      /\ Msg("Proposal", FreshId, hThread, None) \in Message
      /\ Msg("Request", FreshId, hThread, None) \in Message
      /\ Msg("ProblemReport", FreshId, hThread, None) \in Message
  BY MsgType DEF MsgTypes, TypeInv, TypeOK, HolderTypeOK
<1>. USE <1>2, <1>6 DEF TypeInv, TypeOK, HolderTypeOK, HolderStates,
                        ConnectionTypeOK
<1>3. CASE HolderProposal
  BY <1>3 DEF HolderProposal, HolderSendProposal
<1>4. CASE HolderRequest
  BY <1>4 DEF HolderRequest, HolderSendRequest
<1>5. CASE HolderReject
  BY <1>5 DEF HolderReject, HolderRejectOffer
<1>. QED
  BY <1>3, <1>4, <1>5

LEMMA TypeInvNext == TypeInv /\ [Next]_vars => TypeInv'
<1> SUFFICES ASSUME TypeInv, [Next]_vars PROVE TypeInv'
  OBVIOUS
<1>1. CASE Next
  BY <1>1, IssuerPollType, IssuerSendOfferType, IssuerSendCredentialType,
     IssuerRevokeType, HolderPollType, HolderCommandType DEF Next
<1>2. CASE UNCHANGED vars
  BY <1>2 DEF vars, issuerVars, holderVars, TypeInv, TypeOK, IssuerTypeOK,
              HolderTypeOK, ConnectionTypeOK, ProposalStored
<1>. QED
  BY <1>1, <1>2

\* Every reachable state is well typed, whatever the constants: above all,
\* the revocation registry never hands out more than max_cred_num indices
\* (issued <= RegistryCapacity) in IssuerSM's CredentialSend, and every
\* thread id either machine adopts from a message is a thread id.
THEOREM TypeCorrect == Spec => []TypeOK
<1>1. Init => TypeInv
  BY TypeInvInit
<1>2. TypeInv /\ [Next]_vars => TypeInv'
  BY TypeInvNext
<1>3. TypeInv => TypeOK
  BY DEF TypeInv
<1>. QED
  BY <1>1, <1>2, <1>3, PTL DEF Spec

-----------------------------------------------------------------------------
(***************************************************************************)
(* Agreement, when the send callback never reports an error for a message *)
(* it delivered.  Agreement is not inductive: a Credential may be on its  *)
(* way to the holder.  CredentialInFlight says that such a message was    *)
(* sent by a CredentialSend that succeeded, and carries the index the     *)
(* issuer recorded.                                                       *)
(***************************************************************************)
CredentialInFlight ==
    \A m \in toHolder :
        m.type = "Credential" =>
            /\ iState = "Finished"
            /\ iStatus = "Success"
            /\ m.rev = iCredRevId

AgreementInv == TypeInv /\ CredentialInFlight /\ Agreement


\* Without timeouts a send that returns has delivered and returned Ok.
LEMMA OnlyOk ==
    ASSUME ~MaySendTimeOut
    PROVE  SendOutcomes = {"Ok"} /\ HolderSendOutcomes = {"Ok"}
BY Zenon DEF SendOutcomes, HolderSendOutcomes

\* While the issuer is not Finished, nothing the holder holds or has been
\* sent comes from a successful CredentialSend.
LEMMA NotFinishedYet ==
    ASSUME AgreementInv, iState # "Finished"
    PROVE  /\ \A m \in toHolder : m.type # "Credential"
           /\ hState # "Finished"
BY DEF AgreementInv, CredentialInFlight, Agreement

\* Issuer steps: only a CredentialSend that returned Ok sends a
\* Credential, and it records the index the Credential carries.
LEMMA IssuerStepAgreement ==
    ASSUME ~MaySendTimeOut, AgreementInv,
           IssuerPoll \/ IssuerSendOffer \/ IssuerSendCredential
    PROVE  (CredentialInFlight /\ Agreement)'
<1>1. iState # "Finished"
  BY DEF IssuerPoll, IssuerUpdateState, IsTerminal, IssuerSendOffer,
         IssuerOfferSend, OfferSendFromInitial, OfferSendFromProposal,
         IssuerSendCredential, IssuerCredentialSend
<1>2. /\ \A m \in toHolder : m.type # "Credential"
      /\ hState # "Finished"
  BY <1>1, NotFinishedYet
<1>3. UNCHANGED hState
  BY DEF IssuerPoll, IssuerSendOffer, IssuerSendCredential, holderVars
<1>4. Agreement'
  BY <1>2, <1>3 DEF Agreement
<1>5. CASE IssuerPoll
  BY <1>2, <1>4, <1>5 DEF IssuerPoll, IssuerUpdateState, CredentialInFlight
<1>6. CASE IssuerSendOffer
  <2>1. \A m \in toHolder' : m.type # "Credential"
    BY <1>2, <1>6 DEF IssuerSendOffer, IssuerOfferSend, OfferSendFromInitial,
                      OfferSendFromProposal, Msg
  <2>. QED
    BY <2>1, <1>4 DEF CredentialInFlight
<1>7. CASE IssuerSendCredential
  <2>1. CASE \E out \in SendOutcomes \cup {"Lost"} : CredentialIssued(out)
    <3>1. PICK out \in {"Ok", "Lost"} : CredentialIssued(out)
      BY <2>1, OnlyOk
    <3>2. CASE out = "Ok"
      <4>1. \A m \in toHolder' :
              m.type = "Credential" => m.rev = iCredRevId'
        BY <1>2, <3>1, <3>2 DEF CredentialIssued, Msg
      <4>2. iState' = "Finished" /\ iStatus' = "Success"
        BY <3>1, <3>2 DEF CredentialIssued
      <4>. QED
        BY <4>1, <4>2, <1>4 DEF CredentialInFlight
    <3>3. CASE out = "Lost"
      BY <1>2, <1>4, <3>1, <3>3 DEF CredentialIssued, CredentialInFlight
    <3>. QED
      BY <3>2, <3>3
  <2>2. CASE \E out \in SendOutcomes : CredentialNotIssued(out)
    <3>1. \A m \in toHolder' : m.type # "Credential"
      BY <1>2, <2>2 DEF CredentialNotIssued, Msg
    <3>. QED
      BY <3>1, <1>4 DEF CredentialInFlight
  <2>. QED
    BY <1>7, <2>1, <2>2 DEF IssuerSendCredential, IssuerCredentialSend
<1>. QED
  BY <1>5, <1>6, <1>7

\* Holder steps: the holder finishes only on a Credential it received,
\* which carries the index the issuer recorded.
LEMMA HolderStepAgreement ==
    ASSUME AgreementInv,
           HolderPoll \/ HolderProposal \/ HolderRequest \/ HolderReject
    PROVE  (CredentialInFlight /\ Agreement)'
<1>1. UNCHANGED <<iState, iStatus, iCredRevId>>
  BY DEF HolderPoll, HolderProposal, HolderRequest, HolderReject, issuerVars
<1>2. toHolder' \subseteq toHolder
  BY DEF HolderPoll, HolderUpdateState, HolderProposal, HolderSendProposal,
         HolderRequest, HolderSendRequest, HolderReject, HolderRejectOffer
<1>3. CredentialInFlight'
  BY <1>1, <1>2 DEF AgreementInv, CredentialInFlight
<1>4. CASE HolderPoll
  <2>1. PICK m \in HolderHandleable :
            /\ \/ HolderReceiveOffer(m) \/ HolderReceiveCredential(m)
               \/ HolderReceiveProblemReport(m)
            /\ toHolder' \subseteq toHolder
    BY <1>4 DEF HolderPoll, HolderUpdateState
  <2>2. m \in toHolder
    BY HandleableInBag
  <2>3. hState # "Finished"
    BY <1>4 DEF HolderPoll, HolderUpdateState, HolderIsTerminal
  <2>4. CASE HolderReceiveCredential(m)
    BY <1>1, <1>3, <2>2, <2>4 DEF HolderReceiveCredential, AgreementInv,
                            CredentialInFlight, Agreement
  <2>5. CASE HolderReceiveOffer(m) \/ HolderReceiveProblemReport(m)
    BY <1>3, <2>3, <2>5 DEF HolderReceiveOffer, HolderReceiveProblemReport,
                            Agreement
  <2>. QED
    BY <1>3, <2>1, <2>4, <2>5
<1>5. CASE HolderProposal \/ HolderRequest \/ HolderReject
  BY <1>3, <1>5 DEF HolderProposal, HolderSendProposal, HolderRequest,
                    HolderSendRequest, HolderReject, HolderRejectOffer, Agreement
<1>. QED
  BY <1>4, <1>5


LEMMA AgreementInvInit == Init => AgreementInv
<1> SUFFICES ASSUME Init PROVE AgreementInv
  OBVIOUS
<1>1. TypeInv
  BY TypeInvInit
<1>2. CredentialInFlight /\ Agreement
  BY DEF Init, HolderInit, CredentialInFlight, Agreement
<1>. QED
  BY <1>1, <1>2 DEF AgreementInv

LEMMA AgreementInvNext ==
    ASSUME ~MaySendTimeOut
    PROVE  AgreementInv /\ [Next]_vars => AgreementInv'
<1> SUFFICES ASSUME AgreementInv, [Next]_vars PROVE AgreementInv'
  OBVIOUS
<1>1. TypeInv'
  BY TypeInvNext DEF AgreementInv
<1>2. CASE IssuerPoll \/ IssuerSendOffer \/ IssuerSendCredential
  BY <1>1, <1>2, IssuerStepAgreement DEF AgreementInv
<1>3. CASE HolderPoll \/ HolderProposal \/ HolderRequest \/ HolderReject
  BY <1>1, <1>3, HolderStepAgreement DEF AgreementInv
<1>4. CASE IssuerRevokeCredential \/ UNCHANGED vars
  BY <1>1, <1>4 DEF IssuerRevokeCredential, IssuerRevoke, vars, issuerVars,
                    holderVars, AgreementInv, CredentialInFlight, Agreement
<1>. QED
  BY <1>2, <1>3, <1>4 DEF Next

\* Agreement: whenever the holder has finished, the issuer has finished
\* with success and recorded the cred_rev_id of the holder's credential,
\* for every registry size and every set of threads and foreign messages,
\* provided the send_message callback never reports an error for a
\* message it delivered (IssuerSM's CredentialSend then cannot leave a
\* credential delivered and unrecorded).
THEOREM AgreementHolds ==
    ASSUME ~MaySendTimeOut
    PROVE  Spec => []Agreement
<1>1. Init => AgreementInv
  BY AgreementInvInit
<1>2. AgreementInv /\ [Next]_vars => AgreementInv'
  BY AgreementInvNext
<1>3. AgreementInv => Agreement
  BY DEF AgreementInv
<1>. QED
  BY <1>1, <1>2, <1>3, PTL DEF Spec

=============================================================================
