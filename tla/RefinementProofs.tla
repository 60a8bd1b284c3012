-------------------------- MODULE RefinementProofs --------------------------
(***************************************************************************)
(* Proof that Issuance implements IssuanceAbstract under the refinement   *)
(* mapping of Issuance (Abstract), when the send callback never reports   *)
(* an error for a message it delivered.  The invariant it rests on is     *)
(* AgreementInv of IssuanceProofs strengthened with RevocationRecorded:   *)
(* a cred_rev_id is recorded only by a successful CredentialSend, and the *)
(* registry has revoked nothing but the recorded index.                   *)
(***************************************************************************)
EXTENDS IssuanceProofs

USE NoneAssumption, FreshIdAssumption, CapacityAssumption, TimeOutAssumption,
    IssuerThreadAssumption, HolderThreadAssumption, NoiseAssumption,
    AckAssumption

RevocationRecorded ==
    /\ iCredRevId # None => iState = "Finished" /\ iStatus = "Success"
    /\ \A r \in revoked : r = iCredRevId /\ iCredRevId # None

RefInv == AgreementInv /\ RevocationRecorded

\* The holder's part of the mapping.
AbsHeld == IF hState = "Finished" THEN hCred ELSE None

\* Before the issuer finishes it has recorded nothing and revoked nothing.
LEMMA NothingRecordedYet ==
    ASSUME RevocationRecorded, iState # "Finished"
    PROVE  iCredRevId = None /\ revoked = {}
BY DEF RevocationRecorded

LEMMA RefInvInit == Init => RefInv
<1> SUFFICES ASSUME Init PROVE RefInv
  OBVIOUS
<1>1. AgreementInv
  BY AgreementInvInit
<1>2. RevocationRecorded
  BY DEF Init, IssuerInit, RevocationRecorded
<1>. QED
  BY <1>1, <1>2 DEF RefInv

\* Only a CredentialSend that returned Ok records a cred_rev_id, and it
\* finishes with success; revoke() revokes only the recorded index.
LEMMA RevocationRecordedNext ==
    ASSUME ~MaySendTimeOut, RevocationRecorded, [Next]_vars
    PROVE  RevocationRecorded'
<1>1. CASE IssuerPoll \/ IssuerSendOffer
  <2>1. iState # "Finished"
    BY <1>1 DEF IssuerPoll, IssuerUpdateState, IsTerminal, IssuerSendOffer,
                IssuerOfferSend, OfferSendFromInitial, OfferSendFromProposal
  <2>2. iCredRevId = None /\ revoked = {}
    BY <2>1, NothingRecordedYet
  <2>3. UNCHANGED <<iCredRevId, revoked>>
    BY <1>1 DEF IssuerPoll, IssuerUpdateState, ReceiveProposal, ReceiveRequest,
                ReceiveCounterProposal, ReceiveProblemReport, IssuerSendOffer,
                IssuerOfferSend, OfferSendFromInitial, OfferSendFromProposal
  <2>. QED
    BY <2>2, <2>3 DEF RevocationRecorded
<1>2. CASE IssuerSendCredential
  <2>1. iState = "RequestReceived" /\ UNCHANGED revoked
    BY <1>2 DEF IssuerSendCredential, IssuerCredentialSend
  <2>2. iCredRevId = None /\ revoked = {}
    BY <2>1, NothingRecordedYet
  <2>3. CASE \E out \in SendOutcomes \cup {"Lost"} : CredentialIssued(out)
    <3>1. PICK out \in {"Ok", "Lost"} : CredentialIssued(out)
      BY <2>3, OnlyOk
    <3>2. iCredRevId' # None => iState' = "Finished" /\ iStatus' = "Success"
      BY <2>2, <3>1 DEF CredentialIssued
    <3>. QED
      BY <2>1, <2>2, <3>2 DEF RevocationRecorded
  <2>4. CASE \E out \in SendOutcomes : CredentialNotIssued(out)
    BY <2>1, <2>2, <2>4 DEF CredentialNotIssued, RevocationRecorded
  <2>. QED
    BY <1>2, <2>3, <2>4 DEF IssuerSendCredential, IssuerCredentialSend
<1>3. CASE IssuerRevokeCredential
  BY <1>3 DEF IssuerRevokeCredential, IssuerRevoke, RevocationRecorded
<1>4. CASE HolderPoll \/ HolderProposal \/ HolderRequest \/ HolderReject
       \/ UNCHANGED vars
  BY <1>4 DEF HolderPoll, HolderProposal, HolderRequest, HolderReject, vars,
              issuerVars, RevocationRecorded
<1>. QED
  BY <1>1, <1>2, <1>3, <1>4 DEF Next

LEMMA RefInvNext ==
    ASSUME ~MaySendTimeOut
    PROVE  RefInv /\ [Next]_vars => RefInv'
BY AgreementInvNext, RevocationRecordedNext DEF RefInv

-----------------------------------------------------------------------------
(***************************************************************************)
(* The steps.  A step that keeps the issuer's outcome, its recorded index *)
(* and revocations, and the holder's outcome and credential is a stutter  *)
(* of the abstract interaction.                                           *)
(***************************************************************************)
LEMMA Stutter ==
    ASSUME UNCHANGED <<iState, iStatus, iCredRevId, revoked>>,
           AbsHolderOutcome' = AbsHolderOutcome,
           AbsHeld' = AbsHeld
    PROVE  UNCHANGED Abstract!avars
BY DEF Abstract!avars, AbsIssuerOutcome, RecordedRevId, AbsHeld

\* A holder step that neither starts nor ends in Finished or Failed.
LEMMA HolderStaysOpen ==
    ASSUME hState \notin {"Finished", "Failed"},
           hState' \notin {"Finished", "Failed"}
    PROVE  AbsHolderOutcome' = AbsHolderOutcome /\ AbsHeld' = AbsHeld
BY DEF AbsHolderOutcome, AbsHeld

\* The issuer's poll: a ProblemReport in OfferSent ends the interaction
\* for the issuer; every other handled message keeps it open.
LEMMA IssuerPollRefines ==
    ASSUME RefInv, IssuerPoll
    PROVE  [Abstract!ANext]_Abstract!avars
<1>1. PICK m \in Handleable :
          /\ \/ ReceiveProposal(m) \/ ReceiveRequest(m)
             \/ ReceiveCounterProposal(m) \/ ReceiveProblemReport(m)
          /\ toIssuer' = toIssuer \ {m}
  BY DEF IssuerPoll, IssuerUpdateState
<1>2. iState # "Finished"
  BY DEF IssuerPoll, IssuerUpdateState, IsTerminal
<1>3. iCredRevId = None /\ revoked = {}
  BY <1>2, NothingRecordedYet DEF RefInv
<1>4. UNCHANGED <<hState, hCred, iCredRevId, revoked>>
  BY <1>1 DEF IssuerPoll, IssuerUpdateState, holderVars, ReceiveProposal,
              ReceiveRequest, ReceiveCounterProposal, ReceiveProblemReport
<1>5. AbsHolderOutcome' = AbsHolderOutcome /\ AbsHeld' = AbsHeld
  BY <1>4 DEF AbsHolderOutcome, AbsHeld
<1>6. CASE ReceiveProblemReport(m)
  <2>. SUFFICES Abstract!IssuerGivesUp
    BY DEF Abstract!ANext
  <2>. QED
    BY <1>2, <1>3, <1>4, <1>5, <1>6
       DEF ReceiveProblemReport, Abstract!IssuerGivesUp, AbsIssuerOutcome,
           RecordedRevId
<1>7. CASE ReceiveProposal(m) \/ ReceiveRequest(m) \/ ReceiveCounterProposal(m)
  <2>1. iState' # "Finished"
    BY <1>7 DEF ReceiveProposal, ReceiveRequest, ReceiveCounterProposal
  <2>2. AbsIssuerOutcome' = AbsIssuerOutcome /\ RecordedRevId' = RecordedRevId
    BY <1>2, <2>1 DEF AbsIssuerOutcome, RecordedRevId
  <2>. QED
    BY <1>4, <1>5, <2>2 DEF Abstract!avars
<1>. QED
  BY <1>1, <1>6, <1>7

\* Sending an offer keeps the issuer open.
LEMMA IssuerSendOfferRefines ==
    ASSUME IssuerSendOffer
    PROVE  [Abstract!ANext]_Abstract!avars
<1>1. iState # "Finished" /\ iState' # "Finished"
  BY DEF IssuerSendOffer, IssuerOfferSend, OfferSendFromInitial,
         OfferSendFromProposal
<1>2. UNCHANGED <<hState, hCred, iCredRevId, revoked>>
  BY DEF IssuerSendOffer, IssuerOfferSend, OfferSendFromInitial,
         OfferSendFromProposal, holderVars
<1>3. AbsHolderOutcome' = AbsHolderOutcome /\ AbsHeld' = AbsHeld
  BY <1>2 DEF AbsHolderOutcome, AbsHeld
<1>. QED
  BY <1>1, <1>2, <1>3 DEF Abstract!avars, AbsIssuerOutcome, RecordedRevId

\* CredentialSend: an Ok issue is the abstract Issue of the recorded index;
\* a ProblemReport sent Ok is giving up; a lost send changes no outcome.
LEMMA IssuerSendCredentialRefines ==
    ASSUME ~MaySendTimeOut, RefInv, TypeInv', IssuerSendCredential
    PROVE  [Abstract!ANext]_Abstract!avars
<1>1. /\ iState = "RequestReceived"
      /\ UNCHANGED <<hState, hCred, revoked>>
  BY DEF IssuerSendCredential, IssuerCredentialSend, holderVars
<1>2. iCredRevId = None /\ revoked = {}
  BY <1>1, NothingRecordedYet DEF RefInv
<1>3. AbsHolderOutcome' = AbsHolderOutcome /\ AbsHeld' = AbsHeld
  BY <1>1 DEF AbsHolderOutcome, AbsHeld
<1>4. AbsIssuerOutcome = "Open" /\ RecordedRevId = None
  BY <1>1 DEF AbsIssuerOutcome, RecordedRevId
<1>5. CASE \E out \in SendOutcomes \cup {"Lost"} : CredentialIssued(out)
  <2>1. PICK out \in {"Ok", "Lost"} : CredentialIssued(out)
    BY <1>5, OnlyOk
  <2>2. CASE out = "Ok"
    <3>1. iState' = "Finished" /\ iStatus' = "Success"
      BY <2>1, <2>2 DEF CredentialIssued
    <3>2. iCredRevId' \in RevIds \cup {None}
      BY DEF TypeInv, TypeOK, IssuerTypeOK
    <3>. SUFFICES Abstract!Issue
      BY DEF Abstract!ANext
    <3>. QED
      BY <1>1, <1>2, <1>3, <1>4, <3>1, <3>2
         DEF Abstract!Issue, AbsIssuerOutcome, RecordedRevId
  <2>3. CASE out = "Lost"
    <3>1. UNCHANGED <<iState, iStatus, iCredRevId>>
      BY <2>1, <2>3 DEF CredentialIssued
    <3>. QED
      BY <1>1, <1>3, <3>1, Stutter
  <2>. QED
    BY <2>2, <2>3
<1>6. CASE \E out \in SendOutcomes : CredentialNotIssued(out)
  <2>1. CredentialNotIssued("Ok")
    BY <1>6, OnlyOk
  <2>2. iState' = "Finished" /\ iStatus' = "Failed" /\ UNCHANGED iCredRevId
    BY <2>1 DEF CredentialNotIssued
  <2>. SUFFICES Abstract!IssuerGivesUp
    BY DEF Abstract!ANext
  <2>. QED
    BY <1>1, <1>2, <1>3, <1>4, <2>2
       DEF Abstract!IssuerGivesUp, AbsIssuerOutcome, RecordedRevId
<1>. QED
  BY <1>5, <1>6 DEF IssuerSendCredential, IssuerCredentialSend

\* revoke(): the first revocation of the recorded index is the abstract
\* Revoke; revoking it again changes nothing.
LEMMA IssuerRevokeRefines ==
    ASSUME RefInv, IssuerRevokeCredential
    PROVE  [Abstract!ANext]_Abstract!avars
<1>1. /\ iState = "Finished" /\ iCredRevId # None
      /\ revoked' = revoked \cup {iCredRevId}
      /\ UNCHANGED <<iState, iStatus, iCredRevId, hState, hCred>>
  BY DEF IssuerRevokeCredential, IssuerRevoke, holderVars
<1>2. iStatus = "Success"
  BY <1>1 DEF RefInv, RevocationRecorded
<1>3. AbsHolderOutcome' = AbsHolderOutcome /\ AbsHeld' = AbsHeld
  BY <1>1 DEF AbsHolderOutcome, AbsHeld
<1>4. RecordedRevId = iCredRevId /\ RecordedRevId' = iCredRevId
  BY <1>1 DEF RecordedRevId
<1>5. CASE iCredRevId \in revoked
  BY <1>1, <1>3, <1>4, <1>5 DEF Abstract!avars, AbsIssuerOutcome
<1>6. CASE iCredRevId \notin revoked
  <2>. SUFFICES Abstract!Revoke
    BY DEF Abstract!ANext
  <2>. QED
    BY <1>1, <1>2, <1>3, <1>4, <1>6 DEF Abstract!Revoke, AbsIssuerOutcome
<1>. QED
  BY <1>5, <1>6

\* The holder's poll: a Credential received in RequestSent is the abstract
\* Accept of the credential the issuer issued; a ProblemReport in
\* RequestSent is giving up; every other message keeps the holder open.
LEMMA HolderPollRefines ==
    ASSUME RefInv, HolderPoll
    PROVE  [Abstract!ANext]_Abstract!avars
<1>1. PICK m \in HolderHandleable :
          /\ \/ HolderReceiveOffer(m) \/ HolderReceiveCredential(m)
             \/ HolderReceiveProblemReport(m)
  BY DEF HolderPoll, HolderUpdateState
<1>2. m \in toHolder
  BY HandleableInBag
<1>3. hState \notin {"Finished", "Failed"}
  BY DEF HolderPoll, HolderUpdateState, HolderIsTerminal
<1>4. UNCHANGED <<iState, iStatus, iCredRevId, revoked>>
  BY DEF HolderPoll, issuerVars
<1>5. AbsIssuerOutcome' = AbsIssuerOutcome /\ RecordedRevId' = RecordedRevId
  BY <1>4 DEF AbsIssuerOutcome, RecordedRevId
<1>6. CASE HolderReceiveCredential(m)
  <2>1. hState = "RequestSent" /\ hState' = "Finished" /\ hCred' = m.rev
    BY <1>6 DEF HolderReceiveCredential
  <2>2. m.type = "Credential"
    BY <1>6 DEF HolderReceiveCredential
  <2>3. iState = "Finished" /\ iStatus = "Success" /\ m.rev = iCredRevId
    BY <1>2, <2>2 DEF RefInv, AgreementInv, CredentialInFlight
  <2>. SUFFICES Abstract!Accept
    BY DEF Abstract!ANext
  <2>. QED
    BY <1>4, <1>5, <2>1, <2>3
       DEF Abstract!Accept, AbsHolderOutcome, AbsHeld, AbsIssuerOutcome,
           RecordedRevId
<1>7. CASE HolderReceiveProblemReport(m) /\ hState = "RequestSent"
  <2>1. hState' = "Failed" /\ UNCHANGED hCred
    BY <1>7 DEF HolderReceiveProblemReport
  <2>. SUFFICES Abstract!HolderGivesUp
    BY DEF Abstract!ANext
  <2>. QED
    BY <1>4, <1>5, <1>7, <2>1
       DEF Abstract!HolderGivesUp, AbsHolderOutcome, AbsHeld
<1>8. CASE HolderReceiveProblemReport(m) /\ hState # "RequestSent"
  <2>1. UNCHANGED <<hState, hCred>>
    BY <1>8 DEF HolderReceiveProblemReport
  <2>. QED
    BY <1>4, <2>1, Stutter DEF AbsHolderOutcome, AbsHeld
<1>9. CASE HolderReceiveOffer(m)
  <2>1. hState' = "OfferReceived"
    BY <1>9 DEF HolderReceiveOffer
  <2>. QED
    BY <1>3, <1>4, <2>1, HolderStaysOpen, Stutter
<1>. QED
  BY <1>1, <1>6, <1>7, <1>8, <1>9

\* The holder's commands: a reject that returned Ok is giving up; a
\* proposal or a request keeps the holder open.
LEMMA HolderCommandRefines ==
    ASSUME HolderProposal \/ HolderRequest \/ HolderReject
    PROVE  [Abstract!ANext]_Abstract!avars
<1>1. /\ hState \in {"Initial", "OfferReceived"}
      /\ hState' \in {hState, "ProposalSent", "RequestSent", "Failed"}
      /\ UNCHANGED <<hCred, iState, iStatus, iCredRevId, revoked>>
  BY DEF HolderProposal, HolderSendProposal, HolderRequest, HolderSendRequest,
         HolderReject, HolderRejectOffer, issuerVars
<1>2. AbsIssuerOutcome' = AbsIssuerOutcome /\ RecordedRevId' = RecordedRevId
  BY <1>1 DEF AbsIssuerOutcome, RecordedRevId
<1>3. CASE hState' = "Failed"
  <2>. SUFFICES Abstract!HolderGivesUp
    BY DEF Abstract!ANext
  <2>. QED
    BY <1>1, <1>2, <1>3
       DEF Abstract!HolderGivesUp, AbsHolderOutcome, AbsHeld
<1>4. CASE hState' # "Failed"
  BY <1>1, <1>4, HolderStaysOpen, Stutter
<1>. QED
  BY <1>3, <1>4

\* Every step of the interaction is a step of the abstract one or leaves
\* its outcomes unchanged.
LEMMA RefinementStep ==
    ASSUME ~MaySendTimeOut, RefInv, RefInv', [Next]_vars
    PROVE  [Abstract!ANext]_Abstract!avars
<1>1. TypeInv'
  BY DEF RefInv, AgreementInv
<1>2. CASE IssuerPoll
  BY <1>2, IssuerPollRefines
<1>3. CASE IssuerSendOffer
  BY <1>3, IssuerSendOfferRefines
<1>4. CASE IssuerSendCredential
  BY <1>1, <1>4, IssuerSendCredentialRefines
<1>5. CASE IssuerRevokeCredential
  BY <1>5, IssuerRevokeRefines
<1>6. CASE HolderPoll
  BY <1>6, HolderPollRefines
<1>7. CASE HolderProposal \/ HolderRequest \/ HolderReject
  BY <1>7, HolderCommandRefines
<1>8. CASE UNCHANGED vars
  BY <1>8, Stutter DEF vars, issuerVars, holderVars, AbsHolderOutcome, AbsHeld
<1>. QED
  BY <1>2, <1>3, <1>4, <1>5, <1>6, <1>7, <1>8 DEF Next

\* The initial state of the interaction is the abstract initial state.
LEMMA RefinementInit == Init => Abstract!AInit
BY DEF Init, IssuerInit, HolderInit, Abstract!AInit, AbsIssuerOutcome,
       AbsHolderOutcome, RecordedRevId

\* Issuance implements IssuanceAbstract (ImplementsAbstract): each side's
\* outcome is final, the holder accepts only the credential the issuer
\* issued with the cred_rev_id the issuer recorded, and revoke() revokes
\* only that credential, for every registry size, set of threads and
\* foreign messages, provided the send_message callback never reports an
\* error for a message it delivered.
THEOREM Refinement ==
    ASSUME ~MaySendTimeOut
    PROVE  Spec => ImplementsAbstract
<1>1. Init => RefInv
  BY RefInvInit
<1>2. RefInv /\ [Next]_vars => RefInv'
  BY RefInvNext
<1>3. RefInv /\ RefInv' /\ [Next]_vars => [Abstract!ANext]_Abstract!avars
  BY RefinementStep
<1>4. Init => Abstract!AInit
  BY RefinementInit
<1>. QED
  BY <1>1, <1>2, <1>3, <1>4, PTL DEF Spec, ImplementsAbstract, Abstract!ASpec

=============================================================================
