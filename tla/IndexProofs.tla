---------------------------- MODULE IndexProofs ----------------------------
(***************************************************************************)
(* The revocation registry's indices, for every value of the constants,   *)
(* with send callbacks that may report an error after delivering and      *)
(* acknowledgements that may fail: every index in use has been spent, the *)
(* recorded one is the last spent, and only it is revoked.                *)
(***************************************************************************)
EXTENDS IssuanceProofs

USE NoneAssumption, FreshIdAssumption, CapacityAssumption, TimeOutAssumption,
    IssuerThreadAssumption, HolderThreadAssumption, NoiseAssumption,
    AckAssumption

\* A cred_rev_id is recorded only on entering Finished, which the issuer
\* never leaves.
RecordedOnFinish == iState # "Finished" => iCredRevId = None

IndexInv == TypeInv /\ RecordedOnFinish /\ IndicesSpent

LEMMA IndexInvInit == Init => IndexInv
<1> SUFFICES ASSUME Init PROVE IndexInv
  OBVIOUS
<1>1. TypeInv
  BY TypeInvInit
<1>2. RecordedOnFinish /\ IndicesSpent
  BY DEF Init, IssuerInit, HolderInit, RecordedOnFinish, IndicesSpent
<1>. QED
  BY <1>1, <1>2 DEF IndexInv

\* Issuer steps: only a CredentialSend spends an index, and the index the
\* Credential carries and the issuer may record is the one it spent.
LEMMA IssuerStepIndices ==
    ASSUME IndexInv,
           IssuerPoll \/ IssuerSendOffer \/ IssuerSendCredential
           \/ IssuerRevokeCredential
    PROVE  (RecordedOnFinish /\ IndicesSpent)'
<1>. USE DEF IndexInv
<1>1. UNCHANGED hCred
  BY DEF IssuerPoll, IssuerSendOffer, IssuerSendCredential,
         IssuerRevokeCredential, holderVars
<1>2. CASE IssuerPoll \/ IssuerSendOffer
  <2>1. CASE IssuerPoll
    <3>1. PICK m \in Handleable :
              /\ \/ ReceiveProposal(m) \/ ReceiveRequest(m)
                 \/ ReceiveCounterProposal(m) \/ ReceiveProblemReport(m)
              /\ UNCHANGED <<toHolder, issued, revoked>>
      BY <2>1 DEF IssuerPoll, IssuerUpdateState
    <3>0. iCredRevId = None
      BY <2>1 DEF IssuerPoll, IssuerUpdateState, IsTerminal, RecordedOnFinish
    <3>2. UNCHANGED iCredRevId
      BY <3>1 DEF ReceiveProposal, ReceiveRequest, ReceiveCounterProposal,
                  ReceiveProblemReport
    <3>. QED
      BY <1>1, <3>0, <3>1, <3>2 DEF RecordedOnFinish, IndicesSpent
  <2>2. CASE IssuerSendOffer
    <3>1. PICK rr \in BOOLEAN, out \in SendOutcomes :
              OfferSendFromInitial(rr, out) \/ OfferSendFromProposal(rr, out)
      BY <2>2 DEF IssuerSendOffer, IssuerOfferSend
    <3>2. /\ UNCHANGED iCredRevId
          /\ \A m \in toHolder' \ toHolder : m.type = "Offer"
      BY <3>1 DEF OfferSendFromInitial, OfferSendFromProposal, Msg
    <3>3. UNCHANGED <<issued, revoked>>
      BY <2>2 DEF IssuerSendOffer, IssuerOfferSend
    <3>4. iCredRevId = None
      BY <3>1 DEF OfferSendFromInitial, OfferSendFromProposal, RecordedOnFinish
    <3>. QED
      BY <1>1, <3>2, <3>3, <3>4 DEF RecordedOnFinish, IndicesSpent
  <2>. QED
    BY <1>2, <2>1, <2>2
<1>3. CASE IssuerRevokeCredential
  BY <1>1, <1>3 DEF IssuerRevokeCredential, IssuerRevoke, RecordedOnFinish,
                    IndicesSpent
<1>4. CASE IssuerSendCredential
  <2>1. iState = "RequestReceived" /\ iCredRevId = None /\ revoked = {}
    BY <1>4 DEF IssuerSendCredential, IssuerCredentialSend, RecordedOnFinish,
                IndicesSpent
  <2>2. UNCHANGED revoked
    BY <1>4 DEF IssuerSendCredential, IssuerCredentialSend
  <2>3. issued \in Nat
    BY DEF TypeInv, TypeOK, IssuerTypeOK
  <2>4. CASE \E out \in SendOutcomes \cup {"Lost"} : CredentialIssued(out)
    <3>. DEFINE rid == IF iRevReg THEN issued + 1 ELSE None
    <3>1. PICK out \in SendOutcomes \cup {"Lost"} : CredentialIssued(out)
      BY <2>4
    <3>2. /\ issued' = IF iRevReg THEN issued + 1 ELSE issued
          /\ toHolder' \subseteq toHolder \cup {Msg("Credential", FreshId, iThread, rid)}
          /\ iCredRevId' \in {None, rid}
      <4>1. issued' = IF iRevReg THEN issued + 1 ELSE issued
        BY <3>1 DEF CredentialIssued
      <4>2. toHolder' \subseteq toHolder \cup {Msg("Credential", FreshId, iThread, rid)}
        BY <3>1 DEF CredentialIssued
      <4>3. iCredRevId' \in {None, rid}
        BY <2>1, <3>1 DEF CredentialIssued
      <4>. QED
        BY <4>1, <4>2, <4>3
    <3>3. rid # None => rid \in 1..issued' /\ rid = issued'
      <4>1. CASE iRevReg
        BY <2>3, <3>2, <4>1
      <4>2. CASE ~iRevReg
        BY <4>2
      <4>. QED
        BY <4>1, <4>2
    <3>4. 1..issued \subseteq 1..issued'
      <4>1. CASE iRevReg
        BY <2>3, <3>2, <4>1
      <4>2. CASE ~iRevReg
        BY <3>2, <4>2
      <4>. QED
        BY <4>1, <4>2
    <3>5. (\A m \in toHolder :
              m.type = "Credential" /\ m.rev # None => m.rev \in 1..issued)
          /\ (hCred # None => hCred \in 1..issued)
      BY DEF IndicesSpent
    <3>6. IndicesSpent'
      BY <1>1, <2>1, <2>2, <3>2, <3>3, <3>4, <3>5 DEF IndicesSpent, Msg
    <3>7. RecordedOnFinish'
      BY <2>1, <3>1 DEF CredentialIssued, RecordedOnFinish
    <3>. QED
      BY <3>6, <3>7
  <2>5. CASE \E out \in SendOutcomes : CredentialNotIssued(out)
    <3>1. /\ UNCHANGED <<issued, iCredRevId>>
          /\ toHolder' = toHolder \cup {Msg("ProblemReport", FreshId, iThread, None)}
      BY <2>5 DEF CredentialNotIssued
    <3>. QED
      BY <1>1, <2>1, <2>2, <3>1 DEF RecordedOnFinish, IndicesSpent, Msg
  <2>. QED
    BY <1>4, <2>4, <2>5 DEF IssuerSendCredential, IssuerCredentialSend
<1>. QED
  BY <1>2, <1>3, <1>4

\* Holder steps: the holder stores only the index of a Credential in its
\* inbox, and sends nothing that carries an index.
LEMMA HolderStepIndices ==
    ASSUME IndexInv,
           HolderPoll \/ HolderProposal \/ HolderRequest \/ HolderReject
    PROVE  (RecordedOnFinish /\ IndicesSpent)'
<1>. USE DEF IndexInv
<1>1. /\ UNCHANGED <<iState, iCredRevId, issued, revoked>>
      /\ toHolder' \subseteq toHolder
  BY DEF HolderPoll, HolderUpdateState, HolderProposal, HolderSendProposal,
         HolderRequest, HolderSendRequest, HolderReject, HolderRejectOffer,
         issuerVars
<1>2. hCred' # None => hCred' \in 1..issued
  <2>1. CASE HolderPoll
    <3>1. PICK m \in HolderHandleable :
              \/ HolderReceiveOffer(m) \/ HolderReceiveCredential(m)
              \/ HolderReceiveProblemReport(m)
      BY <2>1 DEF HolderPoll, HolderUpdateState
    <3>2. m \in toHolder
      BY HandleableInBag
    <3>. QED
      BY <3>1, <3>2 DEF HolderReceiveOffer, HolderReceiveCredential,
                        HolderReceiveProblemReport, IndicesSpent
  <2>2. CASE HolderProposal \/ HolderRequest \/ HolderReject
    BY <2>2 DEF HolderProposal, HolderSendProposal, HolderRequest,
                HolderSendRequest, HolderReject, HolderRejectOffer,
                IndicesSpent
  <2>. QED
    BY <2>1, <2>2
<1>. QED
  BY <1>1, <1>2 DEF RecordedOnFinish, IndicesSpent

LEMMA IndexInvNext == IndexInv /\ [Next]_vars => IndexInv'
<1> SUFFICES ASSUME IndexInv, [Next]_vars PROVE IndexInv'
  OBVIOUS
<1>1. TypeInv'
  BY TypeInvNext DEF IndexInv
<1>2. CASE IssuerPoll \/ IssuerSendOffer \/ IssuerSendCredential
           \/ IssuerRevokeCredential
  BY <1>1, <1>2, IssuerStepIndices DEF IndexInv
<1>3. CASE HolderPoll \/ HolderProposal \/ HolderRequest \/ HolderReject
  BY <1>1, <1>3, HolderStepIndices DEF IndexInv
<1>4. CASE UNCHANGED vars
  BY <1>1, <1>4 DEF vars, issuerVars, holderVars, IndexInv,
                    RecordedOnFinish, IndicesSpent
<1>. QED
  BY <1>2, <1>3, <1>4 DEF Next

\* The registry's indices are accounted for in every behaviour, with no
\* hypothesis on the send callback or the acknowledgements: a Credential
\* on its way, the holder's stored credential and the issuer's recorded
\* cred_rev_id carry an index _create_credential spent; the recorded one
\* is the last spent, so the indices of failed and retried CredentialSends
\* are exactly the earlier ones; and revoke() revokes only the recorded
\* index.  Run issuance_timeout checks IndicesSpent with timeouts.
THEOREM IndicesHold == Spec => []IndicesSpent
<1>1. Init => IndexInv
  BY IndexInvInit
<1>2. IndexInv /\ [Next]_vars => IndexInv'
  BY IndexInvNext
<1>3. IndexInv => IndicesSpent
  BY DEF IndexInv
<1>. QED
  BY <1>1, <1>2, <1>3, PTL DEF Spec

=============================================================================
