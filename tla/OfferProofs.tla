----------------------------- MODULE OfferProofs -----------------------------
(***************************************************************************)
(* Proof that a holder holding an offer is answering the issuer's current *)
(* offer (HolderOfferCurrent), when sends and acknowledgements do not     *)
(* fail after their effect and no other interaction has a counter-        *)
(* proposal pending on the connection.                                    *)
(*                                                                         *)
(* The negotiation passes a single token back and forth: an offer on its  *)
(* way to the holder, the holder holding it, a counter-proposal on its    *)
(* way to the issuer.  The issuer leaves OfferSent backwards only by      *)
(* taking a counter-proposal, which the holder sends only after it took   *)
(* the offer, so the holder has left OfferReceived by then.               *)
(***************************************************************************)
EXTENDS IssuanceProofs

USE NoneAssumption, FreshIdAssumption, CapacityAssumption, TimeOutAssumption,
    IssuerThreadAssumption, HolderThreadAssumption, NoiseAssumption,
    AckAssumption

\* The issuer states in which the holder may hold an offer.
OfferAnswerable == {"OfferSent", "RequestReceived", "Finished"}

\* Offers not yet handled by the holder.
PendingOffers == {m \in toHolder : m.type = "Offer"}

\* Proposals with a thread decorator not yet handled by the issuer: the
\* holder's counter-proposals.
PendingCounters == {m \in toIssuer : m.type = "Proposal" /\ m.thid # None}

\* No other interaction's counter-proposal is pending at the issuer.
NoForeignCounter ==
    \A m \in IssuerNoise : m.type = "Proposal" => m.thid = None

\* At most one offer and one counter-proposal are on their way, never
\* both at once, and neither while the holder holds an offer; each is on
\* its way only while the issuer is in a state the holder may answer.
OfferToken ==
    /\ \A m1, m2 \in PendingOffers : m1 = m2
    /\ \A m1, m2 \in PendingCounters : m1 = m2
    /\ PendingOffers # {} => iState \in OfferAnswerable /\ PendingCounters = {}
    /\ PendingCounters # {} => iState \in OfferAnswerable
    /\ hState = "OfferReceived" => PendingOffers = {} /\ PendingCounters = {}

\* The inductive invariant.
OfferInv == TypeInv /\ HolderOfferCurrent /\ OfferToken

LEMMA OfferInvInit ==
    ASSUME NoForeignCounter
    PROVE  Init => OfferInv
<1> SUFFICES ASSUME Init PROVE OfferInv
  OBVIOUS
<1>1. TypeInv
  BY TypeInvInit
<1>2. PendingOffers = {} /\ PendingCounters = {}
  BY DEF Init, PendingOffers, PendingCounters, NoForeignCounter
<1>3. hState = "Initial"
  BY DEF Init, HolderInit
<1>. QED
  BY <1>1, <1>2, <1>3 DEF OfferInv, HolderOfferCurrent, OfferToken

\* The issuer's poll.  Only a counter-proposal takes the issuer back out
\* of the answerable states, and it is the one pending counter-proposal.
LEMMA IssuerPollOffer ==
    ASSUME OfferInv, IssuerPoll
    PROVE  (HolderOfferCurrent /\ OfferToken)'
<1>1. PICK m \in Handleable :
          /\ VerifyThreadId(iThread, m, iState = "Initial")
          /\ \/ ReceiveProposal(m) \/ ReceiveRequest(m)
             \/ ReceiveCounterProposal(m) \/ ReceiveProblemReport(m)
          /\ toIssuer' = toIssuer \ {m}
  BY DEF IssuerPoll, IssuerUpdateState
<1>2. UNCHANGED <<hState, toHolder>>
  BY DEF IssuerPoll, IssuerUpdateState, holderVars
<1>3. PendingOffers' = PendingOffers /\ PendingCounters' \subseteq PendingCounters
  BY <1>1, <1>2 DEF PendingOffers, PendingCounters
<1>4. CASE ReceiveProposal(m)
  <2>1. iState = "Initial" /\ iState' = "ProposalReceived"
    BY <1>4 DEF ReceiveProposal
  <2>2. PendingOffers = {} /\ PendingCounters = {} /\ hState # "OfferReceived"
    BY <2>1 DEF OfferInv, OfferToken, HolderOfferCurrent, OfferAnswerable
  <2>. QED
    BY <1>2, <1>3, <2>1, <2>2 DEF HolderOfferCurrent, OfferToken
<1>5. CASE ReceiveCounterProposal(m)
  <2>1. iState = "OfferSent" /\ iState' = "ProposalReceived"
    BY <1>5 DEF ReceiveCounterProposal
  <2>2. m \in PendingCounters
    BY <1>1, <1>5, <2>1, HandleableInBag
       DEF ReceiveCounterProposal, Handleable, IsReply, PendingCounters
  <2>3. PendingCounters' = {}
    BY <1>1, <2>2 DEF OfferInv, OfferToken, PendingCounters
  <2>4. PendingOffers = {} /\ hState # "OfferReceived"
    BY <2>2 DEF OfferInv, OfferToken
  <2>. QED
    BY <1>2, <1>3, <2>3, <2>4 DEF HolderOfferCurrent, OfferToken
<1>6. CASE ReceiveRequest(m) \/ ReceiveProblemReport(m)
  <2>1. iState \in OfferAnswerable /\ iState' \in OfferAnswerable
    BY <1>6 DEF ReceiveRequest, ReceiveProblemReport, OfferAnswerable
  <2>2. \A m1, m2 \in PendingCounters' : m1 = m2
    BY <1>3 DEF OfferInv, OfferToken
  <2>3. PendingOffers' # {} => PendingCounters' = {}
    BY <1>3 DEF OfferInv, OfferToken
  <2>4. hState' = "OfferReceived" => PendingCounters' = {}
    BY <1>2, <1>3 DEF OfferInv, OfferToken
  <2>5. \A m1, m2 \in PendingOffers' : m1 = m2
    BY <1>3 DEF OfferInv, OfferToken
  <2>6. hState' = "OfferReceived" => PendingOffers' = {}
    BY <1>2, <1>3 DEF OfferInv, OfferToken
  <2>. QED
    BY <2>1, <2>2, <2>3, <2>4, <2>5, <2>6 DEF HolderOfferCurrent, OfferToken, OfferAnswerable
<1>. QED
  BY <1>1, <1>4, <1>5, <1>6

\* Sending an offer: the issuer was in Initial or ProposalReceived, so
\* nothing was on its way and the holder held no offer.
LEMMA IssuerSendOfferOffer ==
    ASSUME ~MaySendTimeOut, OfferInv, IssuerSendOffer
    PROVE  (HolderOfferCurrent /\ OfferToken)'
<1>1. PICK rr \in BOOLEAN :
          OfferSendFromInitial(rr, "Ok") \/ OfferSendFromProposal(rr, "Ok")
  BY OnlyOk DEF IssuerSendOffer, IssuerOfferSend
<1>2. PICK o \in Message : o.type = "Offer" /\ toHolder' = toHolder \cup {o}
  <2>1. CASE OfferSendFromInitial(rr, "Ok")
    <3>1. Msg("Offer", iThread, None, None) \in Message
      BY MsgType DEF OfferInv, TypeInv, TypeOK, IssuerTypeOK, MsgTypes
    <3>2. toHolder' = toHolder \cup {Msg("Offer", iThread, None, None)}
      BY <2>1 DEF OfferSendFromInitial
    <3>. QED
      BY <3>1, <3>2 DEF Msg
  <2>2. CASE OfferSendFromProposal(rr, "Ok")
    <3>1. iProposal \in Message
      BY <2>2 DEF OfferSendFromProposal, OfferInv, TypeInv, ProposalStored
    <3>2. GetThreadId(iProposal) \in Threads
      BY <3>1, GetThreadIdType
    <3>3. Msg("Offer", FreshId, GetThreadId(iProposal), None) \in Message
      BY <3>2, MsgType DEF MsgTypes
    <3>4. toHolder' = toHolder \cup {Msg("Offer", FreshId, GetThreadId(iProposal), None)}
      BY <2>2 DEF OfferSendFromProposal
    <3>. QED
      BY <3>3, <3>4 DEF Msg
  <2>. QED
    BY <1>1, <2>1, <2>2
<1>3. iState \in {"Initial", "ProposalReceived"} /\ iState' = "OfferSent"
  BY <1>1 DEF OfferSendFromInitial, OfferSendFromProposal
<1>4. PendingOffers = {} /\ PendingCounters = {} /\ hState # "OfferReceived"
  BY <1>3 DEF OfferInv, OfferToken, HolderOfferCurrent, OfferAnswerable
<1>5. UNCHANGED <<hState, toIssuer>>
  BY DEF IssuerSendOffer, IssuerOfferSend, holderVars
<1>6. PendingOffers' = {o} /\ PendingCounters' = {}
  BY <1>2, <1>4, <1>5 DEF PendingOffers, PendingCounters
<1>. QED
  BY <1>3, <1>4, <1>5, <1>6 DEF HolderOfferCurrent, OfferToken, OfferAnswerable

\* CredentialSend and revoke() keep the issuer among the answerable
\* states and send no offer and no proposal.
LEMMA IssuerFinishOffer ==
    ASSUME OfferInv, IssuerSendCredential \/ IssuerRevokeCredential
    PROVE  (HolderOfferCurrent /\ OfferToken)'
<1>1. iState \in OfferAnswerable /\ iState' \in OfferAnswerable
  BY DEF IssuerSendCredential, IssuerCredentialSend, CredentialIssued,
         CredentialNotIssued, IssuerRevokeCredential, IssuerRevoke,
         OfferAnswerable
<1>2. UNCHANGED <<hState, toIssuer>>
  BY DEF IssuerSendCredential, IssuerCredentialSend, IssuerRevokeCredential,
         IssuerRevoke, holderVars
<1>3. \A m \in toHolder' \ toHolder : m.type # "Offer"
  BY DEF IssuerSendCredential, IssuerCredentialSend, CredentialIssued,
         CredentialNotIssued, IssuerRevokeCredential, IssuerRevoke, Msg
<1>4. PendingOffers' = PendingOffers /\ PendingCounters' = PendingCounters
  <2>1. toHolder \subseteq toHolder'
    BY DEF IssuerSendCredential, IssuerCredentialSend, CredentialIssued,
           CredentialNotIssued, IssuerRevokeCredential, IssuerRevoke
  <2>. QED
    BY <1>2, <1>3, <2>1 DEF PendingOffers, PendingCounters
<1>. QED
  BY <1>1, <1>2, <1>4 DEF OfferInv, HolderOfferCurrent, OfferToken,
                          OfferAnswerable

\* The holder's poll.  It enters OfferReceived only by taking the one
\* pending offer, which was sent while the issuer was answerable and no
\* counter-proposal was on its way.
LEMMA HolderPollOffer ==
    ASSUME ~MayAckFail, OfferInv, HolderPoll
    PROVE  (HolderOfferCurrent /\ OfferToken)'
<1>1. PICK m \in HolderHandleable :
          /\ \/ HolderReceiveOffer(m) \/ HolderReceiveCredential(m)
             \/ HolderReceiveProblemReport(m)
          /\ toHolder' = toHolder \ {m}
  <2>1. AckOutcomes = {TRUE}
    BY Zenon DEF AckOutcomes
  <2>. QED
    BY <2>1 DEF HolderPoll, HolderUpdateState
<1>2. UNCHANGED <<iState, toIssuer>>
  BY DEF HolderPoll, issuerVars, HolderUpdateState
<1>3. PendingOffers' \subseteq PendingOffers /\ PendingCounters' = PendingCounters
  BY <1>1, <1>2 DEF PendingOffers, PendingCounters
<1>4. hState \in {"Initial", "ProposalSent", "RequestSent"}
  BY DEF HolderHandleable
<1>5. CASE HolderReceiveOffer(m)
  <2>1. m \in PendingOffers
    BY <1>5, HandleableInBag DEF HolderReceiveOffer, PendingOffers
  <2>2. iState \in OfferAnswerable /\ PendingCounters = {}
    BY <2>1 DEF OfferInv, OfferToken
  <2>3. PendingOffers' = {}
    BY <1>1, <2>1 DEF OfferInv, OfferToken, PendingOffers
  <2>. QED
    BY <1>2, <1>3, <2>2, <2>3 DEF HolderOfferCurrent, OfferToken,
                                  OfferAnswerable
<1>6. CASE HolderReceiveCredential(m) \/ HolderReceiveProblemReport(m)
  <2>1. hState' # "OfferReceived"
    BY <1>4, <1>6 DEF HolderReceiveCredential, HolderReceiveProblemReport
  <2>2. \A m1, m2 \in PendingOffers' : m1 = m2
    BY <1>3 DEF OfferInv, OfferToken
  <2>3. PendingOffers' # {} => iState' \in OfferAnswerable /\ PendingCounters' = {}
    BY <1>2, <1>3 DEF OfferInv, OfferToken
  <2>. QED
    BY <1>2, <1>3, <2>1, <2>2, <2>3 DEF OfferInv, HolderOfferCurrent, OfferToken
<1>. QED
  BY <1>1, <1>5, <1>6

\* The holder's commands.  A counter-proposal is sent only from
\* OfferReceived, where nothing else is on its way and the issuer is
\* answerable; the proposal that opens a thread carries no decorator.
LEMMA HolderCommandOffer ==
    ASSUME ~MaySendTimeOut, OfferInv,
           HolderProposal \/ HolderRequest \/ HolderReject
    PROVE  (HolderOfferCurrent /\ OfferToken)'
<1>1. UNCHANGED <<iState, toHolder>>
  BY DEF HolderProposal, HolderSendProposal, HolderRequest, HolderSendRequest,
         HolderReject, HolderRejectOffer, issuerVars
<1>2. PendingOffers' = PendingOffers
  BY <1>1 DEF PendingOffers
<1>3. hState' # "OfferReceived"
  BY OnlyOk DEF HolderProposal, HolderSendProposal, HolderRequest,
                HolderSendRequest, HolderReject, HolderRejectOffer
<1>4. CASE HolderProposal /\ hState = "OfferReceived"
  <2>1. toIssuer' = toIssuer \cup {Msg("Proposal", FreshId, hThread, None)}
    BY <1>4 DEF HolderProposal, HolderSendProposal
  <2>2. hThread # None
    BY DEF OfferInv, TypeInv, TypeOK, HolderTypeOK
  <2>3. PendingCounters = {} /\ PendingOffers = {}
    BY <1>4 DEF OfferInv, OfferToken
  <2>4. PendingCounters' = {Msg("Proposal", FreshId, hThread, None)}
    BY <2>1, <2>2, <2>3 DEF PendingCounters, Msg
  <2>5. iState \in OfferAnswerable
    BY <1>4 DEF OfferInv, HolderOfferCurrent, OfferAnswerable
  <2>. QED
    BY <1>1, <1>2, <1>3, <2>3, <2>4, <2>5 DEF HolderOfferCurrent, OfferToken
<1>5. CASE ~(HolderProposal /\ hState = "OfferReceived")
  <2>1. PendingCounters' = PendingCounters
    <3>1. \A m \in toIssuer' \ toIssuer : m.type # "Proposal" \/ m.thid = None
      BY <1>5 DEF HolderProposal, HolderSendProposal, HolderRequest,
                  HolderSendRequest, HolderReject, HolderRejectOffer, Msg
    <3>2. toIssuer \subseteq toIssuer'
      BY DEF HolderProposal, HolderSendProposal, HolderRequest,
             HolderSendRequest, HolderReject, HolderRejectOffer
    <3>. QED
      BY <3>1, <3>2 DEF PendingCounters
  <2>. QED
    BY <1>1, <1>2, <1>3, <2>1 DEF OfferInv, HolderOfferCurrent, OfferToken
<1>. QED
  BY <1>4, <1>5

LEMMA OfferInvNext ==
    ASSUME ~MayAckFail, ~MaySendTimeOut
    PROVE  OfferInv /\ [Next]_vars => OfferInv'
<1> SUFFICES ASSUME OfferInv, [Next]_vars PROVE OfferInv'
  OBVIOUS
<1>1. TypeInv'
  BY TypeInvNext DEF OfferInv
<1>2. CASE IssuerPoll
  BY <1>1, <1>2, IssuerPollOffer DEF OfferInv
<1>3. CASE IssuerSendOffer
  BY <1>1, <1>3, IssuerSendOfferOffer DEF OfferInv
<1>4. CASE IssuerSendCredential \/ IssuerRevokeCredential
  BY <1>1, <1>4, IssuerFinishOffer DEF OfferInv
<1>5. CASE HolderPoll
  BY <1>1, <1>5, HolderPollOffer DEF OfferInv
<1>6. CASE HolderProposal \/ HolderRequest \/ HolderReject
  BY <1>1, <1>6, HolderCommandOffer DEF OfferInv
<1>7. CASE UNCHANGED vars
  BY <1>1, <1>7 DEF OfferInv, vars, issuerVars, holderVars, HolderOfferCurrent,
                    OfferToken, PendingOffers, PendingCounters
<1>. QED
  BY <1>2, <1>3, <1>4, <1>5, <1>6, <1>7 DEF Next

\* HolderOfferCurrent: a holder in OfferReceived answers the issuer's
\* current offer, for every value of the constants, provided
\* update_message_status and the send callbacks never fail after their
\* effect and no other interaction's counter-proposal is pending at the
\* issuer (an Initial issuer adopts any proposal, so a foreign one on the
\* adopted thread would be taken as the holder's answer).
THEOREM OfferCurrent ==
    ASSUME ~MayAckFail, ~MaySendTimeOut, NoForeignCounter
    PROVE  Spec => []HolderOfferCurrent
<1>1. Init => OfferInv
  BY OfferInvInit
<1>2. OfferInv /\ [Next]_vars => OfferInv'
  BY OfferInvNext
<1>3. OfferInv => HolderOfferCurrent
  BY DEF OfferInv
<1>. QED
  BY <1>1, <1>2, <1>3, PTL DEF Spec

=============================================================================
