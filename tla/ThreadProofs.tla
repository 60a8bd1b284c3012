----------------------------- MODULE ThreadProofs -----------------------------
(***************************************************************************)
(* Proof that the issuer's thread id never changes once it has left       *)
(* Initial (ThreadIdStable), when the send callbacks never fail after     *)
(* delivering and no other interaction's counter-proposal is pending at   *)
(* the issuer.  Acknowledgements may fail.                                *)
(*                                                                         *)
(* The thread changes after Initial only when CredentialOfferSend in      *)
(* ProposalReceived threads the offer on the stored proposal.  That       *)
(* proposal names the issuer's thread: a counter-proposal is taken only   *)
(* as a reply on the thread, and the proposal taken in Initial carries no *)
(* decorator, because a counter-proposal can exist only after the issuer  *)
(* has sent an offer and left Initial.                                    *)
(***************************************************************************)
EXTENDS OfferProofs

USE NoneAssumption, FreshIdAssumption, CapacityAssumption, TimeOutAssumption,
    IssuerThreadAssumption, HolderThreadAssumption, NoiseAssumption,
    AckAssumption

\* The stored proposal is threaded on the issuer's thread.
ProposalOnThread ==
    iState = "ProposalReceived" => GetThreadId(iProposal) = iThread

\* While the issuer is in Initial it has sent no offer, so the holder has
\* none to answer and no counter-proposal is on its way.
NothingAnswered ==
    iState = "Initial" =>
        /\ PendingOffers = {}
        /\ PendingCounters = {}
        /\ hState # "OfferReceived"

\* The inductive invariant.
ThreadInv == TypeInv /\ NothingAnswered /\ ProposalOnThread

LEMMA ThreadInvInit ==
    ASSUME NoForeignCounter
    PROVE  Init => ThreadInv
<1> SUFFICES ASSUME Init PROVE ThreadInv
  OBVIOUS
<1>1. TypeInv
  BY TypeInvInit
<1>2. PendingOffers = {} /\ PendingCounters = {} /\ hState = "Initial"
  BY DEF Init, HolderInit, PendingOffers, PendingCounters, NoForeignCounter
<1>3. iState = "Initial"
  BY DEF Init, IssuerInit
<1>. QED
  BY <1>1, <1>2, <1>3 DEF ThreadInv, NothingAnswered, ProposalOnThread

\* Every issuer step leaves Initial or starts outside it, and a proposal
\* it stores is on the thread it then has.
LEMMA IssuerStepThread ==
    ASSUME ~MaySendTimeOut, ThreadInv,
           IssuerPoll \/ IssuerSendOffer \/ IssuerSendCredential
           \/ IssuerRevokeCredential
    PROVE  (NothingAnswered /\ ProposalOnThread)'
<1>1. iState' # "Initial"
  BY OnlyOk DEF IssuerPoll, IssuerUpdateState, ReceiveProposal, ReceiveRequest,
                ReceiveCounterProposal, ReceiveProblemReport, IssuerSendOffer,
                IssuerOfferSend, OfferSendFromInitial, OfferSendFromProposal,
                IssuerSendCredential, IssuerCredentialSend, CredentialIssued,
                CredentialNotIssued, IssuerRevokeCredential, IssuerRevoke
<1>2. NothingAnswered'
  BY <1>1 DEF NothingAnswered
<1>. SUFFICES ProposalOnThread'
  BY <1>2
<1>3. CASE IssuerPoll
  <2>1. PICK m \in Handleable :
            /\ \/ ReceiveProposal(m) \/ ReceiveRequest(m)
               \/ ReceiveCounterProposal(m) \/ ReceiveProblemReport(m)
    BY <1>3 DEF IssuerPoll, IssuerUpdateState
  <2>2. CASE ReceiveProposal(m)
    <3>1. iState = "Initial" /\ m \in toIssuer /\ m.type = "Proposal"
      BY <2>2, HandleableInBag DEF ReceiveProposal
    <3>2. m.thid = None
      BY <3>1 DEF ThreadInv, NothingAnswered, PendingCounters
    <3>. QED
      BY <2>2, <3>2 DEF ReceiveProposal, ProposalOnThread, GetThreadId
  <2>3. CASE ReceiveCounterProposal(m)
    <3>1. iState = "OfferSent" /\ IsReply(m, iThread)
      BY <2>3 DEF ReceiveCounterProposal, Handleable
    <3>. QED
      BY <2>3, <3>1 DEF ReceiveCounterProposal, IsReply, ProposalOnThread,
                        GetThreadId
  <2>4. CASE ReceiveRequest(m) \/ ReceiveProblemReport(m)
    BY <2>4 DEF ReceiveRequest, ReceiveProblemReport, ProposalOnThread
  <2>. QED
    BY <2>1, <2>2, <2>3, <2>4
<1>4. CASE IssuerSendOffer
  BY <1>4, OnlyOk DEF IssuerSendOffer, IssuerOfferSend, OfferSendFromInitial,
                     OfferSendFromProposal, ProposalOnThread
<1>5. CASE IssuerSendCredential \/ IssuerRevokeCredential
  BY <1>5 DEF IssuerSendCredential, IssuerCredentialSend, CredentialIssued,
              CredentialNotIssued, IssuerRevokeCredential, IssuerRevoke,
              ProposalOnThread
<1>. QED
  BY <1>3, <1>4, <1>5

\* While the issuer is in Initial there is no offer for the holder to
\* take, so the holder neither holds one nor sends a counter-proposal.
LEMMA HolderStepThread ==
    ASSUME ThreadInv,
           HolderPoll \/ HolderProposal \/ HolderRequest \/ HolderReject
    PROVE  (NothingAnswered /\ ProposalOnThread)'
<1>1. UNCHANGED <<iState, iThread, iProposal>>
  BY DEF HolderPoll, HolderProposal, HolderRequest, HolderReject, issuerVars
<1>2. ProposalOnThread'
  BY <1>1 DEF ThreadInv, ProposalOnThread
<1>3. CASE iState # "Initial"
  BY <1>1, <1>2, <1>3 DEF NothingAnswered
<1>4. CASE iState = "Initial"
  <2>1. PendingOffers = {} /\ PendingCounters = {} /\ hState # "OfferReceived"
    BY <1>4 DEF ThreadInv, NothingAnswered
  <2>2. CASE HolderPoll
    <3>1. PICK m \in HolderHandleable :
              /\ \/ HolderReceiveOffer(m) \/ HolderReceiveCredential(m)
                 \/ HolderReceiveProblemReport(m)
              /\ toHolder' \subseteq toHolder
      BY <2>2 DEF HolderPoll, HolderUpdateState
    <3>2. ~HolderReceiveOffer(m)
      BY <2>1, HandleableInBag DEF HolderReceiveOffer, PendingOffers
    <3>3. hState' # "OfferReceived"
      BY <2>1, <3>1, <3>2 DEF HolderReceiveCredential, HolderReceiveProblemReport
    <3>4. PendingOffers' = {} /\ PendingCounters' = {}
      BY <2>1, <2>2, <3>1 DEF HolderPoll, HolderUpdateState, PendingOffers,
                              PendingCounters
    <3>. QED
      BY <1>1, <1>2, <3>3, <3>4 DEF NothingAnswered
  <2>3. CASE HolderProposal \/ HolderRequest \/ HolderReject
    <3>1. HolderProposal /\ hState = "Initial"
      BY <2>1, <2>3 DEF HolderProposal, HolderSendProposal, HolderRequest,
                        HolderSendRequest, HolderReject, HolderRejectOffer
    <3>2. hState' # "OfferReceived" /\ UNCHANGED toHolder
      BY <3>1 DEF HolderProposal, HolderSendProposal
    <3>3. toIssuer' = toIssuer \cup {Msg("Proposal", hThread, None, None)}
      BY <3>1 DEF HolderProposal, HolderSendProposal
    <3>4. PendingOffers' = {} /\ PendingCounters' = {}
      BY <2>1, <3>2, <3>3 DEF PendingOffers, PendingCounters, Msg
    <3>. QED
      BY <1>1, <1>2, <3>2, <3>4 DEF NothingAnswered
  <2>. QED
    BY <2>2, <2>3
<1>. QED
  BY <1>3, <1>4

LEMMA ThreadInvNext ==
    ASSUME ~MaySendTimeOut
    PROVE  ThreadInv /\ [Next]_vars => ThreadInv'
<1> SUFFICES ASSUME ThreadInv, [Next]_vars PROVE ThreadInv'
  OBVIOUS
<1>1. TypeInv'
  BY TypeInvNext DEF ThreadInv
<1>2. CASE IssuerPoll \/ IssuerSendOffer \/ IssuerSendCredential
           \/ IssuerRevokeCredential
  BY <1>1, <1>2, IssuerStepThread DEF ThreadInv
<1>3. CASE HolderPoll \/ HolderProposal \/ HolderRequest \/ HolderReject
  BY <1>1, <1>3, HolderStepThread DEF ThreadInv
<1>4. CASE UNCHANGED vars
  BY <1>1, <1>4 DEF ThreadInv, vars, issuerVars, holderVars, NothingAnswered,
                    ProposalOnThread, PendingOffers, PendingCounters
<1>. QED
  BY <1>2, <1>3, <1>4 DEF Next

\* A step outside Initial keeps the thread: CredentialOfferSend in
\* ProposalReceived threads the offer on the issuer's own thread.
LEMMA ThreadStep ==
    ASSUME ThreadInv, [Next]_vars
    PROVE  iState # "Initial" => iThread' = iThread
<1> SUFFICES ASSUME iState # "Initial" PROVE iThread' = iThread
  OBVIOUS
<1>1. CASE IssuerPoll
  BY <1>1 DEF IssuerPoll, IssuerUpdateState, ReceiveProposal, ReceiveRequest,
              ReceiveCounterProposal, ReceiveProblemReport
<1>2. CASE IssuerSendOffer
  <2>1. PICK rr \in BOOLEAN, out \in SendOutcomes :
            OfferSendFromInitial(rr, out) \/ OfferSendFromProposal(rr, out)
    BY <1>2 DEF IssuerSendOffer, IssuerOfferSend
  <2>2. ~OfferSendFromInitial(rr, out)
    BY DEF OfferSendFromInitial
  <2>3. GetThreadId(iProposal) = iThread
    BY <2>1, <2>2 DEF OfferSendFromProposal, ThreadInv, ProposalOnThread
  <2>. QED
    BY <2>1, <2>2, <2>3 DEF OfferSendFromProposal
<1>3. CASE IssuerSendCredential \/ IssuerRevokeCredential
  BY <1>3 DEF IssuerSendCredential, IssuerCredentialSend, IssuerRevokeCredential,
              IssuerRevoke
<1>4. CASE HolderPoll \/ HolderProposal \/ HolderRequest \/ HolderReject
       \/ UNCHANGED vars
  BY <1>4 DEF HolderPoll, HolderProposal, HolderRequest, HolderReject,
              issuerVars, vars
<1>. QED
  BY <1>1, <1>2, <1>3, <1>4 DEF Next

\* ThreadIdStable: once the issuer has left Initial its thread id never
\* changes, so every later message of the interaction is correlated by
\* one id, for every value of the constants, provided the send callback
\* never reports an error for a message it delivered and no other
\* interaction's counter-proposal is pending at the issuer.  The
\* acknowledgements may fail.  A timed-out offer in Initial lets the
\* holder's counter-proposal be adopted by its @id (run timeout_thread).
THEOREM ThreadStable ==
    ASSUME ~MaySendTimeOut, NoForeignCounter
    PROVE  Spec => ThreadIdStable
<1>1. Init => ThreadInv
  BY ThreadInvInit
<1>2. ThreadInv /\ [Next]_vars => ThreadInv'
  BY ThreadInvNext
<1>3. ThreadInv /\ [Next]_vars => [iState # "Initial" => iThread' = iThread]_vars
  BY ThreadStep
<1>. QED
  BY <1>1, <1>2, <1>3, PTL DEF Spec, ThreadIdStable

=============================================================================
