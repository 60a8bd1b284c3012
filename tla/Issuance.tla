------------------------------ MODULE Issuance ------------------------------
(***************************************************************************)
(* One credential-issuance interaction: an Issuer and a Holder talking    *)
(* over their pairwise connection.  Each agent's application may call any *)
(* operation of its side at any time; the agents' polls and commands      *)
(* interleave freely.  The connection may also hold messages of other     *)
(* interactions that share it (IssuerNoise), which the issuer's selector  *)
(* has to keep apart from its own.                                        *)
(***************************************************************************)
EXTENDS IssuerSM, HolderSM

CONSTANT IssuerNoise   \* messages of other interactions pending at the issuer

ASSUME NoiseAssumption == IssuerNoise \subseteq Message

vars == <<issuerVars, holderVars, toIssuer, toHolder>>

TypeOK ==
    /\ IssuerTypeOK
    /\ HolderTypeOK
    /\ ConnectionTypeOK

Init ==
    /\ IssuerInit
    /\ HolderInit
    /\ toIssuer = IssuerNoise
    /\ toHolder = {}

\* Each step is one operation of one side; the other side's machine is
\* untouched.
IssuerPoll == IssuerUpdateState /\ UNCHANGED holderVars
IssuerSendOffer == IssuerOfferSend /\ UNCHANGED holderVars
IssuerSendCredential == IssuerCredentialSend /\ UNCHANGED holderVars
IssuerRevokeCredential == IssuerRevoke /\ UNCHANGED holderVars
HolderPoll == HolderUpdateState /\ UNCHANGED issuerVars
HolderProposal == HolderSendProposal /\ UNCHANGED issuerVars
HolderRequest == HolderSendRequest /\ UNCHANGED issuerVars
HolderReject == HolderRejectOffer /\ UNCHANGED issuerVars

Next ==
    \/ IssuerPoll
    \/ IssuerSendOffer
    \/ IssuerSendCredential
    \/ IssuerRevokeCredential
    \/ HolderPoll
    \/ HolderProposal
    \/ HolderRequest
    \/ HolderReject

Spec == Init /\ [][Next]_vars

-----------------------------------------------------------------------------
(***************************************************************************)
(* Properties.                                                             *)
(***************************************************************************)

\* The cred_rev_id the issuer recorded for its credential, None if none.
RecordedRevId == IF iState = "Finished" THEN iCredRevId ELSE None

\* Agreement: a holder that finished holds the credential the issuer
\* finished with success and recorded, so the issuer's revoke() revokes
\* exactly the holder's credential.  At stake: handle_message's
\* CredentialSend branch and the holder's acceptance of a Credential.
Agreement ==
    hState = "Finished" =>
        /\ iState = "Finished"
        /\ iStatus = "Success"
        /\ hCred = iCredRevId

\* Once the issuer has left Initial, its thread id never changes: every
\* message of the interaction is correlated by the same id (spec, section
\* 3).  At stake: the thread adopted from a proposal and the one set by
\* CredentialOfferSend in ProposalReceived.
ThreadIdStable ==
    [][iState # "Initial" => iThread' = iThread]_vars

\* Once both sides have finished, the credential the holder stored is the
\* one whose cred_rev_id the issuer recorded, so the issuer's revoke()
\* reaches it.  At stake: a CredentialSend that delivered its Credential
\* but returned an error, and is then retried.
HolderCredentialRevocable ==
    hState = "Finished" /\ iState = "Finished" => hCred = iCredRevId

\* A holder that holds an offer is answering the issuer's current offer:
\* the issuer is waiting in OfferSent or has moved past it.  At stake: a
\* holder that counter-proposes must not take an old offer for the answer.
\* update_state marks the handled message read only after step() has
\* replaced the machine, so a failed acknowledgement leaves the offer to
\* be handled again.
HolderOfferCurrent ==
    hState = "OfferReceived" =>
        iState \in {"OfferSent", "RequestReceived", "Finished"}

\* Every revocation index that is on its way to the holder, stored by the
\* holder, recorded by the issuer or revoked is one the registry has
\* spent; the recorded one is the last spent, so every earlier one belongs
\* to a failed or retried CredentialSend; and only the recorded one is ever
\* revoked.  At stake: _create_credential spends the index before the
\* send, whose error (a timeout after delivery, or a lost message) keeps
\* the issuer in RequestReceived for a retry that spends another.
IndicesSpent ==
    /\ \A m \in toHolder :
          m.type = "Credential" /\ m.rev # None => m.rev \in 1..issued
    /\ hCred # None => hCred \in 1..issued
    /\ iCredRevId # None => iCredRevId = issued
    /\ revoked \subseteq {iCredRevId} \ {None}

(***************************************************************************)
(* Refinement.  The interaction seen through its outcomes: the issuer has *)
(* issued when it is Finished with status Success, and has given up when  *)
(* it is Finished otherwise; the holder holds its credential in Finished  *)
(* and has given up in Failed.  The issued credential is the recorded     *)
(* cred_rev_id, and it is revoked once the registry has revoked it.       *)
(***************************************************************************)
AbsIssuerOutcome ==
    IF iState = "Finished"
        THEN IF iStatus = "Success" THEN "Issued" ELSE "Failed"
        ELSE "Open"

AbsHolderOutcome ==
    CASE hState = "Finished" -> "Holding"
      [] hState = "Failed" -> "Failed"
      [] OTHER -> "Open"

Abstract == INSTANCE IssuanceAbstract WITH
    RevIdValues <- RevIds,
    NoRev <- None,
    issuerOutcome <- AbsIssuerOutcome,
    holderOutcome <- AbsHolderOutcome,
    issuedRev <- RecordedRevId,
    heldRev <- IF hState = "Finished" THEN hCred ELSE None,
    revokedFlag <- RecordedRevId # None /\ RecordedRevId \in revoked

\* Issuance implements the abstract interaction: every step of the two
\* machines is an abstract step or leaves the outcomes alone.  Outcomes are
\* final, the holder accepts only the credential the issuer issued, and a
\* revocation reaches only that credential.  At stake: every handler that
\* enters Finished or Failed, CredentialSend's recording of cred_rev_id,
\* and revoke().
ImplementsAbstract == Abstract!ASpec

\* Every revocation index the registry handed out is the one the issuer
\* recorded, so none is spent on a credential the issuer cannot revoke.
\* At stake: the credential issued before a failing send in CredentialSend.
NoOrphanCredential ==
    \A r \in 1..issued : r = RecordedRevId

=============================================================================
