------------------------------ MODULE HolderSM ------------------------------
(***************************************************************************)
(* The Holder (aries_vcx handlers/issuance/holder/holder.rs) and the       *)
(* HolderSM it wraps.  holder.rs is translated from the source: the        *)
(* command methods, step(), which keeps the old machine when the handler  *)
(* fails, and update_state().  HolderSM itself is not in the repository's  *)
(* sources; its transitions and its selector follow the transition table  *)
(* and the acceptance sets of the specification (sections 4.2 and 4.4).  *)
(***************************************************************************)
EXTENDS Connection

CONSTANTS
    HolderThread,   \* MessageId::new() drawn by HolderSM::new
    MayAckFail      \* TRUE: update_message_status may fail after a step

ASSUME HolderThreadAssumption == HolderThread \in Threads
ASSUME AckAssumption == MayAckFail \in BOOLEAN

VARIABLES
    hState,    \* HolderState
    hThread,   \* HolderSM.thread_id
    hCred      \* cred_rev_id of the stored credential, or None

holderVars == <<hState, hThread, hCred>>

HolderStates ==
    {"Initial", "ProposalSent", "OfferReceived", "RequestSent", "Finished", "Failed"}

HolderTypeOK ==
    /\ hState \in HolderStates
    /\ hThread \in Threads
    /\ hCred \in RevIds \cup {None}

\* Holder::create
HolderInit ==
    /\ hState = "Initial"
    /\ hThread = HolderThread
    /\ hCred = None

\* Bug variant: the offer's ~thread.thid is adopted instead of its thread id.
HolderCreateFromOfferUsingThid(m) ==
    /\ m.type = "Offer"
    /\ hState' = "OfferReceived"
    /\ hThread' = m.thid
    /\ hCred' = None

\* Holder::create_from_offer: HolderSM::from_offer starts in OfferReceived
\* on the offer's thread.
HolderCreateFromOffer(m) ==
    /\ m.type = "Offer"
    /\ hState' = "OfferReceived"
    /\ hThread' = GetThreadId(m)
    /\ hCred' = None

HolderIsTerminal == hState \in {"Finished", "Failed"}

\* HolderSM::find_message_to_handle.  In Initial any offer is taken (its
\* thread is adopted); later only messages of the holder's thread.
HolderHandleable ==
    CASE hState = "Initial" ->
            {m \in toHolder : m.type = "Offer"}
      [] hState = "ProposalSent" ->
            {m \in toHolder :
                m.type \in {"Offer", "ProblemReport"} /\ FromThread(m, hThread)}
      [] hState = "RequestSent" ->
            {m \in toHolder :
                m.type \in {"Credential", "ProblemReport"} /\ FromThread(m, hThread)}
      [] OTHER -> {}

(***************************************************************************)
(* HolderSM::handle_message for inbound messages.                         *)
(***************************************************************************)

\* Initial + CredentialOffer: adopt the offer's thread (create_from_offer).
HolderReceiveOffer(m) ==
    /\ hState \in {"Initial", "ProposalSent"} /\ m.type = "Offer"
    /\ hState' = "OfferReceived"
    /\ hThread' = IF hState = "Initial" THEN GetThreadId(m) ELSE hThread
    /\ UNCHANGED hCred

\* RequestSent + Credential: the credential is stored in the wallet.
HolderReceiveCredential(m) ==
    /\ hState = "RequestSent" /\ m.type = "Credential"
    /\ hState' = "Finished"
    /\ hCred' = m.rev
    /\ UNCHANGED hThread

\* RequestSent + ProblemReport: Failed.  ProposalSent + ProblemReport is
\* accepted by the selector but has no transition: the state is unchanged
\* and the message is still marked read.
HolderReceiveProblemReport(m) ==
    /\ m.type = "ProblemReport"
    /\ hState' = IF hState = "RequestSent" THEN "Failed" ELSE hState
    /\ UNCHANGED <<hThread, hCred>>

\* Outcomes of update_message_status: the message is marked read, or (when
\* MayAckFail) the call fails and the message stays unread.
AckOutcomes == IF MayAckFail THEN {TRUE, FALSE} ELSE {TRUE}

\* Bug variant: update_message_status is never called.
HolderUpdateStateWithoutAck ==
    /\ ~HolderIsTerminal
    /\ \E m \in HolderHandleable :
          /\ VerifyThreadId(hThread, m, hState = "Initial")
          /\ \/ HolderReceiveOffer(m)
             \/ HolderReceiveCredential(m)
             \/ HolderReceiveProblemReport(m)
          /\ UNCHANGED toHolder
    /\ UNCHANGED toIssuer

\* Holder::update_state: return at once when terminal; otherwise step() on
\* one handleable message and then update_message_status on it.  step()
\* has already replaced the machine when update_message_status fails, so
\* the new state stays and so does the message.
HolderUpdateState ==
    /\ ~HolderIsTerminal
    /\ \E m \in HolderHandleable, acked \in AckOutcomes :
          /\ VerifyThreadId(hThread, m, hState = "Initial")
          /\ \/ HolderReceiveOffer(m)
             \/ HolderReceiveCredential(m)
             \/ HolderReceiveProblemReport(m)
          /\ toHolder' = IF acked THEN toHolder \ {m} ELSE toHolder
    /\ UNCHANGED toIssuer

(***************************************************************************)
(* Commands.  step() runs handle_message on a clone, so an error of the   *)
(* send callback leaves the old machine in place; a message that was      *)
(* delivered all the same (MaySendTimeOut) is left on the connection.     *)
(***************************************************************************)
HolderSendOutcomes == IF MaySendTimeOut THEN {"Ok", "TimedOut"} ELSE {"Ok"}

\* Holder::send_proposal.  From Initial the proposal opens the thread (its
\* @id is the holder's thread id); from OfferReceived it is a reply on it.
HolderSendProposal ==
    /\ hState \in {"Initial", "OfferReceived"}
    /\ \E out \in HolderSendOutcomes :
          /\ toIssuer' = toIssuer \cup
                {IF hState = "Initial" THEN Msg("Proposal", hThread, None, None)
                                       ELSE Msg("Proposal", FreshId, hThread, None)}
          /\ hState' = IF out = "Ok" THEN "ProposalSent" ELSE hState
    /\ UNCHANGED <<hThread, hCred, toHolder>>

\* Holder::send_request: a CredentialRequest on the thread.
HolderSendRequest ==
    /\ hState = "OfferReceived"
    /\ \E out \in HolderSendOutcomes :
          /\ toIssuer' = toIssuer \cup {Msg("Request", FreshId, hThread, None)}
          /\ hState' = IF out = "Ok" THEN "RequestSent" ELSE hState
    /\ UNCHANGED <<hThread, hCred, toHolder>>

\* Holder::reject_offer: a ProblemReport on the thread, then Failed.
HolderRejectOffer ==
    /\ hState = "OfferReceived"
    /\ \E out \in HolderSendOutcomes :
          /\ toIssuer' = toIssuer \cup {Msg("ProblemReport", FreshId, hThread, None)}
          /\ hState' = IF out = "Ok" THEN "Failed" ELSE hState
    /\ UNCHANGED <<hThread, hCred, toHolder>>

HolderNext ==
    \/ HolderUpdateState
    \/ HolderSendProposal
    \/ HolderSendRequest
    \/ HolderRejectOffer

=============================================================================
