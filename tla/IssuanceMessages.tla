-------------------------- MODULE IssuanceMessages --------------------------
(***************************************************************************)
(* The message taxonomy of the Issue Credential protocol and the thread   *)
(* correlation predicates both state machines use.                        *)
(*                                                                         *)
(* A protocol message is abstracted to its variant tag, its own @id (the  *)
(* id of a message that opens a thread is that thread's id; every other   *)
(* message gets a fresh uuid, FreshId), its ~thread.thid reference (None  *)
(* when the message carries no thread decorator) and, for a Credential, the revocation index (cred_rev_id)   *)
(* of the credential it carries.  Payloads, comments, attachments and the *)
(* JSON framing are left out: the selector and the verifier never look at *)
(* them.                                                                   *)
(***************************************************************************)
EXTENDS Naturals

CONSTANTS
    Threads,           \* thread ids (uuids) that occur in a run
    FreshId,           \* the @id of a message that does not open a thread
    None,              \* an absent Option value
    RegistryCapacity,  \* max_cred_num of the revocation registry
    MaySendTimeOut     \* TRUE: a send callback may fail after delivering

ASSUME NoneAssumption == None \notin Threads
ASSUME FreshIdAssumption == FreshId \in Threads
ASSUME CapacityAssumption == RegistryCapacity \in Nat \ {0}
ASSUME TimeOutAssumption == MaySendTimeOut \in BOOLEAN

\* cred_rev_id values the revocation registry can hand out.
RevIds == 1..RegistryCapacity

\* A2AMessage variants of the issuance protocol (Ack stands for both Ack
\* and CredentialAck, which the issuer selector treats alike).
MsgTypes == {"Proposal", "Offer", "Request", "Credential", "Ack", "ProblemReport"}

Message ==
    [type : MsgTypes, id : Threads, thid : Threads \cup {None},
     rev : RevIds \cup {None}]

Msg(type, id, thid, rev) == [type |-> type, id |-> id, thid |-> thid, rev |-> rev]

\* from_thread(tid): the message's thread reference names tid.
FromThread(m, tid) == m.thid = tid

\* thread.is_reply(tid) on a message that carries a thread decorator.
IsReply(m, tid) == m.thid # None /\ m.thid = tid

\* get_thread_id(): the ~thread.thid when present, else the message's @id.
GetThreadId(m) == IF m.thid # None THEN m.thid ELSE m.id

\* verify_thread_id: an inbound message that carries a thread reference
\* must name the interaction's thread, unless the machine is adopting the
\* thread of this message (its first inbound message).
VerifyThreadId(tid, m, adopting) ==
    adopting \/ m.thid = None \/ m.thid = tid

=============================================================================
