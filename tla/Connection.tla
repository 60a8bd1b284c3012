----------------------------- MODULE Connection -----------------------------
(***************************************************************************)
(* The pairwise connection between the Issuer's and the Holder's agent,    *)
(* seen from the issuance protocol: for each side, the set of inbound      *)
(* messages the agency holds for it and that it has not yet marked read.   *)
(* A message stays until the receiver calls update_message_status on it,  *)
(* so one that is never acknowledged is offered again at every poll; the  *)
(* connection neither orders nor loses them.                               *)
(***************************************************************************)
EXTENDS IssuanceMessages

VARIABLES
    toIssuer,   \* unread messages pending for the issuer
    toHolder    \* unread messages pending for the holder

ConnectionTypeOK ==
    /\ toIssuer \subseteq Message
    /\ toHolder \subseteq Message

=============================================================================
