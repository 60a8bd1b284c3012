-------------------------- MODULE IssuanceAbstract --------------------------
(***************************************************************************)
(* What one credential-issuance interaction promises, with the messages,  *)
(* threads, selectors and sends left out.  The issuer either issues one   *)
(* credential, carrying a revocation id or none, or gives up; the holder  *)
(* either accepts the credential that was issued or gives up.  Outcomes   *)
(* are final.  Only an issued credential that carries a revocation id can *)
(* be revoked.                                                             *)
(***************************************************************************)
CONSTANTS
    RevIdValues,   \* the revocation ids a credential may carry
    NoRev          \* a credential without a revocation id

VARIABLES
    issuerOutcome,   \* Open, Issued, Failed
    holderOutcome,   \* Open, Holding, Failed
    issuedRev,       \* the revocation id of the issued credential
    heldRev,         \* the revocation id of the credential the holder keeps
    revokedFlag      \* the issued credential has been revoked

avars == <<issuerOutcome, holderOutcome, issuedRev, heldRev, revokedFlag>>

AInit ==
    /\ issuerOutcome = "Open"
    /\ holderOutcome = "Open"
    /\ issuedRev = NoRev
    /\ heldRev = NoRev
    /\ revokedFlag = FALSE

Issue ==
    /\ issuerOutcome = "Open"
    /\ issuerOutcome' = "Issued"
    /\ issuedRev' \in RevIdValues \cup {NoRev}
    /\ UNCHANGED <<holderOutcome, heldRev, revokedFlag>>

IssuerGivesUp ==
    /\ issuerOutcome = "Open"
    /\ issuerOutcome' = "Failed"
    /\ UNCHANGED <<holderOutcome, issuedRev, heldRev, revokedFlag>>

Accept ==
    /\ holderOutcome = "Open"
    /\ issuerOutcome = "Issued"
    /\ holderOutcome' = "Holding"
    /\ heldRev' = issuedRev
    /\ UNCHANGED <<issuerOutcome, issuedRev, revokedFlag>>

HolderGivesUp ==
    /\ holderOutcome = "Open"
    /\ holderOutcome' = "Failed"
    /\ UNCHANGED <<issuerOutcome, issuedRev, heldRev, revokedFlag>>

Revoke ==
    /\ issuerOutcome = "Issued"
    /\ issuedRev # NoRev
    /\ ~revokedFlag
    /\ revokedFlag' = TRUE
    /\ UNCHANGED <<issuerOutcome, holderOutcome, issuedRev, heldRev>>

ANext == Issue \/ IssuerGivesUp \/ Accept \/ HolderGivesUp \/ Revoke

ASpec == AInit /\ [][ANext]_avars

=============================================================================
