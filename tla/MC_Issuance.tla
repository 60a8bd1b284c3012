---------------------------- MODULE MC_Issuance ----------------------------
(***************************************************************************)
(* Model-checking instance of Issuance: four uuids (the issuer's and the  *)
(* holder's thread, one of another interaction on the same connection,    *)
(* and the fresh @id of every message that opens no thread), a revocation *)
(* registry of two indices, and a connection that carries a request and a *)
(* problem report of the other interaction.                               *)
(***************************************************************************)
EXTENDS Issuance

CONSTANTS tI, tH, tX, tF

MCThreads == {tI, tH, tX, tF}

\* Messages of the other interaction on thread tX, still unread.
MCNoise ==
    {Msg("Request", tF, tX, None), Msg("ProblemReport", tF, tX, None)}

\* As MCNoise, plus a counter-proposal the other interaction's holder sent
\* on its thread: a Proposal that carries a thread decorator.
MCNoiseWithThreadedProposal ==
    MCNoise \cup {Msg("Proposal", tF, tX, None)}

=============================================================================
