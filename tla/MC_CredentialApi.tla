-------------------------- MODULE MC_CredentialApi --------------------------
(***************************************************************************)
(* Model-checking instance of CredentialApi: the uuids and issuer inbox of *)
(* MC_Issuance, two command handles, and a holder connection that also     *)
(* carries a Credential and a ProblemReport of another interaction (on     *)
(* thread tX), which only verify_thread_id keeps away from the object.    *)
(***************************************************************************)
EXTENDS CredentialApi, MC_Issuance

CONSTANTS c1, c2

MCCmds == {c1, c2}

\* One call in flight at a time.
MCOneCmd == {c1}

\* Messages of the other interaction on thread tX, unread at the holder.
MCHolderNoise ==
    {Msg("Credential", tF, tX, 1), Msg("ProblemReport", tF, tX, None)}

\* The functions that drive the protocol.
MCProtocolOps ==
    {"create_with_offer", "send_request", "decline_offer", "update_state",
     "update_state_with_message"}

\* The functions that read, store, restore and delete the object.
MCHousekeepingOps ==
    {"create_with_msgid", "serialize", "deserialize", "delete_credential",
     "get_state", "get_offers", "get_credential", "get_attributes",
     "get_attachment", "get_tails_location", "get_tails_hash", "get_rev_reg_id",
     "get_thread_id", "is_revokable", "get_request_msg", "send_request",
     "update_state"}

=============================================================================
