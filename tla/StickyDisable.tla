--------------------------- MODULE StickyDisable ---------------------------
(***************************************************************************)
(* CredentialHealth with the administrator's intent written down: the set   *)
(* of credentials an administrator (or the file read at start) has switched *)
(* off and nobody has switched on since.  adminOff is a history variable;   *)
(* no action of CredentialHealth reads it.                                  *)
(***************************************************************************)
EXTENDS CredentialHealth

VARIABLE adminOff

IntentInit == Init /\ adminOff = {c \in Creds : disabled_reason[c] = "Manual"}

SwitchOff(c) == set_disabled(c, TRUE) /\ adminOff' = adminOff \cup {c}

SwitchOn(c) ==
    /\ set_disabled(c, FALSE) \/ reset_and_enable(c)
    /\ adminOff' = adminOff \ {c}

\* Everything that is not an administrator switching a credential.
Automatic ==
    /\ \/ \E r \in Requests : RequestStep(r)
       \/ \E c \in Creds : \/ force_refresh_token_for(c)
                           \/ RefresherStep(c)
                           \/ mark_insufficient_balance(c)
       \/ Clock
    /\ UNCHANGED adminOff

IntentNext == Automatic \/ \E c \in Creds : SwitchOff(c) \/ SwitchOn(c)

IntentSpec == IntentInit /\ [][IntentNext]_<<vars, adminOff>>

\* token_manager.rs:774 calls a manual disable sticky: what an administrator
\* switched off stays off until it is switched on.  The report of a call that was
\* in flight replaces the reason, and the reprobe then enables the credential.
ManualIsSticky == \A c \in adminOff : disabled[c]

=============================================================================
