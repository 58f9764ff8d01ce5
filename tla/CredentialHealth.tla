-------------------------- MODULE CredentialHealth --------------------------
(***************************************************************************)
(* The health of the pooled credentials: how MultiTokenManager              *)
(* (kiro/token_manager.rs) counts failures, disables a credential and       *)
(* brings it back.                                                          *)
(*                                                                          *)
(* One record per credential in the code (CredentialEntry) is one function  *)
(* per field here.  Every critical section on `entries` is one action; what *)
(* an async function does between two critical sections is a step of the    *)
(* request or background task that runs it, so that reports of calls still  *)
(* in flight, administrator commands and the reprobe task interleave.       *)
(*                                                                          *)
(* Instants are abstracted to "none" (no deadline), "pending" (in the       *)
(* future) and "due" (in the past).  Statistics, last_error, routing        *)
(* affinity and the credentials file are not state of this module: none of  *)
(* its guards reads them.                                                   *)
(***************************************************************************)
EXTENDS Naturals

CONSTANTS
    Creds,                      \* credential ids
    Requests,                   \* concurrent client requests
    ApiKeyCreds,                \* credentials with authMethod = api_key
    MAX_FAILURES_PER_CREDENTIAL,
    MODEL_UNAVAILABLE_THRESHOLD,
    MaxBackoffLevel,            \* cap of recovery_backoff_level (4 in the code)
    AllowOverUsage,             \* config.allow_over_usage
    NoCred                      \* a request that holds no credential

ASSUME ConstantsAssumption ==
    /\ ApiKeyCreds \subseteq Creds
    /\ NoCred \notin Creds
    /\ MAX_FAILURES_PER_CREDENTIAL \in Nat \ {0}
    /\ MODEL_UNAVAILABLE_THRESHOLD \in Nat \ {0}
    /\ MaxBackoffLevel \in Nat \ {0}
    /\ AllowOverUsage \in BOOLEAN

DisabledReason ==
    {"Manual", "TooManyFailures", "TooManyRefreshFailures", "QuotaExceeded",
     "InvalidRefreshToken", "InvalidConfig", "AuthenticationFailed",
     "CredentialSuspended", "InsufficientBalance", "ModelUnavailable"}

NoReason == "None"

\* Reasons the background task may undo by refreshing the token.
AuthRecoverable ==
    {"AuthenticationFailed", "TooManyRefreshFailures", "InvalidRefreshToken"}

Deadline == {"none", "pending", "due"}

VARIABLES
    disabled,                   \* CredentialEntry.disabled
    disabled_reason,            \* CredentialEntry.disabled_reason
    failure_count,              \* CredentialEntry.failure_count
    refresh_failure_count,      \* CredentialEntry.refresh_failure_count
    reprobe_next,               \* CredentialEntry.reprobe_next
    recovery_backoff_level,     \* CredentialEntry.recovery_backoff_level
    global_recovery_time,       \* MultiTokenManager.global_recovery_time
    model_unavailable_count,    \* MultiTokenManager.model_unavailable_count
    pc,                         \* where each request is
    cred,                       \* the credential each request works with
    task                        \* the background refresh of each credential

entryVars == <<disabled, disabled_reason, failure_count, refresh_failure_count,
               reprobe_next, recovery_backoff_level>>
globalVars == <<global_recovery_time, model_unavailable_count>>
requestVars == <<pc, cred>>
vars == <<entryVars, globalVars, requestVars, task>>

RequestPC == {"idle", "recover", "rank", "token", "call", "disableAll", "report"}
TaskPC == {"none", "queued", "refresh", "reprobe", "refreshed", "outcome"}

-----------------------------------------------------------------------------
(* Helpers on one entry; each is a piece of one critical section. *)

Enabled(c) == ~disabled[c]

AuthDisabled(c) == disabled[c] /\ disabled_reason[c] \in AuthRecoverable

Disable(c, reason) ==
    /\ disabled' = [disabled EXCEPT ![c] = TRUE]
    /\ disabled_reason' = [disabled_reason EXCEPT ![c] = reason]

\* Clears the disable and the call failures of every credential in S.
Reenable(S) ==
    /\ disabled' = [c \in Creds |-> disabled[c] /\ c \notin S]
    /\ disabled_reason' =
           [c \in Creds |-> IF c \in S THEN NoReason ELSE disabled_reason[c]]
    /\ failure_count' = [c \in Creds |-> IF c \in S THEN 0 ELSE failure_count[c]]

ScheduleReprobe(c, level) ==
    /\ recovery_backoff_level' = [recovery_backoff_level EXCEPT ![c] = level]
    /\ reprobe_next' = [reprobe_next EXCEPT ![c] = "pending"]

NoReprobeChange == UNCHANGED <<reprobe_next, recovery_backoff_level>>

Goto(r, label) == pc' = [pc EXCEPT ![r] = label]

\* The request is over, or its retry loop starts another acquisition.
Finish(r) ==
    /\ Goto(r, "idle")
    /\ cred' = [cred EXCEPT ![r] = NoCred]

-----------------------------------------------------------------------------
(* new: reasons other than Manual and InvalidConfig do not survive a start. *)
Init ==
    /\ disabled_reason \in [Creds -> {NoReason, "Manual", "InvalidConfig"}]
    /\ \A c \in Creds : disabled_reason[c] = "InvalidConfig" => c \in ApiKeyCreds
    /\ disabled = [c \in Creds |-> disabled_reason[c] # NoReason]
    /\ failure_count = [c \in Creds |-> 0]
    /\ refresh_failure_count = [c \in Creds |-> 0]
    /\ reprobe_next = [c \in Creds |-> "none"]
    /\ recovery_backoff_level = [c \in Creds |-> 0]
    /\ global_recovery_time = "none"
    /\ model_unavailable_count = 0
    /\ pc = [r \in Requests |-> "idle"]
    /\ cred = [r \in Requests |-> NoCred]
    /\ task = [c \in Creds |-> "none"]

-----------------------------------------------------------------------------
(* Acquiring a credential. *)

\* acquire_context_excluding: check_and_recover reads the deadline, unlocks it.
StartRequest(r) ==
    /\ pc[r] = "idle"
    /\ Goto(r, IF global_recovery_time = "due" THEN "recover" ELSE "rank")
    /\ UNCHANGED <<entryVars, globalVars, cred, task>>

\* Fault: a credential with failures of its own is not brought back.
RecoverOnlyHealthy(r) ==
    /\ pc[r] = "recover"
    /\ Reenable({c \in Creds : /\ disabled_reason[c] = "ModelUnavailable"
                              /\ failure_count[c] = 0})
    /\ global_recovery_time' = "none"
    /\ model_unavailable_count' = 0
    /\ Goto(r, "rank")
    /\ NoReprobeChange
    /\ UNCHANGED <<refresh_failure_count, cred, task>>

\* The rest of check_and_recover: locks again and does not look at the deadline.
Recover(r) ==
    /\ pc[r] = "recover"
    /\ Reenable({c \in Creds : disabled[c] /\ disabled_reason[c] = "ModelUnavailable"})
    /\ global_recovery_time' = "none"
    /\ model_unavailable_count' = 0
    /\ Goto(r, "rank")
    /\ NoReprobeChange
    /\ UNCHANGED <<refresh_failure_count, cred, task>>

\* An affinity hit skips check_and_recover; a ranked request does not.  Both
\* take a credential seen enabled under the lock.
TakeCredential(r, c) ==
    /\ pc[r] \in {"idle", "rank"}
    /\ Enabled(c)
    /\ Goto(r, "token")
    /\ cred' = [cred EXCEPT ![r] = c]
    /\ UNCHANGED <<entryVars, globalVars, task>>

\* No candidate is left for a request that may only use the credentials in
\* `usable` (not excluded by its retries, serving its model): every credential
\* disabled for too many failures is enabled again.
SelfHeal(r, usable) ==
    LET failed == {c \in Creds : disabled_reason[c] = "TooManyFailures"}
    IN  /\ pc[r] = "rank"
        /\ \A c \in usable : disabled[c]
        /\ failed # {}
        /\ Reenable(failed)
        /\ NoReprobeChange
        /\ UNCHANGED <<refresh_failure_count, globalVars, requestVars, task>>

\* The acquisition ends without a credential (no candidate, timeout, attempts).
GiveUp(r) ==
    /\ pc[r] = "rank"
    /\ Finish(r)
    /\ UNCHANGED <<entryVars, globalVars, task>>

\* try_ensure_token: a usable token clears the refresh failures; an api key
\* returns before that.
TokenReady(r) ==
    /\ pc[r] = "token"
    /\ IF cred[r] \in ApiKeyCreds
         THEN UNCHANGED refresh_failure_count
         ELSE refresh_failure_count' = [refresh_failure_count EXCEPT ![cred[r]] = 0]
    /\ Goto(r, "call")
    /\ UNCHANGED <<disabled, disabled_reason, failure_count, globalVars, cred, task>>
    /\ NoReprobeChange

\* report_refresh_failure, and the loop tries another credential.
report_refresh_failure(r) ==
    LET c == cred[r]
        n == refresh_failure_count[c] + 1
    IN  /\ pc[r] = "token"
        /\ Goto(r, "rank")
        /\ cred' = [cred EXCEPT ![r] = NoCred]
        /\ IF disabled[c]
              THEN UNCHANGED entryVars
              ELSE /\ refresh_failure_count' = [refresh_failure_count EXCEPT ![c] = n]
                   /\ IF n >= MAX_FAILURES_PER_CREDENTIAL
                        THEN Disable(c, "TooManyRefreshFailures") /\ ScheduleReprobe(c, 1)
                        ELSE UNCHANGED <<disabled, disabled_reason>> /\ NoReprobeChange
                   /\ UNCHANGED failure_count
        /\ UNCHANGED <<globalVars, task>>

\* report_refresh_token_invalid (invalid_grant): disabled at once.
report_refresh_token_invalid(r) ==
    LET c == cred[r]
    IN  /\ pc[r] = "token"
        /\ c \notin ApiKeyCreds
        /\ Goto(r, "rank")
        /\ cred' = [cred EXCEPT ![r] = NoCred]
        /\ IF disabled[c]
              THEN UNCHANGED entryVars
              ELSE /\ Disable(c, "InvalidRefreshToken")
                   /\ ScheduleReprobe(c, 1)
                   /\ UNCHANGED <<failure_count, refresh_failure_count>>
        /\ UNCHANGED <<globalVars, task>>

-----------------------------------------------------------------------------
(* The outcome of an upstream call (call_api_with_retry, try_single_endpoint). *)

report_success(r) ==
    /\ pc[r] = "call"
    /\ failure_count' = [failure_count EXCEPT ![cred[r]] = 0]
    /\ refresh_failure_count' = [refresh_failure_count EXCEPT ![cred[r]] = 0]
    /\ Finish(r)
    /\ UNCHANGED <<disabled, disabled_reason, globalVars, task>>
    /\ NoReprobeChange

\* Fault: the limit itself does not disable yet.
ReportFailureLate(r) ==
    LET c == cred[r]
        n == failure_count[c] + 1
    IN  /\ pc[r] \in {"call", "report"}
        /\ Finish(r)
        /\ IF disabled[c]
              THEN UNCHANGED <<disabled, disabled_reason, failure_count>>
              ELSE /\ failure_count' = [failure_count EXCEPT ![c] = n]
                   /\ IF n > MAX_FAILURES_PER_CREDENTIAL
                        THEN Disable(c, "TooManyFailures")
                        ELSE UNCHANGED <<disabled, disabled_reason>>
        /\ UNCHANGED <<refresh_failure_count, globalVars, task>>
        /\ NoReprobeChange

\* A failure of the call itself, or the Generic failure that ends "report".
report_failure(r) ==
    LET c == cred[r]
        n == failure_count[c] + 1
    IN  /\ pc[r] \in {"call", "report"}
        /\ Finish(r)
        /\ IF disabled[c]
              THEN UNCHANGED <<disabled, disabled_reason, failure_count>>
              ELSE /\ failure_count' = [failure_count EXCEPT ![c] = n]
                   /\ IF n >= MAX_FAILURES_PER_CREDENTIAL
                        THEN Disable(c, "TooManyFailures")
                        ELSE UNCHANGED <<disabled, disabled_reason>>
        /\ UNCHANGED <<refresh_failure_count, globalVars, task>>
        /\ NoReprobeChange

\* Transient outcomes (network error, 429, 5xx, profile unavailable): the
\* credential is only excluded from this request or cooled down.
TransientFailure(r) ==
    /\ pc[r] = "call"
    /\ Finish(r)
    /\ UNCHANGED <<entryVars, globalVars, task>>

\* 402 MONTHLY_REQUEST_COUNT: Fatal, so report_failure follows.
report_quota_exhausted(r) ==
    LET c == cred[r]
    IN  /\ pc[r] = "call"
        /\ Goto(r, "report")
        /\ IF AllowOverUsage \/ disabled[c]
              THEN UNCHANGED <<disabled, disabled_reason, failure_count>>
              ELSE /\ Disable(c, "QuotaExceeded")
                   /\ failure_count' =
                          [failure_count EXCEPT ![c] = MAX_FAILURES_PER_CREDENTIAL]
        /\ UNCHANGED <<refresh_failure_count, globalVars, cred, task>>
        /\ NoReprobeChange

\* mark_credential_banned does not look at what the entry was before.
mark_credential_banned(c, reason) ==
    /\ Disable(c, reason)
    /\ IF reason \in AuthRecoverable THEN ScheduleReprobe(c, 1) ELSE NoReprobeChange
    /\ UNCHANGED <<failure_count, refresh_failure_count>>

CallBanned(r, reason) ==
    /\ pc[r] = "call"
    /\ mark_credential_banned(cred[r], reason)
    /\ Finish(r)
    /\ UNCHANGED <<globalVars, task>>

\* 401/403: the first one forces a refresh; if that works the call is retried.
CallForceRefreshed(r) ==
    /\ pc[r] = "call"
    /\ cred[r] \notin ApiKeyCreds
    /\ refresh_failure_count' = [refresh_failure_count EXCEPT ![cred[r]] = 0]
    /\ Finish(r)
    /\ UNCHANGED <<disabled, disabled_reason, failure_count, globalVars, task>>
    /\ NoReprobeChange

\* report_model_unavailable: the atomic increment.  The counter saturates at
\* the threshold, the only value it is compared with.
report_model_unavailable(r) ==
    LET n == model_unavailable_count + 1
    IN  /\ pc[r] = "call"
        /\ model_unavailable_count' =
               IF n >= MODEL_UNAVAILABLE_THRESHOLD THEN MODEL_UNAVAILABLE_THRESHOLD ELSE n
        /\ IF n >= MODEL_UNAVAILABLE_THRESHOLD
             THEN Goto(r, "disableAll") /\ UNCHANGED cred
             ELSE Finish(r)
        /\ UNCHANGED <<entryVars, global_recovery_time, task>>

\* disable_all_credentials, then the Fatal error is reported as a failure.
disable_all_credentials(r) ==
    /\ pc[r] = "disableAll"
    /\ disabled' = [c \in Creds |-> TRUE]
    /\ disabled_reason' =
           [c \in Creds |-> IF disabled[c] THEN disabled_reason[c] ELSE "ModelUnavailable"]
    /\ global_recovery_time' = "pending"
    /\ Goto(r, "report")
    /\ UNCHANGED <<failure_count, refresh_failure_count, model_unavailable_count,
                   cred, task>>
    /\ NoReprobeChange

\* A balance query answers that nothing is left: after a success, after a 402,
\* or from the periodic balance refresh, hence at any time.
mark_insufficient_balance(c) ==
    /\ ~AllowOverUsage
    /\ Disable(c, "InsufficientBalance")
    /\ UNCHANGED <<failure_count, refresh_failure_count, globalVars, requestVars, task>>
    /\ NoReprobeChange

-----------------------------------------------------------------------------
(* Administrator commands. *)

\* The in-memory part of set_disabled, which runs once the file is written.
set_disabled(c, off) ==
    /\ IF off
         THEN /\ Disable(c, "Manual")
              /\ UNCHANGED <<failure_count, refresh_failure_count>>
         ELSE /\ Reenable({c})
              /\ refresh_failure_count' = [refresh_failure_count EXCEPT ![c] = 0]
    /\ NoReprobeChange
    /\ UNCHANGED <<globalVars, requestVars, task>>

reset_and_enable(c) ==
    /\ disabled_reason[c] # "InvalidConfig"
    /\ Reenable({c})
    /\ refresh_failure_count' = [refresh_failure_count EXCEPT ![c] = 0]
    /\ NoReprobeChange
    /\ UNCHANGED <<globalVars, requestVars, task>>

force_refresh_token_for(c) ==
    /\ c \notin ApiKeyCreds
    /\ refresh_failure_count' = [refresh_failure_count EXCEPT ![c] = 0]
    /\ NoReprobeChange
    /\ UNCHANGED <<disabled, disabled_reason, failure_count, globalVars,
                   requestVars, task>>

-----------------------------------------------------------------------------
(* The background refresher: expiring tokens of enabled credentials and due *)
(* reprobes of auth-disabled ones.                                          *)

TaskStep(c, from, to) ==
    /\ task[c] = from
    /\ task' = [task EXCEPT ![c] = to]

\* Fault: only enabled credentials are refreshed.
QueueEnabledOnly(c) ==
    /\ c \notin ApiKeyCreds
    /\ Enabled(c)
    /\ TaskStep(c, "none", "queued")
    /\ UNCHANGED <<entryVars, globalVars, requestVars>>

\* One tick collects the ids.
QueueRefresh(c) ==
    /\ c \notin ApiKeyCreds
    /\ Enabled(c) \/ (AuthDisabled(c) /\ reprobe_next[c] = "due")
    /\ TaskStep(c, "none", "queued")
    /\ UNCHANGED <<entryVars, globalVars, requestVars>>

\* is_auth_disabled_for_reprobe is read when the task starts, not at the tick.
BeginRefresh(c) ==
    /\ TaskStep(c, "queued", IF AuthDisabled(c) THEN "reprobe" ELSE "refresh")
    /\ UNCHANGED <<entryVars, globalVars, requestVars>>

\* refresh_token_for_credential got a new token and stored it.
RefreshSucceeds(c) ==
    /\ \/ TaskStep(c, "refresh", "none")
       \/ TaskStep(c, "reprobe", "refreshed")
    /\ refresh_failure_count' = [refresh_failure_count EXCEPT ![c] = 0]
    /\ NoReprobeChange
    /\ UNCHANGED <<disabled, disabled_reason, failure_count, globalVars, requestVars>>

\* It failed, or fell back on the token it had.
RefreshFails(c) ==
    /\ \/ TaskStep(c, "refresh", "none")
       \/ TaskStep(c, "reprobe", "outcome")
    /\ UNCHANGED <<entryVars, globalVars, requestVars>>

\* Fault: the reason is not read again when the new token has arrived.
ReprobeSucceededUnchecked(c) ==
    /\ TaskStep(c, "refreshed", "none")
    /\ Reenable({c})
    /\ refresh_failure_count' = [refresh_failure_count EXCEPT ![c] = 0]
    /\ reprobe_next' = [reprobe_next EXCEPT ![c] = "none"]
    /\ recovery_backoff_level' = [recovery_backoff_level EXCEPT ![c] = 0]
    /\ UNCHANGED <<globalVars, requestVars>>

\* apply_reprobe_outcome(id, true)
ReprobeSucceeded(c) ==
    /\ TaskStep(c, "refreshed", "none")
    /\ IF AuthDisabled(c)
         THEN /\ Reenable({c})
              /\ refresh_failure_count' = [refresh_failure_count EXCEPT ![c] = 0]
              /\ reprobe_next' = [reprobe_next EXCEPT ![c] = "none"]
              /\ recovery_backoff_level' = [recovery_backoff_level EXCEPT ![c] = 0]
         ELSE UNCHANGED entryVars
    /\ UNCHANGED <<globalVars, requestVars>>

NextLevel(level) == IF level < MaxBackoffLevel THEN level + 1 ELSE MaxBackoffLevel

\* apply_reprobe_outcome(id, false)
ReprobeFailed(c) ==
    /\ TaskStep(c, "outcome", "none")
    /\ IF AuthDisabled(c)
         THEN ScheduleReprobe(c, NextLevel(recovery_backoff_level[c]))
         ELSE NoReprobeChange
    /\ UNCHANGED <<disabled, disabled_reason, failure_count, refresh_failure_count,
                   globalVars, requestVars>>

-----------------------------------------------------------------------------
(* Time. *)

ReprobeDue(c) ==
    /\ reprobe_next[c] = "pending"
    /\ reprobe_next' = [reprobe_next EXCEPT ![c] = "due"]
    /\ UNCHANGED <<disabled, disabled_reason, failure_count, refresh_failure_count,
                   recovery_backoff_level, globalVars, requestVars, task>>

RecoveryDue ==
    /\ global_recovery_time = "pending"
    /\ global_recovery_time' = "due"
    /\ UNCHANGED <<entryVars, model_unavailable_count, requestVars, task>>

-----------------------------------------------------------------------------
RequestStep(r) ==
    \/ StartRequest(r)
    \/ Recover(r)
    \/ \E c \in Creds : TakeCredential(r, c)
    \/ \E usable \in SUBSET Creds : SelfHeal(r, usable)
    \/ GiveUp(r)
    \/ TokenReady(r)
    \/ report_refresh_failure(r)
    \/ report_refresh_token_invalid(r)
    \/ report_success(r)
    \/ report_failure(r)
    \/ TransientFailure(r)
    \/ report_quota_exhausted(r)
    \/ \E reason \in {"AuthenticationFailed", "CredentialSuspended"} : CallBanned(r, reason)
    \/ CallForceRefreshed(r)
    \/ report_model_unavailable(r)
    \/ disable_all_credentials(r)

AdminStep(c) ==
    \/ \E off \in BOOLEAN : set_disabled(c, off)
    \/ reset_and_enable(c)
    \/ force_refresh_token_for(c)

RefresherStep(c) ==
    \/ QueueRefresh(c)
    \/ BeginRefresh(c)
    \/ RefreshSucceeds(c)
    \/ RefreshFails(c)
    \/ ReprobeSucceeded(c)
    \/ ReprobeFailed(c)

Clock == RecoveryDue \/ \E c \in Creds : ReprobeDue(c)

Next ==
    \/ \E r \in Requests : RequestStep(r)
    \/ \E c \in Creds : AdminStep(c) \/ RefresherStep(c) \/ mark_insufficient_balance(c)
    \/ Clock

Spec == Init /\ [][Next]_vars

-----------------------------------------------------------------------------
(* What the scheduler, the timers and the upstream owe.  A request that may *)
(* run does run; a deadline passes; a queued refresh is executed; a refresh *)
(* that is tried again and again works in the end; clients keep asking.     *)
RequestRuns(r) ==
    \/ Recover(r)
    \/ TokenReady(r)
    \/ report_success(r)
    \/ report_failure(r)
    \/ disable_all_credentials(r)
    \/ GiveUp(r)

Fairness ==
    /\ WF_vars(RecoveryDue)
    /\ \A r \in Requests : WF_vars(StartRequest(r)) /\ WF_vars(RequestRuns(r))
    /\ \A c \in Creds :
          /\ WF_vars(ReprobeDue(c))
          /\ WF_vars(QueueRefresh(c))
          /\ WF_vars(BeginRefresh(c))
          /\ SF_vars(RefreshSucceeds(c))
          /\ WF_vars(RefreshSucceeds(c) \/ RefreshFails(c))
          /\ WF_vars(ReprobeSucceeded(c))
          /\ WF_vars(ReprobeFailed(c))

FairSpec == Spec /\ Fairness

-----------------------------------------------------------------------------
TypeOK ==
    /\ disabled \in [Creds -> BOOLEAN]
    /\ disabled_reason \in [Creds -> DisabledReason \cup {NoReason}]
    /\ failure_count \in [Creds -> Nat]
    /\ refresh_failure_count \in [Creds -> Nat]
    /\ reprobe_next \in [Creds -> Deadline]
    /\ recovery_backoff_level \in [Creds -> 0 .. MaxBackoffLevel]
    /\ global_recovery_time \in Deadline
    /\ model_unavailable_count \in 0 .. MODEL_UNAVAILABLE_THRESHOLD
    /\ pc \in [Requests -> RequestPC]
    /\ cred \in [Requests -> Creds \cup {NoCred}]
    /\ \A r \in Requests :
          cred[r] = NoCred <=> pc[r] \in {"idle", "recover", "rank"}
    /\ task \in [Creds -> TaskPC]

\* The two fields that say "out of service" never drift apart: the recovery
\* paths look at one, the filters at the other.
ReasonIffDisabled ==
    \A c \in Creds : disabled[c] <=> disabled_reason[c] # NoReason

\* However a credential came back (reprobe, outage over, self-heal, admin), it
\* comes back below both limits, so that the counting of its failures starts anew.
EnabledBelowLimits ==
    \A c \in Creds : ~disabled[c] =>
        /\ failure_count[c] < MAX_FAILURES_PER_CREDENTIAL
        /\ refresh_failure_count[c] < MAX_FAILURES_PER_CREDENTIAL

\* The recoveries that reset only the call failures (self-heal, end of outage)
\* find the refresh failures below the limit already: without this they would
\* put back a credential that is one refresh failure past it.
HealableRefreshCount ==
    \A c \in Creds : disabled_reason[c] \in {"TooManyFailures", "ModelUnavailable"} =>
        refresh_failure_count[c] < MAX_FAILURES_PER_CREDENTIAL

\* A credential taken out by the model outage is never left without the
\* deadline check_and_recover waits for, whoever else recovers or disables.
OutageHasDeadline ==
    \A c \in Creds :
        disabled_reason[c] = "ModelUnavailable" => global_recovery_time # "none"

\* A credential disabled for an authentication failure always has its reprobe
\* on the calendar, with a backoff level: get_ids_due_for_reprobe looks no
\* further, so a missing date would strand it.
AuthDisabledIsScheduled ==
    \A c \in Creds : AuthDisabled(c) =>
        reprobe_next[c] # "none" /\ recovery_backoff_level[c] > 0

\* Together: whoever was disabled for a passing reason is on some calendar.
DisabledHasWayBack == OutageHasDeadline /\ AuthDisabledIsScheduled

\* Sticky reasons: no request, refresh task or timer enables such a credential
\* again, not even a reprobe that started when the reason was another one.
StickyReason ==
    {"Manual", "CredentialSuspended", "InvalidConfig", "QuotaExceeded",
     "InsufficientBalance"}

OnlyAdminReleasesSticky ==
    [][\A c \in Creds :
          disabled_reason[c] \in StickyReason /\ ~disabled'[c] => AdminStep(c)]_vars

\* The global outage ends for every credential it disabled.
OutageEnds ==
    \A c \in Creds :
        disabled_reason[c] = "ModelUnavailable" ~> disabled_reason[c] # "ModelUnavailable"

\* A credential disabled for authentication is back (or disabled for something
\* else) once its token can be refreshed again: mark_credential_banned registers it
\* for a reprobe.  The comment of mark_authentication_failed says the opposite (it is
\* not recovered automatically); the code and the comment of its reprobe are meant here.
AuthDisabledRecovers ==
    \A c \in Creds \ ApiKeyCreds : AuthDisabled(c) ~> ~AuthDisabled(c)

\* Together: whoever was disabled for a passing reason does not stay so for ever.
DisabledComesBack == OutageEnds /\ AuthDisabledRecovers

=============================================================================
