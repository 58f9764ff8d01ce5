----------------------- MODULE CredentialHealthProofs -----------------------
(***************************************************************************)
(* Proofs about CredentialHealth, for every set of credentials and requests *)
(* and every value of the limits.                                           *)
(***************************************************************************)
EXTENDS CredentialHealth, TLAPS

(* Every step keeps the types. *)
LEMMA TypeInductive == TypeOK /\ [Next]_vars => TypeOK'
<1> SUFFICES ASSUME TypeOK, [Next]_vars PROVE TypeOK'
  OBVIOUS
<1> USE ConstantsAssumption DEF TypeOK, vars, entryVars, globalVars, requestVars,
        Disable, Reenable, ScheduleReprobe, NoReprobeChange, Goto, Finish,
        DisabledReason, AuthRecoverable, Deadline, RequestPC, TaskPC, NoReason
<1>1. ASSUME NEW r \in Requests, StartRequest(r) PROVE TypeOK'
  BY <1>1 DEF StartRequest
<1>2. ASSUME NEW r \in Requests, Recover(r) PROVE TypeOK'
  BY <1>2 DEF Recover
<1>3. ASSUME NEW r \in Requests, TokenReady(r) PROVE TypeOK'
  BY <1>3 DEF TokenReady
<1>4. ASSUME NEW r \in Requests, GiveUp(r) PROVE TypeOK'
  BY <1>4 DEF GiveUp
<1>5. ASSUME NEW r \in Requests, report_refresh_failure(r) PROVE TypeOK'
  <2> DEFINE c == cred[r]
  <2>1. c \in Creds
    BY <1>5 DEF report_refresh_failure
  <2>2. CASE disabled[c]
    BY <1>5, <2>1, <2>2 DEF report_refresh_failure
  <2>3. CASE ~disabled[c] /\ refresh_failure_count[c] + 1 >= MAX_FAILURES_PER_CREDENTIAL
    <3>1. /\ disabled' = [disabled EXCEPT ![c] = TRUE]
          /\ disabled_reason' = [disabled_reason EXCEPT ![c] = "TooManyRefreshFailures"]
          /\ refresh_failure_count' = [refresh_failure_count EXCEPT ![c] = @ + 1]
          /\ recovery_backoff_level' = [recovery_backoff_level EXCEPT ![c] = 1]
          /\ reprobe_next' = [reprobe_next EXCEPT ![c] = "pending"]
          /\ pc' = [pc EXCEPT ![r] = "rank"]
          /\ cred' = [cred EXCEPT ![r] = NoCred]
          /\ UNCHANGED <<failure_count, globalVars, task>>
      BY <1>5, <2>1, <2>3 DEF report_refresh_failure
    <3> QED
      BY <3>1, <2>1
  <2>4. CASE ~disabled[c] /\ ~(refresh_failure_count[c] + 1 >= MAX_FAILURES_PER_CREDENTIAL)
    BY <1>5, <2>1, <2>4 DEF report_refresh_failure
  <2> QED
    BY <2>2, <2>3, <2>4
<1>6. ASSUME NEW r \in Requests, report_refresh_token_invalid(r) PROVE TypeOK'
  <2> DEFINE c == cred[r]
  <2>1. c \in Creds
    BY <1>6 DEF report_refresh_token_invalid
  <2>2. CASE disabled[c]
    BY <1>6, <2>1, <2>2 DEF report_refresh_token_invalid
  <2>3. CASE ~disabled[c]
    <3>1. /\ disabled' = [disabled EXCEPT ![c] = TRUE]
          /\ disabled_reason' = [disabled_reason EXCEPT ![c] = "InvalidRefreshToken"]
          /\ recovery_backoff_level' = [recovery_backoff_level EXCEPT ![c] = 1]
          /\ reprobe_next' = [reprobe_next EXCEPT ![c] = "pending"]
          /\ pc' = [pc EXCEPT ![r] = "rank"]
          /\ cred' = [cred EXCEPT ![r] = NoCred]
          /\ UNCHANGED <<failure_count, refresh_failure_count, globalVars, task>>
      BY <1>6, <2>1, <2>3 DEF report_refresh_token_invalid
    <3> QED
      BY <3>1, <2>1
  <2> QED
    BY <2>2, <2>3
<1>7. ASSUME NEW r \in Requests, report_success(r) PROVE TypeOK'
  BY <1>7 DEF report_success
<1>8. ASSUME NEW r \in Requests, report_failure(r) PROVE TypeOK'
  <2> DEFINE c == cred[r]
  <2>1. c \in Creds
    BY <1>8 DEF report_failure
  <2>2. CASE disabled[c]
    BY <1>8, <2>1, <2>2 DEF report_failure
  <2>3. CASE ~disabled[c] /\ failure_count[c] + 1 >= MAX_FAILURES_PER_CREDENTIAL
    <3>1. /\ disabled' = [disabled EXCEPT ![c] = TRUE]
          /\ disabled_reason' = [disabled_reason EXCEPT ![c] = "TooManyFailures"]
          /\ failure_count' = [failure_count EXCEPT ![c] = @ + 1]
          /\ pc' = [pc EXCEPT ![r] = "idle"]
          /\ cred' = [cred EXCEPT ![r] = NoCred]
          /\ NoReprobeChange
          /\ UNCHANGED <<refresh_failure_count, globalVars, task>>
      BY <1>8, <2>1, <2>3 DEF report_failure
    <3> QED
      BY <3>1, <2>1
  <2>4. CASE ~disabled[c] /\ ~(failure_count[c] + 1 >= MAX_FAILURES_PER_CREDENTIAL)
    BY <1>8, <2>1, <2>4 DEF report_failure
  <2> QED
    BY <2>2, <2>3, <2>4
<1>9. ASSUME NEW r \in Requests, TransientFailure(r) PROVE TypeOK'
  BY <1>9 DEF TransientFailure
<1>10. ASSUME NEW r \in Requests, report_quota_exhausted(r) PROVE TypeOK'
  <2> DEFINE c == cred[r]
  <2>1. c \in Creds
    BY <1>10 DEF report_quota_exhausted
  <2>2. CASE AllowOverUsage \/ disabled[c]
    BY <1>10, <2>1, <2>2 DEF report_quota_exhausted
  <2>3. CASE ~(AllowOverUsage \/ disabled[c])
    <3>1. /\ disabled' = [disabled EXCEPT ![c] = TRUE]
          /\ disabled_reason' = [disabled_reason EXCEPT ![c] = "QuotaExceeded"]
          /\ failure_count' = [failure_count EXCEPT ![c] = MAX_FAILURES_PER_CREDENTIAL]
          /\ pc' = [pc EXCEPT ![r] = "report"]
          /\ NoReprobeChange
          /\ UNCHANGED <<refresh_failure_count, globalVars, cred, task>>
      BY <1>10, <2>1, <2>3 DEF report_quota_exhausted
    <3> QED
      BY <3>1, <2>1
  <2> QED
    BY <2>2, <2>3
<1>11. ASSUME NEW r \in Requests, CallForceRefreshed(r) PROVE TypeOK'
  BY <1>11 DEF CallForceRefreshed
<1>12. ASSUME NEW r \in Requests, report_model_unavailable(r) PROVE TypeOK'
  BY <1>12 DEF report_model_unavailable
<1>13. ASSUME NEW r \in Requests, disable_all_credentials(r) PROVE TypeOK'
  BY <1>13 DEF disable_all_credentials
<1>14. ASSUME NEW r \in Requests, NEW c \in Creds, TakeCredential(r, c) PROVE TypeOK'
  BY <1>14 DEF TakeCredential, Enabled
<1>15. ASSUME NEW r \in Requests, NEW usable \in SUBSET Creds, SelfHeal(r, usable) PROVE TypeOK'
  BY <1>15 DEF SelfHeal
<1>16. ASSUME NEW r \in Requests, NEW reason \in {"AuthenticationFailed", "CredentialSuspended"}, CallBanned(r, reason) PROVE TypeOK'
  BY <1>16 DEF CallBanned, mark_credential_banned
<1>17. ASSUME NEW c \in Creds, NEW off \in BOOLEAN, set_disabled(c, off) PROVE TypeOK'
  <2>1. CASE off
    BY <1>17, <2>1 DEF set_disabled
  <2>2. CASE ~off
    BY <1>17, <2>2 DEF set_disabled
  <2> QED
    BY <2>1, <2>2
<1>18. ASSUME NEW c \in Creds, reset_and_enable(c) PROVE TypeOK'
  BY <1>18 DEF reset_and_enable
<1>19. ASSUME NEW c \in Creds, force_refresh_token_for(c) PROVE TypeOK'
  BY <1>19 DEF force_refresh_token_for
<1>20. ASSUME NEW c \in Creds, QueueRefresh(c) PROVE TypeOK'
  BY <1>20 DEF QueueRefresh, TaskStep
<1>21. ASSUME NEW c \in Creds, BeginRefresh(c) PROVE TypeOK'
  BY <1>21 DEF BeginRefresh, TaskStep
<1>22. ASSUME NEW c \in Creds, RefreshSucceeds(c) PROVE TypeOK'
  BY <1>22 DEF RefreshSucceeds, TaskStep
<1>23. ASSUME NEW c \in Creds, RefreshFails(c) PROVE TypeOK'
  BY <1>23 DEF RefreshFails, TaskStep
<1>24. ASSUME NEW c \in Creds, ReprobeSucceeded(c) PROVE TypeOK'
  <2>1. CASE AuthDisabled(c)
    <3>1. /\ Reenable({c})
          /\ refresh_failure_count' = [refresh_failure_count EXCEPT ![c] = 0]
          /\ reprobe_next' = [reprobe_next EXCEPT ![c] = "none"]
          /\ recovery_backoff_level' = [recovery_backoff_level EXCEPT ![c] = 0]
          /\ task' = [task EXCEPT ![c] = "none"]
          /\ UNCHANGED <<globalVars, requestVars>>
      BY <1>24, <2>1 DEF ReprobeSucceeded, TaskStep
    <3> QED
      BY <3>1
  <2>2. CASE ~AuthDisabled(c)
    BY <1>24, <2>2 DEF ReprobeSucceeded, TaskStep
  <2> QED
    BY <2>1, <2>2
<1>25. ASSUME NEW c \in Creds, ReprobeFailed(c) PROVE TypeOK'
  BY <1>25 DEF ReprobeFailed, TaskStep, NextLevel
<1>26. ASSUME NEW c \in Creds, mark_insufficient_balance(c) PROVE TypeOK'
  BY <1>26 DEF mark_insufficient_balance
<1>27. ASSUME NEW c \in Creds, ReprobeDue(c) PROVE TypeOK'
  BY <1>27 DEF ReprobeDue
<1>28. ASSUME RecoveryDue PROVE TypeOK'
  BY <1>28 DEF RecoveryDue
<1>29. ASSUME UNCHANGED vars PROVE TypeOK'
  BY <1>29
<1> QED
  BY <1>1, <1>2, <1>3, <1>4, <1>5, <1>6, <1>7, <1>8, <1>9, <1>10, <1>11, <1>12, <1>13, <1>14, <1>15, <1>16, <1>17, <1>18, <1>19, <1>20, <1>21, <1>22, <1>23, <1>24, <1>25, <1>26, <1>27, <1>28, <1>29
     DEF Next, RequestStep, AdminStep, RefresherStep, Clock

(* The fields of every reachable state have the types of the code. *)
THEOREM TypeCorrect == Spec => []TypeOK
<1>1. Init => TypeOK
  <2> SUFFICES ASSUME Init PROVE TypeOK
    OBVIOUS
  <2>1. disabled_reason \in [Creds -> DisabledReason \cup {NoReason}]
    BY DEF Init, DisabledReason, NoReason
  <2>2. disabled \in [Creds -> BOOLEAN]
    BY DEF Init
  <2> QED
    BY <2>1, <2>2, ConstantsAssumption DEF Init, TypeOK, Deadline, RequestPC, TaskPC
<1> QED
  BY <1>1, TypeInductive, PTL DEF Spec

(* What ties the entry fields together between any two critical sections.  *)
(* EnabledBelowLimits alone is not inductive: the end of an outage and the *)
(* self-heal re-enable without looking at the refresh failures.            *)
HealthInv ==
    /\ ReasonIffDisabled
    /\ EnabledBelowLimits
    /\ HealableRefreshCount
    /\ OutageHasDeadline
    /\ AuthDisabledIsScheduled

(* Re-enabling the set S clears its entries and leaves every other alone.   *)
LEMMA ReenableEffect ==
    ASSUME NEW S \in SUBSET Creds, Reenable(S), NEW x \in Creds
    PROVE  /\ x \in S => /\ ~disabled'[x]
                         /\ disabled_reason'[x] = NoReason
                         /\ failure_count'[x] = 0
           /\ x \notin S => /\ disabled'[x] <=> disabled[x]
                            /\ disabled_reason'[x] = disabled_reason[x]
                            /\ failure_count'[x] = failure_count[x]
BY DEF Reenable

(* A step that re-enables S, and leaves the rest of the entries as it was   *)
(* or resets a re-enabled one, keeps the invariant.                         *)
LEMMA ReenableKeepsHealth ==
    ASSUME TypeOK, HealthInv, NEW S \in SUBSET Creds, Reenable(S),
           \A x \in Creds :
              \/ refresh_failure_count'[x] = 0
              \/ refresh_failure_count'[x] = refresh_failure_count[x],
           \A x \in S : refresh_failure_count'[x] < MAX_FAILURES_PER_CREDENTIAL,
           \A x \in Creds \ S : reprobe_next'[x] = reprobe_next[x],
           \A x \in Creds \ S : recovery_backoff_level'[x] = recovery_backoff_level[x],
           \/ global_recovery_time' = global_recovery_time
           \/ \A x \in Creds : disabled_reason[x] = "ModelUnavailable" => x \in S
    PROVE  HealthInv'
<1> USE ConstantsAssumption, ReenableEffect DEF TypeOK, HealthInv, NoReason
<1>1. ReasonIffDisabled'
  BY DEF ReasonIffDisabled
<1>2. EnabledBelowLimits'
  BY DEF EnabledBelowLimits
<1>3. HealableRefreshCount'
  BY DEF HealableRefreshCount
<1>4. OutageHasDeadline'
  BY DEF OutageHasDeadline
<1>5. AuthDisabledIsScheduled'
  <2> SUFFICES ASSUME NEW x \in Creds, AuthDisabled(x)'
               PROVE  reprobe_next'[x] # "none" /\ recovery_backoff_level'[x] > 0
    BY DEF AuthDisabledIsScheduled
  <2>1. x \notin S
    BY DEF AuthDisabled
  <2>2. AuthDisabled(x)
    BY <2>1 DEF AuthDisabled, AuthRecoverable
  <2> QED
    BY <2>1, <2>2 DEF AuthDisabledIsScheduled
<1> QED
  BY <1>1, <1>2, <1>3, <1>4, <1>5

LEMMA HealthInductive == TypeOK /\ HealthInv /\ [Next]_vars => HealthInv'
<1> SUFFICES ASSUME TypeOK, HealthInv, [Next]_vars PROVE HealthInv'
  OBVIOUS
<1> USE ConstantsAssumption DEF TypeOK, HealthInv, ReasonIffDisabled,
        EnabledBelowLimits, HealableRefreshCount, OutageHasDeadline,
        AuthDisabledIsScheduled, AuthDisabled, vars, entryVars, globalVars,
        requestVars, Disable, Reenable, ScheduleReprobe, NoReprobeChange, Goto,
        Finish, DisabledReason, AuthRecoverable, Deadline, NoReason
<1>1. ASSUME NEW r \in Requests, StartRequest(r) PROVE HealthInv'
  BY <1>1 DEF StartRequest
<1>2. ASSUME NEW r \in Requests, Recover(r) PROVE HealthInv'
  <2> DEFINE S == {c \in Creds : disabled[c] /\ disabled_reason[c] = "ModelUnavailable"}
  <2>1. Reenable(S) /\ UNCHANGED <<refresh_failure_count, reprobe_next, recovery_backoff_level>>
    BY <1>2 DEF Recover, NoReprobeChange
  <2>2. \A x \in Creds : disabled_reason[x] = "ModelUnavailable" => x \in S
    BY DEF HealthInv, ReasonIffDisabled, NoReason
  <2>3. \A x \in S : refresh_failure_count[x] < MAX_FAILURES_PER_CREDENTIAL
    BY DEF HealthInv, HealableRefreshCount
  <2> HIDE DEF S
  <2> QED
    BY <2>1, <2>2, <2>3, ReenableKeepsHealth DEF S
<1>3. ASSUME NEW r \in Requests, TokenReady(r) PROVE HealthInv'
  BY <1>3 DEF TokenReady
<1>4. ASSUME NEW r \in Requests, GiveUp(r) PROVE HealthInv'
  BY <1>4 DEF GiveUp
<1>5. ASSUME NEW r \in Requests, report_refresh_failure(r) PROVE HealthInv'
  BY <1>5 DEF report_refresh_failure
<1>6. ASSUME NEW r \in Requests, report_refresh_token_invalid(r) PROVE HealthInv'
  BY <1>6 DEF report_refresh_token_invalid
<1>7. ASSUME NEW r \in Requests, report_success(r) PROVE HealthInv'
  BY <1>7 DEF report_success
<1>8. ASSUME NEW r \in Requests, report_failure(r) PROVE HealthInv'
  BY <1>8 DEF report_failure
<1>9. ASSUME NEW r \in Requests, TransientFailure(r) PROVE HealthInv'
  BY <1>9 DEF TransientFailure
<1>10. ASSUME NEW r \in Requests, report_quota_exhausted(r) PROVE HealthInv'
  BY <1>10 DEF report_quota_exhausted
<1>11. ASSUME NEW r \in Requests, CallForceRefreshed(r) PROVE HealthInv'
  BY <1>11 DEF CallForceRefreshed
<1>12. ASSUME NEW r \in Requests, report_model_unavailable(r) PROVE HealthInv'
  BY <1>12 DEF report_model_unavailable
<1>13. ASSUME NEW r \in Requests, disable_all_credentials(r) PROVE HealthInv'
  BY <1>13 DEF disable_all_credentials
<1>14. ASSUME NEW r \in Requests, NEW c \in Creds, TakeCredential(r, c) PROVE HealthInv'
  BY <1>14 DEF Enabled, TakeCredential
<1>15. ASSUME NEW r \in Requests, NEW usable \in SUBSET Creds, SelfHeal(r, usable) PROVE HealthInv'
  <2> DEFINE S == {c \in Creds : disabled_reason[c] = "TooManyFailures"}
  <2>1. /\ Reenable(S)
        /\ UNCHANGED <<refresh_failure_count, reprobe_next, recovery_backoff_level>>
        /\ UNCHANGED global_recovery_time
    BY <1>15 DEF SelfHeal
  <2>2. \A x \in S : refresh_failure_count[x] < MAX_FAILURES_PER_CREDENTIAL
    OBVIOUS
  <2> QED
    BY <2>1, <2>2, ReenableKeepsHealth
<1>16. ASSUME NEW r \in Requests, NEW reason \in {"AuthenticationFailed", "CredentialSuspended"}, CallBanned(r, reason) PROVE HealthInv'
  BY <1>16 DEF CallBanned, mark_credential_banned
<1>17. ASSUME NEW c \in Creds, NEW off \in BOOLEAN, set_disabled(c, off) PROVE HealthInv'
  BY <1>17 DEF set_disabled
<1>18. ASSUME NEW c \in Creds, reset_and_enable(c) PROVE HealthInv'
  <2>1. /\ Reenable({c})
        /\ refresh_failure_count' = [refresh_failure_count EXCEPT ![c] = 0]
        /\ UNCHANGED <<reprobe_next, recovery_backoff_level, global_recovery_time>>
    BY <1>18 DEF reset_and_enable
  <2>2. \A x \in Creds : \/ refresh_failure_count'[x] = 0
                         \/ refresh_failure_count'[x] = refresh_failure_count[x]
    BY <2>1
  <2>3. \A x \in {c} : refresh_failure_count'[x] < MAX_FAILURES_PER_CREDENTIAL
    BY <2>1
  <2> HIDE DEF Reenable, HealthInv
  <2> QED
    BY <2>1, <2>2, <2>3, ReenableKeepsHealth
<1>19. ASSUME NEW c \in Creds, force_refresh_token_for(c) PROVE HealthInv'
  BY <1>19 DEF force_refresh_token_for
<1>20. ASSUME NEW c \in Creds, QueueRefresh(c) PROVE HealthInv'
  BY <1>20 DEF QueueRefresh, TaskStep
<1>21. ASSUME NEW c \in Creds, BeginRefresh(c) PROVE HealthInv'
  BY <1>21 DEF BeginRefresh, TaskStep
<1>22. ASSUME NEW c \in Creds, RefreshSucceeds(c) PROVE HealthInv'
  BY <1>22 DEF RefreshSucceeds, TaskStep
<1>23. ASSUME NEW c \in Creds, RefreshFails(c) PROVE HealthInv'
  BY <1>23 DEF RefreshFails, TaskStep
<1>24. ASSUME NEW c \in Creds, ReprobeSucceeded(c) PROVE HealthInv'
  <2>1. CASE AuthDisabled(c)
    <3>1. /\ Reenable({c})
          /\ refresh_failure_count' = [refresh_failure_count EXCEPT ![c] = 0]
          /\ reprobe_next' = [reprobe_next EXCEPT ![c] = "none"]
          /\ recovery_backoff_level' = [recovery_backoff_level EXCEPT ![c] = 0]
          /\ UNCHANGED global_recovery_time
      BY <1>24, <2>1 DEF ReprobeSucceeded
    <3>2. \A x \in Creds : \/ refresh_failure_count'[x] = 0
                           \/ refresh_failure_count'[x] = refresh_failure_count[x]
      BY <3>1
    <3>3. \A x \in {c} : refresh_failure_count'[x] < MAX_FAILURES_PER_CREDENTIAL
      BY <3>1
    <3>4. \A x \in Creds \ {c} : /\ reprobe_next'[x] = reprobe_next[x]
                                 /\ recovery_backoff_level'[x] = recovery_backoff_level[x]
      BY <3>1
    <3> HIDE DEF Reenable, HealthInv
    <3> QED
      BY <3>1, <3>2, <3>3, <3>4, ReenableKeepsHealth
  <2>2. CASE ~AuthDisabled(c)
    BY <1>24, <2>2 DEF ReprobeSucceeded
  <2> QED
    BY <2>1, <2>2
<1>25. ASSUME NEW c \in Creds, ReprobeFailed(c) PROVE HealthInv'
  BY <1>25 DEF NextLevel, ReprobeFailed, TaskStep
<1>26. ASSUME NEW c \in Creds, mark_insufficient_balance(c) PROVE HealthInv'
  BY <1>26 DEF mark_insufficient_balance
<1>27. ASSUME NEW c \in Creds, ReprobeDue(c) PROVE HealthInv'
  BY <1>27 DEF ReprobeDue
<1>28. ASSUME RecoveryDue PROVE HealthInv'
  BY <1>28 DEF RecoveryDue
<1>29. ASSUME UNCHANGED vars PROVE HealthInv'
  BY <1>29
<1> QED
  BY <1>1, <1>2, <1>3, <1>4, <1>5, <1>6, <1>7, <1>8, <1>9, <1>10, <1>11, <1>12, <1>13, <1>14, <1>15, <1>16, <1>17, <1>18, <1>19, <1>20, <1>21, <1>22, <1>23, <1>24, <1>25, <1>26, <1>27, <1>28, <1>29
     DEF Next, RequestStep, AdminStep, RefresherStep, Clock

(* However calls, refreshes, timers and the administrator interleave, an    *)
(* entry is disabled exactly when it has a reason, is enabled only below    *)
(* both failure limits, never waits for an outage without a deadline, and   *)
(* is on the reprobe calendar whenever authentication disabled it.          *)
THEOREM HealthCorrect == Spec => []HealthInv
<1>1. Init => HealthInv
  <2> SUFFICES ASSUME Init PROVE HealthInv
    OBVIOUS
  <2>1. \A c \in Creds : disabled_reason[c] \in {NoReason, "Manual", "InvalidConfig"}
    BY DEF Init
  <2>2. ReasonIffDisabled
    BY DEF Init, ReasonIffDisabled
  <2>3. EnabledBelowLimits /\ HealableRefreshCount
    BY ConstantsAssumption DEF Init, EnabledBelowLimits, HealableRefreshCount
  <2>4. OutageHasDeadline /\ AuthDisabledIsScheduled
    BY <2>1 DEF OutageHasDeadline, AuthDisabledIsScheduled, AuthDisabled,
       AuthRecoverable, NoReason
  <2> QED
    BY <2>2, <2>3, <2>4 DEF HealthInv
<1> QED
  BY <1>1, TypeCorrect, HealthInductive, PTL DEF Spec

(* An entry the background task must not touch is still disabled after any  *)
(* step of a request, of the refresher, of a balance query or of the clock. *)
LEMMA StickyStaysDisabled ==
    ASSUME TypeOK, HealthInv, NEW x \in Creds, disabled_reason[x] \in StickyReason,
           \/ \E r \in Requests : RequestStep(r)
           \/ \E c \in Creds : RefresherStep(c) \/ mark_insufficient_balance(c)
           \/ Clock
           \/ UNCHANGED vars
    PROVE  disabled'[x]
<1> USE DEF TypeOK, HealthInv, ReasonIffDisabled, StickyReason, NoReason, AuthDisabled,
        AuthRecoverable, vars, entryVars, globalVars, requestVars, Disable, Reenable
<1>0. disabled[x]
  OBVIOUS
<1>1. ASSUME NEW r \in Requests, StartRequest(r) PROVE disabled'[x]
  BY <1>0, <1>1 DEF StartRequest
<1>2. ASSUME NEW r \in Requests, Recover(r) PROVE disabled'[x]
  BY <1>0, <1>2 DEF Recover
<1>3. ASSUME NEW r \in Requests, TokenReady(r) PROVE disabled'[x]
  BY <1>0, <1>3 DEF TokenReady
<1>4. ASSUME NEW r \in Requests, GiveUp(r) PROVE disabled'[x]
  BY <1>0, <1>4 DEF GiveUp
<1>5. ASSUME NEW r \in Requests, report_refresh_failure(r) PROVE disabled'[x]
  BY <1>0, <1>5 DEF report_refresh_failure
<1>6. ASSUME NEW r \in Requests, report_refresh_token_invalid(r) PROVE disabled'[x]
  BY <1>0, <1>6 DEF report_refresh_token_invalid
<1>7. ASSUME NEW r \in Requests, report_success(r) PROVE disabled'[x]
  BY <1>0, <1>7 DEF report_success
<1>8. ASSUME NEW r \in Requests, report_failure(r) PROVE disabled'[x]
  BY <1>0, <1>8 DEF report_failure
<1>9. ASSUME NEW r \in Requests, TransientFailure(r) PROVE disabled'[x]
  BY <1>0, <1>9 DEF TransientFailure
<1>10. ASSUME NEW r \in Requests, report_quota_exhausted(r) PROVE disabled'[x]
  BY <1>0, <1>10 DEF report_quota_exhausted
<1>11. ASSUME NEW r \in Requests, CallForceRefreshed(r) PROVE disabled'[x]
  BY <1>0, <1>11 DEF CallForceRefreshed
<1>12. ASSUME NEW r \in Requests, report_model_unavailable(r) PROVE disabled'[x]
  BY <1>0, <1>12 DEF report_model_unavailable
<1>13. ASSUME NEW r \in Requests, disable_all_credentials(r) PROVE disabled'[x]
  BY <1>0, <1>13 DEF disable_all_credentials
<1>14. ASSUME NEW r \in Requests, NEW c \in Creds, TakeCredential(r, c) PROVE disabled'[x]
  BY <1>0, <1>14 DEF Enabled, TakeCredential
<1>15. ASSUME NEW r \in Requests, NEW usable \in SUBSET Creds, SelfHeal(r, usable) PROVE disabled'[x]
  BY <1>0, <1>15 DEF SelfHeal
<1>16. ASSUME NEW r \in Requests, NEW reason \in {"AuthenticationFailed", "CredentialSuspended"}, CallBanned(r, reason) PROVE disabled'[x]
  BY <1>0, <1>16 DEF CallBanned, mark_credential_banned
<1>17. ASSUME NEW c \in Creds, QueueRefresh(c) PROVE disabled'[x]
  BY <1>0, <1>17 DEF QueueRefresh, TaskStep
<1>18. ASSUME NEW c \in Creds, BeginRefresh(c) PROVE disabled'[x]
  BY <1>0, <1>18 DEF BeginRefresh, TaskStep
<1>19. ASSUME NEW c \in Creds, RefreshSucceeds(c) PROVE disabled'[x]
  BY <1>0, <1>19 DEF RefreshSucceeds, TaskStep
<1>20. ASSUME NEW c \in Creds, RefreshFails(c) PROVE disabled'[x]
  BY <1>0, <1>20 DEF RefreshFails, TaskStep
<1>21. ASSUME NEW c \in Creds, ReprobeSucceeded(c) PROVE disabled'[x]
  BY <1>0, <1>21 DEF ReprobeSucceeded, TaskStep
<1>22. ASSUME NEW c \in Creds, ReprobeFailed(c) PROVE disabled'[x]
  BY <1>0, <1>22 DEF NextLevel, ReprobeFailed, TaskStep
<1>23. ASSUME NEW c \in Creds, mark_insufficient_balance(c) PROVE disabled'[x]
  BY <1>0, <1>23 DEF mark_insufficient_balance
<1>24. ASSUME NEW c \in Creds, ReprobeDue(c) PROVE disabled'[x]
  BY <1>0, <1>24 DEF ReprobeDue
<1>25. ASSUME RecoveryDue PROVE disabled'[x]
  BY <1>0, <1>25 DEF RecoveryDue
<1>26. ASSUME UNCHANGED vars PROVE disabled'[x]
  BY <1>0, <1>26
<1> QED
  BY <1>1, <1>2, <1>3, <1>4, <1>5, <1>6, <1>7, <1>8, <1>9, <1>10, <1>11, <1>12, <1>13, <1>14, <1>15, <1>16, <1>17, <1>18, <1>19, <1>20, <1>21, <1>22, <1>23, <1>24, <1>25, <1>26
     DEF RequestStep, RefresherStep, Clock

(* However a credential comes back, it comes back below both limits. *)
THEOREM EnabledIsBelowLimits == Spec => []EnabledBelowLimits
<1>1. HealthInv => EnabledBelowLimits
  BY DEF HealthInv
<1> QED
  BY <1>1, HealthCorrect, PTL

(* An outage disable always has the deadline its recovery waits for. *)
THEOREM OutageKeepsDeadline == Spec => []OutageHasDeadline
<1>1. HealthInv => OutageHasDeadline
  BY DEF HealthInv
<1> QED
  BY <1>1, HealthCorrect, PTL

(* A credential that authentication disabled always has a reprobe date. *)
THEOREM AuthDisabledStaysScheduled == Spec => []AuthDisabledIsScheduled
<1>1. HealthInv => AuthDisabledIsScheduled
  BY DEF HealthInv
<1> QED
  BY <1>1, HealthCorrect, PTL

(* Whoever was disabled for a passing reason is on the calendar of a task.  *)
THEOREM DisabledKeepsWayBack == Spec => []DisabledHasWayBack
<1>1. HealthInv => DisabledHasWayBack
  BY DEF HealthInv, DisabledHasWayBack
<1> QED
  BY <1>1, HealthCorrect, PTL

(* Only an administrator command enables a credential again whose reason is *)
(* not one of the recoverable ones, whatever was in flight when it was set. *)
THEOREM StickyNeedsAdmin == Spec => OnlyAdminReleasesSticky
<1> DEFINE A == \A c \in Creds :
                   disabled_reason[c] \in StickyReason /\ ~disabled'[c] => AdminStep(c)
<1>1. TypeOK /\ HealthInv /\ [Next]_vars => [A]_vars
  <2> SUFFICES ASSUME TypeOK, HealthInv, [Next]_vars, NEW x \in Creds,
                      disabled_reason[x] \in StickyReason, ~disabled'[x]
               PROVE  AdminStep(x)
    OBVIOUS
  <2>1. PICK c \in Creds : AdminStep(c)
    BY StickyStaysDisabled DEF Next
  <2>2. disabled[x]
    BY DEF HealthInv, ReasonIffDisabled, StickyReason, NoReason
  <2>3. x = c
    BY <2>1, <2>2 DEF AdminStep, set_disabled, reset_and_enable, force_refresh_token_for,
       Disable, Reenable, TypeOK
  <2> QED
    BY <2>1, <2>3
<1> QED
  BY <1>1, TypeCorrect, HealthCorrect, PTL DEF Spec, OnlyAdminReleasesSticky

=============================================================================
