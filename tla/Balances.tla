------------------------------ MODULE Balances ------------------------------
(***************************************************************************)
(* What is left of each credential's monthly quota, and of the overage it   *)
(* may use beyond it: known to the upstream, kept twice by the program, by  *)
(* MultiTokenManager to rank credentials (runtime) and by AdminService to   *)
(* show them (shown), and written to a file from the second.                *)
(*                                                                          *)
(* Both copies are set by whoever asks the upstream: an administrator, the  *)
(* periodic round, which also disables what is exhausted, and a call that   *)
(* finds the runtime copy old; and both are reduced by what the answers of  *)
(* calls say they cost.  Each copy has a lock of its own, and the file is   *)
(* written outside of them.                                                 *)
(*                                                                          *)
(* Whether an entry is older than its lifetime is left open.  The overage   *)
(* of a credential shown is what its switch and its cap give.               *)
(***************************************************************************)
EXTENDS Integers, FiniteSets

CONSTANTS
    BalanceCreds,
    BalanceAdmins,          \* requests of administrators
    BalanceWorkers,         \* the round, calls, and what calls spawn
    QUOTA, OVERAGE_CAP,     \* in the unit of LOW_BALANCE_THRESHOLD
    BALANCE_PERMITS,        \* balance_semaphore
    AllowOverUsage,         \* config.allow_over_usage
    Unknown

ASSUME BalanceAssumption ==
    /\ QUOTA \in Nat \ {0} /\ OVERAGE_CAP \in Nat /\ BALANCE_PERMITS \in Nat \ {0}
    /\ AllowOverUsage \in BOOLEAN
    /\ Unknown \notin [BalanceCreds -> [primary : Int, enabled : BOOLEAN] \cup {Unknown}]

VARIABLES
    usage,                  \* the upstream's: [used, enabled] of each credential
    status,                 \* "enabled", "manual" or "low" (InsufficientBalance)
    runtime,                \* balance_cache of MultiTokenManager
    shown,                  \* balance_cache of AdminService
    balanceFile,            \* kiro_balance_cache.json
    job,                    \* what each task is doing
    doubtful,               \* history: writes overlapped, and none has been alone since
    wasExhausted            \* history: the upstream has said so since the entry was enabled

balanceVars == <<usage, status, runtime, shown, balanceFile, job, doubtful, wasExhausted>>

-----------------------------------------------------------------------------
(* UsageLimitsResponse and BalanceResponse *)

AtLeast0(n) == IF n > 0 THEN n ELSE 0
Primary(u) == AtLeast0(QUOTA - u.used)
Overage(u) == IF u.enabled THEN AtLeast0(OVERAGE_CAP - AtLeast0(u.used - QUOTA)) ELSE 0

\* Nothing of the quota is left, and nothing of the overage.
Exhausted(u) == Primary(u) < 1 /\ Overage(u) < 1

Shows(u) == [primary |-> Primary(u), enabled |-> u.enabled]
Entry(u) == [primary |-> Primary(u), overage |-> Overage(u), initialized |-> TRUE]

-----------------------------------------------------------------------------
BalanceTasks == BalanceAdmins \cup BalanceWorkers

NoJob == [op |-> "none", at |-> "idle", id |-> Unknown, todo |-> {}, answer |-> Unknown,
          json |-> Unknown, ripe |-> {}]

BalanceInit ==
    /\ usage = [c \in BalanceCreds |-> [used |-> 0, enabled |-> FALSE]]
    /\ status = [c \in BalanceCreds |-> "enabled"]
    /\ runtime = [c \in BalanceCreds |-> Unknown]
    /\ shown = [c \in BalanceCreds |-> Unknown]
    /\ balanceFile = shown
    /\ job = [t \in BalanceTasks |-> NoJob]
    /\ doubtful = FALSE /\ wasExhausted = {}

Does(t, op) == job[t].op = op
At(t, at) == job[t].at = at
Goes(t, at) == job' = [job EXCEPT ![t].at = at]

\* The files a task has in hand are those it has serialised and not written.
Writing(t) == job[t].json # Unknown

\* Who asks for AdminService waits for one of the permits of balance_semaphore.
Queued == {"get", "overage"}
PermitsTaken == Cardinality({t \in BalanceTasks : job[t].op \in Queued /\ At(t, "asks")})

Begin(t, op, id, at) ==
    /\ At(t, "idle")
    /\ job' = [job EXCEPT ![t] = [NoJob EXCEPT !.op = op, !.at = at, !.id = id]]
    /\ UNCHANGED <<usage, status, runtime, shown, balanceFile, doubtful, wasExhausted>>

\* get_balance misses its cache, or is forced; fetch_balance turns disabled credentials
\* away, and so does force_refresh_balances_batch.
GetBalance(t, c) == status[c] = "enabled" /\ Begin(t, "get", c, "fetch")
BatchBalance(t, c) == status[c] = "enabled" /\ Begin(t, "get", c, "fetch")

\* spawn_balance_refresh after a call: should_refresh_balance finds the entry old or
\* unknown.  refresh_balance_after_overage_failure does the same.
SpawnRefresh(t, c) == Begin(t, "spawned", c, "fetch")

\* Fault: the round leaves out what is shown.
RoundOfUnshown(t) ==
    /\ At(t, "idle")
    /\ LET active == {c \in BalanceCreds : status[c] = "enabled" /\ shown[c] = Unknown}
           ripe == {c \in BalanceCreds : status[c] = "enabled" /\ Exhausted(usage[c])}
       IN  job' = [job EXCEPT ![t] = [NoJob EXCEPT !.op = "round", !.at = "next",
                                                   !.todo = active, !.ripe = ripe]]
    /\ UNCHANGED <<usage, status, runtime, shown, balanceFile, doubtful, wasExhausted>>

\* A round of start_periodic_balance_refresh over active_credential_ids, in chunks of one.
Round(t) ==
    /\ At(t, "idle")
    /\ LET active == {c \in BalanceCreds : status[c] = "enabled"}
       IN  job' = [job EXCEPT ![t] = [NoJob EXCEPT !.op = "round", !.at = "next",
                                                   !.todo = active,
                                                   !.ripe = {c \in active : Exhausted(usage[c])}]]
    /\ UNCHANGED <<usage, status, runtime, shown, balanceFile, doubtful, wasExhausted>>

\* prefetch_balances_on_startup goes over what the file had no fresh entry of.
Prefetch(t) ==
    /\ At(t, "idle")
    /\ LET stale == {c \in BalanceCreds : status[c] = "enabled" /\ shown[c] = Unknown}
       IN  job' = [job EXCEPT ![t] = [NoJob EXCEPT !.op = "round", !.at = "next", !.todo = stale]]
    /\ UNCHANGED <<usage, status, runtime, shown, balanceFile, doubtful, wasExhausted>>

NextOfRound(t, c) ==
    /\ At(t, "next") /\ c \in job[t].todo
    /\ job' = [job EXCEPT ![t].at = "fetch", ![t].id = c, ![t].todo = @ \ {c}]
    /\ UNCHANGED <<usage, status, runtime, shown, balanceFile, doubtful, wasExhausted>>

EndOfRound(t) ==
    /\ At(t, "next") /\ job[t].todo = {}
    /\ job' = [job EXCEPT ![t] = NoJob]
    /\ UNCHANGED <<usage, status, runtime, shown, balanceFile, doubtful, wasExhausted>>

-----------------------------------------------------------------------------
(* save_balance_cache serialises under the lock and writes after it. *)

Overlaps == \E u \in BalanceTasks : Writing(u)

\* What is shown changes, and is serialised.  Another change between the two is only
\* written as well.
ShowAndSave(t, c, balance) ==
    /\ shown' = [shown EXCEPT ![c] = balance]
    /\ job' = [job EXCEPT ![t].at = "write", ![t].json = shown']
    /\ doubtful' = Overlaps

-----------------------------------------------------------------------------
(* get_usage_limits_for *)

\* What the upstream answers when it is asked.
get_usage_limits(c) == usage[c]

Ask(t) ==
    /\ At(t, "fetch")
    /\ job[t].op \in Queued => PermitsTaken < BALANCE_PERMITS
    /\ job' = [job EXCEPT ![t].at = "asks", ![t].answer = get_usage_limits(job[t].id)]
    /\ wasExhausted' = IF Exhausted(usage[job[t].id]) THEN wasExhausted \cup {job[t].id}
                                                       ELSE wasExhausted
    /\ UNCHANGED <<usage, status, runtime, shown, balanceFile, doubtful>>

\* The answer is lost: the next of a round is asked, everything else ends.
Fails(t) ==
    /\ At(t, "asks")
    /\ job' = [job EXCEPT ![t] = IF Does(t, "round")
                                 THEN [@ EXCEPT !.at = "write", !.answer = Unknown, !.json = shown,
                                                !.ripe = job[t].ripe \ {job[t].id}]
                                 ELSE NoJob]
    /\ doubtful' = IF Does(t, "round") THEN Overlaps ELSE doubtful
    /\ UNCHANGED <<usage, status, runtime, shown, balanceFile, wasExhausted>>

Learns(t) ==
    /\ At(t, "asks")
    /\ runtime' = [runtime EXCEPT ![job[t].id] = Entry(job[t].answer)]
    /\ Goes(t, "learnt")
    /\ UNCHANGED <<usage, status, shown, balanceFile, doubtful, wasExhausted>>

\* mark_insufficient_balance replaces whatever reason there is.
MarkIfExhausted(c, answer) ==
    status' = IF Exhausted(answer) /\ ~AllowOverUsage THEN [status EXCEPT ![c] = "low"] ELSE status

\* apply_usage_limits_to_balance: the copy that is shown stays as it was.
SpawnedApplies(t) ==
    /\ At(t, "learnt") /\ Does(t, "spawned")
    /\ runtime' = [runtime EXCEPT ![job[t].id] = Entry(job[t].answer)]
    /\ MarkIfExhausted(job[t].id, job[t].answer)
    /\ job' = [job EXCEPT ![t] = NoJob]
    /\ UNCHANGED <<usage, shown, balanceFile, doubtful, wasExhausted>>

\* refresh_balances_concurrent keeps the answer twice and disables what is exhausted.
RoundKeeps(t) ==
    /\ At(t, "learnt") /\ Does(t, "round")
    /\ ShowAndSave(t, job[t].id, Shows(job[t].answer))
    /\ runtime' = [runtime EXCEPT ![job[t].id] = Entry(job[t].answer)]
    /\ MarkIfExhausted(job[t].id, job[t].answer)
    /\ UNCHANGED <<usage, balanceFile, wasExhausted>>

\* The others show the answer, save it, and tell the runtime after that.
AdminKeeps(t) ==
    /\ At(t, "learnt") /\ job[t].op \in Queued
    /\ ShowAndSave(t, job[t].id, Shows(job[t].answer))
    /\ UNCHANGED <<usage, status, runtime, balanceFile, wasExhausted>>

-----------------------------------------------------------------------------
\* What a task does when its file is written.
AfterWrite(t) ==
    CASE Does(t, "round") -> [job[t] EXCEPT !.at = "next", !.json = Unknown, !.answer = Unknown]
      [] job[t].op \in Queued /\ job[t].answer # Unknown -> [job[t] EXCEPT !.at = "tell", !.json = Unknown]
      [] Does(t, "overage") /\ job[t].answer = Unknown -> [job[t] EXCEPT !.at = "invalidate", !.json = Unknown]
      [] OTHER -> NoJob

\* A write that fails is only logged.
Write(t) ==
    /\ At(t, "write")
    /\ \/ balanceFile' = job[t].json /\ UNCHANGED doubtful
       \/ doubtful' = TRUE /\ UNCHANGED balanceFile
    /\ job' = [job EXCEPT ![t] = AfterWrite(t)]
    /\ UNCHANGED <<usage, status, runtime, shown, wasExhausted>>

TellRuntime(t) ==
    /\ At(t, "tell")
    /\ runtime' = [runtime EXCEPT ![job[t].id] = Entry(job[t].answer)]
    /\ job' = [job EXCEPT ![t] = NoJob]
    /\ UNCHANGED <<usage, status, shown, balanceFile, doubtful, wasExhausted>>

-----------------------------------------------------------------------------
(* set_overage_status *)

\* The upstream takes the preference; nothing of the program changes.
set_user_preference(c, enabled) == [usage EXCEPT ![c].enabled = enabled]

\* The token it is sent with is renewed before, also of a disabled credential.
set_overage_status_for(c, enabled) == usage' = set_user_preference(c, enabled)

\* Then the entry that is shown is taken out.
SetOverage(t, c, enabled) ==
    /\ At(t, "idle")
    /\ set_overage_status_for(c, enabled)
    /\ shown' = [shown EXCEPT ![c] = Unknown]
    /\ job' = [u \in BalanceTasks |->
                  IF u # t THEN [job[u] EXCEPT !.ripe = @ \ {c}]
                  ELSE IF shown[c] = Unknown THEN [NoJob EXCEPT !.op = "overage", !.id = c, !.at = "invalidate"]
                  ELSE [NoJob EXCEPT !.op = "overage", !.id = c, !.at = "write", !.json = shown']]
    /\ doubtful' = IF shown[c] = Unknown THEN doubtful ELSE Overlaps
    /\ UNCHANGED <<status, runtime, balanceFile, wasExhausted>>

\* Then the runtime copy is, and the balance asked for: not of a disabled credential.
Invalidate(t) ==
    /\ At(t, "invalidate")
    /\ runtime' = [runtime EXCEPT ![job[t].id] = IF @ = Unknown THEN @ ELSE [@ EXCEPT !.initialized = FALSE]]
    /\ job' = [job EXCEPT ![t] = IF status[job[t].id] = "enabled" THEN [@ EXCEPT !.at = "fetch"] ELSE NoJob]
    /\ UNCHANGED <<usage, status, shown, balanceFile, doubtful, wasExhausted>>

-----------------------------------------------------------------------------
(* What a call costs. *)

\* The upstream charges an enabled credential; the answer will say so.
Charged(t, c) ==
    /\ At(t, "idle") /\ status[c] = "enabled"
    /\ Primary(usage[c]) + Overage(usage[c]) > 0
    /\ usage' = [usage EXCEPT ![c].used = @ + 1]
    /\ job' = [job EXCEPT ![t] = [NoJob EXCEPT !.op = "metering", !.at = "apply", !.id = c]]
    /\ UNCHANGED <<status, runtime, shown, balanceFile, doubtful, wasExhausted>>

\* apply_credit_usage takes it from the quota, and what is left over from the overage.
ApplyCredit(t) ==
    /\ At(t, "apply")
    /\ LET e == runtime[job[t].id]
       IN  IF e = Unknown \/ (e # Unknown /\ ~e.initialized)
           THEN job' = [job EXCEPT ![t] = NoJob] /\ UNCHANGED runtime
           ELSE /\ runtime' = [runtime EXCEPT ![job[t].id] =
                        IF e.primary > 0 THEN [e EXCEPT !.primary = @ - 1]
                                         ELSE [e EXCEPT !.overage = AtLeast0(@ - 1)]]
                /\ job' = [job EXCEPT ![t].at = "observe", ![t].answer = runtime'[job[t].id].primary]
    /\ UNCHANGED <<usage, status, shown, balanceFile, doubtful, wasExhausted>>

\* on_credit_usage
OnCreditUsage(t) ==
    /\ At(t, "observe")
    /\ IF shown[job[t].id] = Unknown
       THEN job' = [job EXCEPT ![t] = NoJob] /\ UNCHANGED <<shown, doubtful>>
       ELSE ShowAndSave(t, job[t].id, [shown[job[t].id] EXCEPT !.primary = job[t].answer])
    /\ UNCHANGED <<usage, status, runtime, balanceFile, wasExhausted>>

-----------------------------------------------------------------------------
\* An administrator enables or disables a credential (set_disabled).
SetDisabled(c, disabled) ==
    /\ status' = [status EXCEPT ![c] = IF disabled THEN "manual" ELSE "enabled"]
    /\ wasExhausted' = IF \E t \in BalanceTasks : job[t].id = c THEN wasExhausted
                       ELSE wasExhausted \ {c}
    /\ job' = [t \in BalanceTasks |-> [job[t] EXCEPT !.ripe = @ \ {c}]]
    /\ UNCHANGED <<usage, runtime, shown, balanceFile, doubtful>>

\* A month begins at the upstream.
NewMonth(c) ==
    /\ usage[c].used > 0
    /\ usage' = [usage EXCEPT ![c].used = 0]
    /\ job' = [t \in BalanceTasks |-> [job[t] EXCEPT !.ripe = @ \ {c}]]
    /\ UNCHANGED <<status, runtime, shown, balanceFile, doubtful, wasExhausted>>

\* load_balance_cache_from drops entries that are too old; the other copy starts empty.
RestartBalances ==
    /\ \E fresh \in SUBSET BalanceCreds :
           shown' = [c \in BalanceCreds |-> IF c \in fresh THEN balanceFile[c] ELSE Unknown]
    /\ balanceFile' = shown'
    /\ runtime' = [c \in BalanceCreds |-> Unknown]
    /\ job' = [t \in BalanceTasks |-> NoJob]
    /\ doubtful' = FALSE
    /\ UNCHANGED <<usage, status, wasExhausted>>

BalanceNext ==
    \/ \E t \in BalanceTasks :
           Ask(t) \/ Fails(t) \/ Learns(t) \/ Write(t)
    \/ \E t \in BalanceAdmins :
           \/ AdminKeeps(t) \/ TellRuntime(t) \/ Invalidate(t)
           \/ \E c \in BalanceCreds :
                  GetBalance(t, c) \/ BatchBalance(t, c) \/ \E on \in BOOLEAN : SetOverage(t, c, on)
    \/ \E t \in BalanceWorkers :
           \/ Round(t) \/ Prefetch(t) \/ EndOfRound(t) \/ RoundKeeps(t)
           \/ SpawnedApplies(t) \/ ApplyCredit(t) \/ OnCreditUsage(t)
           \/ \E c \in BalanceCreds : SpawnRefresh(t, c) \/ Charged(t, c) \/ NextOfRound(t, c)
    \/ \E c \in BalanceCreds : NewMonth(c) \/ \E off \in BOOLEAN : SetDisabled(c, off)
    \/ RestartBalances

BalanceSpec == BalanceInit /\ [][BalanceNext]_balanceVars

-----------------------------------------------------------------------------
\* The periodic round finds every credential that was exhausted when it began and still
\* is, unless the upstream did not answer for it; and no credential is disabled for its
\* balance that the upstream had not called exhausted since it was enabled.
ExhaustedAreDisabled ==
    /\ \A t \in BalanceTasks : At(t, "next") /\ ~AllowOverUsage =>
           \A c \in job[t].ripe \ job[t].todo : status[c] # "enabled"
    /\ \A c \in BalanceCreds : status[c] = "low" => c \in wasExhausted

\* Unless two writes ran side by side, or the last failed, nothing that was shown is
\* lost by a restart, and nothing that was withdrawn comes back.
ShownIsSaved ==
    (\A t \in BalanceTasks : ~Writing(t)) /\ ~doubtful => balanceFile = shown

\* What is known of a balance decides who serves, in memory and over restarts: the
\* exhausted are disabled and no others, and what is shown is in the file when no one
\* is about to write it.
BalancesAgree == ExhaustedAreDisabled /\ ShownIsSaved

=============================================================================
