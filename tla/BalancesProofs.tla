--------------------------- MODULE BalancesProofs ---------------------------
(***************************************************************************)
(* Proofs about what is counted.  Balances, for any number of credentials   *)
(* and of tasks, any quota and any number of permits: who is disabled for   *)
(* its balance, and what a restart finds of the balances that are shown.    *)
(* Below, PromptCacheProfile: what a client is told of the prompt cache;    *)
(* and CredentialImport: what an import, a backup and a snapshot leave.     *)
(* The three share no state.                                                *)
(***************************************************************************)
EXTENDS Balances, PromptCacheProfile, CredentialImport, FiniteSetTheorems,
        WellFoundedInduction, TLAPS

Usages == [used : Nat, enabled : BOOLEAN]
Balance == [primary : Int, enabled : BOOLEAN]
Known == [primary : Int, overage : Int, initialized : BOOLEAN]
Shown == [BalanceCreds -> Balance \cup {Unknown}]

Ops == {"none", "get", "spawned", "round", "overage", "metering"}
Ats == {"idle", "fetch", "next", "asks", "learnt", "write", "tell", "invalidate", "apply", "observe"}
Jobs == [op : Ops, at : Ats, id : BalanceCreds \cup {Unknown}, todo : SUBSET BalanceCreds,
         answer : Usages \cup Int \cup {Unknown}, json : Shown \cup {Unknown},
         ripe : SUBSET BalanceCreds]

\* What a task has at each of its steps.
Typed(j) ==
    /\ j \in Jobs
    /\ j.at \in {"fetch", "asks", "learnt", "tell", "invalidate", "apply", "observe"} =>
           j.id \in BalanceCreds
    /\ j.at \in {"asks", "learnt", "tell"} => j.answer \in Usages
    /\ j.at = "write" /\ j.op \in Queued =>
           j.answer \in Usages \cup {Unknown} /\ j.id \in BalanceCreds
    /\ j.at \in {"apply", "observe"} => j.op = "metering"
    /\ j.at = "observe" => j.answer \in Int

BalanceTyped ==
    /\ usage \in [BalanceCreds -> Usages]
    /\ status \in [BalanceCreds -> {"enabled", "manual", "low"}]
    /\ runtime \in [BalanceCreds -> Known \cup {Unknown}]
    /\ shown \in Shown /\ balanceFile \in Shown
    /\ doubtful \in BOOLEAN
    /\ job \in [BalanceTasks -> Jobs] /\ \A t \in BalanceTasks : Typed(job[t])

\* With the usage u at the upstream, the states s and the history w: a task j asks, of what
\* was exhausted at its start and is not disabled, one after the other; what it was told
\* to be exhausted is known to have been.
Asking == {"fetch", "asks", "learnt"}

Finds(j, u, s, w) ==
    /\ j.op # "round" => j.ripe = {}
    /\ \A c \in j.ripe :
           /\ Exhausted(u[c])
           /\ c \in j.todo \/ (c = j.id /\ j.at \in Asking) \/ AllowOverUsage \/ s[c] # "enabled"
    /\ j.at \in {"asks", "learnt"} =>
           /\ Exhausted(j.answer) => j.id \in w
           /\ j.id \in j.ripe => Exhausted(j.answer)

FindInv ==
    /\ \A t \in BalanceTasks : Finds(job[t], usage, status, wasExhausted)
    /\ \A c \in BalanceCreds : status[c] = "low" => c \in wasExhausted

\* Who writes has the file to write; and while nothing is in doubt at most one does, and
\* it is what is shown, or else that is what the file has.
WritersInv ==
    /\ \A t \in BalanceTasks : At(t, "write") <=> Writing(t)
    /\ ~doubtful =>
           /\ \A t, u \in BalanceTasks : Writing(t) /\ Writing(u) => t = u
           /\ \A t \in BalanceTasks : Writing(t) => job[t].json = shown
           /\ (\A t \in BalanceTasks : ~Writing(t)) => balanceFile = shown

BalanceInv == BalanceTyped /\ FindInv /\ WritersInv

-----------------------------------------------------------------------------
LEMMA Numbers ==
    ASSUME NEW u \in Usages
    PROVE  /\ Primary(u) \in Int /\ Overage(u) \in Int
           /\ Shows(u) \in Balance /\ Entry(u) \in Known
<1>1. Primary(u) \in Int /\ Overage(u) \in Int
  BY BalanceAssumption DEF Primary, Overage, AtLeast0, Usages
<1>2. u.enabled \in BOOLEAN
  BY DEF Usages
<1> QED
  BY <1>1, <1>2 DEF Shows, Entry, Balance, Known

\* A file is not the absence of one.
LEMMA ShownIsKnown == \A f \in Shown : f # Unknown
BY BalanceAssumption DEF Shown, Balance

LEMMA NoJobIsTyped ==
    /\ Typed(NoJob)
    /\ \A u, s, w : Finds(NoJob, u, s, w)
    /\ NoJob.at = "idle" /\ NoJob.json = Unknown /\ NoJob.op = "none" /\ NoJob.ripe = {}
BY DEF NoJob, Typed, Jobs, Ops, Ats, Finds

LEMMA BalancesInitially == BalanceInit => BalanceInv
<1> SUFFICES ASSUME BalanceInit PROVE BalanceInv
  OBVIOUS
<1>1. BalanceTyped
  <2>1. usage \in [BalanceCreds -> Usages] /\ status \in [BalanceCreds -> {"enabled", "manual", "low"}]
    BY DEF BalanceInit, Usages
  <2>2. /\ runtime \in [BalanceCreds -> Known \cup {Unknown}] /\ shown \in Shown
        /\ balanceFile \in Shown /\ doubtful \in BOOLEAN
    BY DEF BalanceInit, Shown
  <2>3. job \in [BalanceTasks -> Jobs] /\ \A t \in BalanceTasks : Typed(job[t])
    BY NoJobIsTyped DEF BalanceInit, Typed
  <2> QED
    BY <2>1, <2>2, <2>3 DEF BalanceTyped
<1>2. FindInv
  BY NoJobIsTyped DEF BalanceInit, FindInv
<1>3. WritersInv
  BY NoJobIsTyped DEF BalanceInit, WritersInv, Writing, At
<1> QED
  BY <1>1, <1>2, <1>3 DEF BalanceInv

-----------------------------------------------------------------------------
(* What steps have in common. *)

\* One task goes on to j.
Becomes(t, j) == job' = [job EXCEPT ![t] = j]

LEMMA BecomesTyped ==
    ASSUME BalanceTyped, NEW t \in BalanceTasks, NEW j, Typed(j), Becomes(t, j)
    PROVE  /\ job' \in [BalanceTasks -> Jobs] /\ \A x \in BalanceTasks : Typed(job'[x])
           /\ job'[t] = j /\ \A x \in BalanceTasks \ {t} : job'[x] = job[x]
BY DEF BalanceTyped, Becomes, Typed

\* Nothing is found out.
LEMMA NothingFound ==
    ASSUME FindInv, BalanceTyped, NEW t \in BalanceTasks, NEW j, Becomes(t, j),
           Finds(j, usage, status, wasExhausted), UNCHANGED <<usage, status, wasExhausted>>
    PROVE  FindInv'
<1>1. \A x \in BalanceTasks : job'[x] = j \/ job'[x] = job[x]
  BY DEF Becomes, BalanceTyped
<1> QED
  BY <1>1 DEF FindInv

\* A task that does not write leaves what is written.
LEMMA NothingWritten ==
    ASSUME WritersInv, BalanceTyped, NEW t \in BalanceTasks, NEW j, Becomes(t, j),
           ~At(t, "write"), j.at # "write", j.json = Unknown,
           UNCHANGED <<shown, balanceFile, doubtful>>
    PROVE  WritersInv'
<1>1. job'[t] = j /\ \A x \in BalanceTasks \ {t} : job'[x] = job[x]
  BY DEF Becomes, BalanceTyped
<1>2. ~Writing(t) /\ ~Writing(t)' /\ ~At(t, "write")'
  BY <1>1 DEF WritersInv, Writing, At
<1>3. \A x \in BalanceTasks \ {t} : (Writing(x)' <=> Writing(x)) /\ (At(x, "write")' <=> At(x, "write"))
  BY <1>1 DEF Writing, At
<1>4. \A x \in BalanceTasks : (Writing(x)' <=> Writing(x)) /\ (Writing(x) => job'[x].json = job[x].json)
  BY <1>1, <1>2, <1>3
<1>5. \A x \in BalanceTasks : At(x, "write")' <=> Writing(x)'
  BY <1>2, <1>3 DEF WritersInv
<1> QED
  BY <1>4, <1>5 DEF WritersInv

\* A task serialises what is shown then.
LEMMA OneSerialises ==
    ASSUME WritersInv, BalanceTyped, NEW t \in BalanceTasks, ~At(t, "write"),
           DOMAIN job' = BalanceTasks, shown' \in Shown,
           job'[t].at = "write", job'[t].json = shown',
           \A x \in BalanceTasks \ {t} : job'[x].at = job[x].at /\ job'[x].json = job[x].json,
           doubtful' <=> Overlaps
    PROVE  WritersInv'
<1>1. Writing(t)' /\ At(t, "write")' /\ ~Writing(t)
  BY ShownIsKnown DEF Writing, At, WritersInv
<1>2. \A x \in BalanceTasks \ {t} : (Writing(x)' <=> Writing(x)) /\ (At(x, "write")' <=> At(x, "write"))
  BY DEF Writing, At
<1>3. \A x \in BalanceTasks : At(x, "write")' <=> Writing(x)'
  BY <1>1, <1>2 DEF WritersInv
<1>4. ASSUME ~doubtful' PROVE \A x \in BalanceTasks : Writing(x)' => x = t
  BY <1>1, <1>2, <1>4 DEF Overlaps
<1> QED
  BY <1>1, <1>3, <1>4 DEF WritersInv

-----------------------------------------------------------------------------
(* Each action. *)

LEMMA BeginKeeps ==
    ASSUME BalanceInv, NEW t \in BalanceTasks, NEW name \in Ops \ {"none", "round"},
           NEW id \in BalanceCreds, Begin(t, name, id, "fetch")
    PROVE  BalanceInv'
<1> DEFINE j == [NoJob EXCEPT !.op = name, !.at = "fetch", !.id = id]
<1>1. Becomes(t, j) /\ ~At(t, "write")
      /\ UNCHANGED <<usage, status, runtime, shown, balanceFile, doubtful, wasExhausted>>
  BY DEF Begin, Becomes, At
<1>2. /\ j.op = name /\ j.at = "fetch" /\ j.id = id /\ j.todo = {} /\ j.answer = Unknown
      /\ j.json = Unknown /\ j.ripe = {} /\ j \in Jobs
  BY DEF NoJob, Jobs, Ops, Ats
<1> HIDE DEF j
<1>3. Typed(j) /\ Finds(j, usage, status, wasExhausted)
  BY <1>2 DEF Typed, Finds
<1>4. BalanceTyped'
  BY <1>1, <1>3, BecomesTyped DEF BalanceInv, BalanceTyped
<1>5. FindInv'
  BY <1>1, <1>3, NothingFound DEF BalanceInv
<1>6. WritersInv'
  BY <1>1, <1>2, NothingWritten DEF BalanceInv
<1> QED
  BY <1>4, <1>5, <1>6 DEF BalanceInv

\* A round begins with all that may be exhausted to be asked.
LEMMA RoundKeepsInv ==
    ASSUME BalanceInv, NEW t \in BalanceTasks, Round(t) \/ Prefetch(t)
    PROVE  BalanceInv'
<1>1. PICK j \in Jobs :
          /\ j.op = "round" /\ j.at = "next" /\ j.id = Unknown /\ j.json = Unknown
          /\ j.ripe \subseteq j.todo /\ \A c \in j.ripe : Exhausted(usage[c])
          /\ Becomes(t, j)
  <2>1. CASE Round(t)
    <3> DEFINE active == {c \in BalanceCreds : status[c] = "enabled"}
               spent == {c \in active : Exhausted(usage[c])}
               j == [NoJob EXCEPT !.op = "round", !.at = "next", !.todo = active, !.ripe = spent]
    <3>1. /\ active \in SUBSET BalanceCreds /\ spent \in SUBSET BalanceCreds
          /\ spent \subseteq active /\ \A c \in spent : Exhausted(usage[c])
      OBVIOUS
    <3>2. Becomes(t, j)
      BY <2>1 DEF Round, Becomes
    <3> HIDE DEF active, spent
    <3>3. /\ j \in Jobs /\ j.op = "round" /\ j.at = "next" /\ j.id = Unknown
          /\ j.json = Unknown /\ j.todo = active /\ j.ripe = spent
      BY <3>1 DEF NoJob, Jobs, Ops, Ats
    <3> HIDE DEF j
    <3> QED
      BY <3>1, <3>2, <3>3
  <2>2. CASE Prefetch(t)
    <3> DEFINE stale == {c \in BalanceCreds : status[c] = "enabled" /\ shown[c] = Unknown}
               j == [NoJob EXCEPT !.op = "round", !.at = "next", !.todo = stale]
    <3>1. stale \in SUBSET BalanceCreds
      OBVIOUS
    <3>2. Becomes(t, j)
      BY <2>2 DEF Prefetch, Becomes
    <3> HIDE DEF stale
    <3>3. /\ j \in Jobs /\ j.op = "round" /\ j.at = "next" /\ j.id = Unknown
          /\ j.json = Unknown /\ j.ripe = {}
      BY <3>1 DEF NoJob, Jobs, Ops, Ats
    <3> HIDE DEF j
    <3> QED
      BY <3>2, <3>3
  <2> QED
    BY <2>1, <2>2
<1>2. /\ ~At(t, "write")
      /\ UNCHANGED <<usage, status, runtime, shown, balanceFile, doubtful, wasExhausted>>
  BY DEF Round, Prefetch, At
<1>3. Typed(j) /\ Finds(j, usage, status, wasExhausted)
  BY <1>1 DEF Typed, Finds
<1>4. BalanceTyped'
  BY <1>1, <1>2, <1>3, BecomesTyped DEF BalanceInv, BalanceTyped
<1>5. FindInv'
  BY <1>1, <1>2, <1>3, NothingFound DEF BalanceInv
<1>6. WritersInv'
  BY <1>1, <1>2, NothingWritten DEF BalanceInv
<1> QED
  BY <1>4, <1>5, <1>6 DEF BalanceInv

LEMMA NextOfRoundKeeps ==
    ASSUME BalanceInv, NEW t \in BalanceTasks, NEW c \in BalanceCreds, NextOfRound(t, c)
    PROVE  BalanceInv'
<1> DEFINE j == [job[t] EXCEPT !.at = "fetch", !.id = c, !.todo = @ \ {c}]
<1>1. job[t] \in Jobs /\ Typed(job[t]) /\ Finds(job[t], usage, status, wasExhausted)
  BY DEF BalanceInv, BalanceTyped, FindInv
<1>2. /\ At(t, "next") /\ job[t].at = "next" /\ c \in job[t].todo /\ Becomes(t, j)
      /\ UNCHANGED <<usage, status, runtime, shown, balanceFile, doubtful, wasExhausted>>
  BY DEF NextOfRound, At, Becomes
<1>3. job[t].json = Unknown
  BY <1>2 DEF BalanceInv, WritersInv, Writing, At
<1>4. /\ j.op = job[t].op /\ j.at = "fetch" /\ j.id = c /\ j.todo = job[t].todo \ {c}
      /\ j.answer = job[t].answer /\ j.json = Unknown /\ j.ripe = job[t].ripe /\ j \in Jobs
  BY <1>1, <1>3 DEF Jobs, Ats
<1> HIDE DEF j
<1>5. Typed(j)
  BY <1>4 DEF Typed
<1>6. Finds(j, usage, status, wasExhausted)
  BY <1>1, <1>2, <1>4 DEF Finds, Asking
<1>7. BalanceTyped'
  BY <1>2, <1>5, BecomesTyped DEF BalanceInv, BalanceTyped
<1>8. FindInv'
  BY <1>2, <1>6, NothingFound DEF BalanceInv
<1>9. WritersInv'
  BY <1>2, <1>4, NothingWritten DEF BalanceInv, At
<1> QED
  BY <1>7, <1>8, <1>9 DEF BalanceInv

LEMMA EndOfRoundKeeps ==
    ASSUME BalanceInv, NEW t \in BalanceTasks, EndOfRound(t)
    PROVE  BalanceInv'
<1>1. /\ Becomes(t, NoJob) /\ ~At(t, "write")
      /\ UNCHANGED <<usage, status, runtime, shown, balanceFile, doubtful, wasExhausted>>
  BY DEF EndOfRound, At, Becomes
<1>2. BalanceTyped'
  BY <1>1, NoJobIsTyped, BecomesTyped DEF BalanceInv, BalanceTyped
<1>3. FindInv'
  BY <1>1, NoJobIsTyped, NothingFound DEF BalanceInv
<1>4. WritersInv'
  BY <1>1, NoJobIsTyped, NothingWritten DEF BalanceInv
<1> QED
  BY <1>2, <1>3, <1>4 DEF BalanceInv

\* What is exhausted stays so, who is disabled too, and what is known.
LEMMA StillFinds ==
    ASSUME NEW j, NEW u, NEW s, NEW w, NEW u2, NEW s2, NEW w2, Finds(j, u, s, w),
           \A c \in j.ripe : Exhausted(u[c]) => Exhausted(u2[c]),
           \A c \in j.ripe : s[c] # "enabled" => s2[c] # "enabled",
           j.at \in {"asks", "learnt"} /\ j.id \in w => j.id \in w2
    PROVE  Finds(j, u2, s2, w2)
BY DEF Finds

LEMMA OneFinds ==
    ASSUME BalanceTyped, NEW t \in BalanceTasks, NEW j, Becomes(t, j),
           Finds(j, usage', status', wasExhausted'),
           \A x \in BalanceTasks \ {t} : Finds(job[x], usage', status', wasExhausted'),
           \A c \in BalanceCreds : status'[c] = "low" => c \in wasExhausted'
    PROVE  FindInv'
<1>1. job'[t] = j /\ \A x \in BalanceTasks \ {t} : job'[x] = job[x]
  BY DEF Becomes, BalanceTyped
<1> QED
  BY <1>1 DEF FindInv

LEMMA AskKeeps ==
    ASSUME BalanceInv, NEW t \in BalanceTasks, Ask(t)
    PROVE  BalanceInv'
<1> DEFINE j == [job[t] EXCEPT !.at = "asks", !.answer = usage[job[t].id]]
<1>1. job[t] \in Jobs /\ Typed(job[t]) /\ Finds(job[t], usage, status, wasExhausted)
  BY DEF BalanceInv, BalanceTyped, FindInv
<1>2. /\ job[t].at = "fetch" /\ ~At(t, "write") /\ Becomes(t, j)
      /\ UNCHANGED <<usage, status, runtime, shown, balanceFile, doubtful>>
      /\ wasExhausted \subseteq wasExhausted'
      /\ Exhausted(usage[job[t].id]) => job[t].id \in wasExhausted'
  BY DEF Ask, At, Becomes, get_usage_limits
<1>3. job[t].json = Unknown /\ job[t].id \in BalanceCreds /\ usage[job[t].id] \in Usages
  BY <1>1, <1>2 DEF BalanceInv, BalanceTyped, WritersInv, Writing, At, Typed
<1>4. /\ j.op = job[t].op /\ j.at = "asks" /\ j.id = job[t].id /\ j.todo = job[t].todo
      /\ j.answer = usage[job[t].id] /\ j.json = Unknown /\ j.ripe = job[t].ripe /\ j \in Jobs
  BY <1>1, <1>3 DEF Jobs, Ats
<1> HIDE DEF j
<1>5. Typed(j)
  BY <1>3, <1>4 DEF Typed
<1>6. Finds(j, usage, status, wasExhausted')
  BY <1>1, <1>2, <1>4 DEF Finds, Asking
<1>7. \A x \in BalanceTasks : Finds(job[x], usage, status, wasExhausted')
  BY <1>2, StillFinds DEF BalanceInv, FindInv
<1>8. BalanceTyped'
  BY <1>2, <1>5, BecomesTyped DEF BalanceInv, BalanceTyped
<1>9. FindInv'
  <2>1. \A c \in BalanceCreds : status'[c] = "low" => c \in wasExhausted'
    BY <1>2 DEF BalanceInv, FindInv
  <2> QED
    BY <1>2, <1>6, <1>7, <2>1, OneFinds DEF BalanceInv
<1>10. WritersInv'
  BY <1>2, <1>4, NothingWritten DEF BalanceInv
<1> QED
  BY <1>8, <1>9, <1>10 DEF BalanceInv

LEMMA FailsKeeps ==
    ASSUME BalanceInv, NEW t \in BalanceTasks, Fails(t)
    PROVE  BalanceInv'
<1>1. job[t] \in Jobs /\ Typed(job[t]) /\ Finds(job[t], usage, status, wasExhausted)
  BY DEF BalanceInv, BalanceTyped, FindInv
<1>2. /\ job[t].at = "asks" /\ ~At(t, "write") /\ shown \in Shown /\ job \in [BalanceTasks -> Jobs]
      /\ UNCHANGED <<usage, status, runtime, shown, balanceFile, wasExhausted>>
  BY DEF Fails, At, BalanceInv, BalanceTyped
<1>3. CASE job[t].op = "round"
  <2> DEFINE j == [job[t] EXCEPT !.at = "write", !.answer = Unknown, !.json = shown,
                                 !.ripe = job[t].ripe \ {job[t].id}]
  <2>1. Becomes(t, j) /\ doubtful' \in BOOLEAN /\ (doubtful' <=> Overlaps)
    <3>1. Becomes(t, j)
      <4>1. job' = [job EXCEPT ![t] = IF Does(t, "round") THEN j ELSE NoJob]
        BY Zenon DEF Fails
      <4> HIDE DEF j
      <4> QED
        BY <1>3, <4>1 DEF Becomes, Does
    <3>2. doubtful' = Overlaps
      BY <1>3, Zenon DEF Fails, Does
    <3> QED
      BY <3>1, <3>2 DEF Overlaps
  <2>2. /\ j.op = "round" /\ j.at = "write" /\ j.id = job[t].id /\ j.todo = job[t].todo
        /\ j.answer = Unknown /\ j.json = shown /\ j.ripe = job[t].ripe \ {job[t].id} /\ j \in Jobs
    BY <1>1, <1>2, <1>3 DEF Jobs, Ats
  <2> HIDE DEF j
  <2>3. Typed(j) /\ Finds(j, usage, status, wasExhausted)
    BY <1>1, <2>2 DEF Typed, Finds, Queued
  <2>4. BalanceTyped'
    BY <1>2, <2>1, <2>3, BecomesTyped DEF BalanceInv, BalanceTyped
  <2>5. FindInv'
    BY <1>2, <2>1, <2>3, NothingFound DEF BalanceInv
  <2>6. WritersInv'
    <3>1. job'[t] = j /\ DOMAIN job' = BalanceTasks
          /\ \A x \in BalanceTasks \ {t} : job'[x].at = job[x].at /\ job'[x].json = job[x].json
      BY <1>2, <2>1 DEF Becomes
    <3> QED
      BY <1>2, <2>1, <2>2, <3>1, OneSerialises DEF BalanceInv
  <2> QED
    BY <2>4, <2>5, <2>6 DEF BalanceInv
<1>4. CASE job[t].op # "round"
  <2>1. Becomes(t, NoJob) /\ UNCHANGED doubtful
    BY <1>4 DEF Fails, Becomes, Does
  <2>2. BalanceTyped'
    BY <1>2, <2>1, NoJobIsTyped, BecomesTyped DEF BalanceInv, BalanceTyped
  <2>3. FindInv'
    BY <1>2, <2>1, NoJobIsTyped, NothingFound DEF BalanceInv
  <2>4. WritersInv'
    BY <1>2, <2>1, NoJobIsTyped, NothingWritten DEF BalanceInv
  <2> QED
    BY <2>2, <2>3, <2>4 DEF BalanceInv
<1> QED
  BY <1>3, <1>4

LEMMA LearnsKeeps ==
    ASSUME BalanceInv, NEW t \in BalanceTasks, Learns(t)
    PROVE  BalanceInv'
<1> DEFINE j == [job[t] EXCEPT !.at = "learnt"]
<1>1. job[t] \in Jobs /\ Typed(job[t]) /\ Finds(job[t], usage, status, wasExhausted)
  BY DEF BalanceInv, BalanceTyped, FindInv
<1>2. /\ job[t].at = "asks" /\ ~At(t, "write") /\ Becomes(t, j)
      /\ runtime' = [runtime EXCEPT ![job[t].id] = Entry(job[t].answer)]
      /\ UNCHANGED <<usage, status, shown, balanceFile, doubtful, wasExhausted>>
  BY DEF Learns, Goes, At, Becomes
<1>3. /\ job[t].json = Unknown /\ job[t].id \in BalanceCreds /\ job[t].answer \in Usages
  BY <1>1, <1>2 DEF BalanceInv, WritersInv, Writing, At, Typed
<1>4. /\ j.op = job[t].op /\ j.at = "learnt" /\ j.id = job[t].id /\ j.todo = job[t].todo
      /\ j.answer = job[t].answer /\ j.json = Unknown /\ j.ripe = job[t].ripe /\ j \in Jobs
  BY <1>1, <1>3 DEF Jobs, Ats
<1> HIDE DEF j
<1>5. Typed(j) /\ Finds(j, usage, status, wasExhausted)
  BY <1>1, <1>2, <1>3, <1>4 DEF Typed, Finds, Asking
<1>6. runtime' \in [BalanceCreds -> Known \cup {Unknown}]
  BY <1>2, <1>3, Numbers DEF BalanceInv, BalanceTyped
<1>7. BalanceTyped'
  BY <1>2, <1>5, <1>6, BecomesTyped DEF BalanceInv, BalanceTyped
<1>8. FindInv'
  BY <1>2, <1>5, NothingFound DEF BalanceInv
<1>9. WritersInv'
  BY <1>2, <1>4, NothingWritten DEF BalanceInv
<1> QED
  BY <1>7, <1>8, <1>9 DEF BalanceInv

\* Who is disabled for its balance has been called exhausted.
LEMMA Marked ==
    ASSUME BalanceInv, NEW t \in BalanceTasks, At(t, "learnt"),
           MarkIfExhausted(job[t].id, job[t].answer)
    PROVE  /\ status' \in [BalanceCreds -> {"enabled", "manual", "low"}]
           /\ \A x \in BalanceTasks : Finds(job[x], usage, status', wasExhausted)
           /\ \A c \in BalanceCreds : status'[c] = "low" => c \in wasExhausted
           /\ Exhausted(job[t].answer) => status'[job[t].id] # "enabled" \/ AllowOverUsage
<1>1. job[t].id \in BalanceCreds /\ Finds(job[t], usage, status, wasExhausted) /\ job[t].at = "learnt"
  BY DEF BalanceInv, BalanceTyped, FindInv, Typed, At
<1>2. /\ status \in [BalanceCreds -> {"enabled", "manual", "low"}]
      /\ \A c \in BalanceCreds : status[c] = "low" => c \in wasExhausted
      /\ \A x \in BalanceTasks : Finds(job[x], usage, status, wasExhausted) /\ job[x] \in Jobs
  BY DEF BalanceInv, BalanceTyped, FindInv
<1>3. /\ status' \in [BalanceCreds -> {"enabled", "manual", "low"}]
      /\ \A c \in BalanceCreds : status'[c] = "low" => c \in wasExhausted
      /\ \A c \in BalanceCreds : status[c] # "enabled" => status'[c] # "enabled"
      /\ Exhausted(job[t].answer) => status'[job[t].id] # "enabled" \/ AllowOverUsage
  BY <1>1, <1>2 DEF MarkIfExhausted, Finds
<1>4. \A x \in BalanceTasks : job[x].ripe \subseteq BalanceCreds
  BY <1>2 DEF Jobs
<1> QED
  BY <1>2, <1>3, <1>4, StillFinds

LEMMA SpawnedAppliesKeeps ==
    ASSUME BalanceInv, NEW t \in BalanceTasks, SpawnedApplies(t)
    PROVE  BalanceInv'
<1>1. /\ job[t].at = "learnt" /\ ~At(t, "write") /\ Becomes(t, NoJob)
      /\ runtime' = [runtime EXCEPT ![job[t].id] = Entry(job[t].answer)]
      /\ MarkIfExhausted(job[t].id, job[t].answer) /\ At(t, "learnt")
      /\ UNCHANGED <<usage, shown, balanceFile, doubtful, wasExhausted>>
  BY DEF SpawnedApplies, At, Becomes
<1>2. job[t].id \in BalanceCreds /\ job[t].answer \in Usages
  BY <1>1 DEF BalanceInv, BalanceTyped, Typed
<1>3. runtime' \in [BalanceCreds -> Known \cup {Unknown}]
  BY <1>1, <1>2, Numbers DEF BalanceInv, BalanceTyped
<1>4. BalanceTyped'
  BY <1>1, <1>3, Marked, NoJobIsTyped, BecomesTyped DEF BalanceInv, BalanceTyped
<1>5. FindInv'
  BY <1>1, Marked, NoJobIsTyped, OneFinds DEF BalanceInv
<1>6. WritersInv'
  BY <1>1, NoJobIsTyped, NothingWritten DEF BalanceInv
<1> QED
  BY <1>4, <1>5, <1>6 DEF BalanceInv

LEMMA Showing ==
    ASSUME BalanceInv, NEW t \in BalanceTasks, NEW c, NEW balance \in Balance,
           ShowAndSave(t, c, balance), ~At(t, "write")
    PROVE  /\ shown' \in Shown /\ doubtful' \in BOOLEAN /\ WritersInv'
           /\ \E j \in Jobs :
                  /\ j.op = job[t].op /\ j.at = "write" /\ j.id = job[t].id
                  /\ j.todo = job[t].todo /\ j.answer = job[t].answer /\ j.ripe = job[t].ripe
                  /\ Becomes(t, j)
<1>1. shown' \in Shown /\ shown' = [shown EXCEPT ![c] = balance]
  BY DEF ShowAndSave, BalanceInv, BalanceTyped, Shown
<1>2. PICK f \in Shown : f = shown'
  BY <1>1
<1>3. doubtful' \in BOOLEAN /\ (doubtful' <=> Overlaps)
  <2>1. doubtful' = Overlaps
    BY Zenon DEF ShowAndSave
  <2> QED
    BY <2>1 DEF Overlaps
<1>4. job \in [BalanceTasks -> Jobs] /\ job[t] \in Jobs
  BY DEF BalanceInv, BalanceTyped
<1> DEFINE j == [job[t] EXCEPT !.at = "write", !.json = f]
<1>5. Becomes(t, j)
  BY <1>2, <1>4 DEF ShowAndSave, Becomes
<1>6. /\ j.op = job[t].op /\ j.at = "write" /\ j.id = job[t].id /\ j.todo = job[t].todo
      /\ j.answer = job[t].answer /\ j.ripe = job[t].ripe /\ j.json = f /\ j \in Jobs
  BY <1>4 DEF Jobs, Ats
<1> HIDE DEF j
<1>7. WritersInv'
  <2>1. job'[t] = j /\ DOMAIN job' = BalanceTasks
        /\ \A x \in BalanceTasks \ {t} : job'[x].at = job[x].at /\ job'[x].json = job[x].json
    BY <1>4, <1>5 DEF Becomes
  <2> QED
    BY <1>1, <1>2, <1>3, <1>6, <2>1, OneSerialises DEF BalanceInv
<1> QED
  BY <1>1, <1>3, <1>5, <1>6, <1>7

LEMMA RoundKeepsKeeps ==
    ASSUME BalanceInv, NEW t \in BalanceTasks, RoundKeeps(t)
    PROVE  BalanceInv'
<1>1. job[t] \in Jobs /\ Typed(job[t]) /\ Finds(job[t], usage, status, wasExhausted)
  BY DEF BalanceInv, BalanceTyped, FindInv
<1>2. /\ job[t].at = "learnt" /\ job[t].op = "round" /\ ~At(t, "write") /\ At(t, "learnt")
      /\ ShowAndSave(t, job[t].id, Shows(job[t].answer))
      /\ runtime' = [runtime EXCEPT ![job[t].id] = Entry(job[t].answer)]
      /\ MarkIfExhausted(job[t].id, job[t].answer)
      /\ UNCHANGED <<usage, balanceFile, wasExhausted>>
  BY DEF RoundKeeps, At, Does
<1>3. job[t].id \in BalanceCreds /\ job[t].answer \in Usages
  BY <1>1, <1>2 DEF Typed
<1>4. runtime' \in [BalanceCreds -> Known \cup {Unknown}]
  BY <1>2, <1>3, Numbers DEF BalanceInv, BalanceTyped
<1>5. Shows(job[t].answer) \in Balance
  BY <1>3, Numbers
<1>6. PICK j \in Jobs :
          /\ j.op = job[t].op /\ j.at = "write" /\ j.id = job[t].id
          /\ j.todo = job[t].todo /\ j.answer = job[t].answer /\ j.ripe = job[t].ripe
          /\ Becomes(t, j)
  BY <1>2, <1>5, Showing
<1>7. shown' \in Shown /\ doubtful' \in BOOLEAN /\ WritersInv'
  BY <1>2, <1>5, Showing
<1>8. Typed(j)
  BY <1>2, <1>6 DEF Typed, Queued
<1>9. Finds(j, usage, status', wasExhausted)
  <2>1. /\ Finds(job[t], usage, status', wasExhausted)
        /\ Exhausted(job[t].answer) => status'[job[t].id] # "enabled" \/ AllowOverUsage
    BY <1>2, Marked
  <2> QED
    BY <1>2, <1>6, <2>1 DEF Finds, Asking
<1>10. BalanceTyped'
  BY <1>2, <1>4, <1>6, <1>7, <1>8, Marked, BecomesTyped DEF BalanceInv, BalanceTyped
<1>11. FindInv'
  BY <1>2, <1>6, <1>9, Marked, OneFinds DEF BalanceInv
<1> QED
  BY <1>7, <1>10, <1>11 DEF BalanceInv

LEMMA AdminKeepsKeeps ==
    ASSUME BalanceInv, NEW t \in BalanceTasks, AdminKeeps(t)
    PROVE  BalanceInv'
<1>1. job[t] \in Jobs /\ Typed(job[t]) /\ Finds(job[t], usage, status, wasExhausted)
  BY DEF BalanceInv, BalanceTyped, FindInv
<1>2. /\ job[t].at = "learnt" /\ job[t].op \in Queued /\ ~At(t, "write")
      /\ ShowAndSave(t, job[t].id, Shows(job[t].answer))
      /\ UNCHANGED <<usage, status, runtime, balanceFile, wasExhausted>>
  BY DEF AdminKeeps, At
<1>3. job[t].answer \in Usages /\ Shows(job[t].answer) \in Balance
  BY <1>1, <1>2, Numbers DEF Typed
<1>4. PICK j \in Jobs :
          /\ j.op = job[t].op /\ j.at = "write" /\ j.id = job[t].id
          /\ j.todo = job[t].todo /\ j.answer = job[t].answer /\ j.ripe = job[t].ripe
          /\ Becomes(t, j)
  BY <1>2, <1>3, Showing
<1>5. shown' \in Shown /\ doubtful' \in BOOLEAN /\ WritersInv'
  BY <1>2, <1>3, Showing
<1>6. Typed(j) /\ Finds(j, usage, status, wasExhausted)
  BY <1>1, <1>2, <1>3, <1>4 DEF Typed, Finds, Queued
<1>7. BalanceTyped'
  BY <1>2, <1>4, <1>5, <1>6, BecomesTyped DEF BalanceInv, BalanceTyped
<1>8. FindInv'
  BY <1>2, <1>4, <1>6, NothingFound DEF BalanceInv
<1> QED
  BY <1>5, <1>7, <1>8 DEF BalanceInv

LEMMA OnCreditUsageKeeps ==
    ASSUME BalanceInv, NEW t \in BalanceTasks, OnCreditUsage(t)
    PROVE  BalanceInv'
<1>1. job[t] \in Jobs /\ Typed(job[t]) /\ Finds(job[t], usage, status, wasExhausted)
  BY DEF BalanceInv, BalanceTyped, FindInv
<1>2. /\ job[t].at = "observe" /\ ~At(t, "write") /\ job[t].id \in BalanceCreds
      /\ job[t].answer \in Int
      /\ UNCHANGED <<usage, status, runtime, balanceFile, wasExhausted>>
  BY <1>1 DEF OnCreditUsage, At, Typed
<1>3. CASE shown[job[t].id] = Unknown
  <2>1. Becomes(t, NoJob) /\ UNCHANGED <<shown, doubtful>>
    BY <1>3 DEF OnCreditUsage, Becomes
  <2>2. BalanceTyped'
    BY <1>2, <2>1, NoJobIsTyped, BecomesTyped DEF BalanceInv, BalanceTyped
  <2>3. FindInv'
    BY <1>2, <2>1, NoJobIsTyped, NothingFound DEF BalanceInv
  <2>4. WritersInv'
    BY <1>2, <2>1, NoJobIsTyped, NothingWritten DEF BalanceInv
  <2> QED
    BY <2>2, <2>3, <2>4 DEF BalanceInv
<1>4. CASE shown[job[t].id] # Unknown
  <2> DEFINE balance == [shown[job[t].id] EXCEPT !.primary = job[t].answer]
  <2>1. shown[job[t].id] \in Balance
    BY <1>2, <1>4 DEF BalanceInv, BalanceTyped, Shown
  <2>2. balance \in Balance
    BY <1>2, <2>1 DEF Balance
  <2>3. ShowAndSave(t, job[t].id, balance)
    BY <1>4 DEF OnCreditUsage
  <2> HIDE DEF balance
  <2>4. PICK j \in Jobs :
            /\ j.op = job[t].op /\ j.at = "write" /\ j.id = job[t].id
            /\ j.todo = job[t].todo /\ j.answer = job[t].answer /\ j.ripe = job[t].ripe
            /\ Becomes(t, j)
    BY <1>2, <2>2, <2>3, Showing
  <2>5. shown' \in Shown /\ doubtful' \in BOOLEAN /\ WritersInv'
    BY <1>2, <2>2, <2>3, Showing
  <2>6. Typed(j)
    BY <1>1, <1>2, <2>4 DEF Typed, Queued
  <2>7. Finds(j, usage, status, wasExhausted)
    BY <1>1, <1>2, <2>4 DEF Finds, Asking
  <2>8. BalanceTyped'
    BY <1>2, <2>4, <2>5, <2>6, BecomesTyped DEF BalanceInv, BalanceTyped
  <2>9. FindInv'
    BY <1>2, <2>4, <2>7, NothingFound DEF BalanceInv
  <2> QED
    BY <2>5, <2>8, <2>9 DEF BalanceInv
<1> QED
  BY <1>3, <1>4


\* After a write a round goes on, an administrator's request may, and the others are over.
LEMMA Written ==
    ASSUME BalanceInv, NEW t \in BalanceTasks, job[t].at = "write"
    PROVE  \E j \in Jobs : /\ j = AfterWrite(t) /\ j.json = Unknown /\ j.at # "write"
                           /\ Typed(j) /\ Finds(j, usage, status, wasExhausted)
<1>1. job[t] \in Jobs /\ Typed(job[t]) /\ Finds(job[t], usage, status, wasExhausted)
  BY DEF BalanceInv, BalanceTyped, FindInv
<1>2. job[t].id \in BalanceCreds \cup {Unknown}
  BY <1>1 DEF Jobs
<1> DEFINE next == [job[t] EXCEPT !.at = "next", !.json = Unknown, !.answer = Unknown]
           tell == [job[t] EXCEPT !.at = "tell", !.json = Unknown]
           invalidate == [job[t] EXCEPT !.at = "invalidate", !.json = Unknown]
<1>3. CASE job[t].op = "round"
  <2>1. AfterWrite(t) = next
    BY <1>3 DEF AfterWrite, Does, Queued
  <2>2. /\ next.op = "round" /\ next.at = "next" /\ next.todo = job[t].todo
        /\ next.json = Unknown /\ next.ripe = job[t].ripe /\ next \in Jobs
    BY <1>1, <1>3 DEF Jobs, Ats
  <2> HIDE DEF next
  <2>3. Typed(next) /\ Finds(next, usage, status, wasExhausted)
    BY <1>1, <2>2 DEF Typed, Finds, Asking
  <2> QED
    BY <2>1, <2>2, <2>3
<1>4. CASE job[t].op \in Queued /\ job[t].answer # Unknown
  <2>1. AfterWrite(t) = tell
    BY <1>4 DEF AfterWrite, Does, Queued
  <2>2. /\ tell.op = job[t].op /\ tell.at = "tell" /\ tell.id = job[t].id
        /\ tell.answer = job[t].answer /\ tell.json = Unknown /\ tell.ripe = job[t].ripe
        /\ tell \in Jobs
    BY <1>1 DEF Jobs, Ats
  <2> HIDE DEF tell
  <2>3. Typed(tell)
    BY <1>1, <1>4, <2>2 DEF Typed
  <2>4. Finds(tell, usage, status, wasExhausted)
    BY <1>1, <1>4, <2>2 DEF Finds, Queued
  <2> QED
    BY <2>1, <2>2, <2>3, <2>4
<1>5. CASE job[t].op = "overage" /\ job[t].answer = Unknown
  <2>1. AfterWrite(t) = invalidate
    BY <1>5 DEF AfterWrite, Does, Queued
  <2>2. /\ invalidate.op = "overage" /\ invalidate.at = "invalidate" /\ invalidate.id = job[t].id
        /\ invalidate.json = Unknown /\ invalidate.ripe = job[t].ripe /\ invalidate \in Jobs
    BY <1>1, <1>5 DEF Jobs, Ats
  <2> HIDE DEF invalidate
  <2>3. Typed(invalidate)
    BY <1>1, <1>5, <2>2 DEF Typed, Queued
  <2>4. Finds(invalidate, usage, status, wasExhausted)
    BY <1>1, <1>5, <2>2 DEF Finds
  <2> QED
    BY <2>1, <2>2, <2>3, <2>4
<1>6. CASE /\ job[t].op # "round" /\ ~(job[t].op \in Queued /\ job[t].answer # Unknown)
           /\ ~(job[t].op = "overage" /\ job[t].answer = Unknown)
  <2>1. AfterWrite(t) = NoJob
    BY <1>6 DEF AfterWrite, Does
  <2> QED
    BY <2>1, NoJobIsTyped DEF Typed
<1> QED
  BY <1>3, <1>4, <1>5, <1>6

LEMMA WriteKeeps ==
    ASSUME BalanceInv, NEW t \in BalanceTasks, Write(t)
    PROVE  BalanceInv'
<1>1. /\ job[t].at = "write" /\ job \in [BalanceTasks -> Jobs]
      /\ UNCHANGED <<usage, status, runtime, shown, wasExhausted>>
  BY DEF Write, At, BalanceInv, BalanceTyped
<1>2. PICK j \in Jobs : /\ j = AfterWrite(t) /\ j.json = Unknown /\ j.at # "write"
                        /\ Typed(j) /\ Finds(j, usage, status, wasExhausted)
  BY <1>1, Written
<1>3. Becomes(t, j)
  BY <1>2 DEF Write, Becomes
<1>4. job[t].json \in Shown /\ Writing(t)
  <2>1. Writing(t) /\ job[t].json \in Shown \cup {Unknown}
    BY <1>1 DEF BalanceInv, WritersInv, At, Jobs
  <2> QED
    BY <2>1 DEF Writing
<1>5. balanceFile' \in Shown /\ doubtful' \in BOOLEAN
  BY <1>4 DEF Write, BalanceInv, BalanceTyped
<1>6. BalanceTyped'
  BY <1>1, <1>2, <1>3, <1>5, BecomesTyped DEF BalanceInv, BalanceTyped
<1>7. FindInv'
  BY <1>1, <1>2, <1>3, NothingFound DEF BalanceInv
<1>8. WritersInv'
  <2>1. job'[t] = j /\ \A x \in BalanceTasks \ {t} : job'[x] = job[x]
    BY <1>1, <1>3 DEF Becomes
  <2>2. ~Writing(t)' /\ ~At(t, "write")'
    BY <1>2, <2>1 DEF Writing, At
  <2>3. \A x \in BalanceTasks \ {t} : (Writing(x)' <=> Writing(x)) /\ (At(x, "write")' <=> At(x, "write"))
    BY <2>1 DEF Writing, At
  <2>4. \A x \in BalanceTasks : At(x, "write")' <=> Writing(x)'
    BY <2>2, <2>3 DEF BalanceInv, WritersInv
  <2>5. ASSUME ~doubtful' PROVE balanceFile' = shown' /\ \A x \in BalanceTasks : ~Writing(x)'
    <3>1. balanceFile' = job[t].json /\ ~doubtful
      BY <2>5 DEF Write
    <3>2. job[t].json = shown /\ \A x \in BalanceTasks : Writing(x) => x = t
      BY <1>4, <3>1 DEF BalanceInv, WritersInv
    <3> QED
      BY <1>1, <2>2, <2>3, <3>1, <3>2
  <2> QED
    BY <2>4, <2>5 DEF WritersInv
<1> QED
  BY <1>6, <1>7, <1>8 DEF BalanceInv

LEMMA TellRuntimeKeeps ==
    ASSUME BalanceInv, NEW t \in BalanceTasks, TellRuntime(t)
    PROVE  BalanceInv'
<1>1. /\ job[t].at = "tell" /\ ~At(t, "write") /\ Becomes(t, NoJob)
      /\ runtime' = [runtime EXCEPT ![job[t].id] = Entry(job[t].answer)]
      /\ UNCHANGED <<usage, status, shown, balanceFile, doubtful, wasExhausted>>
  BY DEF TellRuntime, At, Becomes
<1>2. job[t].id \in BalanceCreds /\ job[t].answer \in Usages
  BY <1>1 DEF BalanceInv, BalanceTyped, Typed
<1>3. runtime' \in [BalanceCreds -> Known \cup {Unknown}]
  BY <1>1, <1>2, Numbers DEF BalanceInv, BalanceTyped
<1>4. BalanceTyped'
  BY <1>1, <1>3, NoJobIsTyped, BecomesTyped DEF BalanceInv, BalanceTyped
<1>5. FindInv'
  BY <1>1, NoJobIsTyped, NothingFound DEF BalanceInv
<1>6. WritersInv'
  BY <1>1, NoJobIsTyped, NothingWritten DEF BalanceInv
<1> QED
  BY <1>4, <1>5, <1>6 DEF BalanceInv

LEMMA InvalidateKeeps ==
    ASSUME BalanceInv, NEW t \in BalanceTasks, Invalidate(t)
    PROVE  BalanceInv'
<1> DEFINE fetch == [job[t] EXCEPT !.at = "fetch"]
<1>1. job[t] \in Jobs /\ Typed(job[t]) /\ Finds(job[t], usage, status, wasExhausted)
  BY DEF BalanceInv, BalanceTyped, FindInv
<1>2. /\ job[t].at = "invalidate" /\ ~At(t, "write")
      /\ runtime' = [runtime EXCEPT ![job[t].id] =
                        IF @ = Unknown THEN @ ELSE [@ EXCEPT !.initialized = FALSE]]
      /\ UNCHANGED <<usage, status, shown, balanceFile, doubtful, wasExhausted>>
  BY DEF Invalidate, At
<1>3. job[t].id \in BalanceCreds /\ job[t].json = Unknown
  BY <1>1, <1>2 DEF BalanceInv, WritersInv, Writing, At, Typed
<1>4. /\ fetch.op = job[t].op /\ fetch.at = "fetch" /\ fetch.id = job[t].id
      /\ fetch.json = Unknown /\ fetch.ripe = job[t].ripe /\ fetch.todo = job[t].todo
      /\ fetch \in Jobs
  BY <1>1, <1>3 DEF Jobs, Ats
<1>5. Becomes(t, fetch) \/ Becomes(t, NoJob)
  BY DEF Invalidate, Becomes
<1> HIDE DEF fetch
<1>6. Typed(fetch) /\ Finds(fetch, usage, status, wasExhausted)
  BY <1>1, <1>2, <1>3, <1>4 DEF Typed, Finds, Asking
<1>7. PICK j \in Jobs : /\ Becomes(t, j) /\ Typed(j) /\ Finds(j, usage, status, wasExhausted)
                        /\ j.at # "write" /\ j.json = Unknown
  BY <1>4, <1>5, <1>6, NoJobIsTyped DEF Typed
<1>8. runtime' \in [BalanceCreds -> Known \cup {Unknown}]
  <2>1. runtime \in [BalanceCreds -> Known \cup {Unknown}]
    BY DEF BalanceInv, BalanceTyped
  <2>2. \A e \in Known : [e EXCEPT !.initialized = FALSE] \in Known
    BY DEF Known
  <2> QED
    BY <1>2, <1>3, <2>1, <2>2
<1>9. BalanceTyped'
  BY <1>2, <1>7, <1>8, BecomesTyped DEF BalanceInv, BalanceTyped
<1>10. FindInv'
  BY <1>2, <1>7, NothingFound DEF BalanceInv
<1>11. WritersInv'
  BY <1>2, <1>7, NothingWritten DEF BalanceInv
<1> QED
  BY <1>9, <1>10, <1>11 DEF BalanceInv


LEMMA ChargedKeeps ==
    ASSUME BalanceInv, NEW t \in BalanceTasks, NEW c \in BalanceCreds, Charged(t, c)
    PROVE  BalanceInv'
<1> DEFINE j == [NoJob EXCEPT !.op = "metering", !.at = "apply", !.id = c]
<1>1. /\ ~At(t, "write") /\ Becomes(t, j) /\ usage' = [usage EXCEPT ![c].used = @ + 1]
      /\ Primary(usage[c]) + Overage(usage[c]) > 0
      /\ UNCHANGED <<status, runtime, shown, balanceFile, doubtful, wasExhausted>>
  BY DEF Charged, At, Becomes
<1>2. /\ j.op = "metering" /\ j.at = "apply" /\ j.id = c /\ j.json = Unknown /\ j.ripe = {} /\ j \in Jobs
  BY DEF NoJob, Jobs, Ops, Ats
<1> HIDE DEF j
<1>3. Typed(j) /\ Finds(j, usage', status', wasExhausted')
  BY <1>2 DEF Typed, Finds
<1>4. usage \in [BalanceCreds -> Usages] /\ usage[c] \in Usages
  BY DEF BalanceInv, BalanceTyped
<1>5. usage' \in [BalanceCreds -> Usages]
  <2>1. [usage[c] EXCEPT !.used = @ + 1] \in Usages
    BY <1>4 DEF Usages
  <2> QED
    BY <1>1, <1>4, <2>1
<1>6. \A x \in BalanceTasks : Finds(job[x], usage', status', wasExhausted')
  <2>1. ~Exhausted(usage[c])
    <3>1. Primary(usage[c]) \in Int /\ Overage(usage[c]) \in Int
      BY <1>4, Numbers
    <3> QED
      BY <1>1, <3>1 DEF Exhausted
  <2>2. \A d \in BalanceCreds : d # c => usage'[d] = usage[d]
    BY <1>1, <1>4
  <2>3. \A d \in BalanceCreds : Exhausted(usage[d]) => Exhausted(usage'[d])
    BY <2>1, <2>2
  <2>4. \A x \in BalanceTasks : job[x].ripe \subseteq BalanceCreds
    BY DEF BalanceInv, BalanceTyped, Jobs
  <2>5. PICK u2 : u2 = usage'
    OBVIOUS
  <2>6. \A x \in BalanceTasks : \A d \in job[x].ripe : Exhausted(usage[d]) => Exhausted(u2[d])
    BY <2>3, <2>4, <2>5
  <2>7. \A x \in BalanceTasks : Finds(job[x], u2, status, wasExhausted)
    BY <2>6, StillFinds DEF BalanceInv, FindInv
  <2> QED
    BY <1>1, <2>5, <2>7
<1>7. BalanceTyped'
  BY <1>1, <1>3, <1>5, BecomesTyped DEF BalanceInv, BalanceTyped
<1>8. FindInv'
  <2>1. \A d \in BalanceCreds : status'[d] = "low" => d \in wasExhausted'
    BY <1>1 DEF BalanceInv, FindInv
  <2> QED
    BY <1>1, <1>3, <1>6, <2>1, OneFinds DEF BalanceInv
<1>9. WritersInv'
  BY <1>1, <1>2, NothingWritten DEF BalanceInv
<1> QED
  BY <1>7, <1>8, <1>9 DEF BalanceInv

LEMMA ApplyCreditKeeps ==
    ASSUME BalanceInv, NEW t \in BalanceTasks, ApplyCredit(t)
    PROVE  BalanceInv'
<1> DEFINE e == runtime[job[t].id]
<1>1. job[t] \in Jobs /\ Typed(job[t]) /\ Finds(job[t], usage, status, wasExhausted)
  BY DEF BalanceInv, BalanceTyped, FindInv
<1>2. /\ job[t].at = "apply" /\ ~At(t, "write")
      /\ UNCHANGED <<usage, status, shown, balanceFile, doubtful, wasExhausted>>
  BY DEF ApplyCredit, At
<1>3. /\ job[t].id \in BalanceCreds /\ job[t].json = Unknown /\ e \in Known \cup {Unknown}
      /\ runtime \in [BalanceCreds -> Known \cup {Unknown}]
  BY <1>1, <1>2 DEF BalanceInv, BalanceTyped, WritersInv, Writing, At, Typed
<1>4. CASE e = Unknown \/ ~e.initialized
  <2>1. Becomes(t, NoJob) /\ UNCHANGED runtime
    BY <1>4 DEF ApplyCredit, Becomes
  <2>2. BalanceTyped'
    BY <1>2, <2>1, NoJobIsTyped, BecomesTyped DEF BalanceInv, BalanceTyped
  <2>3. FindInv'
    BY <1>2, <2>1, NoJobIsTyped, NothingFound DEF BalanceInv
  <2>4. WritersInv'
    BY <1>2, <2>1, NoJobIsTyped, NothingWritten DEF BalanceInv
  <2> QED
    BY <2>2, <2>3, <2>4 DEF BalanceInv
<1>5. CASE e # Unknown /\ e.initialized
  <2>1. e \in Known
    BY <1>3, <1>5
  <2>2. PICK f \in Known : runtime' = [runtime EXCEPT ![job[t].id] = f]
    <3>1. runtime' = [runtime EXCEPT ![job[t].id] =
                         IF e.primary > 0 THEN [e EXCEPT !.primary = @ - 1]
                                          ELSE [e EXCEPT !.overage = AtLeast0(@ - 1)]]
      BY <1>5 DEF ApplyCredit
    <3>2. [e EXCEPT !.primary = @ - 1] \in Known /\ [e EXCEPT !.overage = AtLeast0(@ - 1)] \in Known
      BY <2>1 DEF Known, AtLeast0
    <3> QED
      BY <3>1, <3>2
  <2> DEFINE j == [job[t] EXCEPT !.at = "observe", !.answer = f.primary]
  <2>3. Becomes(t, j)
    <3>1. runtime'[job[t].id].primary = f.primary
      BY <1>3, <2>2
    <3>2. job' = [job EXCEPT ![t].at = "observe", ![t].answer = runtime'[job[t].id].primary]
      BY <1>5 DEF ApplyCredit
    <3>3. job \in [BalanceTasks -> Jobs]
      BY DEF BalanceInv, BalanceTyped
    <3> QED
      BY <3>1, <3>2, <3>3 DEF Becomes
  <2>4. /\ j.op = job[t].op /\ j.at = "observe" /\ j.id = job[t].id /\ j.answer = f.primary
        /\ j.json = Unknown /\ j.ripe = job[t].ripe /\ j.todo = job[t].todo /\ j \in Jobs
    BY <1>1, <1>3, <2>2 DEF Jobs, Ats, Known
  <2> HIDE DEF j
  <2>5. Typed(j) /\ Finds(j, usage, status, wasExhausted)
    BY <1>1, <1>2, <1>3, <2>2, <2>4 DEF Typed, Finds, Asking, Known
  <2>6. BalanceTyped'
    BY <1>2, <1>3, <2>2, <2>3, <2>5, BecomesTyped DEF BalanceInv, BalanceTyped
  <2>7. FindInv'
    BY <1>2, <2>3, <2>5, NothingFound DEF BalanceInv
  <2>8. WritersInv'
    BY <1>2, <2>3, <2>4, NothingWritten DEF BalanceInv
  <2> QED
    BY <2>6, <2>7, <2>8 DEF BalanceInv
<1> QED
  BY <1>4, <1>5

-----------------------------------------------------------------------------
(* What changes for one credential takes it off the rounds under way. *)

Without(j, c) == [j EXCEPT !.ripe = @ \ {c}]
SameBut(f, g, c) == \A d \in BalanceCreds \ {c} : f[d] = g[d]

LEMMA OffTheRounds ==
    ASSUME NEW j \in Jobs, Typed(j), NEW c, NEW u, NEW s, NEW w, NEW u2, NEW s2, NEW w2,
           Finds(j, u, s, w),
           SameBut(u2, u, c), SameBut(s2, s, c),
           j.id \in w => j.id \in w2
    PROVE  /\ Without(j, c) \in Jobs /\ Typed(Without(j, c)) /\ Finds(Without(j, c), u2, s2, w2)
           /\ Without(j, c).at = j.at /\ Without(j, c).json = j.json
<1> DEFINE k == Without(j, c)
<1>1. /\ k \in Jobs /\ k.op = j.op /\ k.at = j.at /\ k.id = j.id /\ k.todo = j.todo
      /\ k.answer = j.answer /\ k.json = j.json /\ k.ripe = j.ripe \ {c}
  BY DEF Jobs, Without
<1>2. j.ripe \subseteq BalanceCreds
  BY DEF Jobs
<1> HIDE DEF k
<1>3. Typed(k)
  BY <1>1 DEF Typed
<1>4. \A d \in k.ripe : d \in j.ripe /\ u2[d] = u[d] /\ s2[d] = s[d]
  BY <1>1, <1>2 DEF SameBut
<1>5. Finds(k, u2, s2, w2)
  BY <1>1, <1>4 DEF Finds
<1> QED
  BY <1>1, <1>3, <1>5 DEF k

\* Who writes what stays as it is.
LEMMA SameWriters ==
    ASSUME WritersInv, \A x \in BalanceTasks : job'[x].at = job[x].at /\ job'[x].json = job[x].json,
           UNCHANGED <<shown, balanceFile, doubtful>>
    PROVE  WritersInv'
<1>1. \A x \in BalanceTasks : (Writing(x)' <=> Writing(x)) /\ (At(x, "write")' <=> At(x, "write"))
  BY DEF Writing, At
<1> QED
  BY <1>1 DEF WritersInv

LEMMA AllOffTheRounds ==
    ASSUME BalanceInv, NEW c \in BalanceCreds,
           job' = [t \in BalanceTasks |-> Without(job[t], c)],
           SameBut(usage', usage, c), SameBut(status', status, c),
           \A t \in BalanceTasks : job[t].id \in wasExhausted => job[t].id \in wasExhausted',
           \A d \in BalanceCreds : status'[d] = "low" => d \in wasExhausted',
           UNCHANGED <<shown, balanceFile, doubtful>>
    PROVE  /\ job' \in [BalanceTasks -> Jobs] /\ \A t \in BalanceTasks : Typed(job'[t])
           /\ FindInv' /\ WritersInv'
<1>1. ASSUME NEW t \in BalanceTasks
      PROVE  /\ job'[t] \in Jobs /\ Typed(job'[t]) /\ Finds(job'[t], usage', status', wasExhausted')
             /\ job'[t].at = job[t].at /\ job'[t].json = job[t].json
  <2>1. job[t] \in Jobs /\ Typed(job[t]) /\ Finds(job[t], usage, status, wasExhausted)
    BY DEF BalanceInv, BalanceTyped, FindInv
  <2>2. job'[t] = Without(job[t], c)
    OBVIOUS
  <2>3. PICK u2, s2, w2 : u2 = usage' /\ s2 = status' /\ w2 = wasExhausted'
    OBVIOUS
  <2>4. /\ SameBut(u2, usage, c) /\ SameBut(s2, status, c)
        /\ job[t].id \in wasExhausted => job[t].id \in w2
    BY <2>3
  <2>5. /\ Without(job[t], c) \in Jobs /\ Typed(Without(job[t], c))
        /\ Finds(Without(job[t], c), u2, s2, w2)
        /\ Without(job[t], c).at = job[t].at /\ Without(job[t], c).json = job[t].json
    BY <2>1, <2>4, OffTheRounds
  <2> QED
    BY <2>2, <2>3, <2>5
<1>2. FindInv'
  BY <1>1 DEF FindInv
<1>3. WritersInv'
  BY <1>1, SameWriters DEF BalanceInv
<1> QED
  BY <1>1, <1>2, <1>3


LEMMA SetDisabledKeeps ==
    ASSUME BalanceInv, NEW c \in BalanceCreds, NEW off \in BOOLEAN, SetDisabled(c, off)
    PROVE  BalanceInv'
<1>1. /\ status' = [status EXCEPT ![c] = IF off THEN "manual" ELSE "enabled"]
      /\ wasExhausted' = IF \E t \in BalanceTasks : job[t].id = c THEN wasExhausted
                                                                  ELSE wasExhausted \ {c}
      /\ job' = [t \in BalanceTasks |-> Without(job[t], c)]
      /\ UNCHANGED <<usage, runtime, shown, balanceFile, doubtful>>
  BY DEF SetDisabled, Without
<1>2. status \in [BalanceCreds -> {"enabled", "manual", "low"}]
      /\ \A d \in BalanceCreds : status[d] = "low" => d \in wasExhausted
  BY DEF BalanceInv, BalanceTyped, FindInv
<1>3. SameBut(usage', usage, c) /\ SameBut(status', status, c)
  BY <1>1, <1>2 DEF SameBut
<1>4. \A t \in BalanceTasks : job[t].id \in wasExhausted => job[t].id \in wasExhausted'
  BY <1>1
<1>5. \A d \in BalanceCreds : status'[d] = "low" => d \in wasExhausted'
  BY <1>1, <1>2
<1>6. /\ job' \in [BalanceTasks -> Jobs] /\ \A t \in BalanceTasks : Typed(job'[t])
      /\ FindInv' /\ WritersInv'
  BY <1>1, <1>3, <1>4, <1>5, AllOffTheRounds
<1>7. BalanceTyped'
  BY <1>1, <1>2, <1>6 DEF BalanceInv, BalanceTyped
<1> QED
  BY <1>6, <1>7 DEF BalanceInv

LEMMA NewMonthKeeps ==
    ASSUME BalanceInv, NEW c \in BalanceCreds, NewMonth(c)
    PROVE  BalanceInv'
<1>1. /\ usage' = [usage EXCEPT ![c].used = 0]
      /\ job' = [t \in BalanceTasks |-> Without(job[t], c)]
      /\ UNCHANGED <<status, runtime, shown, balanceFile, doubtful, wasExhausted>>
  BY DEF NewMonth, Without
<1>2. usage \in [BalanceCreds -> Usages]
  BY DEF BalanceInv, BalanceTyped
<1>3. SameBut(usage', usage, c) /\ SameBut(status', status, c)
  BY <1>1, <1>2 DEF SameBut
<1>4. /\ \A t \in BalanceTasks : job[t].id \in wasExhausted => job[t].id \in wasExhausted'
      /\ \A d \in BalanceCreds : status'[d] = "low" => d \in wasExhausted'
  BY <1>1 DEF BalanceInv, FindInv
<1>5. /\ job' \in [BalanceTasks -> Jobs] /\ \A t \in BalanceTasks : Typed(job'[t])
      /\ FindInv' /\ WritersInv'
  BY <1>1, <1>3, <1>4, AllOffTheRounds
<1>6. usage' \in [BalanceCreds -> Usages]
  <2>1. [usage[c] EXCEPT !.used = 0] \in Usages
    BY <1>2 DEF Usages
  <2> QED
    BY <1>1, <1>2, <2>1
<1>7. BalanceTyped'
  BY <1>1, <1>5, <1>6 DEF BalanceInv, BalanceTyped
<1> QED
  BY <1>5, <1>7 DEF BalanceInv

LEMMA SetOverageKeeps ==
    ASSUME BalanceInv, NEW t \in BalanceTasks, NEW c \in BalanceCreds, NEW enabled \in BOOLEAN,
           SetOverage(t, c, enabled)
    PROVE  BalanceInv'
<1>1. /\ ~At(t, "write") /\ usage' = [usage EXCEPT ![c].enabled = enabled]
      /\ shown' = [shown EXCEPT ![c] = Unknown]
      /\ UNCHANGED <<status, runtime, balanceFile, wasExhausted>>
  BY DEF SetOverage, At, set_overage_status_for, set_user_preference
<1>2. usage \in [BalanceCreds -> Usages] /\ shown \in Shown
  BY DEF BalanceInv, BalanceTyped
<1>3. shown' \in Shown /\ (shown[c] = Unknown => shown' = shown)
  BY <1>1, <1>2 DEF Shown
<1>4. PICK f \in Shown : f = shown'
  BY <1>3
<1> DEFINE invalidate == [NoJob EXCEPT !.op = "overage", !.id = c, !.at = "invalidate"]
           write == [NoJob EXCEPT !.op = "overage", !.id = c, !.at = "write", !.json = f]
           j == IF shown[c] = Unknown THEN invalidate ELSE write
<1>5. /\ invalidate \in Jobs /\ invalidate.op = "overage" /\ invalidate.at = "invalidate"
      /\ invalidate.id = c /\ invalidate.json = Unknown /\ invalidate.ripe = {}
  BY DEF NoJob, Jobs, Ops, Ats
<1>6. /\ write \in Jobs /\ write.op = "overage" /\ write.at = "write" /\ write.id = c
      /\ write.json = f /\ write.ripe = {} /\ write.answer = Unknown
  BY <1>4 DEF NoJob, Jobs, Ops, Ats
<1>7. job' = [u \in BalanceTasks |-> IF u # t THEN Without(job[u], c) ELSE j]
  BY <1>4 DEF SetOverage, Without
<1> HIDE DEF invalidate, write
<1>8. /\ j \in Jobs /\ Typed(j) /\ \A u, s, w : Finds(j, u, s, w)
      /\ shown[c] = Unknown => j.at = "invalidate" /\ j.json = Unknown
      /\ shown[c] # Unknown => j.at = "write" /\ j.json = f
  BY <1>5, <1>6 DEF Typed, Finds, Queued
<1> HIDE DEF j
<1>9. /\ \A d \in BalanceCreds : status'[d] = "low" => d \in wasExhausted'
      /\ SameBut(usage', usage, c) /\ SameBut(status', status, c)
  BY <1>1, <1>2 DEF BalanceInv, FindInv, SameBut
<1>10. ASSUME NEW x \in BalanceTasks \ {t}
       PROVE  /\ job'[x] \in Jobs /\ Typed(job'[x]) /\ Finds(job'[x], usage', status', wasExhausted')
              /\ job'[x].at = job[x].at /\ job'[x].json = job[x].json
  <2>1. job[x] \in Jobs /\ Typed(job[x]) /\ Finds(job[x], usage, status, wasExhausted)
    BY DEF BalanceInv, BalanceTyped, FindInv
  <2>2. job'[x] = Without(job[x], c)
    BY <1>7
  <2>3. PICK u2 : u2 = usage'
    OBVIOUS
  <2>4. SameBut(u2, usage, c) /\ SameBut(status, status, c)
    BY <1>1, <1>9, <2>3
  <2>5. /\ Without(job[x], c) \in Jobs /\ Typed(Without(job[x], c))
        /\ Finds(Without(job[x], c), u2, status, wasExhausted)
        /\ Without(job[x], c).at = job[x].at /\ Without(job[x], c).json = job[x].json
    BY <2>1, <2>4, OffTheRounds
  <2> QED
    BY <1>1, <2>2, <2>3, <2>5
<1>11. job'[t] = j /\ DOMAIN job' = BalanceTasks
  BY <1>7
<1>12. job' \in [BalanceTasks -> Jobs] /\ \A x \in BalanceTasks : Typed(job'[x])
  <2>1. \A x \in BalanceTasks : job'[x] \in Jobs /\ Typed(job'[x])
    BY <1>8, <1>10, <1>11
  <2> QED
    BY <1>7, <2>1
<1>13. FindInv'
  BY <1>8, <1>9, <1>10, <1>11 DEF FindInv
<1>14. CASE shown[c] = Unknown
  <2>1. UNCHANGED <<shown, balanceFile, doubtful>> /\ j.at = "invalidate" /\ j.json = Unknown
    BY <1>1, <1>3, <1>8, <1>14 DEF SetOverage
  <2>2. ~Writing(t)' /\ ~At(t, "write")' /\ ~Writing(t)
    BY <1>1, <1>11, <2>1 DEF Writing, At, BalanceInv, WritersInv
  <2>3. \A x \in BalanceTasks \ {t} : (Writing(x)' <=> Writing(x)) /\ (At(x, "write")' <=> At(x, "write"))
    BY <1>10 DEF Writing, At
  <2>4. \A x \in BalanceTasks : At(x, "write")' <=> Writing(x)'
    BY <2>2, <2>3 DEF BalanceInv, WritersInv
  <2>5. \A x \in BalanceTasks : (Writing(x)' <=> Writing(x)) /\ (Writing(x) => job'[x].json = job[x].json)
    BY <1>10, <2>2, <2>3
  <2>6. WritersInv'
    BY <2>1, <2>4, <2>5 DEF BalanceInv, WritersInv
  <2>7. BalanceTyped'
    <3>1. doubtful' \in BOOLEAN
      BY <2>1 DEF BalanceInv, BalanceTyped
    <3>2. usage' \in [BalanceCreds -> Usages]
      BY <1>1, <1>2 DEF Usages
    <3> QED
      BY <1>1, <1>3, <1>12, <3>1, <3>2 DEF BalanceInv, BalanceTyped
  <2> QED
    BY <1>13, <2>6, <2>7 DEF BalanceInv
<1>15. CASE shown[c] # Unknown
  <2>1. doubtful' \in BOOLEAN /\ (doubtful' <=> Overlaps)
    <3>1. doubtful' = Overlaps
      BY <1>15, Zenon DEF SetOverage
    <3> QED
      BY <3>1 DEF Overlaps
  <2>2. WritersInv'
    BY <1>1, <1>3, <1>4, <1>8, <1>10, <1>11, <1>15, <2>1, OneSerialises DEF BalanceInv
  <2>3. BalanceTyped'
    <3>1. usage' \in [BalanceCreds -> Usages]
      BY <1>1, <1>2 DEF Usages
    <3> QED
      BY <1>1, <1>3, <1>12, <2>1, <3>1 DEF BalanceInv, BalanceTyped
  <2> QED
    BY <1>13, <2>2, <2>3 DEF BalanceInv
<1> QED
  BY <1>14, <1>15

LEMMA RestartKeeps ==
    ASSUME BalanceInv, RestartBalances
    PROVE  BalanceInv'
<1>1. PICK fresh \in SUBSET BalanceCreds :
          shown' = [c \in BalanceCreds |-> IF c \in fresh THEN balanceFile[c] ELSE Unknown]
  BY DEF RestartBalances
<1>2. /\ balanceFile' = shown' /\ runtime' = [c \in BalanceCreds |-> Unknown]
      /\ job' = [t \in BalanceTasks |-> NoJob] /\ doubtful' = FALSE
      /\ UNCHANGED <<usage, status, wasExhausted>>
  BY DEF RestartBalances
<1>3. shown' \in Shown
  BY <1>1 DEF BalanceInv, BalanceTyped, Shown
<1>4. job' \in [BalanceTasks -> Jobs] /\ \A t \in BalanceTasks : Typed(job'[t]) /\ job'[t] = NoJob
  BY <1>2, NoJobIsTyped DEF Typed
<1>5. BalanceTyped'
  BY <1>2, <1>3, <1>4 DEF BalanceInv, BalanceTyped
<1>6. FindInv'
  BY <1>2, <1>4, NoJobIsTyped DEF BalanceInv, FindInv
<1>7. WritersInv'
  BY <1>2, <1>4, NoJobIsTyped DEF WritersInv, Writing, At
<1> QED
  BY <1>5, <1>6, <1>7 DEF BalanceInv

-----------------------------------------------------------------------------
LEMMA BalanceStep == BalanceInv /\ [BalanceNext]_balanceVars => BalanceInv'
<1> SUFFICES ASSUME BalanceInv, [BalanceNext]_balanceVars PROVE BalanceInv'
  OBVIOUS
<1>1. BalanceAdmins \subseteq BalanceTasks /\ BalanceWorkers \subseteq BalanceTasks
  BY DEF BalanceTasks
<1>2. {"get", "spawned"} \subseteq Ops \ {"none", "round"}
  BY DEF Ops
<1>3. ASSUME NEW t \in BalanceTasks, Ask(t) \/ Fails(t) \/ Learns(t) \/ Write(t)
      PROVE  BalanceInv'
  BY <1>3, AskKeeps, FailsKeeps, LearnsKeeps, WriteKeeps
<1>4. ASSUME NEW t \in BalanceAdmins, AdminKeeps(t) \/ TellRuntime(t) \/ Invalidate(t)
      PROVE  BalanceInv'
  BY <1>1, <1>4, AdminKeepsKeeps, TellRuntimeKeeps, InvalidateKeeps
<1>5. ASSUME NEW t \in BalanceAdmins, NEW c \in BalanceCreds,
             GetBalance(t, c) \/ BatchBalance(t, c)
      PROVE  BalanceInv'
  BY <1>1, <1>2, <1>5, BeginKeeps DEF GetBalance, BatchBalance
<1>6. ASSUME NEW t \in BalanceAdmins, NEW c \in BalanceCreds, NEW on \in BOOLEAN, SetOverage(t, c, on)
      PROVE  BalanceInv'
  BY <1>1, <1>6, SetOverageKeeps
<1>7. ASSUME NEW t \in BalanceWorkers, Round(t) \/ Prefetch(t) \/ EndOfRound(t) \/ RoundKeeps(t)
      PROVE  BalanceInv'
  BY <1>1, <1>7, RoundKeepsInv, EndOfRoundKeeps, RoundKeepsKeeps
<1>8. ASSUME NEW t \in BalanceWorkers, SpawnedApplies(t) \/ ApplyCredit(t) \/ OnCreditUsage(t)
      PROVE  BalanceInv'
  BY <1>1, <1>8, SpawnedAppliesKeeps, ApplyCreditKeeps, OnCreditUsageKeeps
<1>9. ASSUME NEW t \in BalanceWorkers, NEW c \in BalanceCreds,
             SpawnRefresh(t, c) \/ Charged(t, c) \/ NextOfRound(t, c)
      PROVE  BalanceInv'
  BY <1>1, <1>2, <1>9, BeginKeeps, ChargedKeeps, NextOfRoundKeeps DEF SpawnRefresh
<1>10. ASSUME NEW c \in BalanceCreds, NewMonth(c) \/ \E off \in BOOLEAN : SetDisabled(c, off)
       PROVE  BalanceInv'
  BY <1>10, NewMonthKeeps, SetDisabledKeeps
<1>11. CASE RestartBalances
  BY <1>11, RestartKeeps
<1>12. CASE UNCHANGED balanceVars
  BY <1>12 DEF balanceVars, BalanceInv, BalanceTyped, FindInv, WritersInv, Writing, At
<1>13. CASE BalanceNext
  BY <1>3, <1>4, <1>5, <1>6, <1>7, <1>8, <1>9, <1>10, <1>11, <1>13 DEF BalanceNext
<1> QED
  BY <1>12, <1>13

\* However the round, calls, administrators and the upstream's answers overlap, and though
\* writes fail and the program restarts: each task knows what its step needs, and while
\* nothing is in doubt at most one task has a file to write, with what is shown.
THEOREM BalancesCorrect == BalanceSpec => []BalanceInv
BY BalancesInitially, BalanceStep, PTL DEF BalanceSpec

\* For any number of credentials, tasks and any quota: a round disables every credential
\* that was exhausted when it began and still is, and no other is disabled for its balance
\* than one the upstream called exhausted; and what is shown is in the file when no one is
\* about to write it, unless writes overlapped or failed.
THEOREM BalancesDoAgree == BalanceSpec => []BalancesAgree
<1>1. BalanceInv => BalancesAgree
  <2> SUFFICES ASSUME BalanceInv PROVE ExhaustedAreDisabled /\ ShownIsSaved
    BY DEF BalancesAgree
  <2>1. ASSUME NEW t \in BalanceTasks, At(t, "next"), ~AllowOverUsage,
               NEW c \in job[t].ripe \ job[t].todo
        PROVE  status[c] # "enabled"
    BY <2>1 DEF BalanceInv, FindInv, Finds, Asking, At
  <2>2. ExhaustedAreDisabled
    BY <2>1 DEF ExhaustedAreDisabled, BalanceInv, FindInv
  <2>3. ShownIsSaved
    BY DEF ShownIsSaved, BalanceInv, WritersInv
  <2> QED
    BY <2>2, <2>3
<1> QED
  BY <1>1, BalancesCorrect, PTL

-----------------------------------------------------------------------------
(***************************************************************************)
(* PromptCacheProfile, for any prompts, lifetimes and limits: what a client *)
(* is told that it has read from the cache.  The sums over the blocks of a  *)
(* prompt are recursive functions; LoopsEnd gives such a function its       *)
(* equation, and Onwards reasons along it, by the well-ordering of Nat.     *)
(***************************************************************************)

LEMMA LeastOf ==
    ASSUME NEW S, S \subseteq Nat, S # {}
    PROVE  \E m \in S : \A n \in S : m <= n
<1>1. PICK m \in S : \A n \in S : <<n, m>> \notin OpToRel(<, Nat)
  BY NatLessThanWellFounded, WFMin
<1>2. \A n \in S : ~(n < m)
  BY <1>1 DEF OpToRel
<1> QED
  BY <1>2

LEMMA GreatestOf ==
    ASSUME NEW S, NEW n \in Nat, S \subseteq 0 .. n, S # {}
    PROVE  \E m \in S : \A k \in S : k <= m
<1>1. PICK B : B = {b \in Nat : \A k \in S : k <= b}
  OBVIOUS
<1>2. n \in B /\ B \subseteq Nat
  BY <1>1
<1>3. PICK b \in B : \A c \in B : b <= c
  BY <1>2, LeastOf
<1>4. CASE b \in S
  BY <1>1, <1>3, <1>4
<1>5. CASE b \notin S
  <2>1. b \in Nat /\ \A k \in S : k <= b /\ k # b /\ k \in Nat
    BY <1>1, <1>3, <1>5
  <2>2. PICK k \in S : TRUE
    OBVIOUS
  <2>3. b - 1 \in Nat
    BY <2>1, <2>2
  <2>4. \A i \in S : i <= b - 1
    BY <2>1
  <2>5. b - 1 \in B
    BY <1>1, <2>3, <2>4
  <2> QED
    BY <1>3, <2>1, <2>5
<1> QED
  BY <1>4, <1>5

\* What holds at first and is kept by every step holds up to the end.
LEMMA Onwards ==
    ASSUME NEW n \in Nat, NEW Good, 0 \in Good, \A k \in 1 .. n : k - 1 \in Good => k \in Good
    PROVE  \A k \in 0 .. n : k \in Good
<1>1. PICK Not : Not = {k \in 0 .. n : k \notin Good}
  OBVIOUS
<1> SUFFICES ASSUME Not # {} PROVE FALSE
  BY <1>1
<1>2. Not \subseteq Nat
  BY <1>1
<1>3. PICK k \in Not : \A i \in Not : k <= i
  BY <1>2, LeastOf
<1>4. k \in 0 .. n /\ k \notin Good
  BY <1>1, <1>3
<1>5. k \in 1 .. n /\ k - 1 \in 0 .. n
  BY <1>4
<1>6. k - 1 \notin Not
  BY <1>3, <1>5
<1> QED
  BY <1>1, <1>4, <1>5, <1>6

\* A loop that goes over n items has a result after each of them.
Looping(S, n, x, step, g) ==
    g \in [0 .. n -> S] /\ g = [k \in 0 .. n |-> IF k = 0 THEN x ELSE step[<<k, g[k - 1]>>]]

LEMMA LoopsEnd ==
    ASSUME NEW n \in Nat, NEW S, NEW x \in S, NEW step \in [(1 .. n) \X S -> S]
    PROVE  \E g : Looping(S, n, x, step, g)
<1> DEFINE Far(m) == \E g \in [0 .. m -> S] : /\ g[0] = x
                                              /\ \A k \in 1 .. m : g[k] = step[<<k, g[k - 1]>>]
<1>1. PICK Good : Good = {m \in 0 .. n : Far(m)}
  OBVIOUS
<1>2. 0 \in Good
  <2>1. PICK g : g = [k \in 0 .. 0 |-> x]
    OBVIOUS
  <2>2. g \in [0 .. 0 -> S] /\ g[0] = x /\ \A k \in 1 .. 0 : g[k] = step[<<k, g[k - 1]>>]
    BY <2>1
  <2> QED
    BY <1>1, <2>2
<1>3. ASSUME NEW m \in 1 .. n, m - 1 \in Good PROVE m \in Good
  <2>1. PICK g \in [0 .. m - 1 -> S] : /\ g[0] = x
                                       /\ \A k \in 1 .. m - 1 : g[k] = step[<<k, g[k - 1]>>]
    BY <1>1, <1>3
  <2>2. PICK next : next = step[<<m, g[m - 1]>>]
    OBVIOUS
  <2>3. next \in S
    <3>1. g[m - 1] \in S
      BY <2>1
    <3> QED
      BY <2>2, <3>1
  <2>4. PICK h : h = [k \in 0 .. m |-> IF k = m THEN next ELSE g[k]]
    OBVIOUS
  <2>5. h \in [0 .. m -> S]
    <3>1. \A k \in 0 .. m : k = m \/ k \in 0 .. m - 1
      OBVIOUS
    <3> QED
      BY <2>1, <2>3, <2>4, <3>1
  <2>6. h[0] = x /\ h[m] = next /\ \A k \in 0 .. m - 1 : h[k] = g[k]
    BY <2>1, <2>4
  <2>7. ASSUME NEW k \in 1 .. m PROVE h[k] = step[<<k, h[k - 1]>>]
    <3>1. h[k - 1] = g[k - 1]
      BY <2>6
    <3>2. CASE k = m
      BY <2>2, <2>6, <3>1, <3>2
    <3>3. CASE k # m
      <4>1. k \in 1 .. m - 1 /\ k \in 0 .. m - 1
        BY <3>3
      <4> QED
        BY <2>1, <2>6, <3>1, <4>1
    <3> QED
      BY <3>2, <3>3
  <2>8. Far(m)
    BY <2>5, <2>6, <2>7
  <2> QED
    BY <1>1, <2>8
<1> HIDE DEF Far
<1>4. \A m \in 0 .. n : m \in Good
  BY <1>2, <1>3, Onwards
<1>5. Far(n)
  BY <1>1, <1>4
<1>6. PICK g \in [0 .. n -> S] : /\ g[0] = x
                                 /\ \A k \in 1 .. n : g[k] = step[<<k, g[k - 1]>>]
  BY <1>5 DEF Far
<1>7. \A k \in 0 .. n : g[k] = IF k = 0 THEN x ELSE step[<<k, g[k - 1]>>]
  BY <1>6
<1>8. g = [k \in 0 .. n |-> IF k = 0 THEN x ELSE step[<<k, g[k - 1]>>]]
  BY <1>7
<1> QED
  BY <1>8 DEF Looping

\* What it has comes from what it had.
LEMMA LoopStep ==
    ASSUME NEW n \in Nat, NEW S, NEW x, NEW step, NEW g, Looping(S, n, x, step, g)
    PROVE  /\ g[0] = x /\ DOMAIN g = 0 .. n /\ g = [k \in 0 .. n |-> g[k]]
           /\ \A k \in 1 .. n : g[k] = step[<<k, g[k - 1]>>] /\ g[k - 1] \in S
<1>1. \A k \in 0 .. n : g[k] = IF k = 0 THEN x ELSE step[<<k, g[k - 1]>>]
  BY DEF Looping
<1>2. g \in [0 .. n -> S]
  BY DEF Looping
<1>3. \A k \in 1 .. n : k # 0 /\ k \in 0 .. n /\ k - 1 \in 0 .. n
  OBVIOUS
<1>4. DOMAIN g = 0 .. n /\ g[0] = x
  <2>1. 0 \in 0 .. n
    OBVIOUS
  <2> QED
    BY <1>1, <1>2, <2>1
<1>5. g = [k \in 0 .. n |-> g[k]]
  BY <1>2
<1>6. \A k \in 1 .. n : g[k] = step[<<k, g[k - 1]>>] /\ g[k - 1] \in S
  BY <1>1, <1>2, <1>3
<1> QED
  BY <1>4, <1>5, <1>6

-----------------------------------------------------------------------------
\* Blocks as a prompt has them.
Blocks(b) ==
    /\ Len(b) \in Nat /\ DOMAIN b = 1 .. Len(b)
    /\ \A i \in 1 .. Len(b) : b[i].tokens \in Nat /\ b[i].ttl \in Nat

LEMMA SumsUp ==
    ASSUME NEW b, Blocks(b)
    PROVE  /\ cumulative_tokens(b, 0) = 0
           /\ \A k \in 0 .. Len(b) : cumulative_tokens(b, k) \in Nat
           /\ \A k \in 1 .. Len(b) : cumulative_tokens(b, k) = cumulative_tokens(b, k - 1) + b[k].tokens
<1>1. PICK n \in Nat : n = Len(b)
  BY DEF Blocks
<1>2. PICK step : step = [p \in (1 .. n) \X Nat |-> p[2] + b[p[1]].tokens]
  OBVIOUS
<1>3. step \in [(1 .. n) \X Nat -> Nat]
  BY <1>1, <1>2 DEF Blocks
<1>4. PICK g : Looping(Nat, n, 0, step, g)
  BY <1>3, LoopsEnd
<1> DEFINE Sums(f) == f = [k \in 0 .. n |-> IF k = 0 THEN 0 ELSE f[k - 1] + b[k].tokens]
<1>5. Sums(g)
  <2>1. ASSUME NEW k \in 1 .. n PROVE g[k] = g[k - 1] + b[k].tokens
    <3>1. g[k] = step[<<k, g[k - 1]>>] /\ g[k - 1] \in Nat
      BY <1>4, LoopStep
    <3> QED
      BY <1>2, <3>1
  <2>2. g[0] = 0 /\ g = [k \in 0 .. n |-> g[k]]
    BY <1>4, LoopStep
  <2>3. \A k \in 0 .. n : k = 0 \/ k \in 1 .. n
    OBVIOUS
  <2>4. \A k \in 0 .. n : g[k] = IF k = 0 THEN 0 ELSE g[k - 1] + b[k].tokens
    BY <2>1, <2>2, <2>3
  <2> QED
    BY <2>2, <2>4
<1>6. PICK f : f = (CHOOSE h : Sums(h))
  OBVIOUS
<1>7. Sums(f)
  BY <1>5, <1>6
<1>8. \A k : cumulative_tokens(b, k) = f[k]
  BY <1>1, <1>6 DEF cumulative_tokens
<1>9. f[0] = 0 /\ \A k \in 1 .. n : f[k] = f[k - 1] + b[k].tokens
  BY <1>7
<1>10. \A k \in 0 .. n : f[k] \in Nat
  <2>1. PICK Good : Good = {k \in 0 .. n : f[k] \in Nat}
    OBVIOUS
  <2>2. 0 \in Good
    BY <1>9, <2>1
  <2>3. \A k \in 1 .. n : b[k].tokens \in Nat
    BY <1>1 DEF Blocks
  <2>4. \A k \in 1 .. n : k - 1 \in Good => k \in Good
    BY <1>9, <2>1, <2>3
  <2>5. \A k \in 0 .. n : k \in Good
    BY <2>2, <2>4, Onwards
  <2> QED
    BY <2>1, <2>5
<1> QED
  BY <1>1, <1>8, <1>9, <1>10

LEMMA SumsGrow ==
    ASSUME NEW b, Blocks(b), NEW j \in 0 .. Len(b), NEW k \in 0 .. Len(b), j <= k
    PROVE  cumulative_tokens(b, j) <= cumulative_tokens(b, k)
<1>1. PICK n \in Nat : n = Len(b)
  BY DEF Blocks
<1>2. PICK f : f = [i \in 0 .. n |-> cumulative_tokens(b, i)]
  OBVIOUS
<1>3. \A i \in 0 .. n : f[i] \in Nat
  BY <1>1, <1>2, SumsUp
<1>4. \A i \in 1 .. n : f[i] = f[i - 1] + b[i].tokens /\ b[i].tokens \in Nat
  <2>1. \A i \in 1 .. n : i \in 0 .. n /\ i - 1 \in 0 .. n
    OBVIOUS
  <2> QED
    BY <1>1, <1>2, <2>1, SumsUp DEF Blocks
<1>5. PICK Good : Good = {i \in 0 .. n : j <= i => f[j] <= f[i]}
  OBVIOUS
<1>6. 0 \in Good
  BY <1>1, <1>3, <1>5
<1>7. \A i \in 1 .. n : i - 1 \in Good => i \in Good
  <2> SUFFICES ASSUME NEW i \in 1 .. n, i - 1 \in Good, j <= i PROVE f[j] <= f[i]
    BY <1>5
  <2>1. i - 1 \in 0 .. n /\ i \in 0 .. n /\ (j <= i - 1 \/ j = i)
    BY <1>1
  <2>2. PICK x \in Nat, y \in Nat, z \in Nat :
            x = f[i - 1] /\ y = f[j] /\ z = b[i].tokens /\ f[i] = x + z
    BY <1>1, <1>3, <1>4, <2>1
  <2>3. CASE j = i
    BY <2>2, <2>3
  <2>4. CASE j <= i - 1
    <3>1. j <= i - 1 => f[j] <= f[i - 1]
      BY <1>5
    <3>2. y <= x
      BY <2>2, <2>4, <3>1
    <3>3. y <= x + z
      BY <3>2
    <3> QED
      BY <2>2, <3>3
  <2> QED
    BY <2>1, <2>3, <2>4
<1>8. \A i \in 0 .. n : i \in Good
  BY <1>6, <1>7, Onwards
<1> QED
  BY <1>1, <1>2, <1>5, <1>8

LEMMA OneBlockMore ==
    ASSUME NEW T, NEW s \in Seq(T), NEW x \in T
    PROVE  Append(s, x) \in Seq(T)
  OBVIOUS

LEMMA FlatIsBlocks ==
    ASSUME NEW prompt \in Prompts
    PROVE  Blocks(flatten_cacheable_blocks(prompt))
<1>1. PICK T : T = {prompt[i] : i \in DOMAIN prompt}
  OBVIOUS
<1>2. prompt \in Seq(T) /\ \A t \in T : t.tokens \in Nat /\ t.ttl \in Nat
  <2>1. /\ prompt \in Seq({prompt[i] : i \in DOMAIN prompt})
        /\ \A i \in DOMAIN prompt : prompt[i].tokens \in Nat /\ prompt[i].ttl \in Nat
    BY ProfileAssumption, Zenon
  <2>2. prompt \in Seq(T)
    BY <1>1, <2>1, Zenon
  <2>3. \A t \in T : \E i \in DOMAIN prompt : t = prompt[i]
    BY <1>1
  <2> QED
    BY <2>1, <2>2, <2>3
<1>3. PICK n \in Nat : n = Len(prompt) /\ DOMAIN prompt = 1 .. n
  BY <1>2
<1>4. PICK step : step = [p \in (1 .. n) \X Seq(T) |->
                             IF prompt[p[1]].says = "billing" THEN p[2] ELSE Append(p[2], prompt[p[1]])]
  OBVIOUS
<1>5. \A k \in 1 .. n : prompt[k] \in T
  BY <1>2, <1>3
<1>6. step \in [(1 .. n) \X Seq(T) -> Seq(T)]
  BY <1>4, <1>5, OneBlockMore
<1>7. <<>> \in Seq(T)
  OBVIOUS
<1>8. PICK g : Looping(Seq(T), n, <<>>, step, g)
  BY <1>6, <1>7, LoopsEnd
<1> DEFINE Flat(f) == f = [k \in 0 .. n |->
        IF k = 0 THEN <<>>
        ELSE IF prompt[k].says = "billing" THEN f[k - 1] ELSE Append(f[k - 1], prompt[k])]
<1>9. Flat(g)
  <2>1. ASSUME NEW k \in 1 .. n
        PROVE  g[k] = IF prompt[k].says = "billing" THEN g[k - 1] ELSE Append(g[k - 1], prompt[k])
    <3>1. g[k] = step[<<k, g[k - 1]>>] /\ g[k - 1] \in Seq(T)
      BY <1>8, LoopStep
    <3> QED
      BY <1>4, <3>1
  <2>2. g[0] = <<>> /\ g = [k \in 0 .. n |-> g[k]]
    BY <1>8, LoopStep
  <2>3. \A k \in 0 .. n : k = 0 \/ k \in 1 .. n
    OBVIOUS
  <2>4. \A k \in 0 .. n : g[k] = IF k = 0 THEN <<>> ELSE IF prompt[k].says = "billing"
                                                      THEN g[k - 1] ELSE Append(g[k - 1], prompt[k])
    BY <2>1, <2>2, <2>3
  <2> QED
    BY <2>2, <2>4
<1>10. PICK f : f = (CHOOSE h : Flat(h))
  OBVIOUS
<1>11. Flat(f)
  BY <1>9, <1>10
<1>12. flatten_cacheable_blocks(prompt) = f[n]
  BY <1>3, <1>10 DEF flatten_cacheable_blocks
<1>13. \A k \in 0 .. n : f[k] = IF k = 0 THEN <<>> ELSE IF prompt[k].says = "billing"
                                                      THEN f[k - 1] ELSE Append(f[k - 1], prompt[k])
  BY <1>11
<1>14. \A k \in 0 .. n : f[k] \in Seq(T)
  <2>1. PICK Good : Good = {k \in 0 .. n : f[k] \in Seq(T)}
    OBVIOUS
  <2>2. 0 \in Good
    <3>1. 0 \in 0 .. n
      OBVIOUS
    <3>2. f[0] = <<>>
      BY <1>13, <3>1
    <3> QED
      BY <1>7, <2>1, <3>1, <3>2
  <2>3. ASSUME NEW k \in 1 .. n, k - 1 \in Good PROVE k \in Good
    <3>1. k \in 0 .. n /\ k # 0 /\ f[k - 1] \in Seq(T) /\ prompt[k] \in T
      BY <1>5, <2>1, <2>3
    <3>2. f[k] = f[k - 1] \/ f[k] = Append(f[k - 1], prompt[k])
      BY <1>13, <3>1
    <3> QED
      BY <2>1, <3>1, <3>2, OneBlockMore
  <2>4. \A k \in 0 .. n : k \in Good
    BY <2>2, <2>3, Onwards
  <2> QED
    BY <2>1, <2>4
<1>15. f[n] \in Seq(T)
  BY <1>14
<1> QED
  BY <1>2, <1>12, <1>15 DEF Blocks

-----------------------------------------------------------------------------
Cap(total) == (total * normalize_prompt_cache_max_ratio) \div 100

LEMMA CapIsBelow ==
    ASSUME NEW total \in Nat
    PROVE  Cap(total) \in Nat /\ Cap(total) <= total
<1>1. PICK r \in Nat : r = normalize_prompt_cache_max_ratio /\ r <= 100
  BY ProfileAssumption DEF normalize_prompt_cache_max_ratio
<1>2. total * r \in Nat /\ total * r <= total * 100
  BY <1>1
<1>3. (total * r) \div 100 \in Nat /\ (total * r) \div 100 <= total
  <2>1. PICK p \in Nat : p = total * r
    BY <1>2
  <2>2. p \div 100 \in Nat /\ p \div 100 <= total
    BY <1>2, <2>1
  <2> QED
    BY <2>1, <2>2
<1> QED
  BY <1>1, <1>3 DEF Cap

Lives == {DEFAULT_TTL, HOUR_TTL}

LEMMA TtlIsOneOfTwo ==
    ASSUME NEW b, NEW k \in Breakpoints(b)
    PROVE  TtlAt(b, k) \in Lives
<1>1. \A t : normalize_prompt_cache_ttl(t) \in Lives \cup {0}
  BY DEF normalize_prompt_cache_ttl, Lives
<1>2. TtlAt(b, k) \in Lives \cup {0}
  BY <1>1 DEF TtlAt
<1>3. TtlAt(b, k) > 0
  BY DEF Breakpoints
<1> QED
  BY <1>2, <1>3

LEMMA HighestIs ==
    ASSUME NEW n \in Nat, NEW S, S \subseteq 1 .. n, S # {}
    PROVE  Highest(S) \in S /\ \A k \in S : k <= Highest(S)
<1>1. S \subseteq 0 .. n
  OBVIOUS
<1>2. \E m \in S : \A k \in S : k <= m
  BY <1>1, GreatestOf
<1> QED
  BY <1>2 DEF Highest

\* The stored prefix that is as long as any.
Hits(b, store) == {k \in Cacheable(b) : \E e \in store : e.prefix = Prefix(b, k)}

LEMMA ComputeTells ==
    ASSUME NEW b, Blocks(b), NEW store, NEW total \in Nat, cumulative_tokens(b, Len(b)) <= total
    PROVE  /\ compute(b, total, store).read + compute(b, total, store).creation <= total
           /\ compute(b, total, store).read > 0 =>
                  \E k \in Hits(b, store) : cumulative_tokens(b, k) >= compute(b, total, store).read
           /\ \A k \in Hits(b, store) :
                  compute(b, total, store).read >= AtMost(cumulative_tokens(b, k), Cap(total))
<1>1. PICK n \in Nat : n = Len(b) /\ DOMAIN b = 1 .. n
  BY DEF Blocks
<1>2. PICK f : f = [k \in 0 .. n |-> cumulative_tokens(b, k)]
  OBVIOUS
<1>3. \A k \in 0 .. n : f[k] \in Nat /\ f[k] = cumulative_tokens(b, k)
  BY <1>1, <1>2, SumsUp
<1>4. \A j, k \in 0 .. n : j <= k => f[j] <= f[k]
  BY <1>1, <1>2, SumsGrow
<1>5. Breakpoints(b) \subseteq 1 .. n /\ Cacheable(b) \subseteq Breakpoints(b)
  BY <1>1 DEF Breakpoints, Cacheable
<1>6. PICK cap \in Nat : cap = Cap(total) /\ cap <= total
  BY CapIsBelow
<1>7. \A k \in 1 .. n : k \in 0 .. n /\ f[k] <= total
  <2>1. n \in 0 .. n /\ f[n] <= total
    BY <1>1, <1>3
  <2>2. \A k \in 1 .. n : k \in 0 .. n /\ f[k] <= f[n] /\ f[k] \in Nat /\ f[n] \in Nat
    BY <1>3, <1>4, <2>1
  <2> QED
    BY <2>1, <2>2
<1>8. CASE Breakpoints(b) = {}
  <2>1. compute(b, total, store) = NothingCached
    BY <1>8 DEF compute
  <2>2. Hits(b, store) = {}
    BY <1>5, <1>8 DEF Hits
  <2> QED
    BY <2>1, <2>2 DEF NothingCached
<1>9. CASE Breakpoints(b) # {} /\ store = {}
  <2>1. PICK top : top = Highest(Breakpoints(b))
    OBVIOUS
  <2>2. top \in 1 .. n
    BY <1>5, <1>9, <2>1, HighestIs
  <2>3. /\ compute(b, total, store).read = 0
        /\ compute(b, total, store).creation = IF f[top] < MIN_CACHEABLE THEN 0 ELSE f[top]
    BY <1>3, <1>7, <1>9, <2>1, <2>2 DEF compute
  <2>4. Hits(b, store) = {}
    BY <1>9 DEF Hits
  <2>5. f[top] \in Nat /\ f[top] <= total
    BY <1>3, <1>7, <2>2
  <2> QED
    BY <2>3, <2>4, <2>5
<1>10. CASE Breakpoints(b) # {} /\ store # {}
  <2>1. PICK top : top = Highest(Breakpoints(b))
    OBVIOUS
  <2>2. top \in 1 .. n /\ \A k \in Breakpoints(b) : k <= top
    BY <1>5, <1>10, <2>1, HighestIs
  <2>3. PICK capped : capped = AtMost(f[top], cap)
    OBVIOUS
  <2>4. f[top] \in Nat /\ f[top] = cumulative_tokens(b, top)
    BY <1>3, <1>7, <2>2
  <2>5. capped \in Nat /\ capped <= total /\ capped <= f[top] /\ capped <= cap
        /\ (capped = f[top] \/ capped = cap)
    BY <1>6, <2>3, <2>4 DEF AtMost
  <2>6. PICK hits : hits = Hits(b, store)
    OBVIOUS
  <2>7. PICK matched : matched = IF hits = {} THEN 0 ELSE AtMost(cumulative_tokens(b, Highest(hits)), capped)
    OBVIOUS
  <2>8. /\ compute(b, total, store).read = matched
        /\ compute(b, total, store).creation = capped - matched
    BY <1>6, <1>10, <2>1, <2>3, <2>4, <2>6, <2>7 DEF compute, Hits, Cap
  <2>9. CASE hits = {}
    BY <2>5, <2>6, <2>7, <2>8, <2>9
  <2>10. CASE hits # {}
    <3>1. PICK h : h = Highest(hits)
      OBVIOUS
    <3>2. hits \subseteq 1 .. n
      BY <1>5, <2>6 DEF Hits
    <3>3. h \in hits /\ h \in 1 .. n /\ \A k \in hits : k <= h
      BY <2>10, <3>1, <3>2, HighestIs
    <3>4. h <= top
      BY <1>5, <2>2, <2>6, <3>3 DEF Hits
    <3>5. f[h] \in Nat /\ f[h] = cumulative_tokens(b, h) /\ f[h] <= f[top]
      BY <1>3, <1>4, <1>7, <2>2, <3>3, <3>4
    <3>6. matched = AtMost(f[h], capped)
      BY <2>7, <2>10, <3>1, <3>5
    <3>7. matched \in Nat /\ matched <= capped /\ matched <= f[h]
      BY <2>5, <3>5, <3>6 DEF AtMost
    <3>8. ASSUME NEW k \in hits PROVE matched >= AtMost(cumulative_tokens(b, k), cap)
      <4>1. k \in 0 .. n /\ h \in 0 .. n /\ k <= h
        BY <1>7, <3>2, <3>3
      <4>2. f[k] \in Nat /\ f[k] <= f[h] /\ f[k] = cumulative_tokens(b, k)
        BY <1>3, <1>4, <4>1
      <4> QED
        BY <1>6, <2>4, <2>5, <3>5, <3>6, <4>2 DEF AtMost
    <3>9. matched + (capped - matched) <= total
      BY <2>5, <3>7
    <3>10. \E k \in hits : cumulative_tokens(b, k) >= matched
      BY <3>3, <3>5, <3>7
    <3> QED
      BY <1>6, <2>6, <2>8, <3>8, <3>9, <3>10
  <2> QED
    BY <2>9, <2>10
<1> QED
  BY <1>8, <1>9, <1>10

-----------------------------------------------------------------------------
IsEntry(e) ==
    /\ e = [prefix |-> e.prefix, ttl |-> e.ttl, expires |-> e.expires]
    /\ e.ttl \in Lives /\ e.expires \in Nat

\* The entry says that the prompt's blocks had been sent, and when.
SaysWhen(e, q, k) == e.prefix = Prefix(q.blocks, k) /\ e.expires <= q.at + e.ttl

\* A prompt is still known of by this entry.
Keeps(e, q, k) == e.prefix = Prefix(q.blocks, k) /\ e.expires >= q.at + DEFAULT_TTL

IsASeq(s) == s \in Seq({s[i] : i \in DOMAIN s})

IsRead(now, s, c) ==
    /\ now \in Nat /\ IsASeq(s)
    /\ \A m \in DOMAIN s : Blocks(s[m].blocks) /\ s[m].at \in 0 .. now
    /\ \A e \in c : /\ IsEntry(e)
                    /\ \E m \in DOMAIN s : \E k \in Cacheable(s[m].blocks) : SaysWhen(e, s[m], k)
    /\ \A m \in DOMAIN s : \A k \in Cacheable(s[m].blocks) :
           now - s[m].at < DEFAULT_TTL => \E e \in c : Keeps(e, s[m], k)

ReadInv == IsRead(profileNow, seen, checkpoints) /\ ReadWhatWasSent

LEMMA AppendKeeps ==
    ASSUME NEW T, NEW s \in Seq(T), NEW x \in T, NEW i \in 1 .. Len(s)
    PROVE  Append(s, x)[i] = s[i]
OBVIOUS

\* An entry that is not expired has been sent no longer ago than the longer TTL.
LEMMA EntryLives ==
    ASSUME NEW now \in Nat, NEW e, IsEntry(e), e.expires > now,
           NEW q, q.at \in 0 .. now, NEW k, SaysWhen(e, q, k)
    PROVE  now - q.at < HOUR_TTL
<1>1. e.ttl \in Lives /\ e.expires \in Nat /\ e.expires <= q.at + e.ttl
  BY DEF IsEntry, SaysWhen
<1>2. e.ttl \in Nat /\ e.ttl <= HOUR_TTL /\ HOUR_TTL \in Nat
  BY <1>1, ProfileAssumption DEF Lives
<1> QED
  BY <1>1, <1>2

LEMMA SeqGrows ==
    ASSUME NEW s, IsASeq(s), NEW x
    PROVE  /\ IsASeq(Append(s, x)) /\ Len(s) \in Nat /\ DOMAIN s = 1 .. Len(s)
           /\ DOMAIN Append(s, x) = 1 .. Len(s) + 1
           /\ Append(s, x)[Len(s) + 1] = x /\ \A i \in 1 .. Len(s) : Append(s, x)[i] = s[i]
<1>1. PICK T : T = {s[i] : i \in DOMAIN s} \cup {x}
  OBVIOUS
<1>2. s \in Seq(T)
  BY <1>1 DEF IsASeq
<1>3. PICK t : t = Append(s, x)
  OBVIOUS
<1>4. /\ t \in Seq(T) /\ Len(s) \in Nat /\ DOMAIN s = 1 .. Len(s)
      /\ DOMAIN t = 1 .. Len(s) + 1 /\ Len(t) = Len(s) + 1
      /\ t[Len(s) + 1] = x /\ \A i \in 1 .. Len(s) : t[i] = s[i]
  <2>1. x \in T
    BY <1>1
  <2>2. Len(s) \in Nat /\ DOMAIN s = 1 .. Len(s)
    BY <1>2
  <2>3. t \in Seq(T) /\ Len(t) = Len(s) + 1
    BY <1>2, <1>3, <2>1
  <2>4. DOMAIN t = 1 .. Len(s) + 1
    BY <2>3
  <2>5. t[Len(s) + 1] = x
    BY <1>2, <1>3, <2>1
  <2>6. \A i \in 1 .. Len(s) : t[i] = s[i]
    BY <1>2, <1>3, <2>1, AppendKeeps
  <2> QED
    BY <2>2, <2>3, <2>4, <2>5, <2>6
<1>5. IsASeq(t)
  <2>1. t \in [1 .. Len(t) -> {t[i] : i \in DOMAIN t}]
    BY <1>4
  <2>2. PICK m \in Nat : m = Len(t)
    BY <1>4
  <2>5. PICK S : S = {t[i] : i \in DOMAIN t}
    OBVIOUS
  <2>3. t \in [1 .. m -> S]
    BY <2>1, <2>2, <2>5
  <2>4. t \in Seq(S)
    BY <2>3
  <2> QED
    BY <2>4, <2>5 DEF IsASeq
<1> QED
  BY <1>3, <1>4, <1>5

LEMMA SentBefore ==
    ASSUME NEW p, NEW q, Blocks(p), Blocks(q), NEW j \in 1 .. Len(p), NEW k \in 1 .. Len(q)
    PROVE  /\ Prefix(p, j) = Prefix(q, k) => j = k /\ SameStart(p, q, k)
           /\ SameStart(p, q, k) /\ j = k => Prefix(p, j) = Prefix(q, k)
<1>0. Len(p) \in Nat /\ Len(q) \in Nat
  BY DEF Blocks
<1>1. ASSUME Prefix(p, j) = Prefix(q, k) PROVE j = k /\ SameStart(p, q, k)
  <2>1. DOMAIN Prefix(p, j) = 1 .. j /\ DOMAIN Prefix(q, k) = 1 .. k
    BY DEF Prefix
  <2>2. j = k
    BY <1>0, <1>1, <2>1
  <2>3. ASSUME NEW i \in 1 .. k PROVE p[i].says = q[i].says
    <3>1. Prefix(p, j)[i] = <<p[i].says>> /\ Prefix(q, k)[i] = <<q[i].says>>
      BY <2>2 DEF Prefix
    <3> QED
      BY <1>1, <3>1
  <2> QED
    BY <1>0, <2>2, <2>3 DEF SameStart
<1>2. ASSUME SameStart(p, q, k), j = k PROVE Prefix(p, j) = Prefix(q, k)
  BY <1>2 DEF SameStart, Prefix
<1> QED
  BY <1>1, <1>2

LEMMA CacheableIn == ASSUME NEW b, Blocks(b) PROVE Cacheable(b) \subseteq 1 .. Len(b)
BY DEF Cacheable, Breakpoints, Blocks

\* The store after a request: what is new in it, what stays in it, and what comes in.
LEMMA EntriesAfter ==
    ASSUME NEW b, NEW store, profileNow \in Nat, Blocks(b), \A e \in store : IsEntry(e),
           NEW after, after = Entered(b, Prolonged(b, store))
    PROVE  /\ \A e \in after :
                  /\ IsEntry(e)
                  /\ \/ e \in store
                     \/ e.expires = profileNow + e.ttl /\ \E k \in Cacheable(b) : e.prefix = Prefix(b, k)
           /\ \A e \in store : \E a \in after :
                  a.prefix = e.prefix /\ (a.expires >= e.expires \/ a.expires >= profileNow + DEFAULT_TTL)
           /\ \A k \in Cacheable(b) : \E a \in after :
                  a.prefix = Prefix(b, k) /\ a.expires >= profileNow + DEFAULT_TTL
<1>1. PICK hits : hits = Hits(b, store)
  OBVIOUS
<1>2. PICK now \in Nat : now = profileNow
  OBVIOUS
<1>3. /\ DEFAULT_TTL \in Nat /\ HOUR_TTL \in Nat /\ \A t \in Lives : t \in Nat /\ t >= DEFAULT_TTL
  BY ProfileAssumption DEF Lives
<1>4. PICK long : long = Prolonged(b, store)
  OBVIOUS
<1>5. /\ \A e \in long : /\ IsEntry(e)
                         /\ \/ e \in store
                            \/ e.expires = now + e.ttl /\ \E k \in Cacheable(b) : e.prefix = Prefix(b, k)
      /\ \A e \in store : \E a \in long :
             a.prefix = e.prefix /\ (a.expires >= e.expires \/ a.expires >= now + DEFAULT_TTL)
  <2>1. CASE hits = {}
    <3>1. long = store
      BY <1>1, <1>4, <2>1 DEF Prolonged, Hits
    <3>2. \A e \in store : e.expires \in Nat
      BY DEF IsEntry
    <3> QED
      BY <3>1, <3>2
  <2>2. CASE hits # {}
    <3>1. PICK hit : hit = Prefix(b, Highest(hits))
      OBVIOUS
    <3>2. Highest(hits) \in Cacheable(b)
      <4>1. hits \subseteq Cacheable(b) /\ Cacheable(b) \subseteq 1 .. Len(b) /\ Len(b) \in Nat
        BY <1>1, CacheableIn DEF Hits, Blocks
      <4>2. Highest(hits) \in hits
        BY <2>2, <4>1, HighestIs
      <4> QED
        BY <4>1, <4>2
    <3>3. long = {IF e.prefix = hit THEN [e EXCEPT !.expires = now + e.ttl] ELSE e : e \in store}
      BY <1>1, <1>2, <1>4, <2>2, <3>1 DEF Prolonged, Hits
    <3>4. ASSUME NEW e \in store
          PROVE  \E a : /\ a = [e EXCEPT !.expires = now + e.ttl] /\ a.prefix = e.prefix /\ IsEntry(a)
                        /\ a.expires = now + a.ttl /\ a.expires >= now + DEFAULT_TTL
      <4>0. PICK p, t, x : p = e.prefix /\ t = e.ttl /\ x = e.expires
        OBVIOUS
      <4>1. t \in Lives /\ x \in Nat /\ e = [prefix |-> p, ttl |-> t, expires |-> x]
        BY <4>0 DEF IsEntry
      <4>2. PICK a : a = [e EXCEPT !.expires = now + e.ttl]
        OBVIOUS
      <4>3. a = [prefix |-> p, ttl |-> t, expires |-> now + t]
        BY <4>1, <4>2
      <4>4. IsEntry(a) /\ a.prefix = e.prefix /\ a.expires = now + a.ttl /\ a.expires >= now + DEFAULT_TTL
        BY <1>3, <4>1, <4>3 DEF IsEntry
      <4> QED
        BY <4>2, <4>4
    <3>5. ASSUME NEW e \in long
          PROVE  /\ IsEntry(e)
                 /\ \/ e \in store
                    \/ e.expires = now + e.ttl /\ \E k \in Cacheable(b) : e.prefix = Prefix(b, k)
      <4>1. PICK d \in store : e = IF d.prefix = hit THEN [d EXCEPT !.expires = now + d.ttl] ELSE d
        BY <3>3
      <4>2. CASE d.prefix = hit
        BY <3>1, <3>2, <3>4, <4>1, <4>2
      <4>3. CASE d.prefix # hit
        BY <4>1, <4>3
      <4> QED
        BY <4>2, <4>3
    <3>6. ASSUME NEW e \in store
          PROVE  \E a \in long :
                     a.prefix = e.prefix /\ (a.expires >= e.expires \/ a.expires >= now + DEFAULT_TTL)
      <4>1. CASE e.prefix = hit
        <5>1. PICK a : /\ a = [e EXCEPT !.expires = now + e.ttl] /\ a.prefix = e.prefix
                       /\ a.expires >= now + DEFAULT_TTL
          BY <3>4
        <5>2. a \in long
          BY <3>3, <4>1, <5>1
        <5> QED
          BY <5>1, <5>2
      <4>2. CASE e.prefix # hit
        <5>1. e \in long
          BY <3>3, <4>2
        <5>2. e.expires >= e.expires
          BY DEF IsEntry
        <5> QED
          BY <5>1, <5>2
      <4> QED
        BY <4>1, <4>2
    <3> QED
      BY <3>5, <3>6
  <2> QED
    BY <2>1, <2>2
<1>6. PICK new : new = {[prefix |-> Prefix(b, k), ttl |-> TtlAt(b, k), expires |-> now + TtlAt(b, k)] :
                        k \in Cacheable(b)}
  OBVIOUS
<1>7. after = {e \in long : \A n \in new : n.prefix # e.prefix} \cup new
  BY <1>2, <1>4, <1>6 DEF Entered
<1>8. \A n \in new : /\ IsEntry(n) /\ n.expires = now + n.ttl /\ n.expires >= now + DEFAULT_TTL
                     /\ \E k \in Cacheable(b) : n.prefix = Prefix(b, k)
  <2> SUFFICES ASSUME NEW k \in Cacheable(b), NEW n,
                      n = [prefix |-> Prefix(b, k), ttl |-> TtlAt(b, k), expires |-> now + TtlAt(b, k)]
               PROVE  /\ IsEntry(n) /\ n.expires = now + n.ttl /\ n.expires >= now + DEFAULT_TTL
                      /\ n.prefix = Prefix(b, k)
    BY <1>6
  <2>1. TtlAt(b, k) \in Lives
    BY TtlIsOneOfTwo DEF Cacheable
  <2> QED
    BY <1>3, <2>1 DEF IsEntry
<1>9. ASSUME NEW k \in Cacheable(b) PROVE \E n \in new : n.prefix = Prefix(b, k)
  <2>1. PICK n : n = [prefix |-> Prefix(b, k), ttl |-> TtlAt(b, k), expires |-> now + TtlAt(b, k)]
    OBVIOUS
  <2>2. n \in new
    BY <1>6, <2>1
  <2> QED
    BY <2>1, <2>2
<1>10. \A e \in store : \E a \in after :
           a.prefix = e.prefix /\ (a.expires >= e.expires \/ a.expires >= now + DEFAULT_TTL)
  <2> SUFFICES ASSUME NEW e \in store
               PROVE  \E a \in after :
                          a.prefix = e.prefix /\ (a.expires >= e.expires \/ a.expires >= now + DEFAULT_TTL)
    OBVIOUS
  <2>1. PICK a \in long : a.prefix = e.prefix /\ (a.expires >= e.expires \/ a.expires >= now + DEFAULT_TTL)
    BY <1>5
  <2>2. CASE \A n \in new : n.prefix # a.prefix
    BY <1>7, <2>1, <2>2
  <2>3. CASE \E n \in new : n.prefix = a.prefix
    BY <1>7, <1>8, <2>1, <2>3
  <2> QED
    BY <2>2, <2>3
<1>11. \A k \in Cacheable(b) : \E a \in after : a.prefix = Prefix(b, k) /\ a.expires >= now + DEFAULT_TTL
  BY <1>7, <1>8, <1>9
<1>12. \A e \in after : /\ IsEntry(e)
                        /\ \/ e \in store
                           \/ e.expires = now + e.ttl /\ \E k \in Cacheable(b) : e.prefix = Prefix(b, k)
  BY <1>5, <1>7, <1>8
<1> QED
  BY <1>2, <1>10, <1>11, <1>12

-----------------------------------------------------------------------------
\* What the n-th of these prompts was told is right.
Told(s, n) ==
    /\ s[n].usage.read + s[n].usage.creation <= s[n].total
    /\ s[n].usage.read > 0 =>
           \E m \in 1 .. n - 1 : \E k \in DOMAIN s[n].blocks :
               /\ SameStart(s[m].blocks, s[n].blocks, k)
               /\ cumulative_tokens(s[n].blocks, k) >= s[n].usage.read
               /\ s[n].at - s[m].at < HOUR_TTL
    /\ \A m \in 1 .. n - 1 : \A k \in Cacheable(s[n].blocks) :
           /\ k \in Cacheable(s[m].blocks) /\ SameStart(s[m].blocks, s[n].blocks, k)
           /\ s[n].at - s[m].at < DEFAULT_TTL
           => s[n].usage.read >= AtMost(cumulative_tokens(s[n].blocks, k), Cap(s[n].total))

LEMMA ToldIsReadWhatWasSent == ReadWhatWasSent <=> \A n \in DOMAIN seen : Told(seen, n)
<1>1. ASSUME ReadWhatWasSent, NEW n \in DOMAIN seen PROVE Told(seen, n)
  BY <1>1 DEF ReadWhatWasSent, Told, Cap
<1>2. ASSUME \A n \in DOMAIN seen : Told(seen, n) PROVE ReadWhatWasSent
  BY <1>2 DEF ReadWhatWasSent, Told, Cap
<1> QED
  BY <1>1, <1>2

LEMMA ToldNext == ReadWhatWasSent' <=> \A n \in DOMAIN seen' : Told(seen', n)
<1>1. (ReadWhatWasSent <=> \A n \in DOMAIN seen : Told(seen, n))'
  BY ToldIsReadWhatWasSent, PTL
<1> QED
  BY <1>1

LEMMA ToldStays ==
    ASSUME NEW s, IsASeq(s), NEW x, NEW n \in 1 .. Len(s), Told(s, n)
    PROVE  Told(Append(s, x), n)
<1>1. PICK t : t = Append(s, x)
  OBVIOUS
<1>2. t[n] = s[n] /\ \A m \in 1 .. n - 1 : t[m] = s[m]
  BY <1>1, SeqGrows
<1>3. Told(t, n)
  BY <1>2 DEF Told
<1> QED
  BY <1>1, <1>3

\* A prompt that is answered out of this store is told what is right.
LEMMA NewIsTold ==
    ASSUME NEW s, IsASeq(s), NEW now \in Nat, NEW store,
           \A m \in 1 .. Len(s) : Blocks(s[m].blocks) /\ s[m].at \in 0 .. now,
           \A e \in store : /\ IsEntry(e) /\ e.expires > now
                            /\ \E m \in 1 .. Len(s) : \E k \in Cacheable(s[m].blocks) : SaysWhen(e, s[m], k),
           \A m \in 1 .. Len(s) : \A k \in Cacheable(s[m].blocks) :
               now - s[m].at < DEFAULT_TTL => \E e \in store : Keeps(e, s[m], k),
           NEW b, Blocks(b), NEW total \in Nat, cumulative_tokens(b, Len(b)) <= total,
           NEW x, x = [blocks |-> b, at |-> now, total |-> total, usage |-> compute(b, total, store)]
    PROVE  Told(Append(s, x), Len(s) + 1)
<1>0. PICK n \in Nat : n = Len(s)
  BY SeqGrows
<1>1. PICK t, u : t = Append(s, x) /\ n = Len(s) /\ u = compute(b, total, store) /\ n \in Nat
  BY <1>0
<1>2. t[n + 1] = x /\ \A m \in 1 .. n : t[m] = s[m]
  BY <1>1, SeqGrows
<1>3. /\ u.read + u.creation <= total
      /\ u.read > 0 => \E k \in Hits(b, store) : cumulative_tokens(b, k) >= u.read
      /\ \A k \in Hits(b, store) : u.read >= AtMost(cumulative_tokens(b, k), Cap(total))
  BY <1>1, ComputeTells
<1>4. x.blocks = b /\ x.at = now /\ x.total = total /\ x.usage = u
  BY <1>1
<1>5. DOMAIN b = 1 .. Len(b) /\ Cacheable(b) \subseteq 1 .. Len(b)
  BY CacheableIn DEF Blocks
<1>6. ASSUME u.read > 0
      PROVE  \E m \in 1 .. n : \E k \in DOMAIN b :
                 /\ SameStart(s[m].blocks, b, k) /\ cumulative_tokens(b, k) >= u.read
                 /\ now - s[m].at < HOUR_TTL
  <2>1. PICK k \in Hits(b, store) : cumulative_tokens(b, k) >= u.read
    BY <1>3, <1>6
  <2>2. k \in Cacheable(b) /\ \E e \in store : e.prefix = Prefix(b, k)
    BY <2>1 DEF Hits
  <2>3. PICK e \in store : e.prefix = Prefix(b, k)
    BY <2>2
  <2>4. PICK m \in 1 .. n : \E j \in Cacheable(s[m].blocks) : SaysWhen(e, s[m], j)
    BY <1>1
  <2>5. PICK j \in Cacheable(s[m].blocks) : SaysWhen(e, s[m], j)
    BY <2>4
  <2>6. Blocks(s[m].blocks) /\ s[m].at \in 0 .. now
    BY <1>1
  <2>7. j \in 1 .. Len(s[m].blocks) /\ k \in 1 .. Len(b)
    BY <1>5, <2>2, <2>6, CacheableIn
  <2>8. Prefix(s[m].blocks, j) = Prefix(b, k)
    BY <2>3, <2>5 DEF SaysWhen
  <2>9. SameStart(s[m].blocks, b, k)
    BY <2>6, <2>7, <2>8, SentBefore
  <2>10. now - s[m].at < HOUR_TTL
    BY <1>1, <2>5, <2>6, EntryLives
  <2> QED
    BY <1>5, <2>1, <2>7, <2>9, <2>10
<1>7. ASSUME NEW m \in 1 .. n, NEW k \in Cacheable(b), k \in Cacheable(s[m].blocks),
             SameStart(s[m].blocks, b, k), now - s[m].at < DEFAULT_TTL
      PROVE  u.read >= AtMost(cumulative_tokens(b, k), Cap(total))
  <2>1. PICK e \in store : Keeps(e, s[m], k)
    BY <1>1, <1>7
  <2>2. Blocks(s[m].blocks)
    BY <1>1
  <2>3. k \in 1 .. Len(s[m].blocks) /\ k \in 1 .. Len(b)
    BY <1>5, <1>7, <2>2, CacheableIn
  <2>4. Prefix(s[m].blocks, k) = Prefix(b, k)
    BY <1>7, <2>2, <2>3, SentBefore
  <2>5. k \in Hits(b, store)
    BY <2>1, <2>4 DEF Keeps, Hits
  <2> QED
    BY <1>3, <2>5
<1>8. Told(t, n + 1)
  <2>1. PICK N : N = n + 1 /\ N - 1 = n
    BY <1>1
  <2>2. t[N] = x /\ \A m \in 1 .. N - 1 : t[m] = s[m]
    BY <1>2, <2>1
  <2>3. Told(t, N)
    BY <1>3, <1>4, <1>6, <1>7, <2>1, <2>2 DEF Told
  <2> QED
    BY <2>1, <2>3
<1> QED
  BY <1>1, <1>8

LEMMA ReadInitially == ProfileInit => ReadInv
<1> SUFFICES ASSUME ProfileInit PROVE ReadInv
  OBVIOUS
<1>1. profileNow = 0 /\ checkpoints = {} /\ seen = <<>> /\ DOMAIN seen = {}
  BY DEF ProfileInit
<1>2. IsASeq(seen)
  BY <1>1 DEF IsASeq
<1> QED
  BY <1>1, <1>2 DEF ReadInv, IsRead, ReadWhatWasSent

LEMMA TickKeepsRead == ASSUME ReadInv, ProfileTick PROVE ReadInv'
<1>0. PICK now \in Nat : now = profileNow
  BY DEF ReadInv, IsRead
<1>1. PICK s, c : s = seen /\ c = checkpoints /\ now = profileNow /\ now \in Nat
  BY <1>0
<1>2. s = seen' /\ c = checkpoints' /\ profileNow' = now + 1
  BY <1>1 DEF ProfileTick
<1>3. ReadWhatWasSent'
  <2>1. \A n \in DOMAIN s : Told(s, n)
    BY <1>1, ToldIsReadWhatWasSent DEF ReadInv, IsRead
  <2> QED
    BY <1>2, <2>1, ToldNext
<1>4. /\ IsASeq(s)
      /\ \A m \in DOMAIN s : Blocks(s[m].blocks) /\ s[m].at \in 0 .. now
      /\ \A e \in c : /\ IsEntry(e)
                      /\ \E m \in DOMAIN s : \E k \in Cacheable(s[m].blocks) : SaysWhen(e, s[m], k)
      /\ \A m \in DOMAIN s : \A k \in Cacheable(s[m].blocks) :
             now - s[m].at < DEFAULT_TTL => \E e \in c : Keeps(e, s[m], k)
  BY <1>1 DEF ReadInv, IsRead
<1>5. PICK later : later = now + 1
  OBVIOUS
<1>6. later \in Nat /\ \A m \in DOMAIN s : s[m].at \in 0 .. later
  BY <1>4, <1>5
<1>7. \A m \in DOMAIN s : later - s[m].at < DEFAULT_TTL => now - s[m].at < DEFAULT_TTL
  BY <1>4, <1>5, ProfileAssumption
<1>8. \A m \in DOMAIN s : \A k \in Cacheable(s[m].blocks) :
          later - s[m].at < DEFAULT_TTL => \E e \in c : Keeps(e, s[m], k)
  BY <1>4, <1>7
<1>9. seen' = s /\ checkpoints' = c /\ profileNow' = later
  BY <1>2, <1>5
<1> QED
  <2>1. IsRead(later, s, c)
    BY <1>4, <1>6, <1>8 DEF IsRead
  <2> QED
    BY <1>3, <1>9, <2>1 DEF ReadInv

LEMMA NotYetOver ==
    ASSUME NEW now \in Nat, NEW at \in 0 .. now, NEW expires \in Nat,
           expires >= at + DEFAULT_TTL, now - at < DEFAULT_TTL
    PROVE  expires > now
BY ProfileAssumption

LEMMA ResolveKeepsRead ==
    ASSUME ReadInv, NEW prompt \in Prompts, NEW more \in {0, 2}, Resolve(prompt, more)
    PROVE  ReadInv'
<1>0. PICK now \in Nat : now = profileNow
  BY DEF ReadInv, IsRead
<1>1. PICK s, c : s = seen /\ c = checkpoints /\ now = profileNow /\ now \in Nat
  BY <1>0
<1>2. PICK b : b = flatten_cacheable_blocks(prompt)
  OBVIOUS
<1>3. Blocks(b)
  BY <1>2, FlatIsBlocks
<1>4. PICK total \in Nat : total = cumulative_tokens(b, Len(b)) + more /\ cumulative_tokens(b, Len(b)) <= total
  <2>1. cumulative_tokens(b, Len(b)) \in Nat
    BY <1>3, SumsUp DEF Blocks
  <2> QED
    BY <2>1
<1>5. PICK store : store = prune_expired(checkpoints)
  OBVIOUS
<1>6. store = {e \in c : e.expires > now}
  BY <1>1, <1>5 DEF prune_expired
<1>7. PICK x : x = [blocks |-> b, at |-> now, total |-> total, usage |-> compute(b, total, store)]
  OBVIOUS
<1>8. PICK after : after = Entered(b, Prolonged(b, store))
  OBVIOUS
<1>9. checkpoints' = after /\ seen' = Append(s, x) /\ profileNow' = now
  BY <1>1, <1>2, <1>4, <1>5, <1>7, <1>8 DEF Resolve
<1>10. PICK t : t = Append(s, x)
  OBVIOUS
<1>11. IsASeq(s)
  BY <1>1 DEF ReadInv, IsRead
<1>12. PICK n \in Nat : n = Len(s) /\ DOMAIN s = 1 .. n /\ IsASeq(t) /\ DOMAIN t = 1 .. n + 1
                        /\ t[n + 1] = x /\ \A i \in 1 .. n : t[i] = s[i]
  BY <1>10, <1>11, SeqGrows
<1>13. /\ \A m \in 1 .. n : Blocks(s[m].blocks) /\ s[m].at \in 0 .. now
       /\ \A e \in c : /\ IsEntry(e)
                       /\ \E m \in 1 .. n : \E k \in Cacheable(s[m].blocks) : SaysWhen(e, s[m], k)
       /\ \A m \in 1 .. n : \A k \in Cacheable(s[m].blocks) :
              now - s[m].at < DEFAULT_TTL => \E e \in c : Keeps(e, s[m], k)
  BY <1>1, <1>12 DEF ReadInv, IsRead
<1>14. \A m \in 1 .. n : \A k \in Cacheable(s[m].blocks) :
           now - s[m].at < DEFAULT_TTL => \E e \in store : Keeps(e, s[m], k)
  <2> SUFFICES ASSUME NEW m \in 1 .. n, NEW k \in Cacheable(s[m].blocks), now - s[m].at < DEFAULT_TTL
               PROVE  \E e \in store : Keeps(e, s[m], k)
    OBVIOUS
  <2>1. PICK e \in c : Keeps(e, s[m], k)
    BY <1>13
  <2>2. s[m].at \in 0 .. now /\ e.expires \in Nat /\ e.expires >= s[m].at + DEFAULT_TTL
    BY <1>13, <2>1 DEF IsEntry, Keeps
  <2>3. e.expires > now
    BY <2>2, NotYetOver
  <2> QED
    BY <1>6, <2>1, <2>3
<1>15. Told(t, n + 1)
  <2>1. \A e \in store : /\ IsEntry(e) /\ e.expires > now
                         /\ \E m \in 1 .. Len(s) : \E k \in Cacheable(s[m].blocks) : SaysWhen(e, s[m], k)
    BY <1>6, <1>12, <1>13
  <2> QED
    BY <1>3, <1>4, <1>7, <1>10, <1>11, <1>12, <1>13, <1>14, <2>1, NewIsTold
<1>16. \A i \in 1 .. n : Told(t, i)
  <2>1. \A i \in 1 .. n : Told(s, i)
    BY <1>1, <1>12, ToldIsReadWhatWasSent DEF ReadInv, IsRead
  <2> QED
    BY <1>10, <1>11, <1>12, <2>1, ToldStays
<1>17. ReadWhatWasSent'
  <2>1. \A i \in DOMAIN t : Told(t, i)
    BY <1>12, <1>15, <1>16
  <2> QED
    BY <1>9, <1>10, <2>1, ToldNext
<1>18. /\ \A e \in after :
              /\ IsEntry(e)
              /\ \/ e \in store
                 \/ e.expires = now + e.ttl /\ \E k \in Cacheable(b) : e.prefix = Prefix(b, k)
       /\ \A e \in store : \E a \in after :
              a.prefix = e.prefix /\ (a.expires >= e.expires \/ a.expires >= now + DEFAULT_TTL)
       /\ \A k \in Cacheable(b) : \E a \in after :
              a.prefix = Prefix(b, k) /\ a.expires >= now + DEFAULT_TTL
  <2>1. profileNow \in Nat /\ \A e \in store : IsEntry(e)
    BY <1>1, <1>6, <1>13
  <2> QED
    BY <1>1, <1>3, <1>8, <2>1, EntriesAfter
<1>19. x.blocks = b /\ x.at = now
  BY <1>7
<1>20. \A m \in DOMAIN t : Blocks(t[m].blocks) /\ t[m].at \in 0 .. now
  BY <1>3, <1>12, <1>13, <1>19
<1>21. ASSUME NEW e \in after
       PROVE  /\ IsEntry(e)
              /\ \E m \in DOMAIN t : \E k \in Cacheable(t[m].blocks) : SaysWhen(e, t[m], k)
  <2>1. CASE e \in store
    <3>1. PICK m \in 1 .. n : \E k \in Cacheable(s[m].blocks) : SaysWhen(e, s[m], k)
      BY <1>6, <1>13, <2>1
    <3>2. m \in DOMAIN t /\ t[m] = s[m]
      BY <1>12
    <3> QED
      BY <1>18, <3>1, <3>2
  <2>2. CASE e.expires = now + e.ttl /\ \E k \in Cacheable(b) : e.prefix = Prefix(b, k)
    <3>1. PICK k \in Cacheable(b) : e.prefix = Prefix(b, k)
      BY <2>2
    <3>2. now + e.ttl <= now + e.ttl
      <4>1. e.ttl \in Lives
        BY <1>18 DEF IsEntry
      <4>2. e.ttl \in Nat
        BY <4>1, ProfileAssumption DEF Lives
      <4> QED
        BY <4>2
    <3>3. SaysWhen(e, t[n + 1], k) /\ n + 1 \in DOMAIN t
      BY <1>12, <1>19, <2>2, <3>1, <3>2 DEF SaysWhen
    <3> QED
      BY <1>12, <1>18, <1>19, <3>3
  <2> QED
    BY <1>18, <2>1, <2>2
<1>22. ASSUME NEW m \in DOMAIN t, NEW k \in Cacheable(t[m].blocks), now - t[m].at < DEFAULT_TTL
       PROVE  \E a \in after : Keeps(a, t[m], k)
  <2>1. CASE m = n + 1
    BY <1>12, <1>18, <1>19, <2>1 DEF Keeps
  <2>2. CASE m \in 1 .. n
    <3>1. PICK e \in store : Keeps(e, s[m], k)
      BY <1>12, <1>14, <1>22, <2>2
    <3>2. PICK a \in after :
              a.prefix = e.prefix /\ (a.expires >= e.expires \/ a.expires >= now + DEFAULT_TTL)
      BY <1>18, <3>1
    <3>3. s[m].at \in 0 .. now /\ e.expires \in Nat /\ a.expires \in Nat /\ DEFAULT_TTL \in Nat
      <4>1. IsEntry(e) /\ IsEntry(a)
        BY <1>6, <1>13, <1>18
      <4> QED
        BY <1>13, <2>2, <4>1, ProfileAssumption DEF IsEntry
    <3>4. a.expires >= s[m].at + DEFAULT_TTL
      <4>1. e.expires >= s[m].at + DEFAULT_TTL
        BY <3>1 DEF Keeps
      <4> QED
        BY <3>2, <3>3, <4>1
    <3>5. t[m] = s[m]
      BY <1>12, <2>2
    <3> QED
      BY <3>1, <3>2, <3>4, <3>5 DEF Keeps
  <2> QED
    BY <1>12, <2>1, <2>2
<1> QED
  <2>1. IsRead(now, t, after)
    BY <1>1, <1>12, <1>20, <1>21, <1>22 DEF IsRead
  <2>2. profileNow' = now /\ seen' = t /\ checkpoints' = after
    BY <1>9, <1>10
  <2> QED
    BY <1>17, <2>1, <2>2 DEF ReadInv

LEMMA ReadStays ==
    ASSUME ReadInv, UNCHANGED profileVars
    PROVE  ReadInv'
<1>1. PICK s, c, now : s = seen /\ c = checkpoints /\ now = profileNow
  OBVIOUS
<1>2. seen' = s /\ checkpoints' = c /\ profileNow' = now
  BY <1>1 DEF profileVars
<1>3. ReadWhatWasSent'
  BY <1>1, <1>2 DEF ReadInv, ReadWhatWasSent
<1>4. IsRead(now, s, c)
  BY <1>1 DEF ReadInv
<1> QED
  BY <1>2, <1>3, <1>4 DEF ReadInv

\* Whatever a store is asked for, what stands in it stands for prompts that were sent,
\* and what was sent lately stands in it.
THEOREM ReadCorrect == ProfileSpec => []ReadInv
<1>1. ProfileInit => ReadInv
  BY ReadInitially
<1>2. ReadInv /\ [ProfileNext]_profileVars => ReadInv'
  <2> SUFFICES ASSUME ReadInv, [ProfileNext]_profileVars PROVE ReadInv'
    OBVIOUS
  <2>1. CASE ProfileTick
    BY <2>1, TickKeepsRead
  <2>2. CASE \E prompt \in Prompts, more \in {0, 2} : Resolve(prompt, more)
    BY <2>2, ResolveKeepsRead
  <2>3. CASE UNCHANGED profileVars
    BY <2>3, ReadStays
  <2> QED
    BY <2>1, <2>2, <2>3 DEF ProfileNext
<1> QED
  BY <1>1, <1>2, PTL DEF ProfileSpec

\* A client is told that it read from the cache what was sent before, not longer ago
\* than an entry lives, and it is told so whenever it was sent lately.
THEOREM ReadsAreWhatWasSent == ProfileSpec => []ReadWhatWasSent
<1>1. ReadInv => ReadWhatWasSent
  BY DEF ReadInv, IsRead
<1> QED
  BY <1>1, ReadCorrect, PTL

-----------------------------------------------------------------------------
(***************************************************************************)
(* CredentialImport, for any packages, any number of imports and any ids.  *)
(***************************************************************************)

\* What normalising leaves alone, and what it makes of the rest.
LEMMA Normalized ==
    ASSUME NEW r, IsRecord(r), NEW n, n = Normalize(r)
    PROVE  /\ IsRecord(n)
           /\ n.method = MethodOf(r) /\ n.provider = ProviderOf(r, MethodOf(r))
           /\ n.hash = IF n.method = "idc" THEN HashOf(r, n.provider) ELSE r.hash
           /\ n.endpoint = IF n.method = "idc" THEN r.endpoint
                           ELSE r.endpoint \/ (n.method = "external_idp" /\ r.tenant)
           /\ n.id = r.id /\ n.source = r.source /\ n.user = r.user /\ n.email = r.email
           /\ n.label = r.label /\ n.api = r.api /\ n.token = r.token
           /\ n.start = r.start /\ n.client = r.client
           /\ n.tenant = r.tenant /\ n.disabled = r.disabled
<1>1. PICK m, p, h : m = MethodOf(r) /\ p = ProviderOf(r, m) /\ h = HashOf(r, p)
  OBVIOUS
<1>2. DOMAIN r = Fields
  BY DEF IsRecord
<1>3. CASE m = "idc"
  <2>1. n = [r EXCEPT !.method = m, !.provider = p, !.hash = h]
    BY <1>1, <1>3 DEF Normalize
  <2>2. n = [f \in Fields |-> IF f = "method" THEN m ELSE IF f = "provider" THEN p
                              ELSE IF f = "hash" THEN h ELSE r[f]]
    BY <1>2, <2>1 DEF Fields
  <2>3. IsRecord(n)
    BY <2>2 DEF IsRecord, Fields
  <2> QED
    BY <1>1, <1>3, <2>2, <2>3 DEF Fields
<1>4. CASE m # "idc"
  <2>1. PICK e : e = (r.endpoint \/ (m = "external_idp" /\ r.tenant))
    OBVIOUS
  <2>2. n = [r EXCEPT !.method = m, !.provider = p, !.endpoint = e]
    BY <1>1, <1>4, <2>1 DEF Normalize
  <2>3. n = [f \in Fields |-> IF f = "method" THEN m ELSE IF f = "provider" THEN p
                              ELSE IF f = "endpoint" THEN e ELSE r[f]]
    BY <1>2, <2>2 DEF Fields
  <2>4. IsRecord(n)
    BY <2>1, <2>3 DEF IsRecord, Fields
  <2> QED
    BY <1>1, <1>4, <2>1, <2>3, <2>4 DEF Fields
<1> QED
  BY <1>3, <1>4

LEMMA SameRecord ==
    ASSUME NEW a, NEW b, IsRecord(a), IsRecord(b),
           a.id = b.id, a.source = b.source, a.user = b.user, a.email = b.email,
           a.label = b.label, a.api = b.api, a.token = b.token,
           a.method = b.method, a.provider = b.provider, a.start = b.start, a.hash = b.hash,
           a.client = b.client, a.endpoint = b.endpoint, a.tenant = b.tenant,
           a.disabled = b.disabled
    PROVE  a = b
<1>1. \A f \in Fields : a[f] = b[f]
  BY DEF Fields
<1>2. a = [f \in Fields |-> a[f]] /\ b = [f \in Fields |-> b[f]]
  BY DEF IsRecord
<1> QED
  BY <1>1, <1>2

LEMMA MethodAgain ==
    ASSUME NEW r, IsRecord(r), NEW n, n = Normalize(r)
    PROVE  MethodOf(n) = n.method /\ n.method \in Methods
<1>1. n.method = MethodOf(r) /\ n.tenant = r.tenant /\ n.api = r.api /\ n.client = r.client
  BY Normalized
<1>2. n.endpoint \in BOOLEAN /\ r.endpoint \in BOOLEAN /\ r.tenant \in BOOLEAN
  BY Normalized DEF IsRecord
<1>3. CASE r.tenant
  BY <1>1, <1>3 DEF MethodOf, Methods
<1>4. CASE ~r.tenant
  <2>1. n.method = NamedMethod(r) /\ MethodOf(n) = NamedMethod(n)
    BY <1>1, <1>4 DEF MethodOf
  <2>2. n.endpoint = r.endpoint
    BY <1>2, <1>4, Normalized
  <2>3. n.method \in Methods
    BY <2>1 DEF NamedMethod, Methods
  <2>4. r.api # Absent => n.method = "api_key"
    BY <2>1 DEF NamedMethod
  <2>5. n.method # "api_key" /\ r.endpoint => n.method = "external_idp"
    BY <2>1 DEF NamedMethod
  <2>6. NamedMethod(n) = n.method
    BY <1>1, <2>2, <2>3, <2>4, <2>5 DEF NamedMethod, Methods
  <2> QED
    BY <2>1, <2>3, <2>6
<1> QED
  BY <1>3, <1>4

\* To normalise again changes nothing.
LEMMA NormalizedOnce ==
    ASSUME NEW r, IsRecord(r), NEW n, n = Normalize(r)
    PROVE  Normalize(n) = n
<1>1. PICK t : t = Normalize(n)
  OBVIOUS
<1>2. IsRecord(n) /\ IsRecord(t)
  BY <1>1, Normalized
<1>3. t.method = n.method
  BY <1>1, <1>2, Normalized, MethodAgain
<1>4. t.provider = n.provider
  <2>1. t.provider = ProviderOf(n, n.method) /\ n.provider = ProviderOf(r, n.method)
    <3>1. t.provider = ProviderOf(n, MethodOf(n)) /\ n.provider = ProviderOf(r, MethodOf(r))
      BY <1>1, <1>2, Normalized
    <3>2. MethodOf(n) = n.method /\ MethodOf(r) = n.method
      BY Normalized, MethodAgain
    <3> QED
      BY <3>1, <3>2
  <2>2. n.start = r.start /\ n.email = r.email
    BY Normalized
  <2> QED
    BY <2>1, <2>2 DEF ProviderOf
<1>5. t.hash = n.hash
  <2>1. n.start = r.start
    BY Normalized
  <2>2. CASE n.method = "idc"
    <3>1. t.hash = HashOf(n, n.provider) /\ n.hash = HashOf(r, n.provider)
      BY <1>1, <1>2, <1>3, <1>4, <2>2, Normalized
    <3> QED
      BY <2>1, <3>1 DEF HashOf
  <2>3. CASE n.method # "idc"
    BY <1>1, <1>2, <1>3, <2>3, Normalized
  <2> QED
    BY <2>2, <2>3
<1>6. t.endpoint = n.endpoint
  <2>1. r.endpoint \in BOOLEAN /\ r.tenant \in BOOLEAN /\ n.tenant = r.tenant
    BY Normalized DEF IsRecord
  <2>2. CASE n.method = "idc"
    BY <1>1, <1>2, <1>3, <2>2, Normalized
  <2>3. CASE n.method # "idc"
    <3>1. t.endpoint = (n.endpoint \/ (n.method = "external_idp" /\ n.tenant))
      BY <1>1, <1>2, <1>3, <2>3, Normalized
    <3>2. n.endpoint = (r.endpoint \/ (n.method = "external_idp" /\ r.tenant))
      BY <2>3, Normalized
    <3> QED
      BY <2>1, <3>1, <3>2
  <2> QED
    BY <2>2, <2>3
<1>7. /\ t.id = n.id /\ t.source = n.source /\ t.user = n.user /\ t.email = n.email /\ t.label = n.label /\ t.api = n.api
      /\ t.token = n.token /\ t.start = n.start /\ t.client = n.client
      /\ t.tenant = n.tenant /\ t.disabled = n.disabled
  BY <1>1, <1>2, Normalized
<1>8. t = n
  BY <1>2, <1>3, <1>4, <1>5, <1>6, <1>7, SameRecord
<1> QED
  BY <1>1, <1>8

\* What the gateway keeps of a credential that no merge has touched.
Proper(c) == IsRecord(c) /\ Normalize(c) = c /\ Acceptable(c) /\ HasMaterial(c)

LEMMA Renumbered ==
    ASSUME NEW c, IsRecord(c), NEW i \in Nat, NEW b \in BOOLEAN
    PROVE  /\ \A d : d = [c EXCEPT !.id = i] => IsRecord(d) /\ d.id = i /\ SecretsOf(d) = SecretsOf(c)
           /\ \A d : d = [c EXCEPT !.disabled = b] =>
                  IsRecord(d) /\ d.id = c.id /\ d.disabled = b /\ SecretsOf(d) = SecretsOf(c)
           /\ Proper(c) => \A d : d \in {[c EXCEPT !.id = i], [c EXCEPT !.disabled = b]} => Proper(d)
           /\ i = c.id => [c EXCEPT !.id = i] = c
<1>1. DOMAIN c = Fields /\ c = [f \in Fields |-> c[f]]
  BY DEF IsRecord
<1>2. ASSUME NEW d, d = [c EXCEPT !.id = i]
      PROVE  IsRecord(d) /\ d.id = i /\ d = [f \in Fields |-> IF f = "id" THEN i ELSE c[f]]
  <2>1. d = [f \in Fields |-> IF f = "id" THEN i ELSE c[f]]
    BY <1>1, <1>2 DEF Fields
  <2> QED
    BY <2>1 DEF IsRecord, Fields
<1>3. ASSUME NEW d, d = [c EXCEPT !.disabled = b]
      PROVE  /\ IsRecord(d) /\ d.disabled = b
             /\ d = [f \in Fields |-> IF f = "disabled" THEN b ELSE c[f]]
  <2>1. d = [f \in Fields |-> IF f = "disabled" THEN b ELSE c[f]]
    BY <1>1, <1>3 DEF Fields
  <2> QED
    BY <2>1 DEF IsRecord, Fields
<1>4. ASSUME NEW d, d \in {[c EXCEPT !.id = i], [c EXCEPT !.disabled = b]}
      PROVE  /\ IsRecord(d) /\ d.source = c.source /\ d.user = c.user /\ d.email = c.email
             /\ d.label = c.label /\ d.api = c.api
             /\ d.token = c.token /\ d.method = c.method /\ d.provider = c.provider
             /\ d.start = c.start /\ d.hash = c.hash /\ d.client = c.client
             /\ d.endpoint = c.endpoint /\ d.tenant = c.tenant
             /\ SecretsOf(d) = SecretsOf(c)
  <2>1. CASE d = [c EXCEPT !.id = i]
    <3>1. IsRecord(d) /\ d = [f \in Fields |-> IF f = "id" THEN i ELSE c[f]]
      BY <1>2, <2>1
    <3> QED
      BY <3>1 DEF Fields, SecretsOf
  <2>2. CASE d = [c EXCEPT !.disabled = b]
    <3>1. IsRecord(d) /\ d = [f \in Fields |-> IF f = "disabled" THEN b ELSE c[f]]
      BY <1>3, <2>2
    <3> QED
      BY <3>1 DEF Fields, SecretsOf
  <2> QED
    BY <1>4, <2>1, <2>2
<1>5. ASSUME Proper(c), NEW d, d \in {[c EXCEPT !.id = i], [c EXCEPT !.disabled = b]} PROVE Proper(d)
  <2>1. /\ IsRecord(d) /\ d.source = c.source /\ d.user = c.user /\ d.email = c.email
        /\ d.label = c.label /\ d.api = c.api
        /\ d.token = c.token /\ d.method = c.method /\ d.provider = c.provider
        /\ d.start = c.start /\ d.hash = c.hash /\ d.client = c.client
        /\ d.endpoint = c.endpoint /\ d.tenant = c.tenant
    BY <1>4, <1>5
  <2>2. PICK n : n = Normalize(d)
    OBVIOUS
  <2>3. MethodOf(d) = MethodOf(c)
    BY <2>1 DEF MethodOf, NamedMethod
  <2>4. ProviderOf(d, MethodOf(d)) = ProviderOf(c, MethodOf(c))
    BY <2>1, <2>3 DEF ProviderOf
  <2>5. \A p : HashOf(d, p) = HashOf(c, p)
    BY <2>1 DEF HashOf
  <2>6. /\ c.method = MethodOf(c) /\ c.provider = ProviderOf(c, MethodOf(c))
        /\ c.hash = IF c.method = "idc" THEN HashOf(c, c.provider) ELSE c.hash
        /\ c.endpoint = IF c.method = "idc" THEN c.endpoint
                        ELSE c.endpoint \/ (c.method = "external_idp" /\ c.tenant)
    <3>1. c = Normalize(c)
      BY <1>5 DEF Proper
    <3> QED
      BY <3>1, Normalized
  <2>7. /\ IsRecord(n) /\ n.method = d.method /\ n.provider = d.provider
    BY <2>1, <2>2, <2>3, <2>4, <2>6, Normalized
  <2>8. n.hash = d.hash
    <3>1. n.hash = IF n.method = "idc" THEN HashOf(d, n.provider) ELSE d.hash
      BY <2>1, <2>2, Normalized
    <3> QED
      BY <2>1, <2>5, <2>6, <2>7, <3>1
  <2>9. n.endpoint = d.endpoint
    <3>1. n.endpoint = IF n.method = "idc" THEN d.endpoint
                       ELSE d.endpoint \/ (n.method = "external_idp" /\ d.tenant)
      BY <2>1, <2>2, Normalized
    <3> QED
      BY <2>1, <2>6, <2>7, <3>1
  <2>10. /\ n.id = d.id /\ n.source = d.source /\ n.user = d.user /\ n.email = d.email /\ n.label = d.label /\ n.api = d.api
         /\ n.token = d.token /\ n.start = d.start /\ n.client = d.client
         /\ n.tenant = d.tenant /\ n.disabled = d.disabled
    BY <2>1, <2>2, Normalized
  <2>11. n = d
    BY <2>1, <2>7, <2>8, <2>9, <2>10, SameRecord
  <2>12. Acceptable(d) /\ HasMaterial(d)
    BY <1>5, <2>1 DEF Proper, Acceptable, HasMaterial, IsApiKey
  <2> QED
    BY <2>1, <2>2, <2>11, <2>12 DEF Proper
<1>6. i = c.id => [c EXCEPT !.id = i] = c
  BY <1>1
<1>7. \A d : d = [c EXCEPT !.id = i] => IsRecord(d) /\ d.id = i /\ SecretsOf(d) = SecretsOf(c)
  BY <1>2, <1>4
<1>8. \A d : d = [c EXCEPT !.disabled = b] =>
          IsRecord(d) /\ d.id = c.id /\ d.disabled = b /\ SecretsOf(d) = SecretsOf(c)
  <2> SUFFICES ASSUME NEW d, d = [c EXCEPT !.disabled = b]
               PROVE  IsRecord(d) /\ d.id = c.id /\ d.disabled = b /\ SecretsOf(d) = SecretsOf(c)
    OBVIOUS
  <2>1. d = [f \in Fields |-> IF f = "disabled" THEN b ELSE c[f]]
    BY <1>3
  <2>2. d.id = c.id
    BY <2>1 DEF Fields
  <2> QED
    BY <1>3, <1>4, <2>2
<1> QED
  BY <1>5, <1>6, <1>7, <1>8

\* What a snapshot says of a credential.
LEMMA InSnapshot ==
    ASSUME NEW e, IsRecord(e), NEW c, c = credential_snapshot_export_item(e)
    PROVE  /\ IsRecord(c) /\ c.user = e.user /\ c.email = e.email /\ c.token = e.token
           /\ c.method = e.method /\ c.client = e.client /\ c.tenant = e.tenant
           /\ c.provider = IF e.provider # Absent THEN e.provider
                           ELSE IF e.method = "social" THEN "google" ELSE "builder"
           /\ c.api = Absent /\ c.start = Absent /\ c.hash = Absent
           /\ c.endpoint = FALSE /\ c.disabled = FALSE
<1>1. DOMAIN e = Fields /\ e.id \in Nat
  BY DEF IsRecord
<1>2. PICK p : p = IF e.provider # Absent THEN e.provider
                   ELSE IF e.method = "social" THEN "google" ELSE "builder"
  OBVIOUS
<1>3. PICK i : i = IF e.source = Absent THEN e.id ELSE IF e.source \in Nat THEN e.source ELSE 0
  OBVIOUS
<1>4. PICK s : s = IF e.source \in Nat THEN Absent ELSE e.source
  OBVIOUS
<1>5. c = [e EXCEPT !.id = i, !.source = s, !.provider = p, !.api = Absent, !.start = Absent,
                    !.hash = Absent, !.endpoint = FALSE, !.label = Absent, !.disabled = FALSE]
  BY <1>2, <1>3, <1>4 DEF credential_snapshot_export_item
<1>6. c = [f \in Fields |->
             IF f = "id" THEN i ELSE IF f = "source" THEN s
             ELSE IF f = "provider" THEN p
             ELSE IF f \in {"api", "start", "hash", "label"} THEN Absent
             ELSE IF f \in {"endpoint", "disabled"} THEN FALSE ELSE e[f]]
  BY <1>1, <1>5 DEF Fields
<1>7. i \in Nat
  BY <1>1, <1>3
<1>8. IsRecord(c)
  BY <1>6, <1>7 DEF IsRecord, Fields
<1> QED
  BY <1>2, <1>6, <1>8 DEF Fields

\* Read again it is what it was, or else it is refused.
LEMMA SnapshotSaysOrRefuses ==
    ASSUME NEW e, Proper(e), NEW c, c = credential_snapshot_export_item(e), NEW n, n = Normalize(c)
    PROVE  /\ SaysEnough(c) => Acceptable(n) /\ HasMaterial(n) /\ Kind(n) = Kind(c)
           /\ ~SaysEnough(c) => ~Acceptable(n) \/ ~HasMaterial(n)
<1>1. IsRecord(e) /\ Normalize(e) = e /\ Acceptable(e) /\ HasMaterial(e)
  BY DEF Proper
<1>2. /\ IsRecord(c) /\ c.user = e.user /\ c.email = e.email /\ c.token = e.token
      /\ c.method = e.method /\ c.client = e.client /\ c.tenant = e.tenant
      /\ c.provider = IF e.provider # Absent THEN e.provider
                      ELSE IF e.method = "social" THEN "google" ELSE "builder"
      /\ c.api = Absent /\ c.start = Absent /\ c.hash = Absent
      /\ c.endpoint = FALSE /\ c.disabled = FALSE
  BY <1>1, InSnapshot
<1>3. /\ n.method = MethodOf(c) /\ n.provider = ProviderOf(c, MethodOf(c))
      /\ n.hash = IF n.method = "idc" THEN HashOf(c, n.provider) ELSE c.hash
      /\ n.endpoint = IF n.method = "idc" THEN c.endpoint
                      ELSE c.endpoint \/ (n.method = "external_idp" /\ c.tenant)
      /\ n.user = c.user /\ n.email = c.email /\ n.api = c.api /\ n.token = c.token
      /\ n.client = c.client
      /\ n.tenant = c.tenant
  BY <1>2, Normalized
<1>4. MethodOf(e) = e.method /\ e.method \in Methods /\ e.provider = ProviderOf(e, e.method)
  BY <1>1, MethodAgain, Normalized
<1>5. e.endpoint = IF e.method = "idc" THEN e.endpoint
                   ELSE e.endpoint \/ (e.method = "external_idp" /\ e.tenant)
  BY <1>1, Normalized
<1>6. e.tenant \in BOOLEAN /\ e.endpoint \in BOOLEAN
  BY <1>1 DEF IsRecord
<1>7. Absent \notin Methods /\ Absent \notin {"google", "github", "builder", "enterprise", "azure"}
  BY ImportAssumption DEF Methods
<1>8. CASE e.method = "social"
  <2>1. e.tenant = FALSE /\ e.api = Absent
    BY <1>4, <1>6, <1>8 DEF MethodOf, NamedMethod
  <2>2. e.provider # Absent
    BY <1>4, <1>7, <1>8 DEF ProviderOf
  <2>3. MethodOf(c) = "social"
    BY <1>2, <1>8, <2>1 DEF MethodOf, NamedMethod, Methods
  <2>4. n.method = "social" /\ n.provider = c.provider
    BY <1>2, <1>3, <2>2, <2>3 DEF ProviderOf
  <2>5. SaysEnough(c)
    BY <1>2, <1>8 DEF SaysEnough
  <2>6. Acceptable(n)
    BY <2>4 DEF Acceptable
  <2>7. HasMaterial(n)
    BY <1>1, <1>2, <1>3, <1>8, <2>1, <2>4 DEF HasMaterial, IsApiKey
  <2>8. Kind(n) = Kind(c)
    BY <1>2, <1>3, <1>8, <2>4 DEF Kind
  <2> QED
    BY <2>5, <2>6, <2>7, <2>8
<1>9. CASE e.method = "api_key"
  <2>1. e.tenant = FALSE
    BY <1>4, <1>6, <1>9 DEF MethodOf
  <2>2. MethodOf(c) = "api_key"
    BY <1>2, <1>9, <2>1 DEF MethodOf, NamedMethod
  <2>3. ~HasMaterial(n)
    BY <1>2, <1>3, <2>2 DEF HasMaterial, IsApiKey
  <2>4. ~SaysEnough(c)
    BY <1>2, <1>9 DEF SaysEnough
  <2> QED
    BY <2>3, <2>4
<1>10. CASE e.method = "idc"
  <2>1. e.tenant = FALSE /\ e.api = Absent
    BY <1>4, <1>6, <1>10 DEF MethodOf, NamedMethod
  <2>2. MethodOf(c) = "idc"
    BY <1>2, <1>10, <2>1 DEF MethodOf, NamedMethod, Methods
  <2>3. e.provider \in {"enterprise", "builder"} /\ c.provider = e.provider
    BY <1>2, <1>4, <1>7, <1>10 DEF ProviderOf
  <2>4. n.method = "idc" /\ n.provider = c.provider /\ n.hash = HashOf(c, c.provider)
    BY <1>2, <1>3, <1>7, <2>2, <2>3 DEF ProviderOf
  <2>5. HasMaterial(n)
    BY <1>1, <1>2, <1>3, <1>10, <2>1, <2>4 DEF HasMaterial, IsApiKey
  <2>6. CASE e.provider = "builder"
    <3>1. n.hash = "builder"
      BY <1>2, <2>3, <2>4, <2>6 DEF HashOf
    <3>2. Acceptable(n)
      BY <1>7, <2>3, <2>4, <2>6, <3>1 DEF Acceptable
    <3>3. SaysEnough(c)
      BY <1>2, <1>10, <2>3, <2>6 DEF SaysEnough
    <3>4. Kind(n) = Kind(c)
      BY <1>2, <1>3, <1>10, <2>4 DEF Kind
    <3> QED
      BY <2>5, <3>2, <3>3, <3>4
  <2>7. CASE e.provider = "enterprise"
    <3>1. n.hash = Absent
      BY <1>2, <2>3, <2>4, <2>7 DEF HashOf
    <3>2. ~Acceptable(n) /\ ~SaysEnough(c)
      BY <1>2, <1>10, <2>3, <2>4, <2>7, <3>1 DEF Acceptable, SaysEnough
    <3> QED
      BY <3>2
  <2> QED
    BY <2>3, <2>6, <2>7
<1>11. CASE e.method = "external_idp"
  <2>1. MethodOf(c) = "external_idp"
    BY <1>2, <1>11 DEF MethodOf, NamedMethod
  <2>2. c.provider = e.provider /\ e.provider # Absent
    BY <1>2, <1>4, <1>7, <1>11 DEF ProviderOf
  <2>3. n.method = "external_idp" /\ n.provider = c.provider /\ n.endpoint = e.tenant
    BY <1>2, <1>3, <1>6, <2>1, <2>2 DEF ProviderOf
  <2>4. CASE e.tenant /\ e.token # Absent
    <3>1. Acceptable(n)
      BY <1>1, <1>2, <1>3, <1>11, <2>3, <2>4 DEF Acceptable
    <3>2. HasMaterial(n)
      BY <1>2, <1>3, <2>3, <2>4 DEF HasMaterial, IsApiKey
    <3>3. SaysEnough(c) /\ Kind(n) = Kind(c)
      BY <1>2, <1>3, <1>11, <2>3, <2>4 DEF SaysEnough, Kind
    <3> QED
      BY <3>1, <3>2, <3>3
  <2>5. CASE ~e.tenant
    BY <1>2, <1>11, <2>3, <2>5 DEF Acceptable, SaysEnough
  <2>6. CASE e.token = Absent
    BY <1>2, <1>3, <1>11, <2>3, <2>6 DEF HasMaterial, IsApiKey, SaysEnough
  <2> QED
    BY <2>4, <2>5, <2>6
<1> QED
  BY <1>4, <1>8, <1>9, <1>10, <1>11 DEF Methods

\* A record is matched by its id first, and by nothing if nothing is there.
LEMMA MatchedById ==
    ASSUME NEW r, r.id \in Nat, NEW known
    PROVE  /\ r.id \in DOMAIN known => ExistingMatches(r, known) = {r.id}
           /\ DOMAIN known = {} => ExistingMatches(r, known) = {0}
<1>1. PICK by : by = [id |-> {r.id} \cap DOMAIN known, api |-> MatchesBy(r, "api", known),
                      token |-> MatchesBy(r, "token", known), user |-> MatchesBy(r, "user", known),
                      social |-> SocialMatches(r, known)]
  OBVIOUS
<1>2. PICK order : order = <<"id", "api", "token", "user", "social">>
  OBVIOUS
<1>3. PICK I : I = {i \in 1 .. Len(order) : by[order[i]] # {}}
  OBVIOUS
<1>4. PICK first : first = IF I # {} THEN Min(I) ELSE 0
  OBVIOUS
<1>5. ExistingMatches(r, known) = IF first = 0 THEN {0} ELSE by[order[first]]
  BY <1>1, <1>2, <1>3, <1>4 DEF ExistingMatches, SelectInSeq
<1>6. /\ Len(order) = 5 /\ order[1] = "id" /\ order[2] = "api" /\ order[3] = "token"
      /\ order[4] = "user" /\ order[5] = "social"
  BY <1>2
<1>7. ASSUME r.id \in DOMAIN known PROVE ExistingMatches(r, known) = {r.id}
  <2>1. by["id"] = {r.id}
    BY <1>1, <1>7
  <2>2. 1 \in I /\ I \subseteq 1 .. 5
    BY <1>3, <1>6, <2>1
  <2>3. Min(I) = 1
    <3>1. Min(I) \in I /\ \A i \in I : Min(I) <= i
      <4>1. \A i \in I : 1 <= i
        BY <2>2
      <4> QED
        BY <2>2, <4>1 DEF Min
    <3>2. Min(I) \in 1 .. 5 /\ Min(I) <= 1
      BY <2>2, <3>1
    <3> QED
      BY <3>2
  <2> QED
    BY <1>4, <1>5, <1>6, <2>1, <2>2, <2>3
<1>8. ASSUME DOMAIN known = {} PROVE ExistingMatches(r, known) = {0}
  <2>1. /\ by["id"] = {} /\ by["api"] = {} /\ by["token"] = {} /\ by["user"] = {}
        /\ by["social"] = {}
    BY <1>1, <1>8 DEF MatchesBy, SocialMatches
  <2>2. I = {}
    BY <1>3, <1>6, <2>1
  <2> QED
    BY <1>4, <1>5, <2>2
<1> QED
  BY <1>7, <1>8

-----------------------------------------------------------------------------
\* The credentials there are, each under its id, and what it is unless it was merged into.
EntryOf(i, e) == e = [cred |-> e.cred, reason |-> e.reason] /\ IsRecord(e.cred) /\ e.cred.id = i

EntriesInv ==
    /\ DOMAIN entries \subseteq 1 .. MaxImportId
    /\ entries = [i \in DOMAIN entries |-> entries[i]]
    /\ \A i \in DOMAIN entries :
           EntryOf(i, entries[i]) /\ (i \notin merged => Proper(entries[i].cred))

IsTask(t) ==
    t = [at |-> t.at, mode |-> t.mode, dry |-> t.dry, todo |-> t.todo, known |-> t.known,
         how |-> t.how, id |-> t.id, next |-> t.next, invalid |-> t.invalid, form |-> t.form]

\* What has been decided of a record, and waits.
Decided(how, id, c) ==
    /\ how \in {"add", "merge", "replace"} /\ id \in 1 .. MaxImportId
    /\ IsRecord(c) /\ c.id = id /\ (how # "merge" => Proper(c))

TaskInv ==
    /\ IsTask(task) /\ task.at \in {"idle", "next", "apply", "done"} /\ task.invalid \in Nat
    /\ IsASeq(task.todo) /\ \A n \in DOMAIN task.todo : IsRecord(task.todo[n])
    /\ task.at \in {"next", "apply"} => Len(task.todo) >= 1
    /\ task.at = "done" => Len(task.todo) = 0
    /\ task.at = "apply" => Decided(task.how, task.id, task.next)

RecordInv ==
    /\ record = [at |-> record.at, next |-> record.next, id |-> record.id]
    /\ record.at \in {"idle", "number", "insert"}
    /\ record.at # "idle" => Proper(record.next)
    /\ record.at = "insert" => record.id \in 1 .. MaxImportId /\ record.next.id = record.id

\* What a backup or a snapshot holds.
ItemOf(form, c) ==
    /\ form = "backup" => Proper(c)
    /\ form = "snapshot" => \E e : Proper(e) /\ c = credential_snapshot_export_item(e)

ArchiveOf(form, of, records) ==
    /\ form \in {"none", "backup", "snapshot"} /\ IsASeq(records)
    /\ IF form = "none" THEN of = <<>> /\ records = <<>> ELSE Len(records) >= 1
    /\ \A n \in DOMAIN records :
           /\ IsRecord(records[n])
           /\ of[n] \notin mixed => ItemOf(form, records[n])
    /\ form = "backup" =>
           /\ Numbered(records)
           /\ \A n \in DOMAIN records : records[n].id = of[n]

ArchiveInv ==
    /\ archive = [form |-> archive.form, of |-> archive.of, records |-> archive.records]
    /\ ArchiveOf(archive.form, archive.of, archive.records)

ImportTypes == EntriesInv /\ TaskInv /\ RecordInv /\ ArchiveInv

Apart(c, d) == SecretsOf(c) \cap SecretsOf(d) = {}

LEMMA TailOf ==
    ASSUME NEW s, IsASeq(s), Len(s) >= 1
    PROVE  /\ IsASeq(Tail(s)) /\ Len(s) \in Nat /\ DOMAIN s = 1 .. Len(s) /\ Head(s) = s[1]
           /\ Len(Tail(s)) = Len(s) - 1 /\ DOMAIN Tail(s) = 1 .. Len(s) - 1
           /\ \A i \in 1 .. Len(s) - 1 : Tail(s)[i] = s[i + 1]
<1>1. PICK T : T = {s[i] : i \in DOMAIN s}
  OBVIOUS
<1>2. s \in Seq(T)
  BY <1>1 DEF IsASeq
<1>0. PICK n \in Nat : n = Len(s) /\ n >= 1
  BY <1>2
<1>3. PICK t : t = Tail(s) /\ n = Len(s) /\ n \in Nat /\ n >= 1
  BY <1>0
<1>4. s # <<>>
  BY <1>2
<1>5. /\ t \in Seq(T) /\ Len(t) = n - 1 /\ \A i \in 1 .. n - 1 : t[i] = s[i + 1]
  BY <1>2, <1>3, <1>4
<1>6. DOMAIN t = 1 .. n - 1
  BY <1>5
<1>7. IsASeq(t)
  <2>1. PICK S : S = {t[i] : i \in DOMAIN t}
    OBVIOUS
  <2>2. t \in [1 .. n - 1 -> S] /\ n - 1 \in Nat
    <3>1. n - 1 \in Nat
      BY <1>3
    <3>2. \A i \in 1 .. n - 1 : t[i] \in S
      BY <1>6, <2>1
    <3>3. t = [i \in 1 .. n - 1 |-> t[i]]
      BY <1>5, <1>6
    <3> QED
      BY <3>1, <3>2, <3>3
  <2>3. t \in Seq(S)
    BY <2>2
  <2> QED
    BY <2>1, <2>3 DEF IsASeq
<1>8. DOMAIN s = 1 .. n /\ Head(s) = s[1]
  BY <1>2, <1>3, <1>4
<1> QED
  BY <1>3, <1>5, <1>6, <1>7, <1>8

LEMMA NewIdIsFree ==
    ASSUME EntriesInv, NEW r, r.id \in Nat
    PROVE  NewImportId(r) \in Nat \ {0} /\ NewImportId(r) \notin DOMAIN entries
<1>1. PICK S : S = DOMAIN entries
  OBVIOUS
<1>2. S \subseteq 1 .. MaxImportId /\ MaxImportId \in Nat
  BY <1>1, ImportAssumption DEF EntriesInv
<1>3. CASE S = {}
  BY <1>1, <1>3 DEF NewImportId
<1>4. CASE S # {}
  <2>1. S \subseteq 0 .. MaxImportId
    BY <1>2
  <2>2. \E m \in S : \A k \in S : k <= m
    BY <1>2, <1>4, <2>1, GreatestOf
  <2>3. \E m \in S : \A k \in S : m >= k
    BY <1>2, <2>2
  <2>4. Max(S) \in S /\ \A k \in S : Max(S) >= k
    BY <2>3 DEF Max
  <2>5. Max(S) + 1 \in Nat \ {0} /\ Max(S) + 1 \notin S
    <3>1. PICK m \in S : m = Max(S) /\ \A k \in S : m >= k
      BY <2>4
    <3>2. m \in Nat /\ m >= 1 /\ S \subseteq Nat
      BY <1>2
    <3>3. m + 1 \notin S
      BY <3>1, <3>2
    <3> QED
      BY <3>1, <3>2, <3>3
  <2> QED
    BY <1>1, <1>4, <2>5 DEF NewImportId
<1> QED
  BY <1>3, <1>4

LEMMA PutIs ==
    ASSUME NEW f, NEW i, NEW x
    PROVE  /\ DOMAIN Put(f, i, x) = DOMAIN f \cup {i} /\ Put(f, i, x)[i] = x
           /\ \A j \in DOMAIN f \ {i} : Put(f, i, x)[j] = f[j]
           /\ Put(f, i, x) = [j \in DOMAIN Put(f, i, x) |-> Put(f, i, x)[j]]
BY DEF Put

\* What a merge makes of a credential.
LEMMA FilledIs ==
    ASSUME NEW c, IsRecord(c), NEW r, IsRecord(r), NEW d, d = Filled(c, r)
    PROVE  IsRecord(d) /\ d.id = c.id /\ SecretsOf(d) \subseteq SecretsOf(c) \cup SecretsOf(r)
<1>1. DOMAIN c = Fields
  BY DEF IsRecord
<1>2. d = [f \in Fields |-> CASE f \in {"id", "disabled"} -> c[f]
                              [] f = "client" -> IF c[f] = "none" THEN r[f] ELSE c[f]
                              [] f \in {"endpoint", "tenant"} -> c[f] \/ r[f]
                              [] OTHER -> IF c[f] = Absent THEN r[f] ELSE c[f]]
  BY <1>1 DEF Filled
<1>3. /\ d.id = c.id /\ d.disabled = c.disabled
      /\ d.endpoint = (c.endpoint \/ r.endpoint) /\ d.tenant = (c.tenant \/ r.tenant)
      /\ d.api = (IF c.api = Absent THEN r.api ELSE c.api)
      /\ d.token = (IF c.token = Absent THEN r.token ELSE c.token)
  BY <1>2 DEF Fields
<1>4. IsRecord(d)
  <2>1. d = [f \in Fields |-> d[f]]
    BY <1>2
  <2>2. c.id \in Nat /\ c.disabled \in BOOLEAN
    BY DEF IsRecord
  <2> QED
    BY <1>3, <2>1, <2>2 DEF IsRecord
<1> QED
  BY <1>3, <1>4 DEF SecretsOf

AllApart(es) == \A i, j \in DOMAIN es : i # j => Apart(es[i].cred, es[j].cred)

Readied(how, id, c, file) ==
    /\ Prepare(how, id, c, file) /\ Decided(how, id, c)
    /\ how # "add" => id \in DOMAIN entries
    /\ AllApart(entries) => \A i \in DOMAIN entries \ {id} : Apart(c, entries[i].cred)

LEMMA AddReadies ==
    ASSUME EntriesInv, NEW n, IsRecord(n), HasMaterial(n) => Proper(n), AddImported(n)
    PROVE  PassOver(TRUE) \/ \E how, id, c, file : Readied(how, id, c, file)
<1>1. CASE ~HasMaterial(n) \/ InUse(n, 0)
  BY <1>1 DEF AddImported
<1>2. CASE ~(~HasMaterial(n) \/ InUse(n, 0))
  <2>1. PICK id : id = NewImportId(n)
    OBVIOUS
  <2>2. id \in Nat \ {0} /\ id \notin DOMAIN entries
    BY <2>1, NewIdIsFree DEF IsRecord
  <2>3. PICK c : c = [n EXCEPT !.id = id]
    OBVIOUS
  <2>4. PICK file : file = Put(Persisted(entries), id, c)
    OBVIOUS
  <2>5. id <= MaxImportId /\ Prepare("add", id, c, file)
    BY <1>2, <2>1, <2>3, <2>4 DEF AddImported
  <2>6. IsRecord(c) /\ c.id = id /\ Proper(c) /\ SecretsOf(c) = SecretsOf(n)
    BY <1>2, <2>2, <2>3, Renumbered
  <2>7. Decided("add", id, c)
    BY <2>2, <2>5, <2>6, ImportAssumption DEF Decided
  <2>8. \A i \in DOMAIN entries : i # 0
    BY ImportAssumption DEF EntriesInv
  <2>9. \A i \in DOMAIN entries : Apart(c, entries[i].cred)
    BY <1>2, <2>6, <2>8 DEF InUse, Apart
  <2>10. Readied("add", id, c, file)
    BY <2>5, <2>7, <2>9 DEF Readied
  <2> QED
    BY <2>10
<1> QED
  BY <1>1, <1>2

LEMMA MergeReadies ==
    ASSUME EntriesInv, NEW n, IsRecord(n), NEW id, MergeImported(n, id)
    PROVE  PassOver(TRUE) \/ \E how, i, c, file : Readied(how, i, c, file)
<1>1. CASE ~HasMaterial(n) \/ id \notin DOMAIN entries \/ InUse(n, id)
  BY <1>1 DEF MergeImported
<1>2. CASE ~(~HasMaterial(n) \/ id \notin DOMAIN entries \/ InUse(n, id))
  <2>1. id \in DOMAIN entries /\ id \in 1 .. MaxImportId
    BY <1>2 DEF EntriesInv
  <2>2. PICK c : c = Filled(entries[id].cred, n)
    OBVIOUS
  <2>3. PICK file : file = Put(Persisted(entries), id,
                               [c EXCEPT !.disabled = (entries[id].reason = "manual")])
    OBVIOUS
  <2>4. Prepare("merge", id, c, file)
    BY <1>2, <2>2, <2>3 DEF MergeImported
  <2>5. IsRecord(entries[id].cred) /\ entries[id].cred.id = id
    BY <2>1 DEF EntriesInv, EntryOf
  <2>6. IsRecord(c) /\ c.id = id /\ SecretsOf(c) \subseteq SecretsOf(entries[id].cred) \cup SecretsOf(n)
    BY <2>2, <2>5, FilledIs
  <2>7. Decided("merge", id, c)
    BY <2>1, <2>6 DEF Decided
  <2>8. ASSUME AllApart(entries), NEW i \in DOMAIN entries \ {id} PROVE Apart(c, entries[i].cred)
    <3>1. Apart(entries[id].cred, entries[i].cred)
      BY <2>1, <2>8 DEF AllApart
    <3>2. SecretsOf(n) \cap SecretsOf(entries[i].cred) = {}
      BY <1>2, <2>8 DEF InUse
    <3> QED
      BY <2>6, <3>1, <3>2 DEF Apart
  <2>9. Readied("merge", id, c, file)
    BY <2>1, <2>4, <2>7, <2>8 DEF Readied
  <2> QED
    BY <2>9
<1> QED
  BY <1>1, <1>2

LEMMA ReplaceReadies ==
    ASSUME EntriesInv, NEW n, IsRecord(n), HasMaterial(n) => Proper(n), NEW id, ReplaceImported(n, id)
    PROVE  PassOver(TRUE) \/ \E how, i, c, file : Readied(how, i, c, file)
<1>1. CASE ~HasMaterial(n) \/ id \notin DOMAIN entries \/ InUse(n, id)
  BY <1>1 DEF ReplaceImported
<1>2. CASE ~(~HasMaterial(n) \/ id \notin DOMAIN entries \/ InUse(n, id))
  <2>1. id \in DOMAIN entries /\ id \in 1 .. MaxImportId /\ id \in Nat
    BY <1>2, ImportAssumption DEF EntriesInv
  <2>2. PICK c : c = [n EXCEPT !.id = id]
    OBVIOUS
  <2>3. PICK file : file = Put(Persisted(entries), id, c)
    OBVIOUS
  <2>4. Prepare("replace", id, c, file)
    BY <1>2, <2>2, <2>3 DEF ReplaceImported
  <2>5. IsRecord(c) /\ c.id = id /\ Proper(c) /\ SecretsOf(c) = SecretsOf(n)
    BY <1>2, <2>1, <2>2, Renumbered
  <2>6. Decided("replace", id, c)
    BY <2>1, <2>5 DEF Decided
  <2>7. \A i \in DOMAIN entries \ {id} : Apart(c, entries[i].cred)
    BY <1>2, <2>5 DEF InUse, Apart
  <2>8. Readied("replace", id, c, file)
    BY <2>1, <2>4, <2>6, <2>7 DEF Readied
  <2> QED
    BY <2>8
<1> QED
  BY <1>1, <1>2

\* A record is passed over, or something is decided of it.
LEMMA NextDoes ==
    ASSUME ImportTypes, ImportNext
    PROVE  (\E b \in BOOLEAN : PassOver(b)) \/ \E how, id, c, file : Readied(how, id, c, file)
<1>1. EntriesInv
  BY DEF ImportTypes
<1>2. PICK r : r = Head(task.todo)
  OBVIOUS
<1>3. IsRecord(r)
  <2>1. IsASeq(task.todo) /\ Len(task.todo) >= 1 /\ \A n \in DOMAIN task.todo : IsRecord(task.todo[n])
    BY DEF ImportTypes, TaskInv, ImportNext
  <2>2. PICK s : s = task.todo
    OBVIOUS
  <2>3. Head(s) = s[1] /\ 1 \in DOMAIN s
    BY <2>1, <2>2, TailOf
  <2> QED
    BY <1>2, <2>1, <2>2, <2>3
<1>4. PICK n : n = Normalize(r)
  OBVIOUS
<1>5. PICK match \in ExistingMatches(n, task.known) :
      IF ~Acceptable(n) THEN PassOver(TRUE)
      ELSE IF task.dry \/ (match # 0 /\ task.mode = "skip") THEN PassOver(FALSE)
      ELSE IF match = 0 THEN AddImported(n)
      ELSE IF task.mode = "merge" THEN MergeImported(n, match)
      ELSE ReplaceImported(n, match)
  BY <1>2, <1>4 DEF ImportNext
<1>6. IsRecord(n) /\ Normalize(n) = n
  BY <1>3, <1>4, Normalized, NormalizedOnce
<1>7. CASE ~Acceptable(n)
  BY <1>5, <1>7
<1>8. CASE Acceptable(n)
  <2>1. HasMaterial(n) => Proper(n)
    BY <1>6, <1>8 DEF Proper
  <2>2. CASE PassOver(FALSE)
    BY <2>2
  <2>3. CASE AddImported(n)
    BY <1>1, <1>6, <2>1, <2>3, AddReadies
  <2>4. CASE MergeImported(n, match)
    BY <1>1, <1>6, <2>4, MergeReadies
  <2>5. CASE ReplaceImported(n, match)
    BY <1>1, <1>6, <2>1, <2>5, ReplaceReadies
  <2> QED
    BY <1>5, <1>8, <2>2, <2>3, <2>4, <2>5
<1> QED
  BY <1>7, <1>8

LEMMA CachedIs ==
    ASSUME NEW r, IsRecord(r)
    PROVE  IsRecord(credential_from_cached_credential(r))
<1>1. PICK m, c : /\ m = CASE r.provider \in {"google", "github"} -> "social"
                           [] r.provider \in {"builder", "enterprise"} -> "idc"
                           [] r.provider = "azure" -> "external_idp"
                           [] OTHER -> Absent
                  /\ c = [r EXCEPT !.method = m]
  OBVIOUS
<1>2. DOMAIN r = Fields
  BY DEF IsRecord
<1>3. c = [f \in Fields |-> IF f = "method" THEN m ELSE r[f]]
  BY <1>1, <1>2 DEF Fields
<1>4. IsRecord(c)
  BY <1>3 DEF IsRecord, Fields
<1>5. credential_from_cached_credential(r) \in {r, c}
  BY <1>1 DEF credential_from_cached_credential
<1> QED
  BY <1>4, <1>5

\* What there is to import is a list of records.
LEMMA PackageIs ==
    ASSUME NEW package \in Packages, NEW cached,
           NEW todo, todo = [n \in DOMAIN package |->
               IF cached THEN credential_from_cached_credential(package[n]) ELSE package[n]]
    PROVE  IsASeq(todo) /\ Len(todo) >= 1 /\ \A n \in DOMAIN todo : IsRecord(todo[n])
<1>1. PICK T : T = {package[n] : n \in DOMAIN package}
  OBVIOUS
<1>2. package \in Seq(T) /\ package # <<>> /\ \A n \in DOMAIN package : IsRecord(package[n])
  <2>1. /\ package \in Seq({package[n] : n \in DOMAIN package}) /\ package # <<>>
        /\ \A n \in DOMAIN package : IsRecord(package[n])
    BY ImportAssumption, Zenon
  <2> QED
    BY <1>1, <2>1, Zenon
<1>3. PICK len \in Nat : len = Len(package) /\ DOMAIN package = 1 .. len
  BY <1>2
<1>4. len >= 1
  BY <1>2, <1>3
<1>5. DOMAIN todo = 1 .. len /\ todo = [n \in 1 .. len |-> todo[n]]
  BY <1>3
<1>6. PICK S : S = {todo[n] : n \in DOMAIN todo}
  OBVIOUS
<1>7. todo \in Seq(S) /\ Len(todo) = len
  <2>1. todo \in [1 .. len -> S]
    BY <1>5, <1>6
  <2> QED
    BY <1>3, <2>1
<1>8. \A n \in DOMAIN todo : IsRecord(todo[n])
  <2> SUFFICES ASSUME NEW n \in DOMAIN todo PROVE IsRecord(todo[n])
    OBVIOUS
  <2>1. n \in DOMAIN package /\ IsRecord(package[n])
    BY <1>2, <1>3, <1>5
  <2>2. todo[n] \in {package[n], credential_from_cached_credential(package[n])}
    BY <2>1
  <2> QED
    BY <2>1, <2>2, CachedIs
<1> QED
  BY <1>4, <1>6, <1>7, <1>8 DEF IsASeq

LEMMA OneOrMore ==
    ASSUME NEW n \in Nat, n >= 1
    PROVE  n > 1 \/ n = 1
OBVIOUS

LEMMA RecordDone ==
    ASSUME TaskInv, task.at \in {"next", "apply"}, NEW b \in BOOLEAN, NextRecord(b)
    PROVE  /\ TaskInv'
           /\ task'.todo = Tail(task.todo) /\ Len(task'.todo) = Len(task.todo) - 1
           /\ task'.at \in {"next", "done"}
           /\ task'.invalid = task.invalid + IF b THEN 1 ELSE 0
           /\ task'.form = task.form /\ task'.mode = task.mode /\ task'.dry = task.dry
           /\ task'.known = task.known
<1>1. PICK t, u : t = task /\ u = task'
  OBVIOUS
<1>2. /\ IsTask(t) /\ t.invalid \in Nat /\ IsASeq(t.todo) /\ Len(t.todo) >= 1
      /\ \A n \in DOMAIN t.todo : IsRecord(t.todo[n])
  BY <1>1 DEF TaskInv
<1>3. u = [t EXCEPT !.at = IF Len(t.todo) > 1 THEN "next" ELSE "done",
                    !.todo = Tail(t.todo), !.how = "none", !.id = 0, !.next = Absent,
                    !.invalid = t.invalid + IF b THEN 1 ELSE 0]
  BY <1>1 DEF NextRecord
<1>4. /\ u.at = (IF Len(t.todo) > 1 THEN "next" ELSE "done") /\ u.todo = Tail(t.todo)
      /\ u.invalid = t.invalid + (IF b THEN 1 ELSE 0)
      /\ u.form = t.form /\ u.mode = t.mode /\ u.dry = t.dry /\ u.known = t.known
      /\ IsTask(u)
  BY <1>2, <1>3 DEF IsTask
<1>5. /\ IsASeq(u.todo) /\ Len(t.todo) \in Nat /\ Len(u.todo) = Len(t.todo) - 1
      /\ DOMAIN t.todo = 1 .. Len(t.todo) /\ DOMAIN u.todo = 1 .. Len(t.todo) - 1
      /\ \A i \in 1 .. Len(t.todo) - 1 : u.todo[i] = t.todo[i + 1]
  <2>1. PICK s : s = t.todo
    OBVIOUS
  <2> QED
    BY <1>2, <1>4, <2>1, TailOf
<1>6. \A n \in DOMAIN u.todo : IsRecord(u.todo[n])
  <2> SUFFICES ASSUME NEW n \in DOMAIN u.todo PROVE IsRecord(u.todo[n])
    OBVIOUS
  <2>1. n \in 1 .. Len(t.todo) - 1 /\ n + 1 \in DOMAIN t.todo
    BY <1>5
  <2> QED
    BY <1>2, <1>5, <2>1
<1>7. u.at \in {"next", "done"} /\ u.invalid \in Nat
  BY <1>2, <1>4
<1>8. /\ u.at = "next" => Len(u.todo) >= 1
      /\ u.at = "done" => Len(u.todo) = 0
  <2>1. PICK len \in Nat : len = Len(t.todo) /\ len >= 1
    BY <1>2, <1>5
  <2>2. PICK left : left = Len(u.todo) /\ left = len - 1
    BY <1>5, <2>1
  <2>3. u.at = IF len > 1 THEN "next" ELSE "done"
    BY <1>4, <2>1
  <2>4. CASE len > 1
    <3>1. left >= 1 /\ u.at = "next"
      BY <2>1, <2>2, <2>3, <2>4
    <3> QED
      BY <2>2, <3>1
  <2>5. CASE len = 1
    <3>1. left = 0 /\ u.at = "done"
      BY <2>1, <2>2, <2>3, <2>5
    <3> QED
      BY <2>2, <3>1
  <2>6. len > 1 \/ len = 1
    BY <2>1, OneOrMore
  <2> QED
    BY <2>4, <2>5, <2>6, Zenon
<1>9. TaskInv'
  BY <1>1, <1>4, <1>5, <1>6, <1>7, <1>8 DEF TaskInv
<1> QED
  BY <1>1, <1>4, <1>5, <1>7, <1>9

LEMMA PreparedIs ==
    ASSUME TaskInv, NEW how, NEW id, NEW c, NEW file, Prepare(how, id, c, file)
    PROVE  /\ task'.at = "apply" /\ task'.how = how /\ task'.id = id /\ task'.next = c
           /\ task'.todo = task.todo /\ task'.invalid = task.invalid /\ task'.form = task.form
           /\ task'.mode = task.mode /\ task'.dry = task.dry /\ task'.known = task.known
           /\ IsTask(task')
<1>1. PICK t : t = task /\ IsTask(t)
  BY DEF TaskInv
<1>2. task' = [t EXCEPT !.at = "apply", !.how = how, !.id = id, !.next = c]
  BY <1>1 DEF Prepare
<1> QED
  BY <1>1, <1>2 DEF IsTask

LEMMA BegunIs ==
    ASSUME NEW package, NEW mode, NEW dry, NEW form, BeginImport(package, mode, dry, form)
    PROVE  /\ task.at = "idle" /\ task'.at = "next" /\ task'.todo = package
           /\ task'.known = CredentialsOf(entries) /\ task'.invalid = 0
           /\ task'.mode = mode /\ task'.dry = dry /\ task'.form = form /\ IsTask(task')
BY DEF BeginImport, IdleImport, IsTask

LEMMA OnlyNothing ==
    ASSUME NEW f, f = [i \in DOMAIN f |-> f[i]], DOMAIN f = {}
    PROVE  f = <<>>
<1>1. f \in [1 .. 0 -> {}]
  OBVIOUS
<1>2. f \in Seq({}) /\ Len(f) = 0
  BY <1>1
<1> QED
  BY <1>2

\* An export lists the credentials there are, each once.
LEMMA ExportIs ==
    ASSUME EntriesInv, NEW form, NEW items, Export(form, items)
    PROVE  \E of, records :
               /\ archive' = [form |-> form, of |-> of, records |-> records]
               /\ IsASeq(records) /\ Len(records) >= 1
               /\ \A k \in DOMAIN records : of[k] \in DOMAIN entries /\ records[k] = items[of[k]]
               /\ \A k, l \in DOMAIN records : k # l => of[k] # of[l]
<1>1. PICK S, size : S = DOMAIN entries /\ size = Cardinality(S)
  OBVIOUS
<1>2. size \in Nat /\ size >= 1
  <2>1. S # {}
    <3>1. entries # <<>> /\ entries = [i \in DOMAIN entries |-> entries[i]]
      BY DEF Export, EntriesInv
    <3> QED
      BY <1>1, <3>1, OnlyNothing
  <2>2. IsFiniteSet(S)
    <3>1. S \subseteq 1 .. MaxImportId /\ MaxImportId \in Nat
      BY <1>1, ImportAssumption DEF EntriesInv
    <3>2. IsFiniteSet(1 .. MaxImportId)
      BY <3>1, FS_Interval
    <3> QED
      BY <3>1, <3>2, FS_Subset
  <2>3. size \in Nat /\ size # 0
    BY <1>1, <2>1, <2>2, FS_CardinalityType, FS_EmptySet
  <2> QED
    BY <2>3
<1>3. PICK of \in SetToSeqs(S) :
          archive' = [form |-> form, of |-> of, records |-> [n \in DOMAIN of |-> items[of[n]]]]
  BY <1>1 DEF Export
<1>4. of \in [1 .. size -> S] /\ \A k, l \in 1 .. size : k # l => of[k] # of[l]
  BY <1>1, <1>3 DEF SetToSeqs
<1>5. PICK records : records = [n \in DOMAIN of |-> items[of[n]]]
  OBVIOUS
<1>6. DOMAIN records = 1 .. size /\ \A n \in 1 .. size : records[n] = items[of[n]]
  BY <1>4, <1>5
<1>7. PICK T : T = {records[n] : n \in DOMAIN records}
  OBVIOUS
<1>8. records \in Seq(T) /\ Len(records) = size
  <2>1. \A n \in 1 .. size : records[n] \in T
    BY <1>6, <1>7
  <2>2. records = [n \in 1 .. size |-> items[of[n]]]
    BY <1>4, <1>5
  <2>3. records \in [1 .. size -> T]
    BY <2>1, <2>2
  <2>4. size \in Nat
    BY <1>2
  <2>5. records \in Seq(T)
    BY <2>3, <2>4
  <2>6. Len(records) = size
    BY <1>6, <2>4, <2>5
  <2> QED
    BY <2>5, <2>6
<1>9. IsASeq(records)
  BY <1>7, <1>8 DEF IsASeq
<1>10. archive' = [form |-> form, of |-> of, records |-> records]
  BY <1>3, <1>5
<1>11. Len(records) >= 1
  BY <1>2, <1>8
<1>12. \A k \in DOMAIN records : of[k] \in DOMAIN entries /\ records[k] = items[of[k]]
  BY <1>1, <1>4, <1>6
<1>13. \A k, l \in DOMAIN records : k # l => of[k] # of[l]
  BY <1>4, <1>6
<1> QED
  BY <1>9, <1>10, <1>11, <1>12, <1>13

LEMMA EntriesStay ==
    ASSUME EntriesInv, UNCHANGED <<entries, merged>>
    PROVE  EntriesInv'
BY DEF EntriesInv

LEMMA EntryPut ==
    ASSUME EntriesInv, NEW id \in 1 .. MaxImportId, NEW e, EntryOf(id, e),
           entries' = Put(entries, id, e), merged' \in {merged \cup {id}, merged \ {id}},
           id \notin merged' => Proper(e.cred)
    PROVE  EntriesInv'
<1>1. PICK es, m : es = entries' /\ m = merged'
  OBVIOUS
<1>2. /\ DOMAIN es = DOMAIN entries \cup {id} /\ es[id] = e
      /\ \A k \in DOMAIN entries \ {id} : es[k] = entries[k]
      /\ es = [k \in DOMAIN es |-> es[k]]
  <2>2. es = [i \in DOMAIN entries \cup {id} |-> IF i = id THEN e ELSE entries[i]]
    BY <1>1 DEF Put
  <2>1. DOMAIN es = DOMAIN entries \cup {id} /\ es[id] = e
    BY <2>2
  <2> QED
    BY <2>1, <2>2
<1>3. DOMAIN es \subseteq 1 .. MaxImportId
  BY <1>2 DEF EntriesInv
<1>4. \A i \in DOMAIN es : EntryOf(i, es[i]) /\ (i \notin m => Proper(es[i].cred))
  <2> SUFFICES ASSUME NEW i \in DOMAIN es
               PROVE  EntryOf(i, es[i]) /\ (i \notin m => Proper(es[i].cred))
    OBVIOUS
  <2>1. CASE i = id
    BY <1>1, <1>2, <2>1
  <2>2. CASE i # id
    <3>1. i \in DOMAIN entries /\ es[i] = entries[i]
      BY <1>2, <2>2
    <3>2. i \notin m => i \notin merged
      BY <1>1, <2>2
    <3>3. EntryOf(i, entries[i]) /\ (i \notin merged => Proper(entries[i].cred))
      BY <3>1 DEF EntriesInv
    <3> QED
      BY <3>1, <3>2, <3>3
  <2> QED
    BY <2>1, <2>2
<1> QED
  BY <1>1, <1>2, <1>3, <1>4 DEF EntriesInv

LEMMA TaskStays ==
    ASSUME TaskInv, UNCHANGED task
    PROVE  TaskInv'
BY DEF TaskInv

LEMMA RecordStays ==
    ASSUME RecordInv, UNCHANGED record
    PROVE  RecordInv'
BY DEF RecordInv

LEMMA ArchiveStays ==
    ASSUME ArchiveInv, UNCHANGED <<archive, mixed>>
    PROVE  ArchiveInv'
BY DEF ArchiveInv, ArchiveOf

LEMMA TypesAtFirst ==
    ASSUME ImportInit
    PROVE  ImportTypes
<1>1. <<>> \in Seq({}) /\ Len(<<>>) = 0 /\ DOMAIN <<>> = {}
  OBVIOUS
<1>2. IsASeq(<<>>)
  BY DEF IsASeq
<1>3. EntriesInv
  <2>1. entries = <<>> /\ DOMAIN entries = {}
    BY DEF ImportInit
  <2>2. entries = [i \in DOMAIN entries |-> entries[i]]
    BY <2>1
  <2> QED
    BY <2>1, <2>2 DEF EntriesInv
<1>4. TaskInv
  <2>1. IsTask(task) /\ task.at = "idle" /\ task.todo = <<>> /\ task.invalid = 0
    BY DEF ImportInit, IdleImport, IsTask
  <2> QED
    BY <1>1, <1>2, <2>1 DEF TaskInv
<1>5. RecordInv
  BY DEF ImportInit, NoRecord, RecordInv
<1>6. ArchiveInv
  <2>1. archive = [form |-> "none", of |-> <<>>, records |-> <<>>]
    BY DEF ImportInit, NoArchive
  <2>2. ArchiveOf("none", <<>>, <<>>)
    BY <1>1, <1>2 DEF ArchiveOf
  <2> QED
    BY <2>1, <2>2 DEF ArchiveInv
<1> QED
  BY <1>3, <1>4, <1>5, <1>6 DEF ImportTypes

LEMMA BeginTypes ==
    ASSUME ImportTypes, NEW todo, NEW mode, NEW dry, NEW form, BeginImport(todo, mode, dry, form),
           IsASeq(todo), Len(todo) >= 1, \A n \in DOMAIN todo : IsRecord(todo[n])
    PROVE  ImportTypes'
<1>1. TaskInv'
  <2>1. task'.at = "next" /\ task'.todo = todo /\ task'.invalid = 0 /\ IsTask(task')
    BY BegunIs
  <2>2. PICK t : t = task'
    OBVIOUS
  <2>3. t.at = "next" /\ t.todo = todo /\ t.invalid = 0 /\ IsTask(t)
    BY <2>1, <2>2
  <2>4. t.at \in {"idle", "next", "apply", "done"} /\ t.invalid \in Nat
    BY <2>3
  <2> QED
    BY <2>2, <2>3, <2>4 DEF TaskInv
<1>2. UNCHANGED <<entries, merged, record, archive, mixed>>
  BY DEF BeginImport
<1> QED
  BY <1>1, <1>2, EntriesStay, RecordStays, ArchiveStays DEF ImportTypes

LEMMA PassTypes ==
    ASSUME ImportTypes, task.at \in {"next", "apply"}, NEW b \in BOOLEAN, PassOver(b)
    PROVE  ImportTypes'
<1>1. TaskInv'
  BY RecordDone DEF ImportTypes, PassOver
<1>2. UNCHANGED <<entries, merged, record, archive, mixed>>
  BY DEF PassOver
<1> QED
  BY <1>1, <1>2, EntriesStay, RecordStays, ArchiveStays DEF ImportTypes

LEMMA ReadiedTypes ==
    ASSUME ImportTypes, task.at = "next", NEW how, NEW id, NEW c, NEW file, Readied(how, id, c, file)
    PROVE  ImportTypes'
<1>1. TaskInv'
  <2>1. PICK t, u : t = task /\ u = task'
    OBVIOUS
  <2>2. /\ IsASeq(t.todo) /\ (\A n \in DOMAIN t.todo : IsRecord(t.todo[n]))
        /\ Len(t.todo) >= 1 /\ t.invalid \in Nat
    BY <2>1 DEF ImportTypes, TaskInv
  <2>3. /\ u.at = "apply" /\ u.how = how /\ u.id = id /\ u.next = c
        /\ u.todo = t.todo /\ u.invalid = t.invalid /\ IsTask(u)
    BY <2>1, PreparedIs DEF ImportTypes, Readied
  <2>4. Decided(how, id, c)
    BY DEF Readied
  <2> QED
    BY <2>1, <2>2, <2>3, <2>4 DEF TaskInv
<1>2. UNCHANGED <<entries, merged, record, archive, mixed>>
  BY DEF Readied, Prepare
<1> QED
  BY <1>1, <1>2, EntriesStay, RecordStays, ArchiveStays DEF ImportTypes

\* What is applied is what has been decided.
LEMMA AppliedIs ==
    ASSUME ImportTypes, ImportApply, task.how = "add" \/ task.id \in DOMAIN entries
    PROVE  \E e :
               /\ entries' = Put(entries, task.id, e) /\ EntryOf(task.id, e) /\ e.cred = task.next
               /\ task.how # "merge" => e = ImportedEntry(task.next) /\ merged' = merged \ {task.id}
               /\ task.how = "merge" => merged' = merged \cup {task.id}
               /\ NextRecord(FALSE)
               /\ UNCHANGED <<imported, archive, mixed, record, begun, met, undisturbed>>
<1>1. PICK e : e = IF task.how = "merge"
                   THEN [cred |-> task.next, reason |-> entries[task.id].reason]
                   ELSE ImportedEntry(task.next)
  OBVIOUS
<1>2. /\ entries' = Put(entries, task.id, e) /\ NextRecord(FALSE)
      /\ merged' = IF task.how = "merge" THEN merged \cup {task.id} ELSE merged \ {task.id}
      /\ UNCHANGED <<imported, archive, mixed, record, begun, met, undisturbed>>
  BY <1>1 DEF ImportApply
<1>3. Decided(task.how, task.id, task.next)
  BY DEF ImportTypes, TaskInv, ImportApply
<1>4. EntryOf(task.id, e) /\ e.cred = task.next
  BY <1>1, <1>3 DEF EntryOf, Decided, ImportedEntry
<1>5. task.how # "merge" => e = ImportedEntry(task.next)
  BY <1>1
<1> QED
  BY <1>2, <1>4, <1>5

LEMMA ApplyTypes ==
    ASSUME ImportTypes, ImportApply
    PROVE  ImportTypes'
<1>0. task.at = "apply" /\ Decided(task.how, task.id, task.next)
  BY DEF ImportTypes, TaskInv, ImportApply
<1>1. CASE task.how # "add" /\ task.id \notin DOMAIN entries
  BY <1>0, <1>1, PassTypes DEF ImportApply
<1>2. CASE task.how = "add" \/ task.id \in DOMAIN entries
  <2>1. PICK e :
            /\ entries' = Put(entries, task.id, e) /\ EntryOf(task.id, e) /\ e.cred = task.next
            /\ task.how # "merge" => e = ImportedEntry(task.next) /\ merged' = merged \ {task.id}
            /\ task.how = "merge" => merged' = merged \cup {task.id}
            /\ NextRecord(FALSE)
            /\ UNCHANGED <<imported, archive, mixed, record, begun, met, undisturbed>>
    BY <1>2, AppliedIs
  <2>2. PICK id : id = task.id
    OBVIOUS
  <2>3. id \in 1 .. MaxImportId /\ merged' \in {merged \cup {id}, merged \ {id}}
    BY <1>0, <2>1, <2>2 DEF Decided
  <2>4. id \notin merged' => Proper(e.cred)
    BY <1>0, <2>1, <2>2 DEF Decided
  <2>5. EntriesInv'
    BY <2>1, <2>2, <2>3, <2>4, EntryPut DEF ImportTypes
  <2>6. TaskInv'
    BY <1>0, <2>1, RecordDone DEF ImportTypes
  <2> QED
    BY <2>1, <2>5, <2>6, RecordStays, ArchiveStays DEF ImportTypes
<1> QED
  BY <1>1, <1>2

LEMMA EndTypes ==
    ASSUME ImportTypes, EndImport
    PROVE  ImportTypes'
<1>1. TaskInv'
  <2>1. PICK t : t = task'
    OBVIOUS
  <2>2. IsTask(t) /\ t.at = "idle" /\ t.todo = <<>> /\ t.invalid = 0
    BY <2>1 DEF EndImport, IdleImport, IsTask
  <2>3. <<>> \in Seq({}) /\ Len(<<>>) = 0 /\ DOMAIN <<>> = {}
    OBVIOUS
  <2>4. IsASeq(<<>>)
    BY DEF IsASeq
  <2> QED
    BY <2>1, <2>2, <2>3, <2>4 DEF TaskInv
<1>2. UNCHANGED <<entries, merged, record, archive, mixed>>
  BY DEF EndImport
<1> QED
  BY <1>1, <1>2, EntriesStay, RecordStays, ArchiveStays DEF ImportTypes

LEMMA CheckTypes ==
    ASSUME ImportTypes, NEW r, IsRecord(r), CheckRecord(r)
    PROVE  ImportTypes'
<1>1. PICK n : n = Normalize(r)
  OBVIOUS
<1>2. Proper(n)
  BY <1>1, Normalized, NormalizedOnce DEF CheckRecord, Proper
<1>3. record' = [at |-> "number", next |-> n, id |-> 0]
  BY <1>1 DEF CheckRecord, NoRecord
<1>4. RecordInv'
  BY <1>2, <1>3 DEF RecordInv
<1>5. UNCHANGED <<entries, merged, task, archive, mixed>>
  BY DEF CheckRecord
<1> QED
  BY <1>4, <1>5, EntriesStay, TaskStays, ArchiveStays DEF ImportTypes

LEMMA NumberedIs ==
    ASSUME ImportTypes, NumberRecord
    PROVE  /\ RecordInv' /\ record'.at = "insert" /\ SecretsOf(record'.next) = SecretsOf(record.next)
           /\ UNCHANGED <<entries, merged, task, archive, mixed, met, undisturbed>>
<1>1. PICK r, id, c : r = record.next /\ id = NewImportId(r) /\ c = [r EXCEPT !.id = id]
  OBVIOUS
<1>2. Proper(r) /\ record.at = "number" /\ id <= MaxImportId
  BY <1>1 DEF ImportTypes, RecordInv, NumberRecord
<1>3. IsRecord(r) /\ r.id \in Nat
  BY <1>2 DEF Proper, IsRecord
<1>4. id \in Nat \ {0}
  BY <1>1, <1>3, NewIdIsFree DEF ImportTypes
<1>5. IsRecord(c) /\ c.id = id /\ SecretsOf(c) = SecretsOf(r) /\ Proper(c)
  <2>1. id \in Nat /\ TRUE \in BOOLEAN
    BY <1>4
  <2>4. c = [r EXCEPT !.id = id]
    BY <1>1
  <2>5. IsRecord(r) /\ Proper(r)
    BY <1>2, <1>3
  <2>2. IsRecord(c) /\ c.id = id /\ SecretsOf(c) = SecretsOf(r)
    BY <2>1, <2>4, <2>5, Renumbered
  <2>3. Proper(c)
    BY <2>1, <2>4, <2>5, Renumbered
  <2> QED
    BY <2>2, <2>3
<1>6. record' = [at |-> "insert", next |-> c, id |-> id]
  <2>1. record = [at |-> record.at, next |-> record.next, id |-> record.id]
    BY DEF ImportTypes, RecordInv
  <2>2. record' = [record EXCEPT !.at = "insert", !.id = c.id, !.next = c]
    BY <1>1 DEF NumberRecord
  <2> QED
    BY <1>5, <2>1, <2>2
<1>7. id \in 1 .. MaxImportId
  BY <1>2, <1>4, ImportAssumption
<1>8. RecordInv'
  BY <1>5, <1>6, <1>7 DEF RecordInv
<1>9. UNCHANGED <<entries, merged, task, archive, mixed, met, undisturbed>>
  BY DEF NumberRecord
<1> QED
  BY <1>1, <1>5, <1>6, <1>8, <1>9

LEMMA NumberTypes ==
    ASSUME ImportTypes, NumberRecord
    PROVE  ImportTypes'
BY NumberedIs, EntriesStay, TaskStays, ArchiveStays DEF ImportTypes

LEMMA InsertTypes ==
    ASSUME ImportTypes, InsertRecord
    PROVE  ImportTypes'
<1>1. PICK id, e : id = record.id /\ e = ImportedEntry(record.next)
  OBVIOUS
<1>2. id \in 1 .. MaxImportId /\ record.next.id = id /\ Proper(record.next)
  BY <1>1 DEF ImportTypes, RecordInv, InsertRecord
<1>3. EntryOf(id, e) /\ Proper(e.cred)
  BY <1>1, <1>2 DEF EntryOf, ImportedEntry, Proper
<1>4. entries' = Put(entries, id, e) /\ merged' = merged \ {id}
  BY <1>1 DEF InsertRecord
<1>5. EntriesInv'
  BY <1>2, <1>3, <1>4, EntryPut DEF ImportTypes
<1>6. RecordInv'
  BY DEF InsertRecord, NoRecord, RecordInv
<1>7. UNCHANGED <<task, archive, mixed>>
  BY DEF InsertRecord
<1> QED
  BY <1>5, <1>6, <1>7, TaskStays, ArchiveStays DEF ImportTypes

\* Who disables or deletes leaves the credentials that stay as they are.
LEMMA LessIs ==
    ASSUME EntriesInv, NEW id, (\E reason : Disable(id, reason)) \/ DeleteEntry(id)
    PROVE  /\ EntriesInv' /\ DOMAIN entries' \subseteq DOMAIN entries
           /\ \A i \in DOMAIN entries' : entries'[i].cred = entries[i].cred
<1>1. PICK es : es = entries'
  OBVIOUS
<1>2. /\ DOMAIN es \subseteq DOMAIN entries /\ es = [i \in DOMAIN es |-> es[i]]
      /\ \A i \in DOMAIN es : /\ es[i].cred = entries[i].cred
                              /\ es[i] = [cred |-> es[i].cred, reason |-> es[i].reason]
  <2>1. ASSUME NEW reason, Disable(id, reason)
        PROVE  /\ DOMAIN es = DOMAIN entries /\ es = [i \in DOMAIN es |-> es[i]]
               /\ \A i \in DOMAIN es : /\ es[i].cred = entries[i].cred
                                       /\ es[i] = [cred |-> es[i].cred, reason |-> es[i].reason]
    <3>1. es = [entries EXCEPT ![id] = [entries[id] EXCEPT !.reason = reason]] /\ id \in DOMAIN entries
      BY <1>1, <2>1 DEF Disable
    <3>2. PICK e : e = [entries[id] EXCEPT !.reason = reason]
      OBVIOUS
    <3>3. e.cred = entries[id].cred /\ e = [cred |-> e.cred, reason |-> e.reason]
      <4>1. entries[id] = [cred |-> entries[id].cred, reason |-> entries[id].reason]
        BY <3>1 DEF EntriesInv, EntryOf
      <4> QED
        BY <3>2, <4>1
    <3>4. \A i \in DOMAIN entries : entries[i] = [cred |-> entries[i].cred, reason |-> entries[i].reason]
      BY DEF EntriesInv, EntryOf
    <3>5. DOMAIN es = DOMAIN entries /\ es[id] = e /\ \A i \in DOMAIN entries \ {id} : es[i] = entries[i]
      BY <3>1, <3>2
    <3>6. es = [i \in DOMAIN es |-> es[i]]
      <4>1. entries = [i \in DOMAIN entries |-> entries[i]]
        BY DEF EntriesInv
      <4> QED
        BY <3>1, <4>1
    <3> QED
      BY <3>3, <3>4, <3>5, <3>6
  <2>2. CASE DeleteEntry(id)
    <3>1. es = [i \in DOMAIN entries \ {id} |-> entries[i]]
      BY <1>1, <2>2 DEF DeleteEntry
    <3>2. \A i \in DOMAIN entries : entries[i] = [cred |-> entries[i].cred, reason |-> entries[i].reason]
      BY DEF EntriesInv, EntryOf
    <3> QED
      BY <3>1, <3>2
  <2> QED
    BY <2>1, <2>2
<1>3. merged' = merged
  BY DEF Disable, DeleteEntry
<1>4. DOMAIN es \subseteq 1 .. MaxImportId
  BY <1>2 DEF EntriesInv
<1>5. \A i \in DOMAIN es : EntryOf(i, es[i]) /\ (i \notin merged => Proper(es[i].cred))
  <2> SUFFICES ASSUME NEW i \in DOMAIN es
               PROVE  EntryOf(i, es[i]) /\ (i \notin merged => Proper(es[i].cred))
    OBVIOUS
  <2>1. EntryOf(i, entries[i]) /\ (i \notin merged => Proper(entries[i].cred))
    BY <1>2 DEF EntriesInv
  <2> QED
    BY <1>2, <2>1 DEF EntryOf
<1>6. EntriesInv'
  BY <1>1, <1>2, <1>3, <1>4, <1>5 DEF EntriesInv
<1> QED
  BY <1>1, <1>2, <1>6

LEMMA LessTypes ==
    ASSUME ImportTypes, NEW id, (\E reason : Disable(id, reason)) \/ DeleteEntry(id)
    PROVE  ImportTypes'
<1>1. UNCHANGED <<task, record, archive, mixed>>
  BY DEF Disable, DeleteEntry
<1> QED
  BY <1>1, LessIs, TaskStays, RecordStays, ArchiveStays DEF ImportTypes

LEMMA ExportedIs ==
    ASSUME EntriesInv, NEW i \in DOMAIN entries
    PROVE  /\ IsRecord(Exported[i]) /\ Exported[i].id = i
           /\ i \notin merged => Proper(Exported[i])
<1>1. PICK c, b : c = entries[i].cred /\ b = (entries[i].reason # "none")
  OBVIOUS
<1>2. IsRecord(c) /\ c.id = i /\ (i \notin merged => Proper(c)) /\ b \in BOOLEAN
  BY <1>1 DEF EntriesInv, EntryOf
<1>3. PICK d : d = [c EXCEPT !.disabled = b]
  OBVIOUS
<1>4. Exported[i] = d
  BY <1>1, <1>3 DEF Exported
<1>5. 0 \in Nat
  OBVIOUS
<1>6. IsRecord(d) /\ d.id = i
  BY <1>2, <1>3, <1>5, Renumbered
<1>7. i \notin merged => Proper(d)
  BY <1>2, <1>3, <1>5, Renumbered
<1> QED
  BY <1>4, <1>6, <1>7

LEMMA ExportTypes ==
    ASSUME ImportTypes, NEW form \in {"backup", "snapshot"}, NEW items,
           \A i \in DOMAIN entries : /\ IsRecord(items[i])
                                     /\ i \notin merged => ItemOf(form, items[i])
                                     /\ form = "backup" => items[i].id = i,
           Export(form, items)
    PROVE  ImportTypes'
<1>1. EntriesInv
  BY DEF ImportTypes
<1>2. PICK of, records :
          /\ archive' = [form |-> form, of |-> of, records |-> records]
          /\ IsASeq(records) /\ Len(records) >= 1
          /\ \A k \in DOMAIN records : of[k] \in DOMAIN entries /\ records[k] = items[of[k]]
          /\ \A k, l \in DOMAIN records : k # l => of[k] # of[l]
  BY <1>1, ExportIs
<1>3. mixed' = merged
  BY DEF Export
<1>4. ArchiveInv'
  <2>1. ASSUME NEW n \in DOMAIN records
        PROVE  /\ IsRecord(records[n]) /\ of[n] # 0
               /\ of[n] \notin mixed' => ItemOf(form, records[n])
               /\ form = "backup" => records[n].id = of[n]
    <3>1. PICK i : i = of[n]
      OBVIOUS
    <3>2. i \in DOMAIN entries /\ records[n] = items[i]
      BY <1>2, <2>1, <3>1
    <3>3. i # 0
      BY <1>1, <3>2, ImportAssumption DEF EntriesInv
    <3>4. /\ IsRecord(items[i]) /\ (i \notin merged => ItemOf(form, items[i]))
          /\ form = "backup" => items[i].id = i
      BY <3>2
    <3> QED
      BY <1>3, <3>1, <3>2, <3>3, <3>4
  <2>2. form = "backup" => Numbered(records)
    BY <1>2, <2>1 DEF Numbered
  <2>3. form # "none"
    OBVIOUS
  <2>4. ArchiveOf(form, of, records)'
    BY <1>2, <2>1, <2>2, <2>3 DEF ArchiveOf
  <2>5. archive'.form = form /\ archive'.of = of /\ archive'.records = records
    BY <1>2
  <2> QED
    BY <1>2, <2>4, <2>5 DEF ArchiveInv
<1>5. UNCHANGED <<entries, merged, task, record>>
  BY DEF Export
<1> QED
  BY <1>4, <1>5, EntriesStay, TaskStays, RecordStays DEF ImportTypes

LEMMA BackupTypes ==
    ASSUME ImportTypes, ExportBackup
    PROVE  ImportTypes'
<1>1. PICK items : items = Exported
  OBVIOUS
<1>2. Export("backup", items)
  BY <1>1 DEF ExportBackup
<1>3. \A i \in DOMAIN entries : /\ IsRecord(items[i])
                                /\ i \notin merged => ItemOf("backup", items[i])
                                /\ items[i].id = i
  BY <1>1, ExportedIs DEF ImportTypes, ItemOf
<1> QED
  BY <1>2, <1>3, ExportTypes

LEMMA SnapshotTypes ==
    ASSUME ImportTypes, ExportSnapshot
    PROVE  ImportTypes'
<1>1. PICK items : items = [i \in DOMAIN entries |-> credential_snapshot_export_item(Exported[i])]
  OBVIOUS
<1>2. Export("snapshot", items)
  BY <1>1 DEF ExportSnapshot
<1>3. ASSUME NEW i \in DOMAIN entries
      PROVE  IsRecord(items[i]) /\ (i \notin merged => ItemOf("snapshot", items[i]))
  <2>1. PICK e : e = Exported[i]
    OBVIOUS
  <2>2. IsRecord(e) /\ (i \notin merged => Proper(e))
    BY <2>1, ExportedIs DEF ImportTypes
  <2>3. items[i] = credential_snapshot_export_item(e)
    BY <1>1, <2>1
  <2>4. IsRecord(items[i])
    BY <2>2, <2>3, InSnapshot
  <2> QED
    BY <2>2, <2>3, <2>4 DEF ItemOf
<1> QED
  BY <1>2, <1>3, ExportTypes

LEMMA PackagesAreRecords ==
    ASSUME NEW package \in Packages
    PROVE  IsRecord(package[1])
<1>1. /\ package \in Seq({package[n] : n \in DOMAIN package}) /\ package # <<>>
      /\ \A n \in DOMAIN package : IsRecord(package[n])
  BY ImportAssumption, Zenon
<1>2. 1 \in DOMAIN package
  <2>1. PICK T : T = {package[n] : n \in DOMAIN package}
    OBVIOUS
  <2>2. package \in Seq(T) /\ package # <<>>
    BY <1>1, <2>1
  <2> QED
    BY <2>2
<1> QED
  BY <1>1, <1>2

\* What there is to import.
LEMMA PackageBegins ==
    ASSUME NEW package \in Packages, NEW mode, NEW dry, ImportPackage(package, mode, dry)
    PROVE  \E todo : /\ BeginImport(todo, mode, dry, "package") /\ IsASeq(todo) /\ Len(todo) >= 1
                     /\ \A n \in DOMAIN todo : IsRecord(todo[n])
<1>1. PICK cached : cached = \A n \in DOMAIN package : looks_like_cached_credential(package[n])
  OBVIOUS
<1>2. PICK todo : todo = [n \in DOMAIN package |->
               IF cached THEN credential_from_cached_credential(package[n]) ELSE package[n]]
  OBVIOUS
<1>3. BeginImport(todo, mode, dry, "package")
  BY <1>1, <1>2 DEF ImportPackage
<1>4. IsASeq(todo) /\ Len(todo) >= 1 /\ \A n \in DOMAIN todo : IsRecord(todo[n])
  BY <1>2, PackageIs
<1> QED
  BY <1>3, <1>4

LEMMA RestoreBegins ==
    ASSUME ImportTypes, NEW mode, NEW dry, BeginRestore(mode, dry)
    PROVE  /\ BeginImport(archive.records, mode, dry, archive.form) /\ archive.form # "none"
           /\ IsASeq(archive.records) /\ Len(archive.records) >= 1
           /\ \A n \in DOMAIN archive.records : IsRecord(archive.records[n])
<1>1. PICK form, of, records :
          form = archive.form /\ of = archive.of /\ records = archive.records
  OBVIOUS
<1>2. archive = [form |-> form, of |-> of, records |-> records] /\ ArchiveOf(form, of, records)
  BY <1>1 DEF ImportTypes, ArchiveInv
<1>3. archive # NoArchive /\ BeginImport(records, mode, dry, form)
  BY <1>1 DEF BeginRestore
<1>4. form # "none"
  BY <1>2, <1>3 DEF ArchiveOf, NoArchive
<1>5. IsASeq(records) /\ Len(records) >= 1 /\ \A n \in DOMAIN records : IsRecord(records[n])
  BY <1>2, <1>4 DEF ArchiveOf
<1> QED
  BY <1>1, <1>3, <1>4, <1>5

\* What can happen.
LEMMA ImportSteps ==
    ASSUME ImportTypes, [ImportNextState]_importVars
    PROVE  \/ \E todo, mode, dry, form :
                  /\ BeginImport(todo, mode, dry, form) /\ IsASeq(todo) /\ Len(todo) >= 1
                  /\ \A n \in DOMAIN todo : IsRecord(todo[n])
                  /\ \/ form = "package"
                     \/ todo = archive.records /\ form = archive.form /\ mode = "replace" /\ dry = FALSE
           \/ /\ ImportNext /\ task.at = "next"
              /\ \/ \E b \in BOOLEAN : PassOver(b)
                 \/ \E how, id, c, file : Readied(how, id, c, file)
           \/ ImportApply
           \/ EndImport
           \/ \E r : IsRecord(r) /\ CheckRecord(r)
           \/ NumberRecord
           \/ InsertRecord
           \/ \E id : (\E reason : Disable(id, reason)) \/ DeleteEntry(id)
           \/ ExportBackup
           \/ ExportSnapshot
           \/ UNCHANGED importVars
<1>1. CASE \E package \in Packages, mode \in Modes : ImportPackage(package, mode, FALSE)
  BY <1>1, PackageBegins
<1>2. CASE \E package \in Packages : ImportPackage(package, "skip", TRUE)
  BY <1>2, PackageBegins
<1>3. CASE BeginRestore("replace", FALSE)
  BY <1>3, RestoreBegins
<1>4. CASE ImportNext
  <2>1. task.at = "next"
    BY <1>4 DEF ImportNext
  <2> QED
    BY <1>4, <2>1, NextDoes
<1>5. CASE \E package \in Packages : CheckRecord(package[1])
  BY <1>5, PackagesAreRecords
<1>6. CASE \E id \in DOMAIN entries : Disable(id, "manual") \/ Disable(id, "auto") \/ DeleteEntry(id)
  BY <1>6
<1> QED
  BY <1>1, <1>2, <1>3, <1>4, <1>5, <1>6 DEF ImportNextState

LEMMA TypesKept ==
    ASSUME ImportTypes, [ImportNextState]_importVars
    PROVE  ImportTypes'
<1>1. ASSUME NEW todo, NEW mode, NEW dry, NEW form, BeginImport(todo, mode, dry, form),
             IsASeq(todo), Len(todo) >= 1, \A n \in DOMAIN todo : IsRecord(todo[n])
      PROVE  ImportTypes'
  BY <1>1, BeginTypes
<1>2. ASSUME task.at = "next", NEW b \in BOOLEAN, PassOver(b) PROVE ImportTypes'
  BY <1>2, PassTypes
<1>3. ASSUME task.at = "next", NEW how, NEW id, NEW c, NEW file, Readied(how, id, c, file)
      PROVE  ImportTypes'
  BY <1>3, ReadiedTypes
<1>4. ASSUME NEW r, IsRecord(r), CheckRecord(r) PROVE ImportTypes'
  BY <1>4, CheckTypes
<1>5. ASSUME NEW id, (\E reason : Disable(id, reason)) \/ DeleteEntry(id) PROVE ImportTypes'
  BY <1>5, LessTypes
<1>6. CASE UNCHANGED importVars
  BY <1>6, EntriesStay, TaskStays, RecordStays, ArchiveStays DEF ImportTypes, importVars
<1> QED
  BY <1>1, <1>2, <1>3, <1>4, <1>5, <1>6, ImportSteps, ApplyTypes, EndTypes, NumberTypes,
     InsertTypes, BackupTypes, SnapshotTypes

\* No secret is there twice, and none waits to be there twice.
SecretsInv ==
    ~met =>
        /\ AllApart(entries)
        /\ task.at = "apply" =>
               /\ record.at = "idle"
               /\ \A i \in DOMAIN entries \ {task.id} : Apart(task.next, entries[i].cred)
        /\ record.at # "idle" => \A i \in DOMAIN entries : Apart(record.next, entries[i].cred)

LEMMA PutApart ==
    ASSUME AllApart(entries), NEW id, NEW e,
           \A i \in DOMAIN entries \ {id} : Apart(e.cred, entries[i].cred),
           NEW es, es = Put(entries, id, e)
    PROVE  AllApart(es)
<1>1. /\ DOMAIN es = DOMAIN entries \cup {id} /\ es[id] = e
      /\ \A k \in DOMAIN entries \ {id} : es[k] = entries[k]
  <2>1. es = [i \in DOMAIN entries \cup {id} |-> IF i = id THEN e ELSE entries[i]]
    BY DEF Put
  <2> QED
    BY <2>1
<1> SUFFICES ASSUME NEW i \in DOMAIN es, NEW j \in DOMAIN es, i # j
             PROVE  Apart(es[i].cred, es[j].cred)
  BY DEF AllApart
<1>2. CASE i = id
  <2>1. j \in DOMAIN entries \ {id} /\ es[j] = entries[j]
    BY <1>1, <1>2
  <2> QED
    BY <1>1, <1>2, <2>1
<1>3. CASE j = id
  <2>1. i \in DOMAIN entries \ {id} /\ es[i] = entries[i]
    BY <1>1, <1>3
  <2>2. Apart(e.cred, entries[i].cred)
    BY <2>1
  <2> QED
    BY <1>1, <1>3, <2>1, <2>2 DEF Apart
<1>4. CASE i # id /\ j # id
  <2>1. i \in DOMAIN entries /\ j \in DOMAIN entries /\ es[i] = entries[i] /\ es[j] = entries[j]
    BY <1>1, <1>4
  <2> QED
    BY <2>1 DEF AllApart
<1> QED
  BY <1>2, <1>3, <1>4

LEMMA SecretsAtFirst ==
    ASSUME ImportInit
    PROVE  SecretsInv
<1>1. entries = <<>> /\ task.at = "idle" /\ record.at = "idle"
  BY DEF ImportInit, IdleImport, NoRecord
<1>2. DOMAIN entries = {}
  BY <1>1
<1> QED
  BY <1>1, <1>2 DEF SecretsInv, AllApart

LEMMA SecretsStay ==
    ASSUME SecretsInv, UNCHANGED <<entries, record, met>>, task'.at # "apply"
    PROVE  SecretsInv'
<1>1. (~met => AllApart(entries)) /\ (~met /\ record.at # "idle" =>
          \A i \in DOMAIN entries : Apart(record.next, entries[i].cred))
  BY DEF SecretsInv
<1>2. PICK es, r : es = entries /\ r = record
  OBVIOUS
<1>3. entries' = es /\ record' = r
  BY <1>2
<1> QED
  BY <1>1, <1>2, <1>3 DEF SecretsInv

LEMMA SecretsReadied ==
    ASSUME ImportTypes, SecretsInv, NEW how, NEW id, NEW c, NEW file, Readied(how, id, c, file)
    PROVE  SecretsInv'
<1>1. PICK es, r : es = entries /\ r = record
  OBVIOUS
<1>2. entries' = es /\ record' = r /\ met' = (met \/ record.at # "idle")
  BY <1>1 DEF Readied, Prepare
<1>3. task'.at = "apply" /\ task'.id = id /\ task'.next = c
  BY PreparedIs DEF Readied, ImportTypes
<1>4. AllApart(es) => \A i \in DOMAIN es \ {id} : Apart(c, es[i].cred)
  BY <1>1 DEF Readied
<1>5. ~met => AllApart(es)
  BY <1>1 DEF SecretsInv
<1> SUFFICES ASSUME ~met' PROVE SecretsInv'
  BY DEF SecretsInv
<1>6. ~met /\ r.at = "idle"
  BY <1>1, <1>2
<1> QED
  BY <1>2, <1>3, <1>4, <1>5, <1>6 DEF SecretsInv

LEMMA SecretsApply ==
    ASSUME ImportTypes, SecretsInv, ImportApply
    PROVE  SecretsInv'
<1>0. task.at = "apply"
  BY DEF ImportApply
<1>1. CASE task.how # "add" /\ task.id \notin DOMAIN entries
  <2>0. PassOver(TRUE)
    BY <1>1 DEF ImportApply
  <2>1. task'.at # "apply"
    BY <1>0, <2>0, RecordDone DEF PassOver, ImportTypes
  <2>2. UNCHANGED <<entries, record, met>>
    BY <2>0 DEF PassOver
  <2> QED
    BY <2>1, <2>2, SecretsStay
<1>2. CASE task.how = "add" \/ task.id \in DOMAIN entries
  <2>1. PICK e :
            /\ entries' = Put(entries, task.id, e) /\ EntryOf(task.id, e) /\ e.cred = task.next
            /\ NextRecord(FALSE)
            /\ UNCHANGED <<imported, archive, mixed, record, begun, met, undisturbed>>
    BY <1>2, AppliedIs
  <2>2. PICK es, id, r : es = entries' /\ id = task.id /\ r = record
    OBVIOUS
  <2>3. task'.at # "apply"
    BY <1>0, <2>1, RecordDone DEF ImportTypes
  <2> SUFFICES ASSUME ~met PROVE SecretsInv'
    BY <2>1 DEF SecretsInv
  <2>4. /\ AllApart(entries) /\ r.at = "idle"
        /\ \A i \in DOMAIN entries \ {id} : Apart(e.cred, entries[i].cred)
    BY <1>0, <2>1, <2>2 DEF SecretsInv
  <2>5. AllApart(es)
    BY <2>1, <2>2, <2>4, PutApart
  <2>6. record' = r
    BY <2>1, <2>2
  <2> QED
    BY <2>2, <2>3, <2>4, <2>5, <2>6 DEF SecretsInv
<1> QED
  BY <1>1, <1>2

LEMMA SecretsCheck ==
    ASSUME SecretsInv, EntriesInv, NEW r, CheckRecord(r)
    PROVE  SecretsInv'
<1>1. PICK es, n, t : es = entries /\ n = Normalize(r) /\ t = task
  OBVIOUS
<1>2. record' = [at |-> "number", next |-> n, id |-> 0] /\ entries' = es /\ task' = t
  BY <1>1 DEF CheckRecord, NoRecord
<1>3. met' = (met \/ t.at = "apply") /\ ~InUse(n, 0)
  BY <1>1 DEF CheckRecord
<1>4. \A i \in DOMAIN entries : i # 0
  BY ImportAssumption DEF EntriesInv
<1>5. \A i \in DOMAIN es : Apart(n, es[i].cred)
  BY <1>1, <1>3, <1>4 DEF InUse, Apart
<1>6. ~met => AllApart(es)
  BY <1>1 DEF SecretsInv
<1> QED
  BY <1>2, <1>3, <1>5, <1>6 DEF SecretsInv

LEMMA SecretsNumber ==
    ASSUME ImportTypes, SecretsInv, NumberRecord
    PROVE  SecretsInv'
<1>1. PICK es, c, d, t : es = entries /\ c = record.next /\ d = record'.next /\ t = task
  OBVIOUS
<1>2. /\ SecretsOf(d) = SecretsOf(c) /\ entries' = es /\ task' = t /\ met' = met
      /\ record'.at = "insert" /\ record.at = "number"
  <2>1. record.at = "number"
    BY DEF NumberRecord
  <2> QED
    BY <1>1, <2>1, NumberedIs
<1>3. ~met => AllApart(es) /\ t.at # "apply" /\ \A i \in DOMAIN es : Apart(c, es[i].cred)
  BY <1>1, <1>2 DEF SecretsInv
<1>4. ~met => \A i \in DOMAIN es : Apart(d, es[i].cred)
  BY <1>2, <1>3 DEF Apart
<1> QED
  BY <1>1, <1>2, <1>3, <1>4 DEF SecretsInv

LEMMA SecretsInsert ==
    ASSUME SecretsInv, InsertRecord
    PROVE  SecretsInv'
<1>1. PICK e, id, es, t : /\ e = ImportedEntry(record.next) /\ id = record.id /\ es = entries'
                          /\ t = task
  OBVIOUS
<1>2. es = Put(entries, id, e) /\ record'.at = "idle" /\ met' = met /\ task' = t /\ record.at = "insert"
  BY <1>1 DEF InsertRecord, NoRecord
<1>3. e.cred = record.next
  BY <1>1 DEF ImportedEntry
<1> SUFFICES ASSUME ~met PROVE SecretsInv'
  BY <1>2 DEF SecretsInv
<1>4. AllApart(entries) /\ t.at # "apply" /\ \A i \in DOMAIN entries : Apart(e.cred, entries[i].cred)
  BY <1>1, <1>2, <1>3 DEF SecretsInv
<1>5. AllApart(es)
  BY <1>2, <1>4, PutApart
<1> QED
  BY <1>1, <1>2, <1>4, <1>5 DEF SecretsInv

LEMMA SecretsLess ==
    ASSUME SecretsInv, EntriesInv, NEW id, (\E reason : Disable(id, reason)) \/ DeleteEntry(id)
    PROVE  SecretsInv'
<1>1. PICK es, t, r : es = entries' /\ t = task /\ r = record
  OBVIOUS
<1>2. DOMAIN es \subseteq DOMAIN entries /\ \A i \in DOMAIN es : es[i].cred = entries[i].cred
  BY <1>1, LessIs
<1>3. task' = t /\ record' = r /\ met' = met
  BY <1>1 DEF Disable, DeleteEntry
<1>4. ~met => AllApart(es)
  BY <1>2 DEF SecretsInv, AllApart
<1>5. ~met /\ t.at = "apply" => /\ r.at = "idle"
                                /\ \A i \in DOMAIN es \ {t.id} : Apart(t.next, es[i].cred)
  BY <1>1, <1>2 DEF SecretsInv
<1>6. ~met /\ r.at # "idle" => \A i \in DOMAIN es : Apart(r.next, es[i].cred)
  BY <1>1, <1>2 DEF SecretsInv
<1> QED
  BY <1>1, <1>3, <1>4, <1>5, <1>6 DEF SecretsInv

LEMMA SecretsSame ==
    ASSUME SecretsInv, UNCHANGED <<entries, task, record, met>>
    PROVE  SecretsInv'
BY DEF SecretsInv, AllApart

LEMMA SecretsKept ==
    ASSUME ImportTypes, SecretsInv, [ImportNextState]_importVars
    PROVE  SecretsInv'
<1>0. EntriesInv
  BY DEF ImportTypes
<1>1. ASSUME NEW todo, NEW mode, NEW dry, NEW form, BeginImport(todo, mode, dry, form)
      PROVE  SecretsInv'
  <2>1. UNCHANGED <<entries, record, met>>
    BY <1>1 DEF BeginImport
  <2>2. task'.at = "next"
    BY <1>1, BegunIs
  <2> QED
    BY <2>1, <2>2, SecretsStay
<1>2. ASSUME task.at = "next", NEW b \in BOOLEAN, PassOver(b) PROVE SecretsInv'
  <2>1. UNCHANGED <<entries, record, met>>
    BY <1>2 DEF PassOver
  <2>2. task'.at # "apply"
    BY <1>2, RecordDone DEF PassOver, ImportTypes
  <2> QED
    BY <2>1, <2>2, SecretsStay
<1>3. ASSUME NEW how, NEW id, NEW c, NEW file, Readied(how, id, c, file) PROVE SecretsInv'
  BY <1>3, SecretsReadied
<1>4. ASSUME NEW r, CheckRecord(r) PROVE SecretsInv'
  BY <1>0, <1>4, SecretsCheck
<1>5. ASSUME NEW id, (\E reason : Disable(id, reason)) \/ DeleteEntry(id) PROVE SecretsInv'
  BY <1>0, <1>5, SecretsLess
<1>6. CASE EndImport
  <2>1. UNCHANGED <<entries, record, met>> /\ task'.at = "idle"
    BY <1>6 DEF EndImport, IdleImport
  <2> QED
    BY <2>1, SecretsStay
<1>7. CASE ExportBackup \/ ExportSnapshot \/ UNCHANGED importVars
  <2>1. UNCHANGED <<entries, task, record, met>>
    BY <1>7 DEF ExportBackup, ExportSnapshot, Export, importVars
  <2> QED
    BY <2>1, SecretsSame
<1> QED
  BY <1>1, <1>2, <1>3, <1>4, <1>5, <1>6, <1>7, ImportSteps, SecretsApply, SecretsNumber,
     SecretsInsert

\* A backup or a snapshot that is restored, and nobody interferes.
Restoring == task.at # "idle" /\ task.form # "package" /\ undisturbed

\* What is still to be done is the end of it.
LeftOf(records, todo) ==
    /\ Len(todo) <= Len(records)
    /\ \A n \in 1 .. Len(todo) : todo[n] = records[Len(records) - Len(todo) + n]

Going(t, a, r) ==
    /\ t.form = a.form /\ t.mode = "replace" /\ ~t.dry /\ r.at = "idle"
    /\ LeftOf(a.records, t.todo)

KnownApart(known) == \A i, j \in DOMAIN known : i # j => Apart(known[i], known[j])

AllDisjoint(records) == \A n, k \in DOMAIN records : n # k => Apart(records[n], records[k])

\* The records of a snapshot of which it is certain what becomes of them.
ClearOf(a, mx, m, known) ==
    {n \in DOMAIN a.records :
        /\ a.form = "snapshot" /\ ~m /\ AllDisjoint(a.records)
        /\ a.of[n] \notin mx
        /\ a.records[n].id \in DOMAIN known =>
               known[a.records[n].id].token = a.records[n].token}

\* The records each have an id of their own.
RecordsAre(records) ==
    /\ IsASeq(records) /\ Numbered(records)
    /\ \A n \in DOMAIN records : IsRecord(records[n])

FitsIn(records, known) ==
    /\ RecordsAre(records)
    /\ DOMAIN known = {} \/ {records[n].id : n \in DOMAIN records} \subseteq DOMAIN known

\* A record has taken its place, or its place is as it was.
Taken(es, c) == c.id \in DOMAIN es /\ es[c.id] = ImportedEntry(Normalize(c))

AsBefore(es, known, c) ==
    /\ c.id \in DOMAIN es <=> c.id \in DOMAIN known
    /\ c.id \in DOMAIN es => es[c.id].cred = known[c.id]

Settled(es, known, c, invalid, clear) ==
    \/ Taken(es, c) /\ (clear => SaysEnough(c))
    \/ AsBefore(es, known, c) /\ invalid > 0 /\ (clear => ~SaysEnough(c))

\* The first done of the records are settled, and nothing else has changed.
Progress(es, records, known, done, invalid, clear) ==
    /\ \A n \in done + 1 .. Len(records) : AsBefore(es, known, records[n])
    /\ \A n \in 1 .. done : Settled(es, known, records[n], invalid, n \in clear)
    /\ \A i \in DOMAIN es :
           \/ i \in DOMAIN known /\ es[i].cred = known[i]
           \/ \E n \in 1 .. done : records[n].id = i /\ Taken(es, records[n])

\* What has been decided of a record is to put it into its place.
Pending(t, c, es, clear) ==
    /\ t.id = c.id /\ t.next = Normalize(c) /\ t.how \in {"add", "replace"}
    /\ t.how = "replace" => c.id \in DOMAIN es
    /\ clear => SaysEnough(c)

DoneOf(t, a) == Len(a.records) - Len(t.todo)

RestoreOf(t, a, r, es, mx, m) ==
    /\ Going(t, a, r)
    /\ ~m => KnownApart(t.known)
    /\ FitsIn(a.records, t.known) =>
           /\ Progress(es, a.records, t.known, DoneOf(t, a), t.invalid, ClearOf(a, mx, m, t.known))
           /\ t.at = "apply" => Pending(t, a.records[DoneOf(t, a) + 1], es,
                                        DoneOf(t, a) + 1 \in ClearOf(a, mx, m, t.known))

RestoreInv == Restoring => RestoreOf(task, archive, record, entries, mixed, met)

LEMMA ProgressPassed ==
    ASSUME NEW es, NEW records, NEW known, NEW done \in Nat, NEW invalid \in Nat, NEW clear,
           RecordsAre(records), done < Len(records),
           Progress(es, records, known, done, invalid, clear),
           done + 1 \in clear => ~SaysEnough(records[done + 1])
    PROVE  Progress(es, records, known, done + 1, invalid + 1, clear)
<1>1. PICK len \in Nat : len = Len(records) /\ DOMAIN records = 1 .. len
  BY TailOf DEF RecordsAre, IsASeq
<1>2. \A n \in (done + 1) + 1 .. len : AsBefore(es, known, records[n])
  <2>1. \A n \in (done + 1) + 1 .. len : n \in done + 1 .. len
    BY <1>1
  <2>2. \A n \in done + 1 .. len : AsBefore(es, known, records[n])
    BY <1>1 DEF Progress
  <2> QED
    BY <2>1, <2>2
<1>3. \A n \in 1 .. done + 1 : Settled(es, known, records[n], invalid + 1, n \in clear)
  <2> SUFFICES ASSUME NEW n \in 1 .. done + 1
               PROVE  Settled(es, known, records[n], invalid + 1, n \in clear)
    OBVIOUS
  <2>1. invalid + 1 > 0
    OBVIOUS
  <2>2. CASE n \in 1 .. done
    <3>1. Settled(es, known, records[n], invalid, n \in clear)
      BY <2>2 DEF Progress
    <3> QED
      BY <2>1, <3>1 DEF Settled
  <2>3. CASE n = done + 1
    <3>1. done + 1 \in done + 1 .. Len(records)
      BY <1>1
    <3>2. AsBefore(es, known, records[n])
      BY <2>3, <3>1 DEF Progress
    <3> QED
      BY <2>1, <2>3, <3>2 DEF Settled
  <2> QED
    BY <2>2, <2>3
<1>4. \A i \in DOMAIN es :
          \/ i \in DOMAIN known /\ es[i].cred = known[i]
          \/ \E n \in 1 .. done + 1 : records[n].id = i /\ Taken(es, records[n])
  <2>1. \A n \in 1 .. done : n \in 1 .. done + 1
    OBVIOUS
  <2>2. \A i \in DOMAIN es :
          \/ i \in DOMAIN known /\ es[i].cred = known[i]
          \/ \E n \in 1 .. done : records[n].id = i /\ Taken(es, records[n])
    BY DEF Progress
  <2> QED
    BY <2>1, <2>2
<1> QED
  BY <1>1, <1>2, <1>3, <1>4 DEF Progress

LEMMA ProgressTaken ==
    ASSUME NEW es, NEW records, NEW known, NEW done \in Nat, NEW invalid, NEW clear,
           RecordsAre(records), done < Len(records),
           Progress(es, records, known, done, invalid, clear),
           done + 1 \in clear => SaysEnough(records[done + 1]),
           NEW c, c = records[done + 1],
           NEW es2, es2 = Put(es, c.id, ImportedEntry(Normalize(c)))
    PROVE  Progress(es2, records, known, done + 1, invalid, clear)
<1>1. PICK len \in Nat : len = Len(records) /\ DOMAIN records = 1 .. len
  BY TailOf DEF RecordsAre, IsASeq
<1>2. /\ DOMAIN es2 = DOMAIN es \cup {c.id} /\ es2[c.id] = ImportedEntry(Normalize(c))
      /\ \A k \in DOMAIN es \ {c.id} : es2[k] = es[k]
  <2>1. es2 = [i \in DOMAIN es \cup {c.id} |-> IF i = c.id THEN ImportedEntry(Normalize(c)) ELSE es[i]]
    BY DEF Put
  <2> QED
    BY <2>1
<1>3. done + 1 \in 1 .. len
  BY <1>1
<1>4. ASSUME NEW n \in 1 .. len, n # done + 1
      PROVE  /\ Taken(es, records[n]) => Taken(es2, records[n])
             /\ AsBefore(es, known, records[n]) => AsBefore(es2, known, records[n])
  <2>1. PICK d : d = records[n]
    OBVIOUS
  <2>2. d.id # c.id
    BY <1>1, <1>3, <1>4, <2>1 DEF RecordsAre, Numbered
  <2>3. d.id \in DOMAIN es2 <=> d.id \in DOMAIN es
    BY <1>2, <2>2
  <2>4. d.id \in DOMAIN es => es2[d.id] = es[d.id]
    BY <1>2, <2>2
  <2> QED
    BY <2>1, <2>3, <2>4 DEF Taken, AsBefore
<1>5. Taken(es2, c)
  BY <1>2 DEF Taken
<1>6. \A n \in (done + 1) + 1 .. len : AsBefore(es2, known, records[n])
  <2>1. \A n \in (done + 1) + 1 .. len : n \in done + 1 .. len /\ n # done + 1 /\ n \in 1 .. len
    BY <1>1
  <2>2. \A n \in done + 1 .. len : AsBefore(es, known, records[n])
    BY <1>1 DEF Progress
  <2> QED
    BY <1>4, <2>1, <2>2
<1>7. \A n \in 1 .. done + 1 : Settled(es2, known, records[n], invalid, n \in clear)
  <2> SUFFICES ASSUME NEW n \in 1 .. done + 1
               PROVE  Settled(es2, known, records[n], invalid, n \in clear)
    OBVIOUS
  <2>1. CASE n \in 1 .. done
    <3>1. Settled(es, known, records[n], invalid, n \in clear)
      BY <2>1 DEF Progress
    <3>2. n \in 1 .. len /\ n # done + 1
      BY <1>3, <2>1
    <3> QED
      BY <1>4, <3>1, <3>2 DEF Settled
  <2>2. CASE n = done + 1
    BY <1>5, <2>2 DEF Settled
  <2> QED
    BY <2>1, <2>2
<1>8. ASSUME NEW i \in DOMAIN es2
      PROVE  \/ i \in DOMAIN known /\ es2[i].cred = known[i]
             \/ \E n \in 1 .. done + 1 : records[n].id = i /\ Taken(es2, records[n])
  <2>1. CASE i = c.id
    <3>1. done + 1 \in 1 .. done + 1
      OBVIOUS
    <3> QED
      BY <1>5, <2>1, <3>1
  <2>2. CASE i # c.id
    <3>1. i \in DOMAIN es /\ es2[i] = es[i]
      BY <1>2, <2>2
    <3>2. \/ i \in DOMAIN known /\ es[i].cred = known[i]
          \/ \E n \in 1 .. done : records[n].id = i /\ Taken(es, records[n])
      BY <3>1 DEF Progress
    <3>3. ASSUME NEW n \in 1 .. done, records[n].id = i, Taken(es, records[n])
          PROVE  \E k \in 1 .. done + 1 : records[k].id = i /\ Taken(es2, records[k])
      <4>1. n \in 1 .. len /\ n # done + 1 /\ n \in 1 .. done + 1
        BY <1>3
      <4>2. Taken(es2, records[n])
        BY <1>4, <3>3, <4>1
      <4> QED
        BY <3>3, <4>1, <4>2
    <3> QED
      BY <3>1, <3>2, <3>3
  <2> QED
    BY <2>1, <2>2
<1> QED
  BY <1>1, <1>6, <1>7, <1>8 DEF Progress

\* The secret of a record of which that is certain is in use nowhere else.
LEMMA ClearIsFree ==
    ASSUME NEW records, RecordsAre(records), NEW known, NEW done \in Nat, done < Len(records),
           NEW invalid, NEW clear, Progress(entries, records, known, done, invalid, clear),
           NEW c, c = records[done + 1], NEW n, SecretsOf(n) \subseteq SecretsOf(c) \cap {c.token},
           AllDisjoint(records), c.id \in DOMAIN known => known[c.id].token = c.token,
           KnownApart(known), FitsIn(records, known),
           NEW x \in {0, c.id}, x = 0 => DOMAIN known = {}
    PROVE  ~InUse(n, x)
<1>1. PICK len \in Nat : len = Len(records) /\ DOMAIN records = 1 .. len
  BY TailOf DEF RecordsAre, IsASeq
<1>2. done + 1 \in DOMAIN records
  BY <1>1
<1> SUFFICES ASSUME NEW i \in DOMAIN entries \ {x}, NEW s \in SecretsOf(n),
                    s \in SecretsOf(entries[i].cred)
             PROVE  FALSE
  BY DEF InUse
<1>3. s = c.token /\ s \in SecretsOf(c) /\ s # Absent
  BY DEF SecretsOf
<1>4. \/ i \in DOMAIN known /\ entries[i].cred = known[i]
      \/ \E k \in 1 .. done : records[k].id = i /\ Taken(entries, records[k])
  BY DEF Progress
<1>5. CASE i \in DOMAIN known /\ entries[i].cred = known[i]
  <2>1. x = c.id /\ i # c.id
    BY <1>5
  <2>2. c.id \in DOMAIN known
    BY <1>2, <1>5 DEF FitsIn
  <2>3. Apart(known[i], known[c.id])
    BY <1>5, <2>1, <2>2 DEF KnownApart
  <2>4. s \in SecretsOf(known[c.id])
    BY <1>3, <2>2 DEF SecretsOf
  <2> QED
    BY <1>5, <2>3, <2>4 DEF Apart
<1>6. CASE \E k \in 1 .. done : records[k].id = i /\ Taken(entries, records[k])
  <2>1. PICK k \in 1 .. done : records[k].id = i /\ Taken(entries, records[k])
    BY <1>6
  <2>2. PICK d, m : d = records[k] /\ m = Normalize(d)
    OBVIOUS
  <2>3. entries[i].cred = m
    BY <2>1, <2>2 DEF Taken, ImportedEntry
  <2>4. k \in DOMAIN records /\ k # done + 1
    BY <1>1
  <2>5. IsRecord(d) /\ Apart(d, c)
    BY <1>2, <2>2, <2>4 DEF RecordsAre, AllDisjoint
  <2>6. m.api = d.api /\ m.token = d.token
    BY <2>2, <2>5, Normalized
  <2>7. SecretsOf(m) = SecretsOf(d)
    BY <2>6 DEF SecretsOf
  <2> QED
    BY <1>3, <2>3, <2>5, <2>7 DEF Apart
<1> QED
  BY <1>4, <1>5, <1>6

\* What it means that it is certain.
Sure(records, known, c) ==
    /\ AllDisjoint(records) /\ KnownApart(known)
    /\ c.id \in DOMAIN known => known[c.id].token = c.token
    /\ \E e : Proper(e) /\ c = credential_snapshot_export_item(e)

LEMMA SureIs ==
    ASSUME NEW records, RecordsAre(records), NEW known, NEW done \in Nat, done < Len(records),
           NEW invalid, NEW clear, Progress(entries, records, known, done, invalid, clear),
           FitsIn(records, known),
           NEW c, c = records[done + 1], NEW n, n = Normalize(c), Sure(records, known, c)
    PROVE  /\ SaysEnough(c) => Acceptable(n) /\ HasMaterial(n)
           /\ ~SaysEnough(c) => ~Acceptable(n) \/ ~HasMaterial(n)
           /\ \A x \in {0, c.id} : (x = 0 => DOMAIN known = {}) => ~InUse(n, x)
<1>1. PICK e : Proper(e) /\ c = credential_snapshot_export_item(e)
  BY DEF Sure
<1>2. IsRecord(c) /\ c.api = Absent
  BY <1>1, InSnapshot DEF Proper
<1>3. n.api = Absent /\ n.token = c.token
  BY <1>2, Normalized
<1>4. SecretsOf(n) \subseteq SecretsOf(c) \cap {c.token}
  BY <1>3 DEF SecretsOf
<1>5. ASSUME NEW x \in {0, c.id}, x = 0 => DOMAIN known = {} PROVE ~InUse(n, x)
  <2>1. /\ AllDisjoint(records) /\ KnownApart(known)
        /\ c.id \in DOMAIN known => known[c.id].token = c.token
    BY DEF Sure
  <2> QED
    BY <1>4, <1>5, <2>1, ClearIsFree
<1>6. /\ SaysEnough(c) => Acceptable(n) /\ HasMaterial(n)
      /\ ~SaysEnough(c) => ~Acceptable(n) \/ ~HasMaterial(n)
  BY <1>1, SnapshotSaysOrRefuses
<1> QED
  BY <1>5, <1>6

\* A record is refused, or it is put where it was.
Refused(clear, c) == PassOver(TRUE) /\ (clear => ~SaysEnough(c))
Placed(how, id, c, n, file, clear) ==
    /\ Prepare(how, id, n, file) /\ id = c.id /\ how \in {"add", "replace"}
    /\ how = "replace" => c.id \in DOMAIN entries
    /\ clear => SaysEnough(c)

LEMMA RestoreDecides ==
    ASSUME ImportTypes, ImportNext, task.mode = "replace", ~task.dry,
           NEW records, RecordsAre(records), NEW known, known = task.known,
           NEW done \in Nat, done < Len(records),
           NEW invalid, NEW clear, Progress(entries, records, known, done, invalid, clear),
           FitsIn(records, known), NEW c, c = records[done + 1], c = Head(task.todo),
           done + 1 \in clear => Sure(records, known, c),
           NEW n, n = Normalize(c)
    PROVE  \/ Refused(done + 1 \in clear, c)
           \/ \E how, id, file : Placed(how, id, c, n, file, done + 1 \in clear)
<1>1. PICK len \in Nat : len = Len(records) /\ DOMAIN records = 1 .. len
  BY TailOf DEF RecordsAre, IsASeq
<1>2. done + 1 \in DOMAIN records /\ done + 1 \in done + 1 .. Len(records)
  BY <1>1
<1>3. IsRecord(c) /\ c.id \in Nat \ {0}
  BY <1>2 DEF RecordsAre, Numbered, IsRecord
<1>4. IsRecord(n) /\ n.id = c.id
  BY <1>3, Normalized
<1>5. AsBefore(entries, known, c)
  BY <1>2 DEF Progress
<1>6. PICK sure : sure = (done + 1 \in clear)
  OBVIOUS
<1>7. sure => /\ SaysEnough(c) => Acceptable(n) /\ HasMaterial(n)
              /\ ~SaysEnough(c) => ~Acceptable(n) \/ ~HasMaterial(n)
              /\ \A x \in {0, c.id} : (x = 0 => DOMAIN known = {}) => ~InUse(n, x)
  BY <1>6, SureIs
<1>8. PICK match \in ExistingMatches(n, known) :
      IF ~Acceptable(n) THEN PassOver(TRUE)
      ELSE IF match # 0 /\ task.mode = "skip" THEN PassOver(FALSE)
      ELSE IF match = 0 THEN AddImported(n)
      ELSE IF task.mode = "merge" THEN MergeImported(n, match)
      ELSE ReplaceImported(n, match)
  BY DEF ImportNext
<1>9. IF ~Acceptable(n) THEN PassOver(TRUE)
      ELSE IF match = 0 THEN AddImported(n)
      ELSE ReplaceImported(n, match)
  BY <1>8
<1>10. [n EXCEPT !.id = n.id] = n
  <2>1. n.id \in Nat /\ TRUE \in BOOLEAN
    BY <1>3, <1>4
  <2> QED
    BY <1>4, <2>1, Renumbered
<1>11. CASE ~Acceptable(n)
  BY <1>6, <1>7, <1>9, <1>11 DEF Refused
<1>12. CASE Acceptable(n) /\ DOMAIN known = {}
  <2>1. match = 0
    BY <1>3, <1>4, <1>8, <1>12, MatchedById
  <2>2. AddImported(n)
    BY <1>9, <1>12, <2>1
  <2>3. CASE ~HasMaterial(n) \/ InUse(n, 0)
    <3>1. PassOver(TRUE)
      BY <2>2, <2>3 DEF AddImported
    <3>2. sure => ~SaysEnough(c)
      BY <1>7, <1>12, <2>3
    <3> QED
      BY <1>6, <3>1, <3>2 DEF Refused
  <2>4. CASE ~(~HasMaterial(n) \/ InUse(n, 0))
    <3>1. NewImportId(n) = n.id
      <4>1. c.id \notin DOMAIN entries
        BY <1>5, <1>12 DEF AsBefore
      <4> QED
        BY <1>3, <1>4, <4>1 DEF NewImportId
    <3>2. PICK id, file : id = n.id /\ file = Put(Persisted(entries), id, n)
      OBVIOUS
    <3>3. Prepare("add", id, n, file)
      BY <1>10, <2>2, <2>4, <3>1, <3>2 DEF AddImported
    <3>4. sure => SaysEnough(c)
      BY <1>7, <1>12, <2>4
    <3>5. Placed("add", id, c, n, file, done + 1 \in clear)
      BY <1>4, <1>6, <3>2, <3>3, <3>4 DEF Placed
    <3> QED
      BY <3>5
  <2> QED
    BY <2>3, <2>4
<1>13. CASE Acceptable(n) /\ DOMAIN known # {}
  <2>1. c.id \in DOMAIN known
    BY <1>2, <1>13 DEF FitsIn
  <2>2. match = c.id /\ match # 0 /\ n.id \in Nat
    BY <1>3, <1>4, <1>8, <2>1, MatchedById
  <2>3. ReplaceImported(n, match)
    BY <1>9, <1>13, <2>2
  <2>4. match \in DOMAIN entries
    BY <1>5, <2>1, <2>2 DEF AsBefore
  <2>5. CASE ~HasMaterial(n) \/ InUse(n, match)
    <3>1. PassOver(TRUE)
      BY <2>3, <2>5 DEF ReplaceImported
    <3>2. sure => ~SaysEnough(c)
      BY <1>7, <2>2, <2>5
    <3> QED
      BY <1>6, <3>1, <3>2 DEF Refused
  <2>6. CASE ~(~HasMaterial(n) \/ InUse(n, match))
    <3>1. PICK id, file : id = match /\ file = Put(Persisted(entries), id, n)
      OBVIOUS
    <3>2. id = n.id
      BY <1>4, <2>2, <3>1
    <3>3. Prepare("replace", id, n, file)
      BY <1>10, <2>3, <2>4, <2>6, <3>1, <3>2 DEF ReplaceImported
    <3>4. sure => SaysEnough(c)
      BY <1>7, <1>13, <2>6
    <3>5. Placed("replace", id, c, n, file, done + 1 \in clear)
      BY <1>6, <2>2, <2>4, <3>1, <3>3, <3>4 DEF Placed
    <3> QED
      BY <3>5
  <2> QED
    BY <2>5, <2>6
<1> QED
  BY <1>11, <1>12, <1>13

Leftover(records, todo) ==
    IsASeq(records) /\ IsASeq(todo) /\ Len(todo) >= 1 /\ LeftOf(records, todo)

After(records, todo, tail, done) ==
    /\ LeftOf(records, tail) /\ Len(records) - Len(tail) = done + 1
    /\ done \in Nat /\ done < Len(records) /\ Head(todo) = records[done + 1]

LEMMA LeftTail ==
    ASSUME NEW records, NEW todo, Leftover(records, todo)
    PROVE  After(records, todo, Tail(todo), Len(records) - Len(todo))
<1>0. /\ IsASeq(records) /\ IsASeq(todo) /\ Len(todo) >= 1 /\ LeftOf(records, todo)
  BY DEF Leftover
<1>11. PICK tail, done : tail = Tail(todo) /\ done = Len(records) - Len(todo)
  OBVIOUS
<1>1. PICK len \in Nat : len = Len(records)
  BY <1>0 DEF IsASeq
<1>2. PICK left \in Nat : left = Len(todo)
  BY <1>0 DEF IsASeq
<1>3. left >= 1 /\ left <= len /\ done = len - left
  BY <1>0, <1>1, <1>2, <1>11 DEF LeftOf
<1>4. /\ Len(tail) = left - 1 /\ Head(todo) = todo[1]
      /\ \A i \in 1 .. left - 1 : tail[i] = todo[i + 1]
  BY <1>0, <1>2, <1>11, TailOf
<1>5. \A n \in 1 .. left : todo[n] = records[done + n]
  BY <1>0, <1>1, <1>2, <1>3 DEF LeftOf
<1>6. \A n \in 1 .. left - 1 : tail[n] = records[(done + 1) + n]
  <2> SUFFICES ASSUME NEW n \in 1 .. left - 1 PROVE tail[n] = records[(done + 1) + n]
    OBVIOUS
  <2>1. n + 1 \in 1 .. left /\ done + (n + 1) = (done + 1) + n
    BY <1>3
  <2> QED
    BY <1>4, <1>5, <2>1
<1>7. len - (left - 1) = done + 1 /\ left - 1 <= len
  BY <1>3
<1>8. LeftOf(records, tail)
  BY <1>1, <1>4, <1>6, <1>7 DEF LeftOf
<1>9. done \in Nat /\ done < len /\ 1 \in 1 .. left
  BY <1>3
<1>10. Head(todo) = records[done + 1]
  BY <1>4, <1>5, <1>9
<1> QED
  BY <1>1, <1>4, <1>7, <1>8, <1>9, <1>10, <1>11 DEF After

LEMMA ArchiveRecords ==
    ASSUME ArchiveInv
    PROVE  /\ IsASeq(archive.records)
           /\ \A n \in DOMAIN archive.records : IsRecord(archive.records[n])
BY DEF ArchiveInv, ArchiveOf

LEMMA ClearIsSure ==
    ASSUME ArchiveInv, NEW known, ~met => KnownApart(known),
           NEW n \in ClearOf(archive, mixed, met, known)
    PROVE  Sure(archive.records, known, archive.records[n])
<1>1. PICK c, records : c = records[n] /\ records = archive.records
  OBVIOUS
<1>2. /\ n \in DOMAIN records /\ archive.form = "snapshot" /\ ~met /\ AllDisjoint(records)
      /\ archive.of[n] \notin mixed /\ (c.id \in DOMAIN known => known[c.id].token = c.token)
  BY <1>1 DEF ClearOf
<1>3. ItemOf("snapshot", c)
  BY <1>1, <1>2 DEF ArchiveInv, ArchiveOf
<1>4. \E e : Proper(e) /\ c = credential_snapshot_export_item(e)
  BY <1>3 DEF ItemOf
<1> QED
  BY <1>1, <1>2, <1>4 DEF Sure

\* One record more is done.
LEMMA RestoreMoves ==
    ASSUME ImportTypes, task.at \in {"next", "apply"},
           RestoreOf(task, archive, record, entries, mixed, met),
           NEW b \in BOOLEAN, NextRecord(b), UNCHANGED <<archive, mixed, record, met>>, NEW es2,
           FitsIn(archive.records, task.known) =>
               Progress(es2, archive.records, task.known, DoneOf(task, archive) + 1,
                        task.invalid + IF b THEN 1 ELSE 0,
                        ClearOf(archive, mixed, met, task.known))
    PROVE  RestoreOf(task', archive', record', es2, mixed', met')
<1>1. PICK t, u, a, r, mx, m : /\ t = task /\ u = task' /\ a = archive /\ r = record
                               /\ mx = mixed /\ m = met
  OBVIOUS
<1>2. archive' = a /\ record' = r /\ mixed' = mx /\ met' = m
  BY <1>1
<1>3. /\ u.todo = Tail(t.todo) /\ u.at # "apply" /\ u.invalid = t.invalid + IF b THEN 1 ELSE 0
      /\ u.form = t.form /\ u.mode = t.mode /\ u.dry = t.dry /\ u.known = t.known
  BY <1>1, RecordDone DEF ImportTypes
<1>4. PICK records, clear, known : /\ records = a.records /\ known = t.known
                                   /\ clear = ClearOf(a, mx, m, known)
  OBVIOUS
<1>5. IsASeq(t.todo) /\ Len(t.todo) >= 1 /\ IsASeq(records)
  BY <1>1, <1>4, ArchiveRecords DEF ImportTypes, TaskInv
<1>6. RestoreOf(t, a, r, entries, mx, m)
  BY <1>1
<1>7. PICK done : done = Len(records) - Len(t.todo)
  OBVIOUS
<1>8. LeftOf(records, u.todo) /\ Len(records) - Len(u.todo) = done + 1
  <2>1. PICK todo, tail : todo = t.todo /\ tail = u.todo
    OBVIOUS
  <2>2. tail = Tail(todo) /\ done = Len(records) - Len(todo)
    BY <1>3, <1>7, <2>1
  <2>3. Leftover(records, todo)
    BY <1>4, <1>5, <1>6, <2>1 DEF Leftover, RestoreOf, Going
  <2>4. After(records, todo, tail, done)
    BY <2>2, <2>3, LeftTail
  <2> QED
    BY <2>1, <2>4 DEF After
<1>9. Going(u, a, r)
  BY <1>3, <1>4, <1>6, <1>8 DEF Going, RestoreOf
<1>10. ~m => KnownApart(u.known)
  BY <1>3, <1>6 DEF RestoreOf
<1>11. FitsIn(records, known) => Progress(es2, records, known, done + 1, u.invalid, clear)
  BY <1>1, <1>3, <1>4, <1>7 DEF DoneOf
<1>12. RestoreOf(u, a, r, es2, mx, m)
  BY <1>3, <1>4, <1>8, <1>9, <1>10, <1>11 DEF RestoreOf, DoneOf
<1> QED
  BY <1>1, <1>2, <1>12

\* Where it is.
LEMMA RestoreAt ==
    ASSUME ImportTypes, task.at \in {"next", "apply"},
           RestoreOf(task, archive, record, entries, mixed, met),
           NEW done, done = DoneOf(task, archive)
    PROVE  /\ done \in Nat /\ done < Len(archive.records) /\ task.invalid \in Nat
           /\ Head(task.todo) = archive.records[done + 1] /\ IsASeq(archive.records)
<1>1. PICK records, todo : records = archive.records /\ todo = task.todo
  OBVIOUS
<1>2. IsASeq(todo) /\ Len(todo) >= 1 /\ IsASeq(records) /\ task.invalid \in Nat
  BY <1>1, ArchiveRecords DEF ImportTypes, TaskInv
<1>3. Leftover(records, todo)
  BY <1>1, <1>2 DEF Leftover, RestoreOf, Going
<1>4. After(records, todo, Tail(todo), Len(records) - Len(todo))
  BY <1>3, LeftTail
<1>5. done = Len(records) - Len(todo)
  BY <1>1 DEF DoneOf
<1>6. done \in Nat /\ done < Len(records) /\ Head(todo) = records[done + 1]
  BY <1>4, <1>5 DEF After
<1> QED
  BY <1>1, <1>2, <1>6

LEMMA RestorePassed ==
    ASSUME ImportTypes, task.at \in {"next", "apply"},
           RestoreOf(task, archive, record, entries, mixed, met),
           NEW b \in BOOLEAN, PassOver(b), NEW done, done = DoneOf(task, archive),
           FitsIn(archive.records, task.known) =>
               b /\ (done + 1 \in ClearOf(archive, mixed, met, task.known) =>
                         ~SaysEnough(archive.records[done + 1]))
    PROVE  RestoreOf(task', archive', record', entries', mixed', met')
<1>1. PICK records, known, clear, es : /\ records = archive.records /\ known = task.known
                                       /\ clear = ClearOf(archive, mixed, met, known) /\ es = entries
  OBVIOUS
<1>2. PICK inv \in Nat : inv = task.invalid
  BY RestoreAt
<1>3. done \in Nat /\ done < Len(records)
  BY <1>1, RestoreAt
<1>4. ASSUME FitsIn(records, known)
      PROVE  Progress(es, records, known, done + 1, inv + IF b THEN 1 ELSE 0, clear)
  <2>1. Progress(es, records, known, done, inv, clear)
    BY <1>1, <1>2, <1>4 DEF RestoreOf
  <2>2. b /\ (done + 1 \in clear => ~SaysEnough(records[done + 1]))
    BY <1>1, <1>4
  <2>3. Progress(es, records, known, done + 1, inv + 1, clear)
    BY <1>3, <1>4, <2>1, <2>2, ProgressPassed DEF FitsIn
  <2> QED
    BY <2>2, <2>3
<1>5. NextRecord(b) /\ UNCHANGED <<archive, mixed, record, met, entries>>
  BY DEF PassOver
<1>6. RestoreOf(task', archive', record', es, mixed', met')
  BY <1>1, <1>2, <1>4, <1>5, RestoreMoves
<1> QED
  BY <1>1, <1>5, <1>6

LEMMA RestorePlaced ==
    ASSUME ImportTypes, task.at = "next", RestoreOf(task, archive, record, entries, mixed, met),
           NEW how, NEW id, NEW n, NEW file, Prepare(how, id, n, file),
           NEW done, done = DoneOf(task, archive), NEW c, c = archive.records[done + 1],
           FitsIn(archive.records, task.known) =>
               /\ n = Normalize(c)
               /\ Placed(how, id, c, n, file, done + 1 \in ClearOf(archive, mixed, met, task.known))
    PROVE  RestoreOf(task', archive', record', entries', mixed', met')
<1>1. PICK t, u, a, r, es, mx, m : /\ t = task /\ u = task' /\ a = archive /\ r = record
                                   /\ es = entries /\ mx = mixed /\ m = met
  OBVIOUS
<1>2. RestoreOf(t, a, r, es, mx, m)
  BY <1>1
<1>3. r.at = "idle"
  BY <1>2 DEF RestoreOf, Going
<1>4. archive' = a /\ record' = r /\ entries' = es /\ mixed' = mx /\ (met' = (m \/ r.at # "idle"))
  BY <1>1 DEF Prepare
<1>5. /\ u.todo = t.todo /\ u.invalid = t.invalid
      /\ u.form = t.form /\ u.mode = t.mode /\ u.dry = t.dry /\ u.known = t.known
      /\ u.at = "apply" /\ u.how = how /\ u.id = id /\ u.next = n
  BY <1>1, PreparedIs DEF ImportTypes
<1>6. PICK known, clear : known = t.known /\ clear = ClearOf(a, mx, m, known)
  OBVIOUS
<1>7. Going(u, a, r) /\ (~m => KnownApart(known)) /\ DoneOf(u, a) = done
  BY <1>1, <1>2, <1>5, <1>6 DEF RestoreOf, Going, DoneOf
<1>8. ASSUME FitsIn(a.records, known)
      PROVE  /\ Progress(es, a.records, known, done, u.invalid, clear)
             /\ Pending(u, a.records[done + 1], es, done + 1 \in clear)
  <2>1. Progress(es, a.records, known, done, t.invalid, clear)
    BY <1>1, <1>2, <1>6, <1>8 DEF RestoreOf
  <2>2. n = Normalize(c) /\ Placed(how, id, c, n, file, done + 1 \in clear)
    BY <1>1, <1>6, <1>8
  <2>3. Pending(u, c, es, done + 1 \in clear)
    BY <1>1, <1>5, <2>2 DEF Pending, Placed
  <2> QED
    BY <1>1, <1>5, <2>1, <2>3
<1>9. PICK m2 : m2 = (m \/ r.at # "idle")
  OBVIOUS
<1>10. (~m2 <=> ~m) /\ ClearOf(a, mx, m2, known) = clear
  <2>1. ~m2 <=> ~m
    BY <1>3, <1>9
  <2> QED
    BY <1>6, <2>1 DEF ClearOf
<1>11. RestoreOf(u, a, r, es, mx, m2)
  BY <1>5, <1>6, <1>7, <1>8, <1>10 DEF RestoreOf
<1> QED
  BY <1>1, <1>4, <1>9, <1>11

LEMMA RestoreNext ==
    ASSUME ImportTypes, ImportNext, RestoreOf(task, archive, record, entries, mixed, met)
    PROVE  RestoreOf(task', archive', record', entries', mixed', met')
<1>0. task.at = "next" /\ task.at \in {"next", "apply"}
  BY DEF ImportNext
<1>1. PICK records, known, clear, done : /\ records = archive.records /\ known = task.known
                                         /\ clear = ClearOf(archive, mixed, met, known)
                                         /\ done = DoneOf(task, archive)
  OBVIOUS
<1>2. /\ done \in Nat /\ done < Len(records)
      /\ Head(task.todo) = records[done + 1]
  BY <1>0, <1>1, RestoreAt
<1>3. PICK c, n : c = records[done + 1] /\ n = Normalize(c)
  OBVIOUS
<1>4. CASE FitsIn(records, known)
  <2>1. PICK inv : inv = task.invalid
    OBVIOUS
  <2>2. Progress(entries, records, known, done, inv, clear)
    BY <1>1, <1>4, <2>1 DEF RestoreOf
  <2>3. task.mode = "replace" /\ ~task.dry
    BY DEF RestoreOf, Going
  <2>4. ~met => KnownApart(known)
    BY <1>1 DEF RestoreOf
  <2>5. done + 1 \in clear => Sure(records, known, c)
    BY <1>1, <1>3, <2>4, ClearIsSure DEF ImportTypes
  <2>6. c = Head(task.todo)
    BY <1>2, <1>3
  <2>7. \/ Refused(done + 1 \in clear, c)
        \/ \E how, id, file : Placed(how, id, c, n, file, done + 1 \in clear)
    BY <1>1, <1>2, <1>3, <1>4, <2>2, <2>3, <2>5, <2>6, RestoreDecides DEF FitsIn
  <2>8. CASE Refused(done + 1 \in clear, c)
    <3>1. PassOver(TRUE) /\ (done + 1 \in clear => ~SaysEnough(records[done + 1]))
      BY <1>3, <2>8 DEF Refused
    <3>2. TRUE \in BOOLEAN
      OBVIOUS
    <3> QED
      BY <1>0, <1>1, <3>1, <3>2, RestorePassed
  <2>9. ASSUME NEW how, NEW id, NEW file, Placed(how, id, c, n, file, done + 1 \in clear)
        PROVE  RestoreOf(task', archive', record', entries', mixed', met')
    <3>1. Prepare(how, id, n, file)
      BY <2>9 DEF Placed
    <3> QED
      BY <1>0, <1>1, <1>3, <2>9, <3>1, RestorePlaced
  <2> QED
    BY <2>7, <2>8, <2>9
<1>5. CASE ~FitsIn(records, known)
  <2>1. ASSUME NEW b \in BOOLEAN, PassOver(b)
        PROVE  RestoreOf(task', archive', record', entries', mixed', met')
    BY <1>0, <1>1, <1>5, <2>1, RestorePassed
  <2>2. ASSUME NEW how, NEW id, NEW d, NEW file, Readied(how, id, d, file)
        PROVE  RestoreOf(task', archive', record', entries', mixed', met')
    <3>1. Prepare(how, id, d, file)
      BY <2>2 DEF Readied
    <3> QED
      BY <1>0, <1>1, <1>3, <1>5, <3>1, RestorePlaced
  <2> QED
    BY <2>1, <2>2, NextDoes
<1> QED
  BY <1>4, <1>5

LEMMA RestoreApply ==
    ASSUME ImportTypes, ImportApply, RestoreOf(task, archive, record, entries, mixed, met)
    PROVE  RestoreOf(task', archive', record', entries', mixed', met')
<1>0. task.at = "apply" /\ task.at \in {"next", "apply"}
  BY DEF ImportApply
<1>1. PICK records, known, clear, done : /\ records = archive.records /\ known = task.known
                                         /\ clear = ClearOf(archive, mixed, met, known)
                                         /\ done = DoneOf(task, archive)
  OBVIOUS
<1>2. PICK c : c = records[done + 1]
  OBVIOUS
<1>3. FitsIn(records, known) =>
          /\ task.id = c.id /\ task.next = Normalize(c) /\ task.how \in {"add", "replace"}
          /\ task.how = "replace" => c.id \in DOMAIN entries
          /\ done + 1 \in clear => SaysEnough(c)
  <2>1. FitsIn(records, known) => Pending(task, c, entries, done + 1 \in clear)
    BY <1>0, <1>1, <1>2 DEF RestoreOf
  <2> QED
    BY <2>1 DEF Pending
<1>4. CASE task.how # "add" /\ task.id \notin DOMAIN entries
  <2>1. PassOver(TRUE) /\ TRUE \in BOOLEAN
    BY <1>4 DEF ImportApply
  <2>2. ~FitsIn(records, known)
    BY <1>3, <1>4
  <2> QED
    BY <1>0, <1>1, <2>1, <2>2, RestorePassed
<1>5. CASE task.how = "add" \/ task.id \in DOMAIN entries
  <2>1. PICK e :
            /\ entries' = Put(entries, task.id, e) /\ EntryOf(task.id, e) /\ e.cred = task.next
            /\ task.how # "merge" => e = ImportedEntry(task.next)
            /\ NextRecord(FALSE)
            /\ UNCHANGED <<imported, archive, mixed, record, begun, met, undisturbed>>
    BY <1>5, AppliedIs
  <2>2. PICK es, es2, inv : es = entries /\ es2 = entries' /\ inv = task.invalid
    OBVIOUS
  <2>3. done \in Nat /\ done < Len(records) /\ inv \in Nat
    BY <1>0, <1>1, <2>2, RestoreAt
  <2>4. ASSUME FitsIn(records, known)
        PROVE  Progress(es2, records, known, done + 1, inv + IF FALSE THEN 1 ELSE 0, clear)
    <3>1. Progress(es, records, known, done, inv, clear)
      BY <1>1, <2>2, <2>4 DEF RestoreOf
    <3>2. es2 = Put(es, c.id, ImportedEntry(Normalize(c)))
      <4>1. e = ImportedEntry(Normalize(c)) /\ task.id = c.id
        BY <1>3, <2>1, <2>4
      <4>2. es2 = Put(entries, c.id, e)
        BY <2>1, <2>2, <4>1
      <4> QED
        BY <2>2, <4>1, <4>2
    <3>3. done + 1 \in clear => SaysEnough(records[done + 1])
      BY <1>2, <1>3, <2>4
    <3>4. Progress(es2, records, known, done + 1, inv, clear)
      BY <1>2, <2>3, <2>4, <3>1, <3>2, <3>3, ProgressTaken DEF FitsIn
    <3>5. inv + (IF FALSE THEN 1 ELSE 0) = inv
      BY <2>3
    <3> QED
      BY <3>4, <3>5
  <2>5. RestoreOf(task', archive', record', es2, mixed', met')
    BY <1>0, <1>1, <2>1, <2>2, <2>4, RestoreMoves
  <2> QED
    BY <2>2, <2>5
<1> QED
  BY <1>4, <1>5

LEMMA RestoreFromHere ==
    ASSUME ImportTypes, SecretsInv, record.at = "idle", NEW dry, ~dry,
           BeginImport(archive.records, "replace", dry, archive.form)
    PROVE  RestoreOf(task', archive', record', entries', mixed', met')
<1>1. PICK u, a, r, es, mx, m : /\ u = task' /\ a = archive /\ r = record
                                /\ es = entries /\ mx = mixed /\ m = met
  OBVIOUS
<1>2. archive' = a /\ record' = r /\ entries' = es /\ mixed' = mx /\ met' = m
  BY <1>1 DEF BeginImport
<1>3. PICK records, known : records = a.records /\ known = CredentialsOf(es)
  OBVIOUS
<1>4. /\ u.at = "next" /\ u.todo = records /\ u.known = known /\ u.invalid = 0
      /\ u.mode = "replace" /\ u.dry = dry /\ u.form = a.form
  BY <1>1, <1>3, BegunIs
<1>5. PICK len \in Nat : len = Len(records) /\ DOMAIN records = 1 .. len
  <2>1. IsASeq(records)
    BY <1>1, <1>3, ArchiveRecords DEF ImportTypes
  <2> QED
    BY <2>1 DEF IsASeq
<1>6. Going(u, a, r)
  <2>1. \A n \in 1 .. len : records[n] = records[len - len + n]
    <3>1. \A n \in 1 .. len : len - len + n = n
      OBVIOUS
    <3> QED
      BY <3>1
  <2>2. LeftOf(records, records)
    BY <1>5, <2>1 DEF LeftOf
  <2> QED
    BY <1>1, <1>3, <1>4, <2>2 DEF Going
<1>7. DOMAIN known = DOMAIN es /\ \A i \in DOMAIN es : known[i] = es[i].cred
  BY <1>3 DEF CredentialsOf
<1>8. ~m => KnownApart(known)
  BY <1>1, <1>7 DEF SecretsInv, AllApart, KnownApart
<1>9. PICK clear : clear = ClearOf(a, mx, m, known)
  OBVIOUS
<1>10. Progress(es, records, known, 0, 0, clear)
  <2>1. \A n \in 0 + 1 .. Len(records) : AsBefore(es, known, records[n])
    BY <1>7 DEF AsBefore
  <2>2. \A n \in 1 .. 0 : Settled(es, known, records[n], 0, n \in clear)
    OBVIOUS
  <2> QED
    BY <1>7, <2>1, <2>2 DEF Progress
<1>11. DoneOf(u, a) = 0
  BY <1>3, <1>4, <1>5 DEF DoneOf
<1>12. RestoreOf(u, a, r, es, mx, m)
  BY <1>3, <1>4, <1>6, <1>8, <1>9, <1>10, <1>11 DEF RestoreOf
<1> QED
  BY <1>1, <1>2, <1>12

\* What can happen while something is restored.
LEMMA RestoringSteps ==
    ASSUME ImportTypes, RestoreInv, [ImportNextState]_importVars, Restoring'
    PROVE  \/ /\ BeginImport(archive.records, "replace", FALSE, archive.form)
              /\ record.at = "idle"
           \/ Restoring /\ ImportNext
           \/ Restoring /\ ImportApply
           \/ Restoring /\ UNCHANGED <<task, archive, record, entries, mixed, met, undisturbed>>
<1>0. task'.at # "idle" /\ task'.form # "package" /\ undisturbed'
  BY DEF Restoring
<1>1. ASSUME NEW todo, NEW mode, NEW dry, NEW form, BeginImport(todo, mode, dry, form),
             form = "package" \/ (todo = archive.records /\ form = archive.form /\ mode = "replace" /\ dry = FALSE)
      PROVE  /\ BeginImport(archive.records, "replace", FALSE, archive.form)
             /\ record.at = "idle"
  <2>1. task'.form = form /\ undisturbed' = (record.at = "idle")
    BY <1>1, BegunIs DEF BeginImport
  <2> QED
    BY <1>0, <1>1, <2>1
<1>2. CASE ImportNext
  <2>2. task.at # "idle"
    BY <1>2 DEF ImportNext
  <2>3. ASSUME NEW b \in BOOLEAN, PassOver(b) PROVE task'.form = task.form /\ undisturbed' = undisturbed
    <3>1. task.at \in {"next", "apply"}
      BY <1>2 DEF ImportNext
    <3> QED
      BY <2>3, <3>1, RecordDone DEF PassOver, ImportTypes
  <2>4. ASSUME NEW how, NEW id, NEW c, NEW file, Readied(how, id, c, file)
        PROVE  task'.form = task.form /\ undisturbed' = undisturbed
    BY <2>4, PreparedIs DEF Readied, Prepare, ImportTypes
  <2>5. task'.form = task.form /\ undisturbed' = undisturbed
    BY <1>2, <2>3, <2>4, NextDoes
  <2>6. Restoring
    BY <1>0, <2>2, <2>5 DEF Restoring
  <2> QED
    BY <1>2, <2>6
<1>3. CASE ImportApply
  <2>1. task.at # "idle" /\ task.at \in {"next", "apply"}
    BY <1>3 DEF ImportApply
  <2>2. task'.form = task.form /\ undisturbed' = undisturbed
    <3>1. CASE PassOver(TRUE)
      BY <2>1, <3>1, RecordDone DEF PassOver, ImportTypes
    <3>2. CASE NextRecord(FALSE) /\ undisturbed' = undisturbed
      BY <2>1, <3>2, RecordDone DEF ImportTypes
    <3> QED
      BY <1>3, <3>1, <3>2 DEF ImportApply
  <2>3. Restoring
    BY <1>0, <2>1, <2>2 DEF Restoring
  <2> QED
    BY <1>3, <2>3
<1>4. ~EndImport
  BY <1>0 DEF EndImport, IdleImport
<1>5. ~\E r : CheckRecord(r)
  BY <1>0 DEF CheckRecord
<1>6. ~\E id : (\E reason : Disable(id, reason)) \/ DeleteEntry(id)
  BY <1>0 DEF Disable, DeleteEntry
<1>7. ASSUME UNCHANGED <<task, undisturbed>>
      PROVE  Restoring /\ task.at # "idle" /\ record.at = "idle"
  <2>1. Restoring
    BY <1>0, <1>7 DEF Restoring
  <2> QED
    BY <2>1 DEF RestoreInv, Restoring, RestoreOf, Going
<1>8. ~NumberRecord /\ ~InsertRecord
  <2>1. NumberRecord \/ InsertRecord => UNCHANGED <<task, undisturbed>> /\ record.at # "idle"
    BY DEF NumberRecord, InsertRecord
  <2> QED
    BY <1>7, <2>1
<1>9. ~ExportBackup /\ ~ExportSnapshot
  <2>1. ExportBackup \/ ExportSnapshot => UNCHANGED <<task, undisturbed>> /\ task.at = "idle"
    BY DEF ExportBackup, ExportSnapshot, Export
  <2> QED
    BY <1>7, <2>1
<1>10. CASE UNCHANGED importVars
  <2>1. UNCHANGED <<task, archive, record, entries, mixed, met, undisturbed>>
    BY <1>10 DEF importVars
  <2> QED
    BY <1>7, <2>1
<1> QED
  BY <1>1, <1>2, <1>3, <1>4, <1>5, <1>6, <1>8, <1>9, <1>10, ImportSteps

LEMMA RestoreKept ==
    ASSUME ImportTypes, SecretsInv, RestoreInv, [ImportNextState]_importVars
    PROVE  RestoreInv'
<1> SUFFICES ASSUME Restoring'
             PROVE  RestoreOf(task', archive', record', entries', mixed', met')
  BY DEF RestoreInv
<1>1. ASSUME BeginImport(archive.records, "replace", FALSE, archive.form), record.at = "idle"
      PROVE  RestoreOf(task', archive', record', entries', mixed', met')
  BY <1>1, RestoreFromHere
<1>2. CASE Restoring /\ UNCHANGED <<task, archive, record, entries, mixed, met, undisturbed>>
  BY <1>2 DEF RestoreInv
<1> QED
  BY <1>1, <1>2, RestoringSteps, RestoreNext, RestoreApply DEF RestoreInv

\* What a snapshot has brought back, if nothing was there: all it can, and no other secret.
IsBack(es, c) == \E i \in DOMAIN es : Kind(es[i].cred) = Kind(c)

Comes(a, mx, n) == a.of[n] \notin mx /\ SaysEnough(a.records[n])

BackOf(t, a, es, mx) ==
    a.form = "snapshot" /\ AllDisjoint(a.records) /\ DOMAIN t.known = {} =>
        /\ \A n \in 1 .. DoneOf(t, a) : Comes(a, mx, n) => IsBack(es, a.records[n])
        /\ \A i \in DOMAIN es : \E n \in 1 .. DoneOf(t, a) :
               SecretsOf(es[i].cred) = SecretsOf(a.records[n])
        /\ t.at = "apply" =>
               /\ t.how = "add" /\ SecretsOf(t.next) = SecretsOf(a.records[DoneOf(t, a) + 1])
               /\ Comes(a, mx, DoneOf(t, a) + 1) => Kind(t.next) = Kind(a.records[DoneOf(t, a) + 1])

BackInv == Restoring => BackOf(task, archive, entries, mixed)

LEMMA KindStays ==
    ASSUME NEW c, IsRecord(c), NEW i \in Nat, NEW d, d = [c EXCEPT !.id = i]
    PROVE  Kind(d) = Kind(c) /\ SecretsOf(d) = SecretsOf(c)
<1>1. DOMAIN c = Fields
  BY DEF IsRecord
<1>2. d = [f \in Fields |-> IF f = "id" THEN i ELSE c[f]]
  BY <1>1 DEF Fields
<1>3. /\ d.method = c.method /\ d.provider = c.provider /\ d.user = c.user /\ d.email = c.email
      /\ d.token = c.token /\ d.client = c.client /\ d.api = c.api
  BY <1>2 DEF Fields
<1> QED
  BY <1>3 DEF Kind, SecretsOf

\* One record more is done, and it is back if it can be.
LEMMA BackMoves ==
    ASSUME ImportTypes, task.at \in {"next", "apply"},
           RestoreOf(task, archive, record, entries, mixed, met),
           NEW b \in BOOLEAN, NextRecord(b), UNCHANGED <<archive, mixed>>,
           NEW done, done = DoneOf(task, archive), NEW es, es = entries, NEW es2,
           archive.form = "snapshot" /\ AllDisjoint(archive.records) /\ DOMAIN task.known = {} =>
               /\ \A n \in 1 .. done + 1 : Comes(archive, mixed, n) => IsBack(es2, archive.records[n])
               /\ \A i \in DOMAIN es2 : \E n \in 1 .. done + 1 :
                      SecretsOf(es2[i].cred) = SecretsOf(archive.records[n])
    PROVE  BackOf(task', archive', es2, mixed')
<1>1. PICK t, u, a, mx : t = task /\ u = task' /\ a = archive /\ mx = mixed
  OBVIOUS
<1>2. archive' = a /\ mixed' = mx
  BY <1>1
<1>3. u.known = t.known /\ u.at # "apply" /\ Len(u.todo) = Len(t.todo) - 1 /\ IsASeq(t.todo)
  BY <1>1, RecordDone DEF ImportTypes, TaskInv
<1>4. DoneOf(u, a) = done + 1
  <2>1. PICK len, left : len = Len(a.records) /\ left = Len(t.todo)
    OBVIOUS
  <2>2. IsASeq(a.records)
    BY <1>1, ArchiveRecords DEF ImportTypes
  <2>3. len \in Nat
    BY <2>1, <2>2 DEF IsASeq
  <2>4. left \in Nat
    BY <1>3, <2>1 DEF IsASeq
  <2>5. done = len - left /\ DoneOf(u, a) = len - (left - 1)
    BY <1>1, <1>3, <2>1 DEF DoneOf
  <2> QED
    BY <2>3, <2>4, <2>5
<1>5. BackOf(u, a, es2, mx)
  BY <1>1, <1>3, <1>4 DEF BackOf
<1> QED
  BY <1>1, <1>2, <1>5

LEMMA BackNext ==
    ASSUME ImportTypes, ImportNext, RestoreOf(task, archive, record, entries, mixed, met),
           BackOf(task, archive, entries, mixed)
    PROVE  BackOf(task', archive', entries', mixed')
<1>0. task.at = "next" /\ task.at \in {"next", "apply"}
  BY DEF ImportNext
<1>1. PICK records, known, done, es : /\ records = archive.records /\ known = task.known
                                      /\ done = DoneOf(task, archive) /\ es = entries
  OBVIOUS
<1>2. /\ done \in Nat /\ done < Len(records) /\ IsASeq(records)
      /\ Head(task.todo) = records[done + 1]
  BY <1>0, <1>1, RestoreAt
<1>3. PICK c, n : c = records[done + 1] /\ n = Normalize(c)
  OBVIOUS
<1>4. done + 1 \in DOMAIN records /\ \A k \in 1 .. done : k \in DOMAIN records /\ k # done + 1
  <2>1. PICK len \in Nat : len = Len(records) /\ DOMAIN records = 1 .. len
    BY <1>2 DEF IsASeq
  <2> QED
    BY <1>2, <2>1
<1>5. IsRecord(c) /\ IsRecord(n) /\ SecretsOf(n) = SecretsOf(c)
  <2>1. IsRecord(c)
    BY <1>1, <1>3, <1>4, ArchiveRecords DEF ImportTypes
  <2>2. IsRecord(n) /\ n.api = c.api /\ n.token = c.token
    BY <1>3, <2>1, Normalized
  <2> QED
    BY <2>1, <2>2 DEF SecretsOf
<1>6. CASE archive.form = "snapshot" /\ AllDisjoint(records) /\ DOMAIN known = {}
  <2>1. Comes(archive, mixed, done + 1) => Acceptable(n) /\ HasMaterial(n) /\ Kind(n) = Kind(c)
    <3>1. SUFFICES ASSUME archive.of[done + 1] \notin mixed, SaysEnough(c)
                   PROVE  Acceptable(n) /\ HasMaterial(n) /\ Kind(n) = Kind(c)
      BY <1>1, <1>3 DEF Comes
    <3>2. ItemOf("snapshot", c)
      BY <1>1, <1>3, <1>4, <1>6, <3>1 DEF ImportTypes, ArchiveInv, ArchiveOf
    <3>3. PICK e : Proper(e) /\ c = credential_snapshot_export_item(e)
      BY <3>2 DEF ItemOf
    <3> QED
      BY <1>3, <3>1, <3>3, SnapshotSaysOrRefuses
  <2>2. /\ \A k \in 1 .. done : Comes(archive, mixed, k) => IsBack(es, records[k])
        /\ \A i \in DOMAIN es : \E k \in 1 .. done : SecretsOf(es[i].cred) = SecretsOf(records[k])
    BY <1>1, <1>6 DEF BackOf
  <2>3. ~InUse(n, 0)
    <3> SUFFICES ASSUME NEW i \in DOMAIN es, SecretsOf(n) \cap SecretsOf(es[i].cred) # {}
                 PROVE  FALSE
      BY <1>1 DEF InUse
    <3>1. PICK k \in 1 .. done : SecretsOf(es[i].cred) = SecretsOf(records[k])
      BY <2>2
    <3>2. Apart(records[k], c)
      BY <1>3, <1>4, <1>6 DEF AllDisjoint
    <3> QED
      BY <1>5, <3>1, <3>2 DEF Apart
  <2>4. ExistingMatches(n, known) = {0}
    <3>1. n.id \in Nat
      BY <1>5 DEF IsRecord
    <3> QED
      BY <1>6, <3>1, MatchedById
  <2>5. IF ~Acceptable(n) THEN PassOver(TRUE) ELSE AddImported(n)
    <3>1. task.mode = "replace" /\ ~task.dry
      BY DEF RestoreOf, Going
    <3>2. PICK match \in ExistingMatches(n, known) :
              IF ~Acceptable(n) THEN PassOver(TRUE)
              ELSE IF task.dry \/ (match # 0 /\ task.mode = "skip") THEN PassOver(FALSE)
              ELSE IF match = 0 THEN AddImported(n)
              ELSE IF task.mode = "merge" THEN MergeImported(n, match)
              ELSE ReplaceImported(n, match)
      BY <1>1, <1>2, <1>3 DEF ImportNext
    <3> QED
      BY <2>4, <3>1, <3>2
  <2>6. CASE ~Acceptable(n) \/ ~HasMaterial(n)
    <3>1. PassOver(TRUE)
      BY <2>5, <2>6 DEF AddImported
    <3>2. NextRecord(TRUE) /\ UNCHANGED <<archive, mixed, entries>>
      BY <3>1 DEF PassOver
    <3>3. \A k \in 1 .. done + 1 : Comes(archive, mixed, k) => IsBack(es, records[k])
      <4>1. ~Comes(archive, mixed, done + 1)
        BY <2>1, <2>6
      <4>2. \A k \in 1 .. done + 1 : k \in 1 .. done \/ k = done + 1
        BY <1>2
      <4> QED
        BY <2>2, <4>1, <4>2
    <3>4. \A i \in DOMAIN es : \E k \in 1 .. done + 1 : SecretsOf(es[i].cred) = SecretsOf(records[k])
      <4>1. \A k \in 1 .. done : k \in 1 .. done + 1
        BY <1>2
      <4> QED
        BY <2>2, <4>1
    <3>5. BackOf(task', archive', es, mixed')
      BY <1>0, <1>1, <3>2, <3>3, <3>4, BackMoves
    <3> QED
      BY <1>1, <3>2, <3>5
  <2>7. CASE Acceptable(n) /\ HasMaterial(n)
    <3>1. PICK id : id = NewImportId(n)
      OBVIOUS
    <3>2. PICK d : d = [n EXCEPT !.id = id]
      OBVIOUS
    <3>3. PICK file : file = Put(Persisted(entries), id, d)
      OBVIOUS
    <3>4. Prepare("add", id, d, file)
      BY <2>3, <2>5, <2>7, <3>1, <3>2, <3>3 DEF AddImported
    <3>5. id \in Nat
      BY <1>5, <3>1, NewIdIsFree DEF ImportTypes, IsRecord
    <3>6. Kind(d) = Kind(n) /\ SecretsOf(d) = SecretsOf(c)
      BY <1>5, <3>2, <3>5, KindStays
    <3>7. PICK a, mx, t, u : a = archive /\ mx = mixed /\ t = task /\ u = task'
      OBVIOUS
    <3>8. /\ u.at = "apply" /\ u.how = "add" /\ u.next = d /\ u.todo = t.todo /\ u.known = t.known
      BY <3>4, <3>7, PreparedIs DEF ImportTypes
    <3>9. archive' = a /\ mixed' = mx /\ entries' = es
      BY <1>1, <3>4, <3>7 DEF Prepare
    <3>10. DoneOf(u, a) = done
      BY <1>1, <3>7, <3>8 DEF DoneOf
    <3>11. BackOf(u, a, es, mx)
      BY <1>1, <1>3, <2>1, <2>2, <3>6, <3>7, <3>8, <3>10 DEF BackOf
    <3> QED
      BY <3>7, <3>9, <3>11
  <2> QED
    BY <2>6, <2>7
<1>7. CASE ~(archive.form = "snapshot" /\ AllDisjoint(records) /\ DOMAIN known = {})
  <2>1. ASSUME NEW b \in BOOLEAN, PassOver(b) PROVE archive' = archive /\ task'.known = known
    BY <1>0, <1>1, <2>1, RecordDone DEF PassOver, ImportTypes
  <2>2. ASSUME NEW how, NEW id, NEW d, NEW file, Readied(how, id, d, file)
        PROVE  archive' = archive /\ task'.known = known
    BY <1>1, <2>2, PreparedIs DEF Readied, Prepare, ImportTypes
  <2>3. archive' = archive /\ task'.known = known
    BY <2>1, <2>2, NextDoes
  <2> QED
    BY <1>1, <1>7, <2>3 DEF BackOf
<1> QED
  BY <1>6, <1>7

LEMMA BackApply ==
    ASSUME ImportTypes, ImportApply, RestoreOf(task, archive, record, entries, mixed, met),
           BackOf(task, archive, entries, mixed)
    PROVE  BackOf(task', archive', entries', mixed')
<1>0. task.at = "apply" /\ task.at \in {"next", "apply"}
  BY DEF ImportApply
<1>1. PICK records, done, es, es2, id : /\ records = archive.records /\ done = DoneOf(task, archive)
                                        /\ es = entries /\ es2 = entries' /\ id = task.id
  OBVIOUS
<1>2. done \in Nat
  BY <1>0, <1>1, RestoreAt
<1>3. CASE archive.form = "snapshot" /\ AllDisjoint(records) /\ DOMAIN task.known = {}
  <2>1. /\ \A k \in 1 .. done : Comes(archive, mixed, k) => IsBack(es, records[k])
        /\ \A i \in DOMAIN es : \E k \in 1 .. done : SecretsOf(es[i].cred) = SecretsOf(records[k])
        /\ task.how = "add" /\ SecretsOf(task.next) = SecretsOf(records[done + 1])
        /\ Comes(archive, mixed, done + 1) => Kind(task.next) = Kind(records[done + 1])
    BY <1>0, <1>1, <1>3 DEF BackOf
  <2>2. id \notin DOMAIN es
    BY <1>1, <2>1 DEF ImportApply
  <2>3. PICK e :
            /\ entries' = Put(entries, task.id, e) /\ EntryOf(task.id, e) /\ e.cred = task.next
            /\ task.how # "merge" => e = ImportedEntry(task.next)
            /\ NextRecord(FALSE)
            /\ UNCHANGED <<imported, archive, mixed, record, begun, met, undisturbed>>
    BY <2>1, AppliedIs
  <2>4. /\ DOMAIN es2 = DOMAIN es \cup {id} /\ es2[id].cred = task.next
        /\ \A i \in DOMAIN es : es2[i] = es[i]
    <3>1. es2 = Put(es, id, e) /\ e.cred = task.next
      BY <1>1, <2>3
    <3>2. /\ DOMAIN es2 = DOMAIN es \cup {id} /\ es2[id] = e
          /\ \A i \in DOMAIN es \ {id} : es2[i] = es[i]
      BY <3>1 DEF Put
    <3> QED
      BY <2>2, <3>1, <3>2
  <2>5. \A k \in 1 .. done + 1 : k \in 1 .. done \/ k = done + 1
    BY <1>2
  <2>6. done + 1 \in 1 .. done + 1 /\ \A k \in 1 .. done : k \in 1 .. done + 1
    BY <1>2
  <2>7. \A k \in 1 .. done + 1 : Comes(archive, mixed, k) => IsBack(es2, records[k])
    <3> SUFFICES ASSUME NEW k \in 1 .. done + 1, Comes(archive, mixed, k)
                 PROVE  IsBack(es2, records[k])
      OBVIOUS
    <3>1. CASE k \in 1 .. done
      BY <2>1, <2>4, <3>1 DEF IsBack
    <3>2. CASE k = done + 1
      BY <2>1, <2>4, <3>2 DEF IsBack
    <3> QED
      BY <2>5, <3>1, <3>2
  <2>8. \A i \in DOMAIN es2 : \E k \in 1 .. done + 1 : SecretsOf(es2[i].cred) = SecretsOf(records[k])
    <3> SUFFICES ASSUME NEW i \in DOMAIN es2
                 PROVE  \E k \in 1 .. done + 1 : SecretsOf(es2[i].cred) = SecretsOf(records[k])
      OBVIOUS
    <3>1. CASE i = id
      <4>1. SecretsOf(es2[i].cred) = SecretsOf(records[done + 1])
        BY <2>1, <2>4, <3>1, Zenon
      <4> QED
        BY <2>6, <4>1
    <3>2. CASE i \in DOMAIN es
      <4>1. PICK k \in 1 .. done : SecretsOf(es[i].cred) = SecretsOf(records[k])
        BY <2>1, <3>2
      <4>2. es2[i] = es[i]
        BY <2>4, <3>2
      <4> QED
        BY <2>6, <4>1, <4>2
    <3>3. i = id \/ i \in DOMAIN es
      BY <2>4
    <3> QED
      BY <3>1, <3>2, <3>3
  <2>9. BackOf(task', archive', es2, mixed')
    <3>1. NextRecord(FALSE) /\ UNCHANGED <<archive, mixed>> /\ FALSE \in BOOLEAN
      BY <2>3
    <3>2. /\ \A n \in 1 .. done + 1 : Comes(archive, mixed, n) => IsBack(es2, archive.records[n])
          /\ \A i \in DOMAIN es2 : \E n \in 1 .. done + 1 :
                 SecretsOf(es2[i].cred) = SecretsOf(archive.records[n])
      BY <1>1, <2>7, <2>8, Zenon
    <3>3. done = DoneOf(task, archive) /\ es = entries
      BY <1>1
    <3> QED
      BY <1>0, <3>1, <3>2, <3>3, BackMoves
  <2> QED
    BY <1>1, <2>9
<1>4. CASE ~(archive.form = "snapshot" /\ AllDisjoint(records) /\ DOMAIN task.known = {})
  <2>1. NextRecord(TRUE) \/ NextRecord(FALSE)
    BY DEF ImportApply, PassOver
  <2>2. archive' = archive /\ task'.known = task.known
    BY <1>0, <2>1, RecordDone DEF ImportApply, PassOver, ImportTypes
  <2> QED
    BY <1>1, <1>4, <2>2 DEF BackOf
<1> QED
  BY <1>3, <1>4

LEMMA BackFromHere ==
    ASSUME ImportTypes, BeginImport(archive.records, "replace", FALSE, archive.form)
    PROVE  BackOf(task', archive', entries', mixed')
<1>1. PICK u, a, es, mx : u = task' /\ a = archive /\ es = entries /\ mx = mixed
  OBVIOUS
<1>2. archive' = a /\ entries' = es /\ mixed' = mx
  BY <1>1 DEF BeginImport
<1>3. u.at = "next" /\ u.todo = a.records /\ u.known = CredentialsOf(es)
  BY <1>1, BegunIs
<1>4. DOMAIN u.known = DOMAIN es
  BY <1>3 DEF CredentialsOf
<1>5. DoneOf(u, a) = 0
  <2>1. IsASeq(a.records)
    BY <1>1, ArchiveRecords DEF ImportTypes
  <2>2. PICK len \in Nat : len = Len(a.records)
    BY <2>1 DEF IsASeq
  <2> QED
    BY <1>3, <2>2 DEF DoneOf
<1>6. BackOf(u, a, es, mx)
  BY <1>3, <1>4, <1>5 DEF BackOf
<1> QED
  BY <1>1, <1>2, <1>6

LEMMA BackKept ==
    ASSUME ImportTypes, RestoreInv, BackInv, [ImportNextState]_importVars
    PROVE  BackInv'
<1> SUFFICES ASSUME Restoring'
             PROVE  BackOf(task', archive', entries', mixed')
  BY DEF BackInv
<1>1. CASE Restoring /\ UNCHANGED <<task, archive, record, entries, mixed, met, undisturbed>>
  BY <1>1 DEF BackInv
<1> QED
  BY <1>1, RestoringSteps, BackFromHere, BackNext, BackApply DEF RestoreInv, BackInv

-----------------------------------------------------------------------------
ImportInv == ImportTypes /\ SecretsInv /\ RestoreInv /\ BackInv

\* What a credential is, whose secret is in use, and how far a restoration has come, in
\* every state.
THEOREM ImportCorrect == ImportSpec => []ImportInv
<1>1. ImportInit => ImportInv
  <2>1. ImportInit => RestoreInv /\ BackInv
    BY DEF ImportInit, IdleImport, RestoreInv, BackInv, Restoring
  <2> QED
    BY <2>1, TypesAtFirst, SecretsAtFirst DEF ImportInv
<1>2. ImportInv /\ [ImportNextState]_importVars => ImportInv'
  BY TypesKept, SecretsKept, RestoreKept, BackKept DEF ImportInv
<1> QED
  BY <1>1, <1>2, PTL DEF ImportSpec

LEMMA SecretsAreUnique ==
    ASSUME ImportInv
    PROVE  SecretsUnique
BY DEF ImportInv, SecretsInv, SecretsUnique, AllApart, Apart

\* How it has ended.
LEMMA RestoredIs ==
    ASSUME ImportInv, NEW form \in {"backup", "snapshot"}, Restored(form),
           NEW records, records = archive.records, NEW known, known = task.known
    PROVE  /\ Restoring /\ archive.form = form /\ AllDisjoint(records)
           /\ DoneOf(task, archive) = Len(records) /\ DOMAIN records = 1 .. Len(records)
           /\ Numbered(records) =>
                  \A n \in DOMAIN records :
                      Settled(entries, known, records[n], task.invalid,
                              n \in ClearOf(archive, mixed, met, known))
<1>1. task.at = "done" /\ task.form = form /\ undisturbed
  BY DEF Restored
<1>2. form # "package"
  OBVIOUS
<1>3. Restoring
  BY <1>1, <1>2 DEF Restoring
<1>4. RestoreOf(task, archive, record, entries, mixed, met)
  BY <1>3 DEF ImportInv, RestoreInv
<1>5. archive.form = form
  BY <1>1, <1>4 DEF RestoreOf, Going
<1>6. IsASeq(records) /\ \A n \in DOMAIN records : IsRecord(records[n])
  BY ArchiveRecords DEF ImportInv, ImportTypes
<1>7. PICK len \in Nat : len = Len(records) /\ DOMAIN records = 1 .. len
  BY <1>6 DEF IsASeq
<1>8. DoneOf(task, archive) = len
  <2>1. Len(task.todo) = 0
    BY <1>1 DEF ImportInv, ImportTypes, TaskInv
  <2>2. DoneOf(task, archive) = len - 0
    BY <1>7, <2>1 DEF DoneOf
  <2> QED
    BY <2>2
<1>9. AllDisjoint(records)
  BY DEF Restored, AllDisjoint, Apart
<1>10. ASSUME Numbered(records)
       PROVE  \A n \in DOMAIN records :
                  Settled(entries, known, records[n], task.invalid,
                          n \in ClearOf(archive, mixed, met, known))
  <2>1. PICK clear : clear = ClearOf(archive, mixed, met, known)
    OBVIOUS
  <2>2. FitsIn(records, known)
    BY <1>6, <1>10 DEF Restored, FitsIn, RecordsAre
  <2>3. Progress(entries, records, known, len, task.invalid, clear)
    BY <1>4, <1>8, <2>1, <2>2 DEF RestoreOf
  <2>4. \A n \in 1 .. len : Settled(entries, known, records[n], task.invalid, n \in clear)
    BY <2>3 DEF Progress
  <2> QED
    BY <1>7, <2>1, <2>4
<1> QED
  BY <1>3, <1>5, <1>7, <1>8, <1>9, <1>10

LEMMA BackupIsRestored ==
    ASSUME ImportInv
    PROVE  BackupRestores
<1> SUFFICES ASSUME Restored("backup"), task.invalid = 0, NEW n \in DOMAIN archive.records,
                    NEW c, c = archive.records[n], c.id \notin mixed
             PROVE  /\ c.id \in DOMAIN entries /\ entries[c.id].cred = c
                    /\ entries[c.id].reason = IF c.disabled THEN "manual" ELSE "none"
  BY DEF BackupRestores
<1>1. archive.form = "backup"
  BY RestoredIs
<1>2. Numbered(archive.records) /\ archive.of[n] = c.id
  BY <1>1 DEF ImportInv, ImportTypes, ArchiveInv, ArchiveOf
<1>3. Settled(entries, task.known, c, 0, n \in ClearOf(archive, mixed, met, task.known))
  BY <1>2, RestoredIs
<1>4. Taken(entries, c)
  BY <1>3 DEF Settled
<1>5. Normalize(c) = c
  BY <1>1, <1>2 DEF ImportInv, ImportTypes, ArchiveInv, ArchiveOf, ItemOf, Proper
<1> QED
  BY <1>4, <1>5 DEF Taken, ImportedEntry

LEMMA SnapshotBringsBack ==
    ASSUME ImportInv, Restored("snapshot")
    PROVE  AllComeBack
<1>1. /\ Restoring /\ archive.form = "snapshot" /\ AllDisjoint(archive.records)
      /\ DoneOf(task, archive) = Len(archive.records)
      /\ DOMAIN archive.records = 1 .. Len(archive.records)
  BY RestoredIs
<1>2. BackOf(task, archive, entries, mixed)
  BY <1>1 DEF ImportInv, BackInv
<1>3. DOMAIN task.known = {} =>
          \A n \in 1 .. Len(archive.records) :
              Comes(archive, mixed, n) => IsBack(entries, archive.records[n])
  BY <1>1, <1>2 DEF BackOf
<1> QED
  BY <1>1, <1>3 DEF AllComeBack, Comes, IsBack

LEMMA SnapshotKeeps ==
    ASSUME ImportInv
    PROVE  SnapshotKeepsKinds
<1> SUFFICES ASSUME Restored("snapshot"), ~met, Numbered(archive.records),
                    NEW n \in DOMAIN archive.records,
                    NEW c, c = archive.records[n], NEW known, known = task.known,
                    archive.of[n] \notin mixed, c.id \in DOMAIN known => known[c.id].token = c.token
             PROVE  IF SaysEnough(c)
                    THEN c.id \in DOMAIN entries /\ Kind(entries[c.id].cred) = Kind(c)
                    ELSE c.id \in DOMAIN entries =>
                             c.id \in DOMAIN known /\ entries[c.id].cred = known[c.id]
  BY SnapshotBringsBack DEF SnapshotKeepsKinds, EachComesBack
<1>1. /\ archive.form = "snapshot" /\ AllDisjoint(archive.records)
      /\ Settled(entries, known, c, task.invalid, n \in ClearOf(archive, mixed, met, known))
  BY RestoredIs
<1>2. n \in ClearOf(archive, mixed, met, known)
  BY <1>1 DEF ClearOf
<1>3. CASE SaysEnough(c)
  <2>1. Taken(entries, c)
    BY <1>1, <1>2, <1>3 DEF Settled
  <2>2. PICK m : m = Normalize(c)
    OBVIOUS
  <2>3. ItemOf("snapshot", c)
    BY <1>1 DEF ImportInv, ImportTypes, ArchiveInv, ArchiveOf
  <2>4. PICK e : Proper(e) /\ c = credential_snapshot_export_item(e)
    BY <2>3 DEF ItemOf
  <2>5. Kind(m) = Kind(c)
    BY <1>3, <2>2, <2>4, SnapshotSaysOrRefuses
  <2>6. c.id \in DOMAIN entries /\ entries[c.id].cred = m
    BY <2>1, <2>2 DEF Taken, ImportedEntry
  <2> QED
    BY <1>3, <2>5, <2>6
<1>4. CASE ~SaysEnough(c)
  <2>1. AsBefore(entries, known, c)
    BY <1>1, <1>2, <1>4 DEF Settled
  <2> QED
    BY <1>4, <2>1 DEF AsBefore
<1> QED
  BY <1>3, <1>4

\* ImportIsFaithful, whatever is imported and exported, how often and by how many: no two
\* credentials share a secret, a full backup leaves every credential as it was, and a snapshot
\* brings back the kind of every credential, or of every one whose records name no other's id.
THEOREM ImportsAreFaithful == ImportSpec => []ImportIsFaithful
<1>1. ImportInv => ImportIsFaithful
  BY SecretsAreUnique, BackupIsRestored, SnapshotKeeps DEF ImportIsFaithful
<1> QED
  BY <1>1, ImportCorrect, PTL

=============================================================================
