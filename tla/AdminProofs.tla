---------------------------- MODULE AdminProofs -----------------------------
(***************************************************************************)
(* Proofs about what administrators set: the limits and the semaphores     *)
(* that enforce them (ConcurrencyLimits), the API keys, their usage and    *)
(* their file (ApiKeys), the settings and their copies (ConfigUpdates),    *)
(* the repair of the regions in a credentials file (ApiRegionRepair), and  *)
(* the lists of models that are shown to them (ModelLists).                *)
(***************************************************************************)
EXTENDS ConcurrencyLimits, ApiKeys, ConfigUpdates, ApiRegionRepair, ModelLists,
        FiniteSetTheorems, TLAPS

-----------------------------------------------------------------------------
(***************************************************************************)
(* ConcurrencyLimits, for any number of administrators, credentials and    *)
(* limits.                                                                 *)
(***************************************************************************)
\* No two administrator requests are under way at once.
NoOverlap == \A a, b \in Admins : pc[a] # "idle" /\ pc[b] # "idle" => a = b

\* The permits of a semaphore, less those on their way out.
InCirculation(s) == avail[s] + inUse[s] - shrink[s]

UpdateAt == {"mutate", "collect", "resize", "global"}

LimitsTyped ==
    /\ per_credential_concurrency \in Limits
    /\ global_concurrency \in {0} \cup Limits
    /\ override \in [Creds -> {Unset} \cup Limits]

SemsTyped == avail \in [Sems -> Nat] /\ inUse \in [Sems -> Nat] /\ shrink \in [Sems -> Nat]

\* What a request knows of itself at each of its steps.
RequestsKnow ==
    /\ pc \in [Admins -> PC] /\ DOMAIN req = Admins /\ DOMAIN old = Admins
    /\ ids \in [Admins -> SUBSET Creds]
    /\ \A a \in Admins :
           /\ pc[a] \in UpdateAt =>
                  req[a] \in Update /\ old[a] \in [per : Limits, glob : {0} \cup Limits]
           /\ pc[a] = "resize" => req[a].per \in Limits
           /\ pc[a] = "replace" => req[a] \in Override

\* The semaphores follow a limit of the credentials and a global one.
Follows(c, per) ==
    InCirculation(c) = IF override[c] = Unset THEN per ELSE override[c]
GlobalFollows(n) == (exists <=> n > 0) /\ (exists => InCirculation(Global) = n)

AllIdle ==
    (\A a \in Admins : pc[a] = "idle") =>
        /\ \A c \in Creds : Follows(c, per_credential_concurrency)
        /\ GlobalFollows(global_concurrency)

\* What an update has still to do: the semaphores follow the limits it read at first ...
UpdateIsAt(a) ==
    /\ pc[a] \in UpdateAt => GlobalFollows(old[a].glob)
    /\ pc[a] = "mutate" =>
           /\ old[a].per = per_credential_concurrency /\ old[a].glob = global_concurrency
    /\ pc[a] \in {"mutate", "collect", "resize"} => \A c \in Creds : Follows(c, old[a].per)
    /\ pc[a] \in {"collect", "resize"} =>
           per_credential_concurrency = IF req[a].per = Unset THEN old[a].per ELSE req[a].per
    /\ pc[a] = "resize" => ids[a] = {c \in Creds : override[c] = Unset}
    /\ pc[a] = "global" => \A c \in Creds : Follows(c, per_credential_concurrency)
    /\ pc[a] \in {"collect", "resize", "global"} =>
           global_concurrency = IF req[a].glob = Unset THEN old[a].glob ELSE req[a].glob

\* ... and an override has still to replace one of them.
OverrideIsAt(a) ==
    pc[a] = "replace" =>
        /\ \A c \in Creds \ {req[a].cred} : Follows(c, per_credential_concurrency)
        /\ override[req[a].cred] = req[a].limit
        /\ GlobalFollows(global_concurrency)

LimitsInv ==
    /\ LimitsTyped /\ SemsTyped /\ RequestsKnow
    /\ ~halfChanged => AllIdle /\ \A a \in Admins : UpdateIsAt(a) /\ OverrideIsAt(a)

-----------------------------------------------------------------------------
LEMMA LimitsAreNumbers == Limits \subseteq Nat /\ Unset \notin Limits
BY LimitsAssumption DEF Limits

LEMMA LimitsInitially == Init => LimitsInv
<1> SUFFICES ASSUME Init PROVE LimitsInv
  OBVIOUS
<1>1. LimitsTyped /\ Global \in Sems /\ Creds \subseteq Sems /\ Global \notin Creds
  BY LimitsAssumption DEF Init, LimitsTyped, Sems
<1>2. \A c \in Creds : ConfiguredFor(c) \in Limits
  BY <1>1 DEF LimitsTyped, ConfiguredFor
<1>3. /\ \A s \in Sems : avail[s] \in Nat /\ inUse[s] = 0 /\ shrink[s] = 0
      /\ \A c \in Creds : avail[c] = ConfiguredFor(c)
      /\ avail[Global] = global_concurrency
  <2>1. \A s \in Sems : /\ avail[s] = IF s = Global THEN global_concurrency ELSE ConfiguredFor(s)
                        /\ inUse[s] = 0 /\ shrink[s] = 0
    BY DEF Init
  <2>2. \A c \in Creds : ConfiguredFor(c) \in Nat
    BY <1>2, LimitsAreNumbers
  <2>3. global_concurrency \in Nat
    BY <1>1, LimitsAreNumbers DEF LimitsTyped
  <2>4. \A s \in Sems : s = Global \/ s \in Creds
    BY DEF Sems
  <2> QED
    BY <1>1, <2>1, <2>2, <2>3, <2>4
<1>7. SemsTyped
  BY <1>3 DEF Init, SemsTyped
<1>4. RequestsKnow
  BY DEF Init, RequestsKnow, UpdateAt, PC
<1>5. \A c \in Creds : Follows(c, per_credential_concurrency)
  <2>1. \A c \in Creds : InCirculation(c) = ConfiguredFor(c)
    <3> TAKE c \in Creds
    <3>1. avail[c] = ConfiguredFor(c) /\ avail[c] \in Nat /\ inUse[c] = 0 /\ shrink[c] = 0
      BY <1>1, <1>3
    <3>2. InCirculation(c) = avail[c] + 0 - 0
      BY <3>1 DEF InCirculation
    <3> QED
      BY <3>1, <3>2
  <2> QED
    BY <2>1 DEF Follows, ConfiguredFor
<1>6. GlobalFollows(global_concurrency)
  <2>1. InCirculation(Global) = global_concurrency
    BY <1>1, <1>3, LimitsAreNumbers DEF InCirculation, LimitsTyped
  <2>2. exists = (global_concurrency > 0)
    BY DEF Init
  <2> QED
    BY <2>1, <2>2 DEF GlobalFollows
<1> QED
  BY <1>1, <1>7, <1>4, <1>5, <1>6
     DEF LimitsInv, AllIdle, UpdateIsAt, OverrideIsAt, UpdateAt, Init

\* Growing and shrinking change what is in circulation by as much as they should.
LEMMA ResizeCounts ==
    ASSUME SemsTyped, NEW S \in SUBSET Sems, NEW from \in Nat, NEW to \in Nat, Resize(S, from, to)
    PROVE  /\ SemsTyped'
           /\ \A s \in Sems : InCirculation(s)' =
                  IF s \in S THEN InCirculation(s) + (to - from) ELSE InCirculation(s)
<1> DEFINE left(s) == IF s \in S THEN Balance(s, to - from) ELSE Balance(s, 0)
<1>1. \A s \in Sems : left(s) \in Int
  BY DEF SemsTyped, Balance
<1>2. /\ \A s \in Sems : avail'[s] = Positive(left(s)) /\ shrink'[s] = Positive(-left(s))
      /\ inUse' = inUse /\ DOMAIN avail' = Sems /\ DOMAIN shrink' = Sems
      /\ avail' = [s \in Sems |-> Positive(left(s))] /\ shrink' = [s \in Sems |-> Positive(-left(s))]
  BY DEF Resize
<1>3. \A s \in Sems : /\ Positive(left(s)) \in Nat /\ Positive(-left(s)) \in Nat
                      /\ Positive(left(s)) - Positive(-left(s)) = left(s)
  <2> HIDE DEF left
  <2> QED
    BY <1>1 DEF Positive
<1>4. SemsTyped'
  <2> HIDE DEF left
  <2> QED
    BY <1>2, <1>3 DEF SemsTyped
<1>5. \A s \in Sems : InCirculation(s)' = left(s) + inUse[s]
  <2> HIDE DEF left
  <2> QED
    BY <1>1, <1>2, <1>3 DEF SemsTyped, InCirculation
<1>6. \A s \in Sems : left(s) + inUse[s] =
          IF s \in S THEN InCirculation(s) + (to - from) ELSE InCirculation(s)
  BY DEF SemsTyped, InCirculation, Balance
<1> QED
  BY <1>4, <1>5, <1>6

LEMMA NewCounts ==
    ASSUME SemsTyped, NEW s \in Sems, NEW n \in Nat, NewSemaphore(s, n)
    PROVE  /\ SemsTyped' /\ InCirculation(s)' = n
           /\ \A x \in Sems \ {s} : InCirculation(x)' = InCirculation(x)
BY DEF SemsTyped, NewSemaphore, InCirculation

LEMMA CallsCount ==
    ASSUME SemsTyped, NEW s \in Sems, Acquire(s) \/ Release(s)
    PROVE  SemsTyped' /\ \A x \in Sems : InCirculation(x)' = InCirculation(x)
<1>1. CASE Acquire(s)
  BY <1>1 DEF Acquire, SemsTyped, InCirculation
<1>2. CASE Release(s) /\ shrink[s] > 0
  BY <1>2 DEF Release, SemsTyped, InCirculation
<1>3. CASE Release(s) /\ ~(shrink[s] > 0)
  BY <1>3 DEF Release, SemsTyped, InCirculation
<1> QED
  BY <1>1, <1>2, <1>3

\* Calls change nothing else.
LEMMA CallsKeep ==
    ASSUME LimitsInv, NEW s \in Sems, Acquire(s) \/ Release(s) PROVE LimitsInv'
<1>1. UNCHANGED <<configVars, exists, adminVars, halfChanged>>
  BY DEF Acquire, Release
<1>2. SemsTyped' /\ \A x \in Sems : InCirculation(x)' = InCirculation(x)
  BY CallsCount DEF LimitsInv
<1>3. /\ \A c \in Creds : \A n : Follows(c, n) => Follows(c, n)'
      /\ \A n : GlobalFollows(n) => GlobalFollows(n)'
  BY <1>1, <1>2 DEF Follows, GlobalFollows, configVars, Sems
<1>4. LimitsTyped' /\ RequestsKnow'
  BY <1>1 DEF LimitsInv, LimitsTyped, RequestsKnow, configVars, adminVars
<1>5. (\A c \in Creds : Follows(c, per_credential_concurrency)) /\ GlobalFollows(global_concurrency) =>
          (\A c \in Creds : Follows(c, per_credential_concurrency)') /\ GlobalFollows(global_concurrency)'
  BY <1>1, <1>3 DEF configVars, Follows, GlobalFollows
<1>6. AllIdle => AllIdle'
  BY <1>1, <1>5 DEF AllIdle, adminVars
<1>7. ASSUME NEW a \in Admins, UpdateIsAt(a) PROVE UpdateIsAt(a)'
  BY <1>1, <1>2, <1>7 DEF UpdateIsAt, Follows, GlobalFollows, configVars, adminVars, Sems
<1>8. ASSUME NEW a \in Admins, OverrideIsAt(a) PROVE OverrideIsAt(a)'
  BY <1>1, <1>2, <1>8 DEF OverrideIsAt, Follows, GlobalFollows, configVars, adminVars, Sems
<1> QED
  BY <1>1, <1>2, <1>4, <1>6, <1>7, <1>8 DEF LimitsInv

-----------------------------------------------------------------------------
(* One administrator's request takes a step; the others are idle.           *)

LEMMA OthersIdle ==
    ASSUME RequestsKnow, NoOverlap, NoOverlap', NEW a \in Admins, NEW label \in PC, Goto(a, label),
           pc[a] # "idle" \/ label # "idle"
    PROVE  /\ pc'[a] = label /\ pc' \in [Admins -> PC]
           /\ \A b \in Admins \ {a} : pc[b] = "idle" /\ pc'[b] = "idle"
BY DEF RequestsKnow, NoOverlap, Goto

LEMMA StepKeeps ==
    ASSUME LimitsTyped', SemsTyped', RequestsKnow', NEW a \in Admins,
           \A b \in Admins \ {a} : pc'[b] = "idle",
           ~halfChanged' => (pc'[a] = "idle" => AllIdle') /\ UpdateIsAt(a)' /\ OverrideIsAt(a)'
    PROVE  LimitsInv'
<1>1. \A b \in Admins \ {a} : UpdateIsAt(b)' /\ OverrideIsAt(b)'
  BY DEF UpdateIsAt, OverrideIsAt, UpdateAt
<1>2. pc'[a] # "idle" => AllIdle'
  BY DEF AllIdle
<1> QED
  BY <1>1, <1>2 DEF LimitsInv

LEMMA BeginKeeps ==
    ASSUME LimitsInv, NoOverlap, NoOverlap', NEW a \in Admins, NEW u \in Update, BeginUpdate(a, u)
    PROVE  LimitsInv'
<1>1. /\ Goto(a, "mutate") /\ UNCHANGED <<configVars, semVars, ids, halfChanged>>
      /\ pc[a] = "idle" /\ req' = [req EXCEPT ![a] = u]
      /\ old' = [old EXCEPT ![a] = [per |-> per_credential_concurrency, glob |-> global_concurrency]]
      /\ LimitsTyped /\ SemsTyped /\ RequestsKnow
  BY DEF BeginUpdate, LimitsInv
<1>2. /\ pc'[a] = "mutate" /\ pc' \in [Admins -> PC]
      /\ \A b \in Admins \ {a} : pc[b] = "idle" /\ pc'[b] = "idle"
  BY <1>1, OthersIdle DEF PC
<1>3. /\ req'[a] = u /\ DOMAIN req' = Admins /\ DOMAIN old' = Admins
      /\ old'[a] = [per |-> per_credential_concurrency, glob |-> global_concurrency]
  BY <1>1 DEF RequestsKnow
<1>4. LimitsTyped' /\ SemsTyped'
  BY <1>1 DEF LimitsTyped, SemsTyped, configVars, semVars
<1>5. RequestsKnow'
  BY <1>1, <1>2, <1>3 DEF RequestsKnow, UpdateAt, LimitsTyped
<1>6. ASSUME ~halfChanged' PROVE UpdateIsAt(a)' /\ OverrideIsAt(a)'
  <2>1. /\ \A c \in Creds : Follows(c, per_credential_concurrency)
        /\ GlobalFollows(global_concurrency)
    BY <1>1, <1>2, <1>6 DEF LimitsInv, AllIdle
  <2>2. /\ \A c \in Creds : Follows(c, old[a].per)'
        /\ GlobalFollows(old[a].glob)'
    BY <1>1, <1>3, <2>1 DEF Follows, GlobalFollows, InCirculation, configVars, semVars
  <2> QED
    BY <1>1, <1>2, <1>3, <2>2 DEF UpdateIsAt, OverrideIsAt, configVars
<1> QED
  BY <1>2, <1>4, <1>5, <1>6, StepKeeps

LEMMA MutateKeeps ==
    ASSUME LimitsInv, NoOverlap, NoOverlap', NEW a \in Admins, MutateConfig(a)
    PROVE  LimitsInv'
<1> DEFINE u == req[a]
           per == IF u.per = Unset THEN per_credential_concurrency ELSE u.per
           glob == IF u.glob = Unset THEN global_concurrency ELSE u.glob
<1>1. /\ pc[a] = "mutate" /\ LimitsTyped /\ SemsTyped /\ RequestsKnow
      /\ UNCHANGED <<override, semVars>>
      /\ per_credential_concurrency' = per /\ global_concurrency' = glob
  BY DEF MutateConfig, LimitsInv
<1>2. u \in Update /\ old[a] \in [per : Limits, glob : {0} \cup Limits]
  BY <1>1 DEF RequestsKnow, UpdateAt
<1>3. LimitsTyped' /\ SemsTyped'
  BY <1>1, <1>2 DEF LimitsTyped, SemsTyped, semVars, Update
<1>4. CASE u.ok
  <2>1. Goto(a, "collect") /\ UNCHANGED <<req, old, ids>> /\ (halfChanged' <=> halfChanged)
    BY <1>4 DEF MutateConfig
  <2>2. /\ pc'[a] = "collect" /\ pc' \in [Admins -> PC]
        /\ \A b \in Admins \ {a} : pc[b] = "idle" /\ pc'[b] = "idle"
    BY <1>1, <2>1, OthersIdle DEF PC
  <2>3. RequestsKnow'
    BY <1>1, <1>2, <2>1, <2>2 DEF RequestsKnow, UpdateAt
  <2>4. ASSUME ~halfChanged' PROVE UpdateIsAt(a)' /\ OverrideIsAt(a)'
    <3>1. /\ \A c \in Creds : Follows(c, old[a].per)
          /\ GlobalFollows(old[a].glob)
          /\ old[a].per = per_credential_concurrency /\ old[a].glob = global_concurrency
      BY <1>1, <2>1, <2>4 DEF LimitsInv, UpdateIsAt, UpdateAt
    <3>2. /\ \A c \in Creds : Follows(c, old[a].per)'
          /\ GlobalFollows(old[a].glob)'
      BY <1>1, <2>1, <3>1 DEF Follows, GlobalFollows, InCirculation, semVars
    <3> QED
      BY <1>1, <2>1, <2>2, <3>1, <3>2 DEF UpdateIsAt, OverrideIsAt
  <2> QED
    BY <1>3, <2>2, <2>3, <2>4, StepKeeps
<1>5. CASE ~u.ok
  <2>1. Done(a) /\ (halfChanged' <=> (halfChanged \/ u.per # Unset \/ u.glob # Unset))
    BY <1>5 DEF MutateConfig
  <2>2. /\ pc'[a] = "idle" /\ pc' \in [Admins -> PC]
        /\ \A b \in Admins \ {a} : pc[b] = "idle" /\ pc'[b] = "idle"
    BY <1>1, <2>1, OthersIdle DEF PC, Done
  <2>3. RequestsKnow'
    BY <1>1, <2>1, <2>2 DEF RequestsKnow, UpdateAt, Done
  <2>4. ASSUME ~halfChanged' PROVE AllIdle' /\ UpdateIsAt(a)' /\ OverrideIsAt(a)'
    <3>1. /\ \A c \in Creds : Follows(c, per_credential_concurrency)
          /\ GlobalFollows(global_concurrency)
      BY <1>1, <2>1, <2>4 DEF LimitsInv, UpdateIsAt, UpdateAt
    <3>2. per = per_credential_concurrency /\ glob = global_concurrency
      BY <2>1, <2>4
    <3>3. /\ \A c \in Creds : Follows(c, per_credential_concurrency)'
          /\ GlobalFollows(global_concurrency)'
      BY <1>1, <3>1, <3>2 DEF Follows, GlobalFollows, InCirculation, semVars
    <3> QED
      BY <2>2, <3>3 DEF UpdateIsAt, OverrideIsAt, UpdateAt, AllIdle
  <2> QED
    BY <1>3, <2>2, <2>3, <2>4, StepKeeps
<1> QED
  BY <1>4, <1>5

LEMMA CollectKeeps ==
    ASSUME LimitsInv, NoOverlap, NoOverlap', NEW a \in Admins, CollectIds(a)
    PROVE  LimitsInv'
<1> DEFINE wanted == req[a].per \notin {Unset, old[a].per}
<1>1. /\ pc[a] = "collect" /\ LimitsTyped /\ SemsTyped /\ RequestsKnow
      /\ UNCHANGED <<configVars, semVars, req, old, halfChanged>>
      /\ IF wanted
           THEN ids' = [ids EXCEPT ![a] = {c \in Creds : override[c] = Unset}] /\ Goto(a, "resize")
           ELSE Goto(a, "global") /\ UNCHANGED ids
  BY DEF CollectIds, LimitsInv
<1>2. req[a] \in Update /\ old[a] \in [per : Limits, glob : {0} \cup Limits]
  BY <1>1 DEF RequestsKnow, UpdateAt
<1>3. PICK label \in {"resize", "global"} : Goto(a, label) /\ (label = "resize" <=> wanted)
  BY <1>1
<1>4. /\ pc'[a] = label /\ pc' \in [Admins -> PC]
      /\ \A b \in Admins \ {a} : pc[b] = "idle" /\ pc'[b] = "idle"
  BY <1>1, <1>3, OthersIdle DEF PC
<1>5. /\ ids' \in [Admins -> SUBSET Creds]
      /\ wanted => ids'[a] = {c \in Creds : override[c] = Unset}
  BY <1>1 DEF RequestsKnow
<1>6. LimitsTyped' /\ SemsTyped'
  BY <1>1 DEF LimitsTyped, SemsTyped, configVars, semVars
<1>7. label = "resize" => req[a].per \in Limits
  BY <1>2, <1>3 DEF Update
<1>8. RequestsKnow'
  BY <1>1, <1>2, <1>3, <1>4, <1>5, <1>7 DEF RequestsKnow, UpdateAt
<1>9. ASSUME ~halfChanged' PROVE UpdateIsAt(a)' /\ OverrideIsAt(a)'
  <2>1. UpdateIsAt(a)
    BY <1>1, <1>9 DEF LimitsInv
  <2>2. /\ \A c \in Creds, n \in {old[a].per} : Follows(c, n)'
        /\ GlobalFollows(old[a].glob)'
    BY <1>1, <2>1 DEF UpdateIsAt, UpdateAt, Follows, GlobalFollows, InCirculation, configVars, semVars
  <2>3. ~wanted => per_credential_concurrency = old[a].per
    BY <1>1, <2>1 DEF UpdateIsAt
  <2> QED
    BY <1>1, <1>3, <1>4, <1>5, <2>1, <2>2, <2>3 DEF UpdateIsAt, OverrideIsAt, configVars
<1> QED
  BY <1>3, <1>4, <1>6, <1>8, <1>9, StepKeeps

LEMMA ResizeKeeps ==
    ASSUME LimitsInv, NoOverlap, NoOverlap', NEW a \in Admins, ResizeCredentials(a)
    PROVE  LimitsInv'
<1>1. /\ pc[a] = "resize" /\ LimitsTyped /\ SemsTyped /\ RequestsKnow
      /\ Resize(ids[a], old[a].per, req[a].per) /\ Goto(a, "global")
      /\ UNCHANGED <<configVars, exists, req, old, ids, halfChanged>>
  BY DEF ResizeCredentials, LimitsInv
<1>2. /\ old[a] \in [per : Limits, glob : {0} \cup Limits] /\ req[a].per \in Limits
      /\ ids[a] \in SUBSET Creds
  BY <1>1 DEF RequestsKnow, UpdateAt
<1>3. old[a].per \in Nat /\ req[a].per \in Nat /\ ids[a] \in SUBSET Sems
  BY <1>2, LimitsAreNumbers DEF Sems
<1>4. /\ SemsTyped'
      /\ \A s \in Sems : InCirculation(s)' =
             IF s \in ids[a] THEN InCirculation(s) + (req[a].per - old[a].per) ELSE InCirculation(s)
  <2>1. \A S \in SUBSET Sems, from, to \in Nat : Resize(S, from, to) =>
            /\ SemsTyped'
            /\ \A s \in Sems : InCirculation(s)' =
                   IF s \in S THEN InCirculation(s) + (to - from) ELSE InCirculation(s)
    BY <1>1, ResizeCounts
  <2> QED
    BY <1>1, <1>3, <2>1 DEF InCirculation
<1>5. /\ pc'[a] = "global" /\ pc' \in [Admins -> PC]
      /\ \A b \in Admins \ {a} : pc[b] = "idle" /\ pc'[b] = "idle"
  BY <1>1, OthersIdle DEF PC
<1>6. LimitsTyped'
  BY <1>1 DEF LimitsTyped, configVars
<1>7. RequestsKnow'
  BY <1>1, <1>5 DEF RequestsKnow, UpdateAt
<1>8. ASSUME ~halfChanged' PROVE UpdateIsAt(a)' /\ OverrideIsAt(a)'
  <2>1. UpdateIsAt(a)
    BY <1>1, <1>8 DEF LimitsInv
  <2>2. /\ ids[a] = {c \in Creds : override[c] = Unset} /\ per_credential_concurrency = req[a].per
        /\ \A c \in Creds : Follows(c, old[a].per)
        /\ GlobalFollows(old[a].glob)
    BY <1>1, <1>2, <2>1, LimitsAreNumbers DEF UpdateIsAt, UpdateAt
  <2>3. ASSUME NEW c \in Creds PROVE Follows(c, per_credential_concurrency)'
    <3>1. c \in Sems /\ Follows(c, old[a].per)
      BY <2>2 DEF Sems
    <3>2. CASE override[c] = Unset
      <4>1. InCirculation(c) = old[a].per
        BY <3>1, <3>2 DEF Follows
      <4>2. InCirculation(c)' = req[a].per
        BY <1>3, <1>4, <2>2, <3>1, <3>2, <4>1
      <4> QED
        BY <1>1, <2>2, <3>2, <4>2 DEF Follows, configVars
    <3>3. CASE override[c] # Unset
      <4>1. InCirculation(c)' = InCirculation(c)
        BY <1>4, <2>2, <3>1, <3>3
      <4> QED
        BY <1>1, <3>1, <3>3, <4>1 DEF Follows, configVars
    <3> QED
      BY <3>2, <3>3
  <2>4. GlobalFollows(old[a].glob)'
    <3>1. Global \in Sems \ ids[a]
      BY <1>2, LimitsAssumption DEF Sems
    <3> QED
      BY <1>1, <1>4, <2>2, <3>1 DEF GlobalFollows
  <2> QED
    BY <1>1, <1>5, <2>1, <2>3, <2>4 DEF UpdateIsAt, OverrideIsAt, configVars
<1> QED
  BY <1>4, <1>5, <1>6, <1>7, <1>8, StepKeeps

LEMMA SetGlobalKeeps ==
    ASSUME LimitsInv, NoOverlap, NoOverlap', NEW a \in Admins, SetGlobal(a)
    PROVE  LimitsInv'
<1> DEFINE from == old[a].glob
           to == req[a].glob
<1>1. /\ pc[a] = "global" /\ LimitsTyped /\ SemsTyped /\ RequestsKnow
      /\ Done(a) /\ UNCHANGED <<configVars, halfChanged>>
  BY DEF SetGlobal, LimitsInv
<1>2. /\ from \in Nat /\ (to = Unset \/ to \in Nat) /\ Unset \notin Nat
      /\ Global \in Sems /\ Creds \subseteq Sems \ {Global}
  <2>1. req[a] \in Update /\ old[a] \in [per : Limits, glob : {0} \cup Limits]
    BY <1>1 DEF RequestsKnow, UpdateAt
  <2> QED
    <3>1. from \in Nat /\ (to = Unset \/ to \in Nat)
      <4>1. /\ to = Unset \/ to = 0 \/ to \in Limits
            /\ from = 0 \/ from \in Limits
        BY <2>1 DEF Update
      <4>2. 0 \in Nat
        OBVIOUS
      <4> HIDE DEF from, to
      <4> QED
        BY <4>1, <4>2, LimitsAreNumbers, Zenon
    <3>2. Global \in Sems /\ Creds \subseteq Sems \ {Global} /\ Unset \notin Nat
      BY LimitsAssumption DEF Sems
    <3> QED
      BY <3>1, <3>2
<1>3. /\ pc'[a] = "idle" /\ pc' \in [Admins -> PC]
      /\ \A b \in Admins \ {a} : pc[b] = "idle" /\ pc'[b] = "idle"
  BY <1>1, OthersIdle DEF PC, Done
<1>4. LimitsTyped'
  BY <1>1 DEF LimitsTyped, configVars
<1>5. RequestsKnow'
  BY <1>1, <1>3 DEF RequestsKnow, UpdateAt, Done
<1> DEFINE Right == /\ SemsTyped' /\ \A c \in Creds : InCirculation(c)' = InCirculation(c)
                    /\ (~halfChanged =>
                          /\ (exists' <=> (IF to = Unset THEN from ELSE to) > 0)
                          /\ exists' => InCirculation(Global)' = IF to = Unset THEN from ELSE to)
<1>6. ~halfChanged => GlobalFollows(from)
  BY <1>1 DEF LimitsInv, UpdateIsAt, UpdateAt
<1>11. Right
  <2>1. CASE to = Unset \/ to = from
    <3>1. UNCHANGED semVars
      BY <2>1 DEF SetGlobal
    <3> QED
      BY <1>1, <1>6, <2>1, <3>1 DEF SemsTyped, semVars, InCirculation, GlobalFollows
  <2>2. CASE to # Unset /\ to # from /\ to = 0
    <3>1. exists' = FALSE /\ NewSemaphore(Global, 0)
      BY <2>2 DEF SetGlobal
    <3>2. SemsTyped' /\ \A x \in Sems \ {Global} : InCirculation(x)' = InCirculation(x)
      BY <1>1, <1>2, <3>1, NewCounts
    <3> QED
      BY <1>1, <1>2, <2>2, <3>1, <3>2
  <2>3. CASE to # Unset /\ to # from /\ to # 0 /\ (from = 0 \/ ~exists)
    <3>1. exists' = TRUE /\ NewSemaphore(Global, to)
      BY <2>3 DEF SetGlobal
    <3>2. SemsTyped' /\ InCirculation(Global)' = to /\ \A x \in Sems \ {Global} : InCirculation(x)' = InCirculation(x)
      BY <1>1, <1>2, <2>3, <3>1, NewCounts
    <3> QED
      BY <1>2, <2>3, <3>1, <3>2
  <2>4. CASE to # Unset /\ to # from /\ to # 0 /\ from # 0 /\ exists
    <3>1. Resize({Global}, from, to) /\ UNCHANGED exists
      BY <2>4 DEF SetGlobal
    <3>2. \A S \in SUBSET Sems, m, n \in Nat : Resize(S, m, n) =>
              /\ SemsTyped'
              /\ \A s \in Sems : InCirculation(s)' =
                     IF s \in S THEN InCirculation(s) + (n - m) ELSE InCirculation(s)
      BY <1>1, ResizeCounts
    <3>3. /\ SemsTyped' /\ InCirculation(Global)' = InCirculation(Global) + (to - from)
          /\ \A x \in Sems \ {Global} : InCirculation(x)' = InCirculation(x)
      <4>1. PICK m, n \in Nat : m = from /\ n = to
        BY <1>2, <2>4
      <4>2. Resize({Global}, m, n) /\ {Global} \in SUBSET Sems
        BY <1>2, <3>1, <4>1
      <4> HIDE DEF from, to
      <4>3. /\ SemsTyped'
            /\ \A s \in Sems : InCirculation(s)' =
                   IF s \in {Global} THEN InCirculation(s) + (n - m) ELSE InCirculation(s)
        BY <3>2, <4>2
      <4>4. InCirculation(Global)' = InCirculation(Global) + (n - m)
        BY <1>2, <4>3
      <4>5. \A x \in Sems \ {Global} : InCirculation(x)' = InCirculation(x)
        BY <4>3
      <4> QED
        BY <4>1, <4>3, <4>4, <4>5
    <3> QED
      BY <1>2, <1>6, <2>4, <3>1, <3>3 DEF GlobalFollows
  <2> QED
    BY <2>1, <2>2, <2>3, <2>4
<1>12. ASSUME ~halfChanged' PROVE AllIdle'
  <2>1. UpdateIsAt(a) /\ ~halfChanged
    BY <1>1, <1>12 DEF LimitsInv
  <2>2. /\ \A c \in Creds : Follows(c, per_credential_concurrency)
        /\ global_concurrency = IF to = Unset THEN from ELSE to
    BY <1>1, <2>1 DEF UpdateIsAt
  <2>3. \A c \in Creds : Follows(c, per_credential_concurrency)'
    BY <1>1, <1>11, <2>2 DEF Follows, configVars
  <2>4. GlobalFollows(global_concurrency)'
    BY <1>1, <1>11, <2>1, <2>2 DEF GlobalFollows, configVars
  <2> QED
    BY <2>3, <2>4 DEF AllIdle
<1>13. UpdateIsAt(a)' /\ OverrideIsAt(a)'
  BY <1>3 DEF UpdateIsAt, OverrideIsAt, UpdateAt
<1> QED
  BY <1>3, <1>4, <1>5, <1>11, <1>12, <1>13, StepKeeps

LEMMA OverrideKeeps ==
    ASSUME LimitsInv, NoOverlap, NoOverlap', NEW a \in Admins, NEW o \in Override, SetOverride(a, o)
    PROVE  LimitsInv'
<1>1. /\ pc[a] = "idle" /\ LimitsTyped /\ SemsTyped /\ RequestsKnow
      /\ override' = [override EXCEPT ![o.cred] = o.limit] /\ req' = [req EXCEPT ![a] = o]
      /\ Goto(a, "replace")
      /\ UNCHANGED <<per_credential_concurrency, global_concurrency, semVars, old, ids, halfChanged>>
  BY DEF SetOverride, LimitsInv
<1>2. o.cred \in Creds /\ o.limit \in {Unset} \cup Limits
  BY DEF Override
<1>3. /\ pc'[a] = "replace" /\ pc' \in [Admins -> PC]
      /\ \A b \in Admins \ {a} : pc[b] = "idle" /\ pc'[b] = "idle"
  BY <1>1, OthersIdle DEF PC
<1>4. LimitsTyped' /\ SemsTyped'
  BY <1>1, <1>2 DEF LimitsTyped, SemsTyped, semVars
<1>5. req'[a] = o /\ DOMAIN req' = Admins
  BY <1>1 DEF RequestsKnow
<1>6. RequestsKnow'
  BY <1>1, <1>3, <1>5 DEF RequestsKnow, UpdateAt
<1>7. ASSUME ~halfChanged' PROVE UpdateIsAt(a)' /\ OverrideIsAt(a)'
  <2>1. /\ \A c \in Creds : Follows(c, per_credential_concurrency)
        /\ GlobalFollows(global_concurrency)
    BY <1>1, <1>3, <1>7 DEF LimitsInv, AllIdle
  <2>2. override'[o.cred] = o.limit /\ \A c \in Creds \ {o.cred} : override'[c] = override[c]
    BY <1>1, <1>2 DEF LimitsTyped
  <2>3. /\ \A c \in Creds \ {o.cred} : Follows(c, per_credential_concurrency)'
        /\ GlobalFollows(global_concurrency)'
    BY <1>1, <2>1, <2>2 DEF Follows, GlobalFollows, InCirculation, semVars
  <2> QED
    BY <1>3, <1>5, <2>2, <2>3 DEF UpdateIsAt, OverrideIsAt, UpdateAt
<1> QED
  BY <1>3, <1>4, <1>6, <1>7, StepKeeps

LEMMA ReplaceKeeps ==
    ASSUME LimitsInv, NoOverlap, NoOverlap', NEW a \in Admins, ReplaceSemaphore(a)
    PROVE  LimitsInv'
<1> DEFINE n == IF req[a].limit = Unset THEN per_credential_concurrency ELSE req[a].limit
<1>1. /\ pc[a] = "replace" /\ LimitsTyped /\ SemsTyped /\ RequestsKnow
      /\ NewSemaphore(req[a].cred, n) /\ Done(a) /\ UNCHANGED <<configVars, exists, halfChanged>>
  BY DEF ReplaceSemaphore, LimitsInv
<1>2. PICK c \in Creds, m \in Nat : c = req[a].cred /\ m = n
  <2>1. req[a] \in Override
    BY <1>1 DEF RequestsKnow
  <2> QED
    BY <1>1, <2>1, LimitsAreNumbers DEF Override, LimitsTyped
<1>3. Global \in Sems \ Creds /\ Creds \subseteq Sems
  BY LimitsAssumption DEF Sems
<1>4. /\ SemsTyped' /\ InCirculation(c)' = m
      /\ \A x \in Sems \ {c} : InCirculation(x)' = InCirculation(x)
  <2>1. NewSemaphore(c, m)
    BY <1>1, <1>2
  <2> QED
    BY <1>1, <1>3, <2>1, NewCounts
<1>5. /\ pc'[a] = "idle" /\ pc' \in [Admins -> PC]
      /\ \A b \in Admins \ {a} : pc[b] = "idle" /\ pc'[b] = "idle"
  BY <1>1, OthersIdle DEF PC, Done
<1>6. LimitsTyped' /\ RequestsKnow'
  BY <1>1, <1>5 DEF LimitsTyped, configVars, RequestsKnow, UpdateAt, Done
<1>7. ASSUME ~halfChanged' PROVE AllIdle'
  <2>1. OverrideIsAt(a)
    BY <1>1, <1>7 DEF LimitsInv
  <2>2. m = IF override[c] = Unset THEN per_credential_concurrency ELSE override[c]
    BY <1>1, <1>2, <2>1 DEF OverrideIsAt
  <2>3. ASSUME NEW d \in Creds PROVE Follows(d, per_credential_concurrency)'
    <3>1. CASE d = c
      BY <1>1, <1>4, <2>2, <3>1 DEF Follows, configVars
    <3>2. CASE d # c
      BY <1>1, <1>2, <1>3, <1>4, <2>1, <3>2 DEF OverrideIsAt, Follows, configVars
    <3> QED
      BY <3>1, <3>2
  <2>4. GlobalFollows(global_concurrency)'
    BY <1>1, <1>2, <1>3, <1>4, <2>1 DEF OverrideIsAt, GlobalFollows, configVars
  <2> QED
    BY <2>3, <2>4 DEF AllIdle
<1>8. UpdateIsAt(a)' /\ OverrideIsAt(a)'
  BY <1>5 DEF UpdateIsAt, OverrideIsAt, UpdateAt
<1> QED
  BY <1>4, <1>5, <1>6, <1>7, <1>8, StepKeeps

-----------------------------------------------------------------------------
\* As long as the requests of administrators do not overlap, and until an update is refused
\* half way: each semaphore has, at every point between the locks an update takes and
\* releases, the permits of the limit it followed before or of the one it is to follow.
THEOREM LimitsCorrect == Spec /\ []NoOverlap => []LimitsInv
<1>1. LimitsInv /\ UNCHANGED vars => LimitsInv'
  BY DEF LimitsInv, LimitsTyped, SemsTyped, RequestsKnow, AllIdle, UpdateIsAt, OverrideIsAt, Follows,
         GlobalFollows, InCirculation, vars, configVars, semVars, adminVars
<1>2. LimitsInv /\ NoOverlap /\ NoOverlap' /\ [Next]_vars => LimitsInv'
  BY <1>1, CallsKeep, BeginKeeps, MutateKeeps, CollectKeeps, ResizeKeeps, SetGlobalKeeps, OverrideKeeps,
     ReplaceKeeps DEF Next, AdminStep
<1> QED
  BY <1>2, LimitsInitially, PTL DEF Spec

\* When no request is under way, what is free, in use and to be taken back of each
\* credential and of the program adds up to the configured limit: resizing while calls hold
\* permits loses none and makes none.  That requests do not overlap is a hypothesis: two
\* updates at once do leave other permits than the limits say.
THEOREM PermitsFollowTheConfiguration == Spec /\ []NoOverlap => []LimitsMatchConfig
<1>1. LimitsInv => LimitsMatchConfig
  BY DEF LimitsInv, AllIdle, Follows, GlobalFollows, InCirculation, LimitsMatchConfig, ConfiguredFor
<1> QED
  BY <1>1, LimitsCorrect, PTL

-----------------------------------------------------------------------------
(***************************************************************************)
(* ApiKeys, for any number of administrators, clients and keys.            *)
(***************************************************************************)
\* The entries of a list are numbers given out, and have counted usage.
Counted(ks) == /\ DOMAIN ks \subseteq 1 .. added
               /\ \A id \in DOMAIN ks : ks[id].used \in Nat

KeyRecord == [value : KeyValues, name : KeyNames, enabled : BOOLEAN, used : Nat]

RecordsTyped ==
    /\ keys \in [DOMAIN keys -> KeyRecord] /\ keysFile \in [DOMAIN keysFile -> KeyRecord]
    /\ creates \in [KeyAdmins -> [value : KeyValues, id : Nat]] /\ added \in Nat

KeysTyped ==
    /\ added \in Nat /\ Counted(keys) /\ Counted(keysFile)
    /\ DOMAIN session = Clients /\ DOMAIN change = KeyAdmins

RunOn(id) == {r \in Clients : session[r] = id}

\* What a restart reads is bounded as well.
FileBounded == \A id \in DOMAIN keysFile : keysFile[id].used < UsageLimit + Cardinality(Clients)

KeysInv == KeysTyped /\ RecordsTyped /\ KeysFileFollows /\ OveruseBounded /\ FileBounded

-----------------------------------------------------------------------------
LEMMA ClientsFinite ==
    /\ Cardinality(Clients) \in Nat
    /\ \A S \in SUBSET Clients : Cardinality(S) \in 0 .. Cardinality(Clients)
BY KeyAssumption, FS_CardinalityType, FS_Subset

\* A client that has another entry now, or none, leaves the count of the one it had.
LEMMA OneLess ==
    ASSUME NEW S \in SUBSET Clients, NEW r \in S
    PROVE  Cardinality(S \ {r}) = Cardinality(S) - 1
<1>1. IsFiniteSet(S)
  BY KeyAssumption, FS_Subset
<1> QED
  BY <1>1, FS_RemoveElement

LEMMA RecordsInitially == KeysInit => RecordsTyped
<1> SUFFICES ASSUME KeysInit PROVE RecordsTyped
  OBVIOUS
<1>1. keys = [i \in {1} |-> NewKey(ConfigKey)] /\ keysFile = keys /\ added = 1
  BY DEF KeysInit, FirstKey
<1>2. NewKey(ConfigKey) \in KeyRecord
  BY KeyAssumption DEF NewKey, KeyRecord
<1>3. creates \in [KeyAdmins -> [value : KeyValues, id : Nat]]
  BY KeyAssumption DEF KeysInit, NoCreate
<1> QED
  BY <1>1, <1>2, <1>3 DEF RecordsTyped

LEMMA KeysInitially == KeysInit => KeysInv
<1> SUFFICES ASSUME KeysInit PROVE KeysInv
  OBVIOUS
<1>1. /\ DOMAIN keys = {1} /\ keys[1].used = 0 /\ keysFile = keys /\ added = 1 /\ DOMAIN session = Clients
      /\ DOMAIN change = KeyAdmins
  BY DEF KeysInit, FirstKey, NewKey
<1>2. \A r \in Clients : session[r] = 0
  BY DEF KeysInit, NoSession
<1>3. RunOn(1) = {}
  BY <1>2 DEF RunOn
<1>4. Cardinality(RunOn(1)) = 0
  BY <1>3, FS_EmptySet
<1> QED
  BY <1>1, <1>4, ClientsFinite, KeyAssumption, RecordsInitially
     DEF KeysInv, KeysTyped, Counted, KeysFileFollows, OveruseBounded, FileBounded, RunOn

-----------------------------------------------------------------------------
(* The records of a list *)

LEMMA RecordChanges ==
    ASSUME NEW k \in KeyRecord
    PROVE  /\ \A name \in KeyNames :
                  [k EXCEPT !.name = name] \in KeyRecord /\ [k EXCEPT !.name = name].used = k.used
           /\ \A n \in Nat : [k EXCEPT !.used = n] \in KeyRecord /\ [k EXCEPT !.used = n].used = n
BY DEF KeyRecord

\* keys' is keys with another record for the entry, which has used n.
Becomes(id, n) ==
    \E k \in KeyRecord : k.used = n /\ keys' = [keys EXCEPT ![id] = k]

LEMMA EntryChanges ==
    ASSUME RecordsTyped, NEW id \in DOMAIN keys, NEW a
    PROVE  /\ update_api_key(a, id) => Becomes(id, keys[id].used)
           /\ RefuseUpdate(a, id) => Becomes(id, keys[id].used)
           /\ reset_api_key_usage(a, id) => Becomes(id, 0)
           /\ RecordUsage(id) => Becomes(id, keys[id].used + 1)
<1>1. keys[id] \in KeyRecord /\ keys[id].used \in Nat
  BY DEF RecordsTyped, KeyRecord
<1>2. NamesOf(id) \subseteq KeyNames /\ FlagsOf(id) \subseteq BOOLEAN
  BY <1>1 DEF NamesOf, FlagsOf, KeyRecord
<1>3. update_api_key(a, id) => Becomes(id, keys[id].used)
  <2>1. ASSUME NEW name \in KeyNames, NEW value \in KeyValues, NEW enabled \in BOOLEAN, NEW k,
               k = [value |-> value, name |-> name, enabled |-> enabled, used |-> keys[id].used]
        PROVE  k \in KeyRecord /\ k.used = keys[id].used
    BY <1>1, <2>1 DEF KeyRecord
  <2> QED
    BY <1>2, <2>1 DEF update_api_key, Becomes
<1>4. RefuseUpdate(a, id) => Becomes(id, keys[id].used)
  <2>1. ASSUME NEW name \in KeyNames, keys' = [keys EXCEPT ![id].name = name]
        PROVE  Becomes(id, keys[id].used)
    <3>1. keys' = [keys EXCEPT ![id] = [keys[id] EXCEPT !.name = name]]
      BY <2>1
    <3> QED
      BY <1>1, <3>1, RecordChanges DEF Becomes
  <2> QED
    BY <1>2, <2>1 DEF RefuseUpdate
<1>5. ASSUME NEW n \in Nat, keys' = [keys EXCEPT ![id].used = n] PROVE Becomes(id, n)
  <2>1. keys' = [keys EXCEPT ![id] = [keys[id] EXCEPT !.used = n]]
    BY <1>5
  <2> QED
    BY <1>1, <2>1, RecordChanges DEF Becomes
<1> QED
  BY <1>1, <1>3, <1>4, <1>5 DEF reset_api_key_usage, RecordUsage

LEMMA RecordsKeep ==
    ASSUME KeysTyped, RecordsTyped, KeysNext PROVE RecordsTyped'
<1>1. ASSUME NEW id \in DOMAIN keys, NEW n, Becomes(id, n) PROVE keys' \in [DOMAIN keys' -> KeyRecord]
  BY <1>1 DEF Becomes, RecordsTyped
<1>2. ASSUME NEW id PROVE Without(id) \in [DOMAIN Without(id) -> KeyRecord]
  BY DEF Without, RecordsTyped
<1>3. ASSUME NEW id, NEW value \in KeyValues
      PROVE  /\ WithKey(id, value) \in [DOMAIN WithKey(id, value) -> KeyRecord]
             /\ FirstKey(id) \in [DOMAIN FirstKey(id) -> KeyRecord]
  <2>1. \A v \in KeyValues : NewKey(v) \in KeyRecord
    BY KeyAssumption DEF NewKey, KeyRecord
  <2> QED
    BY <2>1, KeyAssumption DEF WithKey, FirstKey, RecordsTyped
<1>4. NoKeys \in [DOMAIN NoKeys -> KeyRecord] /\ NoCreate \in [value : KeyValues, id : Nat]
  BY KeyAssumption DEF NoKeys, NoCreate
<1>5. ASSUME keys' \in [DOMAIN keys' -> KeyRecord], keysFile' \in {keysFile, keys', NoKeys},
             creates' \in [KeyAdmins -> [value : KeyValues, id : Nat]], added' \in Nat
      PROVE  RecordsTyped'
  BY <1>4, <1>5 DEF RecordsTyped
<1>6. added \in Nat /\ creates \in [KeyAdmins -> [value : KeyValues, id : Nat]]
  BY DEF RecordsTyped
<1>7. ASSUME NEW a \in KeyAdmins, NEW value \in KeyValues, CheckCreate(a, value) PROVE RecordsTyped'
  <2>1. creates' = [creates EXCEPT ![a].value = value]
    BY <1>7 DEF CheckCreate
  <2> QED
    BY <1>6, <1>7, <2>1 DEF CheckCreate, RecordsTyped
<1>8. ASSUME NEW a \in KeyAdmins, PushKey(a) PROVE RecordsTyped'
  <2>1. /\ added' = added + 1 /\ creates' = [creates EXCEPT ![a].id = added']
        /\ keys' = WithKey(added', creates[a].value) /\ UNCHANGED keysFile
    BY <1>8 DEF PushKey
  <2>2. creates[a].value \in KeyValues /\ creates' \in [KeyAdmins -> [value : KeyValues, id : Nat]]
    BY <1>6, <2>1
  <2> QED
    BY <1>3, <1>5, <1>6, <2>1, <2>2
<1>9. ASSUME NEW a \in KeyAdmins, NEW id \in DOMAIN keys, ChangeKey(a, id) PROVE RecordsTyped'
  <2>1. keys' \in [DOMAIN keys' -> KeyRecord]
    BY <1>1, <1>2, <1>9, EntryChanges DEF ChangeKey, delete_api_key
  <2> QED
    BY <1>5, <1>6, <1>9, <2>1 DEF ChangeKey
<1>10. ASSUME NEW a \in KeyAdmins, save_api_keys(a) \/ UndoCreate(a) PROVE RecordsTyped'
  <2>1. creates' \in {creates, [creates EXCEPT ![a] = NoCreate]}
    BY <1>10 DEF save_api_keys, UndoCreate, Then
  <2>2. creates' \in [KeyAdmins -> [value : KeyValues, id : Nat]]
    BY <1>4, <1>6, <2>1
  <2>3. keys' \in [DOMAIN keys' -> KeyRecord] /\ keysFile' \in {keysFile, keys', NoKeys} /\ added' = added
    BY <1>2, <1>10 DEF save_api_keys, UndoCreate, KeysWritten, KeysNotWritten, RecordsTyped
  <2> QED
    BY <1>5, <1>6, <2>2, <2>3
<1>11. ASSUME NEW r \in Clients, EndOfRequest(r) PROVE RecordsTyped'
  <2>1. ASSUME NEW id \in DOMAIN keys, RecordUsage(id)
        PROVE  keys' \in [DOMAIN keys' -> KeyRecord] /\ keysFile' \in {keysFile, keys', NoKeys}
    BY <1>1, <2>1, EntryChanges DEF RecordUsage, KeysWritten, KeysNotWritten
  <2> QED
    BY <1>5, <1>6, <1>11, <2>1 DEF EndOfRequest, RecordsTyped
<1>12. ASSUME NEW r \in Clients, NEW value \in KeyValues, Authenticate(r, value) PROVE RecordsTyped'
  BY <1>12 DEF Authenticate, RecordsTyped
<1>13. ASSUME NEW torn \in BOOLEAN, Restart(torn) PROVE RecordsTyped'
  <2>1. /\ keys' \in {keysFile, FirstKey(added')} /\ keysFile' \in {keysFile, keys', NoKeys}
        /\ added' \in {added, added + 1} /\ creates' = [a \in KeyAdmins |-> NoCreate]
    BY <1>13 DEF Restart, KeysWritten
  <2>2. keys' \in [DOMAIN keys' -> KeyRecord]
    BY <1>3, <2>1, KeyAssumption DEF RecordsTyped
  <2> QED
    BY <1>4, <1>5, <1>6, <2>1, <2>2
<1>14. ASSUME NEW a \in KeyAdmins, NEW id \in DOMAIN keys, RefuseUpdate(a, id) PROVE RecordsTyped'
  <2>1. keys' \in [DOMAIN keys' -> KeyRecord]
    BY <1>1, <1>14, EntryChanges
  <2> QED
    BY <1>5, <1>6, <1>14, <2>1 DEF RefuseUpdate
<1> QED
  BY <1>7, <1>8, <1>9, <1>10, <1>11, <1>12, <1>13, <1>14 DEF KeysNext

-----------------------------------------------------------------------------
(* The file *)

\* A name is nothing when names are put aside.
LEMMA OnlyTheName ==
    ASSUME RecordsTyped, NEW id \in DOMAIN keys, NEW name, keys' = [keys EXCEPT ![id].name = name]
    PROVE  NameAside(keys') = NameAside(keys)
<1>1. DOMAIN keys' = DOMAIN keys /\ \A i \in DOMAIN keys \ {id} : keys'[i] = keys[i]
  OBVIOUS
<1>2. keys[id] \in KeyRecord /\ keys'[id] = [keys[id] EXCEPT !.name = name]
  BY DEF RecordsTyped
<1>3. [keys'[id] EXCEPT !.name = FirstName] = [keys[id] EXCEPT !.name = FirstName]
  BY <1>2 DEF KeyRecord
<1> QED
  BY <1>1, <1>3 DEF NameAside

\* Whoever is done has written what memory has, or says that nothing was written.
LEMMA FileFollows ==
    ASSUME KeysTyped, RecordsTyped, KeysFileFollows, KeysNext PROVE KeysFileFollows'
<1>1. ASSUME NEW a \in KeyAdmins, NEW step, Then(a, step)
      PROVE  change'[a] = step /\ \A b \in KeyAdmins \ {a} : change'[b] = change[b]
  BY <1>1 DEF Then, KeysTyped
<1>2. ASSUME NEW a \in KeyAdmins, NEW value \in KeyValues, CheckCreate(a, value)
      PROVE  KeysFileFollows'
  <2>1. /\ Then(a, "create") /\ change[a] = "none"
        /\ UNCHANGED <<keys, keysFile, keysUnsaved, keysRenamed>>
    BY <1>2 DEF CheckCreate, keyHistory
  <2> QED
    BY <1>1, <2>1 DEF KeysFileFollows
<1>3. ASSUME NEW a \in KeyAdmins, Then(a, "save") PROVE KeysFileFollows'
  BY <1>1, <1>3 DEF KeysFileFollows
<1>4. ASSUME NEW a \in KeyAdmins, save_api_keys(a) \/ UndoCreate(a) PROVE KeysFileFollows'
  BY <1>4 DEF save_api_keys, UndoCreate, KeysWritten, KeysNotWritten, KeysFileFollows, keyHistory
<1>5. ASSUME NEW r \in Clients, EndOfRequest(r) PROVE KeysFileFollows'
  BY <1>5 DEF EndOfRequest, RecordUsage, KeysWritten, KeysNotWritten, KeysFileFollows, keyHistory
<1>6. ASSUME NEW r \in Clients, NEW value \in KeyValues, Authenticate(r, value)
      PROVE  KeysFileFollows'
  BY <1>6 DEF Authenticate, KeysFileFollows, keyHistory
<1>7. ASSUME NEW torn \in BOOLEAN, Restart(torn) PROVE KeysFileFollows'
  BY <1>7 DEF Restart, KeysWritten, KeysFileFollows
<1>8. ASSUME NEW a \in KeyAdmins, NEW id \in DOMAIN keys, RefuseUpdate(a, id) PROVE KeysFileFollows'
  <2>1. PICK name : keys' = [keys EXCEPT ![id].name = name]
    BY <1>8 DEF RefuseUpdate
  <2>2. NameAside(keys') = NameAside(keys)
    BY <2>1, OnlyTheName
  <2>3. UNCHANGED <<keysFile, change, keysUnsaved>> /\ keysRenamed'
    BY <1>8 DEF RefuseUpdate
  <2> QED
    BY <2>2, <2>3 DEF KeysFileFollows
<1> QED
  BY <1>2, <1>3, <1>4, <1>5, <1>6, <1>7, <1>8 DEF KeysNext, ChangeKey, PushKey

-----------------------------------------------------------------------------
(* The usage *)

Most == UsageLimit + Cardinality(Clients)

LEMMA MostIsNumber == Most \in Nat /\ Most > Cardinality(Clients)
BY ClientsFinite, KeyAssumption DEF Most

\* What is left to prove of a step.
KeysRight == /\ added \in Nat /\ Counted(keys) /\ DOMAIN session = Clients /\ DOMAIN change = KeyAdmins
             /\ OveruseBounded

LEMMA FileRight ==
    ASSUME KeysTyped, FileBounded, KeysRight', added <= added', keysFile' \in {keysFile, keys', NoKeys}
    PROVE  KeysTyped' /\ FileBounded'
<1>1. ASSUME NEW id \in DOMAIN keys' PROVE keys'[id].used < Most
  <2>1. RunOn(id)' \in SUBSET Clients
    BY DEF RunOn
  <2>2. Cardinality(RunOn(id)') \in Nat
    BY <2>1, ClientsFinite
  <2>3. keys'[id].used \in Nat /\ keys'[id].used + Cardinality(RunOn(id)') < Most
    BY <1>1 DEF KeysRight, OveruseBounded, Counted, RunOn, Most
  <2> QED
    BY <2>2, <2>3, MostIsNumber
<1>2. CASE keysFile' = keys'
  BY <1>1, <1>2 DEF KeysRight, KeysTyped, FileBounded, Counted, Most
<1>3. CASE keysFile' = keysFile
  BY <1>3 DEF KeysRight, KeysTyped, FileBounded, Counted
<1>4. CASE keysFile' = NoKeys
  BY <1>4 DEF KeysRight, KeysTyped, FileBounded, Counted, NoKeys
<1> QED
  BY <1>2, <1>3, <1>4

\* An administrator leaves each entry's usage, or sets it to nothing.
LEMMA AdminRight ==
    ASSUME KeysInv, added' \in Nat, DOMAIN keys' \subseteq 1 .. added',
           DOMAIN change' = KeyAdmins, UNCHANGED session,
           \A id \in DOMAIN keys' :
               (id \in DOMAIN keys /\ keys'[id].used = keys[id].used) \/ keys'[id].used = 0
    PROVE  KeysRight'
<1>1. Counted(keys)'
  BY DEF KeysInv, KeysTyped, Counted
<1>2. ASSUME NEW id \in DOMAIN keys'
      PROVE  keys'[id].used + Cardinality({r \in Clients : session[r] = id}) < Most
  <2>1. Cardinality({r \in Clients : session[r] = id}) \in 0 .. Cardinality(Clients)
    BY ClientsFinite
  <2>2. CASE keys'[id].used = 0
    BY <2>1, <2>2, MostIsNumber, ClientsFinite
  <2>3. CASE id \in DOMAIN keys /\ keys'[id].used = keys[id].used
    BY <2>3 DEF KeysInv, OveruseBounded, Most
  <2> QED
    BY <1>2, <2>2, <2>3
<1>3. OveruseBounded'
  BY <1>2 DEF OveruseBounded, Most
<1> QED
  BY <1>1, <1>3 DEF KeysRight, KeysInv, KeysTyped

LEMMA AdminKeeps ==
    ASSUME KeysInv, NEW a \in KeyAdmins,
           \/ \E value \in KeyValues : CheckCreate(a, value)
           \/ \E id \in DOMAIN keys : ChangeKey(a, id) \/ RefuseUpdate(a, id)
           \/ PushKey(a) \/ save_api_keys(a) \/ UndoCreate(a)
    PROVE  KeysTyped' /\ OveruseBounded' /\ FileBounded'
<1>1. KeysTyped /\ FileBounded /\ added \in Nat /\ DOMAIN change = KeyAdmins
  BY DEF KeysInv, KeysTyped
<1>2. /\ DOMAIN change' = KeyAdmins /\ UNCHANGED session
      /\ keysFile' \in {keysFile, keys', NoKeys}
  BY <1>1 DEF CheckCreate, ChangeKey, RefuseUpdate, PushKey, save_api_keys, UndoCreate, Then, KeysWritten, KeysNotWritten
<1>3. /\ added' \in Nat /\ added <= added' /\ DOMAIN keys' \subseteq 1 .. added'
      /\ \A id \in DOMAIN keys' :
             (id \in DOMAIN keys /\ keys'[id].used = keys[id].used) \/ keys'[id].used = 0
  <2>1. DOMAIN keys \subseteq 1 .. added
    BY <1>1 DEF KeysTyped, Counted
  <2>2. CASE PushKey(a)
    BY <1>1, <2>1, <2>2 DEF PushKey, WithKey, NewKey
  <2>3. CASE UndoCreate(a)
    BY <1>1, <2>1, <2>3 DEF UndoCreate, Without
  <2>4. CASE UNCHANGED <<keys, added>>
    BY <1>1, <2>1, <2>4
  <2>5. ASSUME NEW id \in DOMAIN keys, ChangeKey(a, id)
        PROVE  /\ added' = added /\ DOMAIN keys' \subseteq DOMAIN keys
               /\ \A i \in DOMAIN keys' : keys'[i].used = keys[i].used \/ keys'[i].used = 0
    <3>1. CASE update_api_key(a, id)
      BY <2>5, <3>1, EntryChanges DEF ChangeKey, Becomes, KeysInv, RecordsTyped
    <3>2. CASE delete_api_key(a, id)
      BY <2>5, <3>2 DEF ChangeKey, delete_api_key, Without
    <3>3. CASE reset_api_key_usage(a, id)
      BY <2>5, <3>3, EntryChanges DEF ChangeKey, Becomes, KeysInv, RecordsTyped
    <3> QED
      BY <2>5, <3>1, <3>2, <3>3 DEF ChangeKey
  <2>6. CASE \E id \in DOMAIN keys : ChangeKey(a, id)
    BY <1>1, <2>1, <2>5, <2>6
  <2>7. ASSUME NEW id \in DOMAIN keys, RefuseUpdate(a, id)
        PROVE  /\ added' = added /\ DOMAIN keys' = DOMAIN keys
               /\ \A i \in DOMAIN keys' : keys'[i].used = keys[i].used
    BY <2>7, EntryChanges DEF RefuseUpdate, Becomes, KeysInv, RecordsTyped
  <2>8. CASE \E id \in DOMAIN keys : RefuseUpdate(a, id)
    BY <1>1, <2>1, <2>7, <2>8
  <2> QED
    BY <2>2, <2>3, <2>4, <2>6, <2>8 DEF CheckCreate, save_api_keys
<1> QED
  BY <1>1, <1>2, <1>3, AdminRight, FileRight DEF KeysRight

-----------------------------------------------------------------------------
\* A request starts within the limit, when at most the other clients' run.
LEMMA AuthenticateKeeps ==
    ASSUME KeysInv, NEW r \in Clients, NEW value \in KeyValues, Authenticate(r, value)
    PROVE  KeysTyped' /\ OveruseBounded' /\ FileBounded'
<1>1. /\ KeysTyped /\ FileBounded /\ session[r] = NoSession
      /\ UNCHANGED <<keys, keysFile, added, change>>
  BY DEF KeysInv, Authenticate
<1>2. PICK e \in {EntryOf(value), FreeSession} :
          /\ session' = [session EXCEPT ![r] = e]
          /\ e # FreeSession => WithinLimits(e)
  BY DEF Authenticate
<1>3. /\ DOMAIN session' = Clients /\ session'[r] = e
      /\ \A x \in Clients \ {r} : session'[x] = session[x]
  BY <1>1, <1>2 DEF KeysTyped
<1>4. ASSUME NEW id \in DOMAIN keys
      PROVE  keys[id].used + Cardinality(RunOn(id)') < Most
  <2>1. id \in Nat \ {0} /\ keys[id].used \in Nat
    BY <1>1 DEF KeysTyped, Counted
  <2>2. RunOn(id)' \in SUBSET Clients /\ RunOn(id) \in SUBSET Clients
    BY DEF RunOn
  <2>3. Cardinality(RunOn(id)') \in 0 .. Cardinality(Clients)
    BY <2>2, ClientsFinite
  <2>4. CASE id = e
    <3>1. keys[id].used < UsageLimit
      BY <1>2, <2>1, <2>4 DEF WithinLimits, FreeSession
    <3> QED
      BY <2>1, <2>3, <3>1, KeyAssumption, ClientsFinite DEF Most
  <2>5. CASE id # e
    <3>1. RunOn(id)' = RunOn(id)
      BY <1>1, <1>3, <2>1, <2>5 DEF RunOn, NoSession
    <3> QED
      BY <3>1 DEF KeysInv, OveruseBounded, RunOn, Most
  <2> QED
    BY <2>4, <2>5
<1>5. OveruseBounded'
  BY <1>1, <1>4 DEF OveruseBounded, RunOn, Most
<1> QED
  BY <1>1, <1>3, <1>5, FileRight DEF KeysRight, KeysTyped, Counted

\* The usage of a request is counted when it no longer runs.
LEMMA EndKeeps ==
    ASSUME KeysInv, NEW r \in Clients, EndOfRequest(r)
    PROVE  KeysTyped' /\ OveruseBounded' /\ FileBounded'
<1>1. /\ KeysTyped /\ FileBounded /\ session[r] # NoSession /\ UNCHANGED <<added, change>>
      /\ session' = [session EXCEPT ![r] = NoSession]
  BY DEF KeysInv, EndOfRequest
<1>2. /\ DOMAIN session' = Clients /\ session'[r] = 0
      /\ \A x \in Clients \ {r} : session'[x] = session[x]
  BY <1>1 DEF KeysTyped, NoSession
<1>3. ASSUME NEW id \in DOMAIN keys
      PROVE  /\ id # session[r] => RunOn(id)' = RunOn(id)
             /\ id = session[r] => RunOn(id)' = RunOn(id) \ {r} /\ r \in RunOn(id)
  <2>1. id # 0
    BY <1>1 DEF KeysTyped, Counted
  <2> QED
    BY <1>1, <1>2, <2>1 DEF RunOn
<1>4. ASSUME NEW id \in DOMAIN keys
      PROVE  /\ keys[id].used \in Nat /\ Cardinality(RunOn(id)) \in Nat
             /\ keys[id].used + Cardinality(RunOn(id)) < Most
             /\ Cardinality(RunOn(id)') =
                    IF id = session[r] THEN Cardinality(RunOn(id)) - 1 ELSE Cardinality(RunOn(id))
  <2>1. RunOn(id) \in SUBSET Clients
    BY DEF RunOn
  <2>2. Cardinality(RunOn(id)) \in Nat
    BY <2>1, ClientsFinite
  <2>3. id = session[r] => Cardinality(RunOn(id)') = Cardinality(RunOn(id)) - 1
    BY <1>3, <2>1, OneLess
  <2> QED
    BY <1>1, <1>3, <2>2, <2>3 DEF KeysTyped, Counted, KeysInv, OveruseBounded, RunOn, Most
<1>5. CASE UNCHANGED <<keys, keysFile>>
  <2>1. \A id \in DOMAIN keys : keys[id].used + Cardinality(RunOn(id)') < Most
    BY <1>4, MostIsNumber
  <2>2. OveruseBounded'
    BY <1>5, <2>1 DEF OveruseBounded, RunOn, Most
  <2> QED
    BY <1>1, <1>2, <1>5, <2>2, FileRight DEF KeysRight, KeysTyped, Counted
<1>6. ASSUME NEW id \in DOMAIN keys, id = session[r], RecordUsage(id)
      PROVE  KeysTyped' /\ OveruseBounded' /\ FileBounded'
  <2>1. /\ DOMAIN keys' = DOMAIN keys /\ keys'[id].used = keys[id].used + 1
        /\ \A i \in DOMAIN keys \ {id} : keys'[i] = keys[i]
        /\ keysFile' \in {keysFile, keys', NoKeys}
    BY <1>6, EntryChanges DEF Becomes, KeysInv, RecordsTyped, RecordUsage, KeysWritten, KeysNotWritten
  <2>2. ASSUME NEW i \in DOMAIN keys' PROVE keys'[i].used + Cardinality(RunOn(i)') < Most
    BY <1>4, <1>6, <2>1, MostIsNumber
  <2>3. OveruseBounded'
    BY <2>2 DEF OveruseBounded, RunOn, Most
  <2>4. Counted(keys)'
    BY <1>1, <1>4, <2>1 DEF KeysTyped, Counted
  <2> QED
    BY <1>1, <1>2, <2>1, <2>3, <2>4, FileRight DEF KeysRight, KeysTyped
<1> QED
  BY <1>5, <1>6 DEF EndOfRequest

\* The file is read, or the configuration's key is adopted, and nobody is served yet.
LEMMA RestartKeeps ==
    ASSUME KeysInv, NEW torn \in BOOLEAN, Restart(torn)
    PROVE  KeysTyped' /\ OveruseBounded' /\ FileBounded'
<1>1. /\ KeysTyped /\ FileBounded /\ added \in Nat
      /\ DOMAIN change' = KeyAdmins /\ DOMAIN session' = Clients
      /\ \A r \in Clients : session'[r] = 0
  BY DEF KeysInv, KeysTyped, Restart, NoSession
<1>2. /\ added' \in Nat /\ added <= added' /\ keysFile' \in {keysFile, keys', NoKeys}
      /\ \/ keys' = keysFile
         \/ keys' = FirstKey(added') /\ added' = added + 1
  BY <1>1 DEF Restart, KeysWritten
<1>3. Counted(keys)' /\ \A id \in DOMAIN keys' : keys'[id].used < Most
  <2>1. CASE keys' = keysFile
    BY <1>1, <1>2, <2>1 DEF KeysTyped, Counted, FileBounded, Most
  <2>2. CASE keys' = FirstKey(added') /\ added' = added + 1
    BY <1>1, <1>2, <2>2, MostIsNumber, ClientsFinite DEF Counted, FirstKey, NewKey
  <2> QED
    BY <1>2, <2>1, <2>2
<1>4. OveruseBounded'
  <2>1. ASSUME NEW id \in DOMAIN keys' PROVE RunOn(id)' = {} /\ keys'[id].used \in Nat
    BY <1>1, <1>2, <1>3 DEF RunOn, Counted
  <2>2. \A id \in DOMAIN keys' : Cardinality(RunOn(id)') = 0
    BY <2>1, FS_EmptySet
  <2> QED
    BY <1>3, <2>1, <2>2 DEF OveruseBounded, RunOn, Most
<1> QED
  BY <1>1, <1>2, <1>3, <1>4, FileRight DEF KeysRight

-----------------------------------------------------------------------------
\* Whatever administrators, clients, saves and restarts do at once: entries have ids that
\* were given out, and what a restart would read is not further over its limit than the
\* requests that were under way can have brought it.
THEOREM KeysCorrect == KeysInit /\ [][KeysNext]_keyVars => []KeysInv
<1>1. KeysInv /\ UNCHANGED keyVars => KeysInv'
  BY DEF KeysInv, KeysTyped, RecordsTyped, Counted, KeysFileFollows, OveruseBounded, FileBounded, keyVars, keyHistory
<1>2. KeysInv /\ [KeysNext]_keyVars => KeysInv'
  BY <1>1, RecordsKeep, FileFollows, AdminKeeps, AuthenticateKeeps, EndKeeps, RestartKeeps DEF KeysNext, KeysInv
<1> QED
  BY <1>2, KeysInitially, PTL

\* The file has what memory has unless a change is under way or a write failed, after a
\* refused update all but names, until the next write; and a key passes its limit by no more than the requests that ran together; for any number of
\* administrators, clients and keys.
THEOREM KeysAreKeptAndCounted == KeysInit /\ [][KeysNext]_keyVars => []KeysKeptAndCounted
<1>1. KeysInv => KeysKeptAndCounted
  BY DEF KeysInv, KeysKeptAndCounted
<1> QED
  BY <1>1, KeysCorrect, PTL

-----------------------------------------------------------------------------
(***************************************************************************)
(* ConfigUpdates, for any number of administrators and updates.            *)
(***************************************************************************)
\* Which setting each copy is of, as the handlers have it.
Mirrors ==
    {<<"token_manager.proxy", "proxy">>, <<"provider.global_proxy", "proxy">>,
     <<"client_api_key_runtime", "api_key">>,
     <<"require_api_key_runtime", "require_api_key">>,
     <<"admin_api_key_runtime", "admin_api_key">>, <<"thinking_config", "thinking">>,
     <<"provider.default_endpoint", "default_endpoint">>,
     <<"provider.endpoint_fallback", "endpoint_fallback">>,
     <<"prompt_filter_config", "prompt_filter">>,
     <<"converter.context_window", "context_window">>,
     <<"prompt_cache_runtime", "prompt_cache">>, <<"compression_config", "compression">>,
     <<"model_mapping_config", "model_mappings">>,
     <<"prompt_runtime.content", "system_prompt">>,
     <<"prompt_runtime.enabled", "enabled_presets">>,
     <<"prompt_runtime.user", "user_presets">>}

Reaches(h) ==
    /\ \A i \in DOMAIN Handler[h].effects :
           LET e == Handler[h].effects[i]
           IN  /\ i \in Nat
               /\ e.copy = "config" \/ <<e.copy, e.setting>> \in Mirrors
               /\ e.setting \in Assigned(h)
               /\ e.source = "request" => h # "update_endpoint_config"
    /\ \A m \in Mirrors : m[2] \in Assigned(h) =>
           \E i \in DOMAIN Handler[h].effects :
               Handler[h].effects[i].copy = m[1] /\ Handler[h].effects[i].setting = m[2]

LEMMA HandlerNames ==
    DOMAIN Handler = {"update_proxy_config", "update_access_settings", "update_common_config",
                      "update_thinking_config", "update_endpoint_config",
                      "update_prompt_filter_config", "update_global_config",
                      "update_model_mappings", "update_system_prompt", "upsert_user_preset",
                      "delete_user_preset"}
BY DEF Handler

LEMMA HandlersReach == \A h \in DOMAIN Handler : Reaches(h)
<1> SUFFICES ASSUME NEW h \in DOMAIN Handler PROVE Reaches(h)
  OBVIOUS
<1>1. CASE h = "update_proxy_config"
  <2>1. Handler[h] = UpdateProxyConfig
    BY <1>1 DEF Handler
  <2> QED
    BY <1>1, <2>1 DEF Reaches, Assigned, UpdateProxyConfig, To, Mirrors
<1>2. CASE h = "update_access_settings"
  <2>1. Handler[h] = UpdateAccessSettings
    BY <1>2 DEF Handler
  <2> QED
    BY <1>2, <2>1 DEF Reaches, Assigned, UpdateAccessSettings, To, Mirrors
<1>3. CASE h = "update_common_config"
  <2>1. Handler[h] = UpdateCommonConfig
    BY <1>3 DEF Handler
  <2> QED
    BY <1>3, <2>1 DEF Reaches, Assigned, UpdateCommonConfig, To, Mirrors
<1>4. CASE h = "update_thinking_config"
  <2>1. Handler[h] = UpdateThinkingConfig
    BY <1>4 DEF Handler
  <2> QED
    BY <1>4, <2>1 DEF Reaches, Assigned, UpdateThinkingConfig, To, Mirrors
<1>5. CASE h = "update_endpoint_config"
  <2>1. Handler[h] = UpdateEndpointConfig
    BY <1>5 DEF Handler
  <2> QED
    BY <1>5, <2>1 DEF Reaches, Assigned, UpdateEndpointConfig, To, Mirrors
<1>6. CASE h = "update_prompt_filter_config"
  <2>1. Handler[h] = UpdatePromptFilterConfig
    BY <1>6 DEF Handler
  <2> QED
    BY <1>6, <2>1 DEF Reaches, Assigned, UpdatePromptFilterConfig, To, Mirrors
<1>7. CASE h = "update_global_config"
  <2>1. Handler[h] = UpdateGlobalConfig
    BY <1>7 DEF Handler
  <2> QED
    BY <1>7, <2>1 DEF Reaches, Assigned, UpdateGlobalConfig, To, Mirrors
<1>8. CASE h = "update_model_mappings"
  <2>1. Handler[h] = UpdateModelMappings
    BY <1>8 DEF Handler
  <2> QED
    BY <1>8, <2>1 DEF Reaches, Assigned, UpdateModelMappings, To, Mirrors
<1>9. CASE h = "update_system_prompt"
  <2>1. Handler[h] = UpdateSystemPrompt
    BY <1>9 DEF Handler
  <2> QED
    BY <1>9, <2>1 DEF Reaches, Assigned, UpdateSystemPrompt, To, Mirrors
<1>10. CASE h = "upsert_user_preset"
  <2>1. Handler[h] = UpsertUserPreset
    BY <1>10 DEF Handler
  <2> QED
    BY <1>10, <2>1 DEF Reaches, Assigned, UpsertUserPreset, To, Mirrors
<1>11. CASE h = "delete_user_preset"
  <2>1. Handler[h] = DeleteUserPreset
    BY <1>11 DEF Handler
  <2> QED
    BY <1>11, <2>1 DEF Reaches, Assigned, DeleteUserPreset, To, Mirrors
<1> QED
  BY <1>1, <1>2, <1>3, <1>4, <1>5, <1>6, <1>7, <1>8, <1>9, <1>10, <1>11, HandlerNames

\* The copies are those of the table, each of one setting.
LEMMA CopiesMirror ==
    /\ CopyNames = {m[1] : m \in Mirrors}
    /\ \A m \in Mirrors : SettingOf[m[1]] = m[2]
    /\ "config" \notin CopyNames
    /\ \A c \in CopyNames : SettingOf[c] \in Settings
<1>1. \A m, n \in Mirrors : m[1] = n[1] => m[2] = n[2]
  BY DEF Mirrors
<1>2. \A e \in Copies : <<e.copy, e.setting>> \in Mirrors
  BY HandlersReach DEF Copies, Reaches
<1>3. \A m \in Mirrors : \E h \in DOMAIN Handler : m[2] \in Assigned(h)
  <2>1. "proxy" \in Assigned("update_proxy_config")
    BY DEF Handler, Assigned, UpdateProxyConfig
  <2>2. {"api_key", "require_api_key", "admin_api_key"} \subseteq Assigned("update_access_settings")
    BY DEF Handler, Assigned, UpdateAccessSettings
  <2>3. "thinking" \in Assigned("update_thinking_config")
    BY DEF Handler, Assigned, UpdateThinkingConfig
  <2>4. {"default_endpoint", "endpoint_fallback"} \subseteq Assigned("update_endpoint_config")
    BY DEF Handler, Assigned, UpdateEndpointConfig
  <2>5. "prompt_filter" \in Assigned("update_prompt_filter_config")
    BY DEF Handler, Assigned, UpdatePromptFilterConfig
  <2>6. {"prompt_cache", "compression", "context_window"} \subseteq Assigned("update_global_config")
    BY DEF Handler, Assigned, UpdateGlobalConfig
  <2>7. "model_mappings" \in Assigned("update_model_mappings")
    BY DEF Handler, Assigned, UpdateModelMappings
  <2>8. {"system_prompt", "enabled_presets"} \subseteq Assigned("update_system_prompt")
    BY DEF Handler, Assigned, UpdateSystemPrompt
  <2>9. "user_presets" \in Assigned("upsert_user_preset")
    BY DEF Handler, Assigned, UpsertUserPreset
  <2> QED
    BY <2>1, <2>2, <2>3, <2>4, <2>5, <2>6, <2>7, <2>8, <2>9, HandlerNames DEF Mirrors
<1>4. \A m \in Mirrors : \E e \in Copies : e.copy = m[1] /\ e.setting = m[2]
  <2> SUFFICES ASSUME NEW m \in Mirrors PROVE \E e \in Copies : e.copy = m[1] /\ e.setting = m[2]
    OBVIOUS
  <2>1. PICK h \in DOMAIN Handler : m[2] \in Assigned(h)
    BY <1>3
  <2>2. PICK i \in DOMAIN Handler[h].effects :
            Handler[h].effects[i].copy = m[1] /\ Handler[h].effects[i].setting = m[2]
    BY <2>1, HandlersReach DEF Reaches
  <2>3. m[1] # "config"
    BY DEF Mirrors
  <2> QED
    BY <2>2, <2>3 DEF Copies
<1>5. CopyNames = {m[1] : m \in Mirrors}
  <2>1. \A c \in CopyNames : \E m \in Mirrors : m[1] = c
    BY <1>2 DEF CopyNames
  <2> QED
    BY <1>4, <2>1 DEF CopyNames
<1>6. ASSUME NEW m \in Mirrors PROVE SettingOf[m[1]] = m[2]
  <2> DEFINE e == CHOOSE x \in Copies : x.copy = m[1]
  <2>1. e \in Copies /\ e.copy = m[1]
    BY <1>4
  <2>2. <<e.copy, e.setting>> \in Mirrors
    BY <2>1, <1>2
  <2>3. e.setting = m[2]
    BY <2>1, <2>2, <1>1
  <2> QED
    BY <2>3, <1>5 DEF SettingOf
<1>7. \A m \in Mirrors : m[2] \in Settings
  BY <1>3 DEF Settings
<1>8. \A m \in Mirrors : m[1] # "config"
  BY DEF Mirrors
<1> QED
  BY <1>5, <1>6, <1>7, <1>8

\* What of a handler its request touches, and brings up to date.
LEMMA RequestsTouch ==
    \A r \in Requests :
        /\ r.handler \in DOMAIN Handler /\ r.handler # "none"
        /\ r = [handler |-> r.handler, sent |-> r.sent]
        /\ r.sent \subseteq TouchedBy[r] /\ TouchedBy[r] \subseteq Settings
        /\ EffectsOf[r] \subseteq Nat
        /\ \A i \in EffectsOf[r] :
               LET e == Handler[r.handler].effects[i]
               IN  /\ e.setting \in TouchedBy[r]
                   /\ e.source = "request" => e.setting \in r.sent
                   /\ e.copy # "config" => e.copy \in CopyNames /\ SettingOf[e.copy] = e.setting
        /\ \A c \in CopyNames : SettingOf[c] \in TouchedBy[r] =>
               \E i \in EffectsOf[r] : Handler[r.handler].effects[i].copy = c
<1> SUFFICES ASSUME NEW r \in Requests
             PROVE  /\ r.handler \in DOMAIN Handler /\ r.handler # "none"
                    /\ r = [handler |-> r.handler, sent |-> r.sent]
                    /\ r.sent \subseteq TouchedBy[r] /\ TouchedBy[r] \subseteq Settings
                    /\ EffectsOf[r] \subseteq Nat
                    /\ \A i \in EffectsOf[r] :
                           LET e == Handler[r.handler].effects[i]
                           IN  /\ e.setting \in TouchedBy[r]
                               /\ e.source = "request" => e.setting \in r.sent
                               /\ e.copy # "config" =>
                                      e.copy \in CopyNames /\ SettingOf[e.copy] = e.setting
                    /\ \A c \in CopyNames : SettingOf[c] \in TouchedBy[r] =>
                           \E i \in EffectsOf[r] : Handler[r.handler].effects[i].copy = c
  OBVIOUS
<1>1. /\ r.handler \in DOMAIN Handler
      /\ r = [handler |-> r.handler, sent |-> r.sent]
      /\ r.sent \subseteq Assigned(r.handler)
  <2>1. PICK h \in DOMAIN Handler :
            r \in {[handler |-> h, sent |-> F] :
                      F \in {F \in SUBSET Assigned(h) :
                                /\ Assigned(h) \ Handler[h].optional \subseteq F
                                /\ Cardinality(F \cap Handler[h].optional) <= MaxFieldsSent}}
    BY Zenon DEF Requests
  <2>2. PICK F \in SUBSET Assigned(h) : r = [handler |-> h, sent |-> F]
    BY <2>1
  <2> QED
    BY <2>2
<1>2. r.handler # "none"
  BY <1>1, HandlerNames
<1>3. Reaches(r.handler)
  BY <1>1, HandlersReach
<1>4. "endpoint_fallback" \in Assigned("update_endpoint_config")
  BY DEF Handler, Assigned, UpdateEndpointConfig
<1>5. r.sent \subseteq TouchedBy[r] /\ TouchedBy[r] \subseteq Assigned(r.handler)
  BY <1>1, <1>4 DEF TouchedBy
<1>6. r.handler # "update_endpoint_config" => TouchedBy[r] = r.sent
  BY DEF TouchedBy
<1>7. TouchedBy[r] \subseteq Settings
  BY <1>1, <1>5 DEF Settings
<1>8. EffectsOf[r] = {i \in DOMAIN Handler[r.handler].effects :
                         Handler[r.handler].effects[i].setting \in TouchedBy[r]}
  BY DEF EffectsOf
<1>9. ASSUME NEW i \in EffectsOf[r]
      PROVE  LET e == Handler[r.handler].effects[i]
             IN  /\ i \in Nat /\ e.setting \in TouchedBy[r]
                 /\ e.source = "request" => e.setting \in r.sent
                 /\ e.copy # "config" => e.copy \in CopyNames /\ SettingOf[e.copy] = e.setting
  <2> DEFINE e == Handler[r.handler].effects[i]
  <2>1. /\ i \in Nat /\ e.setting \in TouchedBy[r]
        /\ e.copy = "config" \/ <<e.copy, e.setting>> \in Mirrors
        /\ e.source = "request" => r.handler # "update_endpoint_config"
    BY <1>3, <1>8 DEF Reaches
  <2>2. <<e.copy, e.setting>> \in Mirrors => e.copy \in CopyNames /\ SettingOf[e.copy] = e.setting
    <3> HIDE DEF e
    <3> SUFFICES ASSUME <<e.copy, e.setting>> \in Mirrors
                 PROVE  e.copy \in CopyNames /\ SettingOf[e.copy] = e.setting
      OBVIOUS
    <3>1. PICK m \in Mirrors : m = <<e.copy, e.setting>>
      OBVIOUS
    <3>2. m[1] = e.copy /\ m[2] = e.setting
      BY <3>1
    <3> QED
      BY <3>2, CopiesMirror
  <2> QED
    BY <2>1, <2>2, <1>6
<1>10. ASSUME NEW c \in CopyNames, SettingOf[c] \in TouchedBy[r]
       PROVE  \E i \in EffectsOf[r] : Handler[r.handler].effects[i].copy = c
  <2>1. PICK m \in Mirrors : m[1] = c
    BY CopiesMirror
  <2>2. SettingOf[c] = m[2]
    BY <2>1, CopiesMirror
  <2>3. m[2] \in Assigned(r.handler)
    BY <2>2, <1>5, <1>10
  <2>4. PICK i \in DOMAIN Handler[r.handler].effects :
            /\ Handler[r.handler].effects[i].copy = m[1]
            /\ Handler[r.handler].effects[i].setting = m[2]
    BY <2>3, <1>3 DEF Reaches
  <2> QED
    BY <2>1, <2>2, <2>4, <1>8, <1>10
<1> QED
  BY <1>1, <1>2, <1>5, <1>7, <1>9, <1>10

-----------------------------------------------------------------------------
(* The invariant. *)

Job ==
    [handler : DOMAIN Handler \cup {"none"}, sent : SUBSET Settings, n : Nat,
     step : {"none", "write", "read", "apply"}, read : {<<>>} \cup [Settings -> Nat],
     left : SUBSET Nat]

KnowsItsRequest(u) ==
    \/ u = NoUpdate
    \/ /\ RequestOf(u) \in Requests /\ u.step \in {"write", "read", "apply"}
       /\ u.step = "apply" => u.read \in [Settings -> Nat] /\ u.left \subseteq EffectsOf[RequestOf(u)]

ConfigTyped ==
    /\ config \in [Settings -> Nat] /\ configFile \in [Settings -> Nat]
    /\ copies \in [CopyNames -> Nat]
    /\ update \in [ConfigAdmins -> Job] /\ updates \in Nat
    /\ entangled \subseteq Settings
    /\ \A a \in ConfigAdmins : KnowsItsRequest(update[a])

\* Two updates touch a setting only if it is entangled.
OneWriter ==
    \A a, b \in ConfigAdmins : \A s \in Touches(update[a]) \cap Touches(update[b]) :
        a = b \/ s \in entangled

FileHasConfig == \A s \in Settings \ entangled : configFile[s] = config[s]

\* What an update has written, and read again, is what is there.
HasWritten(u) ==
    \A s \in Touches(u) \ entangled :
        /\ u.step \in {"read", "apply"} /\ s \in u.sent => config[s] = u.n
        /\ u.step = "apply" => u.read[s] = config[s]

\* A copy that is behind is one that an update is going to set.
WillSet(u, c) ==
    /\ SettingOf[c] \in Touches(u)
    /\ \/ u.step = "read"
       \/ u.step = "apply" /\ \E i \in u.left : EffectAt(u, i).copy = c

CopyFollows(c) ==
    \/ SettingOf[c] \in entangled
    \/ copies[c] = config[SettingOf[c]]
    \/ \E a \in ConfigAdmins : WillSet(update[a], c)

ConfigInv ==
    /\ ConfigTyped /\ OneWriter /\ FileHasConfig
    /\ \A a \in ConfigAdmins : HasWritten(update[a])
    /\ \A c \in CopyNames : CopyFollows(c)

LEMMA JobsTouch ==
    ASSUME NEW u, KnowsItsRequest(u)
    PROVE  /\ Touches(u) \subseteq Settings
           /\ u = NoUpdate => Touches(u) = {} /\ u.step = "none"
           /\ u # NoUpdate =>
                  /\ RequestOf(u) \in Requests /\ Touches(u) = TouchedBy[RequestOf(u)]
                  /\ u.sent \subseteq Touches(u) /\ u.step # "none"
                  /\ RequestOf(u).handler = u.handler /\ RequestOf(u).sent = u.sent
<1>1. CASE u = NoUpdate
  BY <1>1 DEF NoUpdate, Touches
<1>2. CASE u # NoUpdate
  <2>1. RequestOf(u) \in Requests /\ u.step \in {"write", "read", "apply"}
    BY <1>2 DEF KnowsItsRequest
  <2>2. RequestOf(u).handler = u.handler /\ RequestOf(u).sent = u.sent
    BY DEF RequestOf
  <2>3. Touches(u) = TouchedBy[RequestOf(u)]
    BY <2>1, <2>2, RequestsTouch DEF Touches
  <2> QED
    BY <1>2, <2>1, <2>2, <2>3, RequestsTouch
<1> QED
  BY <1>1, <1>2

\* What is touched depends on the request alone.
LEMMA SameTouches ==
    \A u, v : u.handler = v.handler /\ u.sent = v.sent =>
        Touches(u) = Touches(v) /\ RequestOf(u) = RequestOf(v)
BY DEF Touches, RequestOf

LEMMA ConfigBegins == ConfigInit => ConfigInv
<1> SUFFICES ASSUME ConfigInit PROVE ConfigInv
  OBVIOUS
<1>1. \A c \in CopyNames : SettingOf[c] \in Settings
  BY CopiesMirror
<1>2. NoUpdate \in Job
  BY DEF NoUpdate, Job
<1>3. ConfigTyped
  BY <1>2 DEF ConfigInit, ConfigTyped, KnowsItsRequest
<1>4. \A a \in ConfigAdmins : Touches(update[a]) = {}
  BY DEF ConfigInit, Touches, NoUpdate
<1> QED
  BY <1>1, <1>3, <1>4 DEF ConfigInit, ConfigInv, OneWriter, FileHasConfig, HasWritten, CopyFollows

-----------------------------------------------------------------------------
(* Each step keeps it. *)

\* What a step of a does to the updates: the others keep theirs.
Moves(a) == \A b \in ConfigAdmins \ {a} : update'[b] = update[b]

\* The update of a goes on.
LEMMA GoesOn ==
    ASSUME ConfigTyped, NEW a \in ConfigAdmins, update[a] # NoUpdate,
           update' \in [ConfigAdmins -> Job], Moves(a),
           update'[a].handler = update[a].handler, update'[a].sent = update[a].sent,
           update'[a].step \in {"write", "read", "apply"},
           update'[a].step = "apply" =>
               /\ update'[a].read \in [Settings -> Nat]
               /\ update'[a].left \subseteq EffectsOf[RequestOf(update[a])],
           OneWriter, UNCHANGED entangled
    PROVE  /\ \A b \in ConfigAdmins : Touches(update'[b]) = Touches(update[b])
           /\ \A b \in ConfigAdmins : KnowsItsRequest(update'[b])
           /\ OneWriter'
<1>1. \A b \in ConfigAdmins : KnowsItsRequest(update[b])
  BY DEF ConfigTyped
<1>2. RequestOf(update'[a]) = RequestOf(update[a]) /\ Touches(update'[a]) = Touches(update[a])
  BY SameTouches
<1>3. RequestOf(update[a]) \in Requests
  BY <1>1, JobsTouch
<1>4. KnowsItsRequest(update'[a])
  BY <1>2, <1>3 DEF KnowsItsRequest
<1>5. \A b \in ConfigAdmins : Touches(update'[b]) = Touches(update[b])
  BY <1>2 DEF Moves
<1>6. \A b \in ConfigAdmins : KnowsItsRequest(update'[b])
  BY <1>1, <1>4 DEF Moves
<1> QED
  BY <1>5, <1>6 DEF OneWriter

LEMMA BeginUpdateKeeps ==
    ASSUME ConfigInv, NEW a \in ConfigAdmins, NEW r \in Requests, BeginUpdateOf(a, r)
    PROVE  ConfigInv'
<1> DEFINE v == [handler |-> r.handler, sent |-> r.sent, n |-> updates + 1, step |-> "write",
                 read |-> <<>>, left |-> {}]
<1>1. /\ v.handler = r.handler /\ v.sent = r.sent /\ v.n = updates + 1 /\ v.step = "write"
      /\ v.read = <<>> /\ v.left = {}
  OBVIOUS
<1>2. v \in Job
  <2>1. r.handler \in DOMAIN Handler /\ r.sent \subseteq Settings /\ updates \in Nat
    BY RequestsTouch DEF ConfigInv, ConfigTyped
  <2> QED
    BY <2>1 DEF Job
<1>3. RequestOf(v) = r /\ Touches(v) = TouchedBy[r]
  <2>1. RequestOf(v) = r
    BY <1>1, RequestsTouch DEF RequestOf
  <2> QED
    BY <2>1, <1>1, RequestsTouch DEF Touches
<1>4. KnowsItsRequest(v)
  BY <1>1, <1>3 DEF KnowsItsRequest
<1> HIDE DEF v
<1>5. update' = [update EXCEPT ![a] = v] /\ updates' = updates + 1
  BY DEF BeginUpdateOf, v
<1>6. update' \in [ConfigAdmins -> Job] /\ update'[a] = v /\ Moves(a)
  BY <1>2, <1>5 DEF ConfigInv, ConfigTyped, Moves
<1>7. /\ \A s \in entangled : s \in entangled'
      /\ \A b \in ConfigAdmins \ {a} : \A s \in TouchedBy[r] \cap Touches(update[b]) : s \in entangled'
      /\ entangled' \subseteq Settings
  BY RequestsTouch DEF BeginUpdateOf, ConfigInv, ConfigTyped
<1>8. update[a] = NoUpdate /\ UNCHANGED <<config, configFile, copies>>
  BY DEF BeginUpdateOf
<1>9. ConfigTyped'
  BY <1>4, <1>5, <1>6, <1>7, <1>8 DEF ConfigInv, ConfigTyped, Moves
<1>10. OneWriter'
  BY <1>3, <1>6, <1>7 DEF OneWriter, Moves, ConfigInv
<1>11. FileHasConfig'
  BY <1>7, <1>8 DEF FileHasConfig, ConfigInv
<1>12. \A b \in ConfigAdmins : HasWritten(update[b])'
  <2>1. HasWritten(update[a])'
    BY <1>1, <1>6 DEF HasWritten
  <2> QED
    BY <2>1, <1>6, <1>7, <1>8 DEF HasWritten, Moves, ConfigInv
<1>13. \A c \in CopyNames : CopyFollows(c)'
  <2>1. ~\E c \in CopyNames : WillSet(update[a], c)
    BY <1>8 DEF WillSet, Touches, NoUpdate
  <2> QED
    BY <2>1, <1>6, <1>7, <1>8 DEF CopyFollows, WillSet, Moves, ConfigInv
<1> QED
  BY <1>9, <1>10, <1>11, <1>12, <1>13 DEF ConfigInv

\* The update of a is over: it touches nothing any more.
LEMMA EndsUpdate ==
    ASSUME ConfigTyped, NEW a \in ConfigAdmins, update' = [update EXCEPT ![a] = NoUpdate],
           OneWriter, \A s \in entangled : s \in entangled'
    PROVE  /\ update' \in [ConfigAdmins -> Job] /\ Moves(a)
           /\ \A b \in ConfigAdmins : KnowsItsRequest(update'[b])
           /\ OneWriter' /\ update'[a] = NoUpdate /\ Touches(update'[a]) = {}
<1>1. NoUpdate \in Job
  BY DEF NoUpdate, Job
<1>2. update' \in [ConfigAdmins -> Job] /\ Moves(a) /\ update'[a] = NoUpdate
  BY <1>1 DEF ConfigTyped, Moves
<1>3. Touches(update'[a]) = {}
  BY <1>2 DEF Touches, NoUpdate
<1> QED
  BY <1>2, <1>3 DEF ConfigTyped, KnowsItsRequest, OneWriter, Moves

LEMMA RefuseKeeps ==
    ASSUME ConfigInv, NEW a \in ConfigAdmins, Refuse(a)
    PROVE  ConfigInv'
<1>1. PICK assigned \in SUBSET Settings :
          /\ config' = [s \in Settings |-> IF s \in assigned THEN update[a].n ELSE config[s]]
          /\ entangled' = entangled \cup assigned
  <2> DEFINE h == Handler[update[a].handler]
             Those(upTo) == {h.assigns[i] : i \in 1 .. upTo - 1} \cap update[a].sent
  <2>1. PICK upTo \in 1 .. Len(h.assigns) + 1 :
            /\ config' = [s \in Settings |-> IF s \in Those(upTo) THEN update[a].n ELSE config[s]]
            /\ entangled' = entangled \cup Those(upTo)
    BY DEF Refuse
  <2>2. update[a].sent \subseteq Settings
    BY DEF ConfigInv, ConfigTyped, Job
  <2>3. Those(upTo) \in SUBSET Settings
    BY <2>2
  <2> HIDE DEF Those
  <2> QED
    BY <2>1, <2>3
<1>2. /\ update[a].step = "write" /\ update' = [update EXCEPT ![a] = NoUpdate]
      /\ UNCHANGED <<configFile, copies, updates>>
  BY DEF Refuse
<1>3. ConfigTyped /\ OneWriter
  BY DEF ConfigInv
<1>4. /\ update' \in [ConfigAdmins -> Job] /\ Moves(a)
      /\ \A b \in ConfigAdmins : KnowsItsRequest(update'[b])
      /\ OneWriter' /\ update'[a] = NoUpdate /\ Touches(update'[a]) = {}
  BY <1>1, <1>2, <1>3, EndsUpdate
<1>5. update[a].n \in Nat
  BY <1>3 DEF ConfigTyped, Job
<1>6. /\ config' \in [Settings -> Nat] /\ entangled \subseteq entangled'
      /\ \A s \in Settings \ entangled' : config'[s] = config[s]
  BY <1>1, <1>3, <1>5 DEF ConfigTyped
<1>7. ConfigTyped'
  BY <1>1, <1>2, <1>3, <1>4, <1>6 DEF ConfigTyped
<1>8. FileHasConfig'
  BY <1>2, <1>6 DEF FileHasConfig, ConfigInv
<1>9. \A b \in ConfigAdmins : Touches(update[b]) \subseteq Settings
  BY <1>3, JobsTouch DEF ConfigTyped
<1>10. \A b \in ConfigAdmins : HasWritten(update[b])'
  <2>1. HasWritten(update[a])'
    BY <1>4 DEF HasWritten
  <2> QED
    BY <2>1, <1>4, <1>6, <1>9 DEF HasWritten, Moves, ConfigInv
<1>11. \A c \in CopyNames : CopyFollows(c)'
  BY <1>2, <1>4, <1>6, CopiesMirror DEF CopyFollows, WillSet, Moves, ConfigInv
<1> QED
  BY <1>4, <1>7, <1>8, <1>10, <1>11 DEF ConfigInv

LEMMA AnswerKeeps ==
    ASSUME ConfigInv, NEW a \in ConfigAdmins, AnswerUpdate(a)
    PROVE  ConfigInv'
<1>1. /\ update[a].step = "apply" /\ update[a].left = {}
      /\ update' = [update EXCEPT ![a] = NoUpdate]
      /\ UNCHANGED <<config, configFile, copies, updates, entangled>>
  BY DEF AnswerUpdate
<1>2. /\ update' \in [ConfigAdmins -> Job] /\ Moves(a)
      /\ \A b \in ConfigAdmins : KnowsItsRequest(update'[b])
      /\ OneWriter' /\ update'[a] = NoUpdate /\ Touches(update'[a]) = {}
  BY <1>1, EndsUpdate DEF ConfigInv
<1>3. ConfigTyped' /\ FileHasConfig'
  BY <1>1, <1>2 DEF ConfigTyped, FileHasConfig, ConfigInv
<1>4. \A b \in ConfigAdmins : HasWritten(update[b])'
  BY <1>1, <1>2 DEF HasWritten, Moves, ConfigInv
<1>5. \A c \in CopyNames : CopyFollows(c)'
  BY <1>1, <1>2 DEF CopyFollows, WillSet, Moves, ConfigInv
<1> QED
  BY <1>2, <1>3, <1>4, <1>5 DEF ConfigInv

LEMMA SaveKeeps ==
    ASSUME ConfigInv, NEW a \in ConfigAdmins, Save(a)
    PROVE  ConfigInv'
<1> DEFINE F == update[a].sent
<1>1. /\ update[a].step = "write" /\ update' = [update EXCEPT ![a].step = "read"]
      /\ config' = [s \in Settings |-> IF s \in F THEN update[a].n ELSE config[s]]
      /\ configFile' = config' /\ UNCHANGED <<copies, updates, entangled>>
  BY DEF Save
<1>2. ConfigTyped /\ OneWriter /\ update[a] \in Job /\ KnowsItsRequest(update[a])
  BY DEF ConfigInv, ConfigTyped
<1>3. update[a] # NoUpdate
  BY <1>1 DEF NoUpdate
<1>4. /\ update' \in [ConfigAdmins -> Job] /\ Moves(a)
      /\ update'[a].handler = update[a].handler /\ update'[a].sent = F
      /\ update'[a].n = update[a].n /\ update'[a].step = "read"
  BY <1>1, <1>2 DEF ConfigTyped, Job, Moves
<1>5. /\ \A b \in ConfigAdmins : Touches(update'[b]) = Touches(update[b])
      /\ \A b \in ConfigAdmins : KnowsItsRequest(update'[b])
      /\ OneWriter'
  BY <1>1, <1>2, <1>3, <1>4, GoesOn
<1>6. F \subseteq Touches(update[a]) /\ Touches(update[a]) \subseteq Settings /\ update[a].n \in Nat
  BY <1>2, <1>3, JobsTouch DEF Job
<1>7. /\ config' \in [Settings -> Nat]
      /\ \A s \in F : config'[s] = update[a].n
      /\ \A s \in Settings \ F : config'[s] = config[s]
  BY <1>1, <1>2, <1>6 DEF ConfigTyped
<1>8. ConfigTyped' /\ FileHasConfig'
  BY <1>1, <1>2, <1>4, <1>5, <1>7 DEF ConfigTyped, FileHasConfig
<1>9. \A b \in ConfigAdmins : HasWritten(update[b])'
  <2>1. HasWritten(update[a])'
    BY <1>4, <1>7 DEF HasWritten
  <2>2. ASSUME NEW b \in ConfigAdmins \ {a} PROVE HasWritten(update[b])'
    <3>1. \A s \in Touches(update[b]) \ entangled : s \in Settings \ F
      BY <1>2, <1>6, JobsTouch DEF OneWriter, ConfigTyped
    <3> QED
      BY <1>1, <1>4, <1>5, <1>7, <3>1 DEF HasWritten, Moves, ConfigInv
  <2> QED
    BY <2>1, <2>2
<1>10. ASSUME NEW c \in CopyNames PROVE CopyFollows(c)'
  <2>1. SettingOf[c] \in Settings
    BY CopiesMirror
  <2>2. CASE SettingOf[c] \in F
    BY <1>4, <1>5, <1>6, <2>2 DEF CopyFollows, WillSet
  <2>3. CASE SettingOf[c] \notin F
    BY <1>1, <1>4, <1>5, <1>7, <2>1, <2>3 DEF CopyFollows, WillSet, Moves, ConfigInv
  <2> QED
    BY <2>2, <2>3
<1> QED
  BY <1>5, <1>8, <1>9, <1>10 DEF ConfigInv

LEMMA ReadAgainKeeps ==
    ASSUME ConfigInv, NEW a \in ConfigAdmins, ReadAgain(a)
    PROVE  ConfigInv'
<1>1. /\ update[a].step = "read"
      /\ update' = [update EXCEPT ![a].step = "apply", ![a].read = config,
                                  ![a].left = EffectsOf[RequestOf(update[a])]]
      /\ UNCHANGED <<config, configFile, copies, updates, entangled>>
  BY DEF ReadAgain
<1>2. /\ ConfigTyped /\ OneWriter /\ update[a] \in Job /\ KnowsItsRequest(update[a])
      /\ config \in [Settings -> Nat]
  BY DEF ConfigInv, ConfigTyped
<1>3. update[a] # NoUpdate
  BY <1>1 DEF NoUpdate
<1>4. RequestOf(update[a]) \in Requests /\ EffectsOf[RequestOf(update[a])] \in SUBSET Nat
  BY <1>2, <1>3, JobsTouch, RequestsTouch
<1>5. /\ update' \in [ConfigAdmins -> Job] /\ Moves(a)
      /\ update'[a].handler = update[a].handler /\ update'[a].sent = update[a].sent
      /\ update'[a].n = update[a].n /\ update'[a].step = "apply" /\ update'[a].read = config
      /\ update'[a].left = EffectsOf[RequestOf(update[a])]
  BY <1>1, <1>2, <1>4 DEF ConfigTyped, Job, Moves
<1>6. /\ \A b \in ConfigAdmins : Touches(update'[b]) = Touches(update[b])
      /\ \A b \in ConfigAdmins : KnowsItsRequest(update'[b])
      /\ OneWriter'
  BY <1>1, <1>2, <1>3, <1>5, GoesOn
<1>7. ConfigTyped' /\ FileHasConfig'
  BY <1>1, <1>2, <1>5, <1>6 DEF ConfigTyped, FileHasConfig, ConfigInv
<1>8. \A b \in ConfigAdmins : HasWritten(update[b])'
  <2>1. HasWritten(update[a])'
    BY <1>1, <1>5, <1>6 DEF HasWritten, ConfigInv
  <2> QED
    BY <2>1, <1>1, <1>5 DEF HasWritten, Moves, ConfigInv
<1>9. ASSUME NEW c \in CopyNames PROVE CopyFollows(c)'
  <2>1. WillSet(update[a], c) => WillSet(update'[a], c)
    <3> SUFFICES ASSUME WillSet(update[a], c) PROVE WillSet(update'[a], c)
      OBVIOUS
    <3>1. SettingOf[c] \in TouchedBy[RequestOf(update[a])]
      BY <1>2, <1>3, JobsTouch DEF WillSet
    <3>2. PICK i \in EffectsOf[RequestOf(update[a])] :
              Handler[RequestOf(update[a]).handler].effects[i].copy = c
      BY <1>4, <3>1, RequestsTouch
    <3>3. EffectAt(update'[a], i).copy = c
      BY <1>2, <1>3, <1>5, <3>2, JobsTouch DEF EffectAt
    <3> QED
      BY <1>5, <1>6, <3>2, <3>3 DEF WillSet
  <2> QED
    BY <1>1, <1>5, <2>1 DEF CopyFollows, Moves, ConfigInv
<1> QED
  BY <1>6, <1>7, <1>8, <1>9 DEF ConfigInv

LEMMA ApplyKeeps ==
    ASSUME ConfigInv, NEW a \in ConfigAdmins, Apply(a)
    PROVE  ConfigInv'
<1>1. PICK i \in update[a].left :
          /\ update[a].step = "apply"
          /\ IF EffectAt(update[a], i).copy = "config"
                THEN /\ config' = [config EXCEPT ![EffectAt(update[a], i).setting] =
                                      ValueFor(update[a], EffectAt(update[a], i))]
                     /\ UNCHANGED copies
                ELSE /\ copies' = [copies EXCEPT ![EffectAt(update[a], i).copy] =
                                      ValueFor(update[a], EffectAt(update[a], i))]
                     /\ UNCHANGED config
          /\ update' = [update EXCEPT ![a].left = @ \ {i}]
          /\ UNCHANGED <<configFile, updates, refused, entangled>>
  BY DEF Apply, IsNext
<1>2. /\ ConfigTyped /\ OneWriter /\ update[a] \in Job /\ KnowsItsRequest(update[a])
      /\ \A b \in ConfigAdmins : HasWritten(update[b])
  BY DEF ConfigInv, ConfigTyped
<1>3. update[a] # NoUpdate
  BY <1>1 DEF NoUpdate
<1>4. /\ RequestOf(update[a]) \in Requests
      /\ update[a].read \in [Settings -> Nat]
      /\ update[a].left \subseteq EffectsOf[RequestOf(update[a])]
  BY <1>1, <1>2, <1>3 DEF KnowsItsRequest
<1>5. /\ update' \in [ConfigAdmins -> Job] /\ Moves(a)
      /\ update'[a].handler = update[a].handler /\ update'[a].sent = update[a].sent
      /\ update'[a].n = update[a].n /\ update'[a].step = "apply"
      /\ update'[a].read = update[a].read /\ update'[a].left = update[a].left \ {i}
  BY <1>1, <1>2 DEF ConfigTyped, Job, Moves
<1>6. /\ \A b \in ConfigAdmins : Touches(update'[b]) = Touches(update[b])
      /\ \A b \in ConfigAdmins : KnowsItsRequest(update'[b])
      /\ OneWriter'
  BY <1>1, <1>2, <1>3, <1>4, <1>5, GoesOn
<1> DEFINE e == EffectAt(update[a], i)
           w == ValueFor(update[a], e)
<1>7. /\ e.setting \in Touches(update[a]) /\ e.setting \in Settings
      /\ e.source = "request" => e.setting \in update[a].sent
      /\ e.copy # "config" => e.copy \in CopyNames /\ SettingOf[e.copy] = e.setting
  <2> DEFINE q == RequestOf(update[a])
  <2>1. /\ q \in Requests /\ Touches(update[a]) = TouchedBy[q] /\ q.sent = update[a].sent
        /\ q.handler = update[a].handler
    BY <1>2, <1>3, JobsTouch
  <2>2. e = Handler[q.handler].effects[i]
    BY <2>1 DEF EffectAt
  <2>3. i \in EffectsOf[q]
    BY <1>1, <1>4
  <2> HIDE DEF q, e
  <2>4. /\ e.setting \in TouchedBy[q] /\ TouchedBy[q] \subseteq Settings
        /\ e.source = "request" => e.setting \in q.sent
        /\ e.copy # "config" => e.copy \in CopyNames /\ SettingOf[e.copy] = e.setting
    BY <2>1, <2>2, <2>3, RequestsTouch, Zenon
  <2> QED
    BY <2>1, <2>4
<1>8. w \in Nat /\ (e.setting \notin entangled => w = config[e.setting])
  BY <1>1, <1>2, <1>4, <1>7 DEF ValueFor, HasWritten, Job
<1> HIDE DEF e, w
<1>9. /\ e.copy = "config" => config' = [config EXCEPT ![e.setting] = w] /\ copies' = copies
      /\ e.copy # "config" => copies' = [copies EXCEPT ![e.copy] = w] /\ config' = config
  BY <1>1 DEF e, w
<1>10. /\ config' \in [Settings -> Nat] /\ copies' \in [CopyNames -> Nat]
       /\ \A s \in Settings \ entangled : config'[s] = config[s]
       /\ \A c \in CopyNames : c # e.copy => copies'[c] = copies[c]
       /\ e.copy \in CopyNames => copies'[e.copy] = w
  BY <1>2, <1>7, <1>8, <1>9, CopiesMirror DEF ConfigTyped
<1>11. ConfigTyped' /\ FileHasConfig'
  BY <1>1, <1>2, <1>5, <1>6, <1>10 DEF ConfigTyped, FileHasConfig, ConfigInv
<1>12. ASSUME NEW b \in ConfigAdmins PROVE HasWritten(update[b])'
  <2>1. Touches(update[b]) \subseteq Settings
    BY <1>2, JobsTouch DEF ConfigTyped
  <2>2. /\ update'[b].step = update[b].step /\ update'[b].n = update[b].n
        /\ update'[b].sent = update[b].sent /\ update'[b].read = update[b].read
    BY <1>1, <1>5 DEF Moves
  <2>3. Touches(update'[b]) = Touches(update[b]) /\ entangled' = entangled /\ HasWritten(update[b])
    BY <1>1, <1>2, <1>6
  <2> QED
    BY <1>10, <2>1, <2>2, <2>3 DEF HasWritten
<1>13. ASSUME NEW c \in CopyNames PROVE CopyFollows(c)'
  <2>1. SettingOf[c] \in Settings /\ entangled' = entangled
    BY <1>1, CopiesMirror
  <2>2. CASE c = e.copy
    BY <1>7, <1>8, <1>10, <2>1, <2>2, CopiesMirror DEF CopyFollows
  <2>3. CASE c # e.copy
    <3>1. WillSet(update[a], c) => WillSet(update'[a], c)
      <4> SUFFICES ASSUME WillSet(update[a], c) PROVE WillSet(update'[a], c)
        OBVIOUS
      <4>1. PICK j \in update[a].left : EffectAt(update[a], j).copy = c
        BY <1>1 DEF WillSet
      <4>2. j \in update'[a].left
        BY <1>5, <2>3, <4>1 DEF e
      <4>3. EffectAt(update'[a], j).copy = c
        BY <1>5, <4>1 DEF EffectAt
      <4> QED
        BY <1>5, <1>6, <4>2, <4>3 DEF WillSet
    <3> QED
      BY <1>5, <1>10, <2>1, <2>3, <3>1 DEF CopyFollows, Moves, ConfigInv
  <2> QED
    BY <2>2, <2>3
<1> QED
  BY <1>6, <1>11, <1>12, <1>13 DEF ConfigInv

LEMMA FromFileKeeps == ASSUME ConfigInv, RestartFromFile PROVE ConfigInv'
<1>1. /\ config' = configFile /\ configFile' = configFile /\ entangled' = {}
      /\ copies' = [c \in CopyNames |-> configFile[SettingOf[c]]]
      /\ update' = [a \in ConfigAdmins |-> NoUpdate] /\ updates' = updates
  BY DEF RestartFromFile
<1>2. NoUpdate \in Job /\ Touches(NoUpdate) = {}
  BY DEF NoUpdate, Job, Touches
<1>3. ConfigTyped'
  BY <1>1, <1>2, CopiesMirror DEF ConfigInv, ConfigTyped, KnowsItsRequest
<1> QED
  BY <1>1, <1>2, <1>3 DEF ConfigInv, OneWriter, FileHasConfig, HasWritten, CopyFollows

\* The inductive invariant: two updates write one setting only if it is entangled; any
\* other is in the file as it is in the configuration, an update under way has read
\* it so, and a copy of it that is behind is one the update has still to set.
THEOREM ConfigCorrect == ConfigSpec => []ConfigInv
<1>1. ConfigInv /\ [ConfigNext]_configVarsAll => ConfigInv'
  <2> SUFFICES ASSUME ConfigInv, [ConfigNext]_configVarsAll PROVE ConfigInv'
    OBVIOUS
  <2>1. CASE RestartFromFile
    BY <2>1, FromFileKeeps
  <2>2. ASSUME NEW a \in ConfigAdmins, UpdateStep(a) PROVE ConfigInv'
    BY <2>2, BeginUpdateKeeps, RefuseKeeps, SaveKeeps, ReadAgainKeeps, ApplyKeeps, AnswerKeeps
       DEF UpdateStep
  <2>3. CASE UNCHANGED configVarsAll
    BY <2>3 DEF configVarsAll, ConfigInv, ConfigTyped, OneWriter, FileHasConfig, HasWritten,
                CopyFollows
  <2> QED
    BY <2>1, <2>2, <2>3 DEF ConfigNext
<1> QED
  BY <1>1, ConfigBegins, PTL DEF ConfigSpec

\* For any number of administrators and updates, refused or cut off or not: a setting
\* nobody is changing, that no two updates wrote at once and none left half changed, is
\* the same in the configuration, in its file and in every copy (with_config_mut
\* of kiro/token_manager.rs, the update handlers of admin/service.rs).
THEOREM CopiesDoFollow == ConfigSpec => []CopiesFollowConfig
<1>1. ConfigInv => CopiesFollowConfig
  <2> SUFFICES ASSUME ConfigInv PROVE CopiesFollowConfig
    OBVIOUS
  <2>1. \A c \in CopyNames : CopyFollows(c)
    BY DEF ConfigInv
  <2> QED
    BY <2>1 DEF CopiesFollowConfig, ConfigInv, FileHasConfig, CopyFollows, WillSet
<1> QED
  BY <1>1, ConfigCorrect, PTL

-----------------------------------------------------------------------------
(***************************************************************************)
(* ApiRegionRepair, for any file, any configuration and any calls of the   *)
(* command.  First what FirstSaid finds in the lists of the two programs;  *)
(* then that the rules of the command are right by those of the program;   *)
(* then what the file, its copies and the history have to do with one      *)
(* another while a call is under way.                                      *)
(***************************************************************************)
LEMMA FirstOf ==
    ASSUME NEW s, NEW n \in Nat, DOMAIN s = 1 .. n, NEW k \in 1 .. n, s[k] # Blank,
           \A j \in 1 .. k - 1 : s[j] = Blank
    PROVE  FirstSaid(s) = s[k]
<1> DEFINE said == {i \in DOMAIN s : s[i] # Blank}
<1>1. k \in said
  OBVIOUS
<1>2. ASSUME NEW j \in said PROVE j \in Nat /\ k <= j
  <2>1. j \in 1 .. n /\ s[j] # Blank
    OBVIOUS
  <2>2. j \notin 1 .. k - 1
    BY <2>1
  <2> QED
    BY <2>1, <2>2
<1> HIDE DEF said
<1>3. \A i \in said : (\A j \in said : i <= j) => i = k
  BY <1>1, <1>2
<1>4. (CHOOSE i \in said : \A j \in said : i <= j) = k
  BY <1>1, <1>2, <1>3
<1>5. said # {}
  BY <1>1
<1>6. FirstSaid(s) = IF said = {} THEN Blank ELSE s[CHOOSE i \in said : \A j \in said : i <= j]
  BY DEF FirstSaid, said
<1> QED
  BY <1>4, <1>5, <1>6

LEMMA NoneOf ==
    ASSUME NEW s, \A i \in DOMAIN s : s[i] = Blank PROVE FirstSaid(s) = Blank
  BY DEF FirstSaid

LEMMA FirstOfTwo ==
    ASSUME NEW a, NEW b
    PROVE  FirstSaid(<<a, b>>) =
               IF a # Blank THEN a ELSE b
<1> DEFINE s == <<a, b>>
<1>0. DOMAIN s = 1 .. 2 /\ s[1] = a /\ s[2] = b
  OBVIOUS
<1> SUFFICES FirstSaid(s) =
                 IF a # Blank THEN a ELSE b
  OBVIOUS
<1> HIDE DEF s
<1>1. CASE a # Blank
  <2>1. 1 \in 1 .. 2 /\ s[1] # Blank /\ \A j \in 1 .. 1 - 1 : s[j] = Blank
    BY <1>0, <1>1
  <2>2. FirstSaid(s) = s[1]
    BY <1>0, <2>1, FirstOf
  <2> QED
    BY <1>0, <1>1, <2>2
<1>2. CASE a = Blank /\ b # Blank
  <2>1. 2 \in 1 .. 2 /\ s[2] # Blank /\ \A j \in 1 .. 2 - 1 : s[j] = Blank
    BY <1>0, <1>2
  <2>2. FirstSaid(s) = s[2]
    BY <1>0, <2>1, FirstOf
  <2> QED
    BY <1>0, <1>2, <2>2
<1>3. CASE a = Blank /\ b = Blank
  <2>1. FirstSaid(s) = Blank
    BY <1>0, <1>3, NoneOf
  <2> QED
    BY <1>3, <2>1
<1> QED
  BY <1>1, <1>2, <1>3

LEMMA FirstOfThree ==
    ASSUME NEW a, NEW b, NEW c
    PROVE  FirstSaid(<<a, b, c>>) =
               IF a # Blank THEN a ELSE IF b # Blank THEN b ELSE c
<1> DEFINE s == <<a, b, c>>
<1>0. DOMAIN s = 1 .. 3 /\ s[1] = a /\ s[2] = b /\ s[3] = c
  OBVIOUS
<1> SUFFICES FirstSaid(s) =
                 IF a # Blank THEN a ELSE IF b # Blank THEN b ELSE c
  OBVIOUS
<1> HIDE DEF s
<1>1. CASE a # Blank
  <2>1. 1 \in 1 .. 3 /\ s[1] # Blank /\ \A j \in 1 .. 1 - 1 : s[j] = Blank
    BY <1>0, <1>1
  <2>2. FirstSaid(s) = s[1]
    BY <1>0, <2>1, FirstOf
  <2> QED
    BY <1>0, <1>1, <2>2
<1>2. CASE a = Blank /\ b # Blank
  <2>1. 2 \in 1 .. 3 /\ s[2] # Blank /\ \A j \in 1 .. 2 - 1 : s[j] = Blank
    BY <1>0, <1>2
  <2>2. FirstSaid(s) = s[2]
    BY <1>0, <2>1, FirstOf
  <2> QED
    BY <1>0, <1>2, <2>2
<1>3. CASE a = Blank /\ b = Blank /\ c # Blank
  <2>1. 3 \in 1 .. 3 /\ s[3] # Blank /\ \A j \in 1 .. 3 - 1 : s[j] = Blank
    BY <1>0, <1>3
  <2>2. FirstSaid(s) = s[3]
    BY <1>0, <2>1, FirstOf
  <2> QED
    BY <1>0, <1>3, <2>2
<1>4. CASE a = Blank /\ b = Blank /\ c = Blank
  <2>1. FirstSaid(s) = Blank
    BY <1>0, <1>4, NoneOf
  <2> QED
    BY <1>4, <2>1
<1> QED
  BY <1>1, <1>2, <1>3, <1>4

LEMMA FirstOfFour ==
    ASSUME NEW a, NEW b, NEW c, NEW d
    PROVE  FirstSaid(<<a, b, c, d>>) =
               IF a # Blank THEN a ELSE IF b # Blank THEN b ELSE IF c # Blank THEN c ELSE d
<1> DEFINE s == <<a, b, c, d>>
<1>0. DOMAIN s = 1 .. 4 /\ s[1] = a /\ s[2] = b /\ s[3] = c /\ s[4] = d
  OBVIOUS
<1> SUFFICES FirstSaid(s) =
                 IF a # Blank THEN a ELSE IF b # Blank THEN b ELSE IF c # Blank THEN c ELSE d
  OBVIOUS
<1> HIDE DEF s
<1>1. CASE a # Blank
  <2>1. 1 \in 1 .. 4 /\ s[1] # Blank /\ \A j \in 1 .. 1 - 1 : s[j] = Blank
    BY <1>0, <1>1
  <2>2. FirstSaid(s) = s[1]
    BY <1>0, <2>1, FirstOf
  <2> QED
    BY <1>0, <1>1, <2>2
<1>2. CASE a = Blank /\ b # Blank
  <2>1. 2 \in 1 .. 4 /\ s[2] # Blank /\ \A j \in 1 .. 2 - 1 : s[j] = Blank
    BY <1>0, <1>2
  <2>2. FirstSaid(s) = s[2]
    BY <1>0, <2>1, FirstOf
  <2> QED
    BY <1>0, <1>2, <2>2
<1>3. CASE a = Blank /\ b = Blank /\ c # Blank
  <2>1. 3 \in 1 .. 4 /\ s[3] # Blank /\ \A j \in 1 .. 3 - 1 : s[j] = Blank
    BY <1>0, <1>3
  <2>2. FirstSaid(s) = s[3]
    BY <1>0, <2>1, FirstOf
  <2> QED
    BY <1>0, <1>3, <2>2
<1>4. CASE a = Blank /\ b = Blank /\ c = Blank /\ d # Blank
  <2>1. 4 \in 1 .. 4 /\ s[4] # Blank /\ \A j \in 1 .. 4 - 1 : s[j] = Blank
    BY <1>0, <1>4
  <2>2. FirstSaid(s) = s[4]
    BY <1>0, <2>1, FirstOf
  <2> QED
    BY <1>0, <1>4, <2>2
<1>5. CASE a = Blank /\ b = Blank /\ c = Blank /\ d = Blank
  <2>1. FirstSaid(s) = Blank
    BY <1>0, <1>5, NoneOf
  <2> QED
    BY <1>5, <2>1
<1> QED
  BY <1>1, <1>2, <1>3, <1>4, <1>5

LEMMA FirstOfSix ==
    ASSUME NEW a, NEW b, NEW c, NEW d, NEW e, NEW f
    PROVE  FirstSaid(<<a, b, c, d, e, f>>) =
               IF a # Blank THEN a ELSE IF b # Blank THEN b ELSE IF c # Blank THEN c ELSE IF d # Blank THEN d ELSE IF e # Blank THEN e ELSE f
<1> DEFINE s == <<a, b, c, d, e, f>>
<1>0. DOMAIN s = 1 .. 6 /\ s[1] = a /\ s[2] = b /\ s[3] = c /\ s[4] = d /\ s[5] = e /\ s[6] = f
  OBVIOUS
<1> SUFFICES FirstSaid(s) =
                 IF a # Blank THEN a ELSE IF b # Blank THEN b ELSE IF c # Blank THEN c ELSE IF d # Blank THEN d ELSE IF e # Blank THEN e ELSE f
  OBVIOUS
<1> HIDE DEF s
<1>1. CASE a # Blank
  <2>1. 1 \in 1 .. 6 /\ s[1] # Blank /\ \A j \in 1 .. 1 - 1 : s[j] = Blank
    BY <1>0, <1>1
  <2>2. FirstSaid(s) = s[1]
    BY <1>0, <2>1, FirstOf
  <2> QED
    BY <1>0, <1>1, <2>2
<1>2. CASE a = Blank /\ b # Blank
  <2>1. 2 \in 1 .. 6 /\ s[2] # Blank /\ \A j \in 1 .. 2 - 1 : s[j] = Blank
    BY <1>0, <1>2
  <2>2. FirstSaid(s) = s[2]
    BY <1>0, <2>1, FirstOf
  <2> QED
    BY <1>0, <1>2, <2>2
<1>3. CASE a = Blank /\ b = Blank /\ c # Blank
  <2>1. 3 \in 1 .. 6 /\ s[3] # Blank /\ \A j \in 1 .. 3 - 1 : s[j] = Blank
    BY <1>0, <1>3
  <2>2. FirstSaid(s) = s[3]
    BY <1>0, <2>1, FirstOf
  <2> QED
    BY <1>0, <1>3, <2>2
<1>4. CASE a = Blank /\ b = Blank /\ c = Blank /\ d # Blank
  <2>1. 4 \in 1 .. 6 /\ s[4] # Blank /\ \A j \in 1 .. 4 - 1 : s[j] = Blank
    BY <1>0, <1>4
  <2>2. FirstSaid(s) = s[4]
    BY <1>0, <2>1, FirstOf
  <2> QED
    BY <1>0, <1>4, <2>2
<1>5. CASE a = Blank /\ b = Blank /\ c = Blank /\ d = Blank /\ e # Blank
  <2>1. 5 \in 1 .. 6 /\ s[5] # Blank /\ \A j \in 1 .. 5 - 1 : s[j] = Blank
    BY <1>0, <1>5
  <2>2. FirstSaid(s) = s[5]
    BY <1>0, <2>1, FirstOf
  <2> QED
    BY <1>0, <1>5, <2>2
<1>6. CASE a = Blank /\ b = Blank /\ c = Blank /\ d = Blank /\ e = Blank /\ f # Blank
  <2>1. 6 \in 1 .. 6 /\ s[6] # Blank /\ \A j \in 1 .. 6 - 1 : s[j] = Blank
    BY <1>0, <1>6
  <2>2. FirstSaid(s) = s[6]
    BY <1>0, <2>1, FirstOf
  <2> QED
    BY <1>0, <1>6, <2>2
<1>7. CASE a = Blank /\ b = Blank /\ c = Blank /\ d = Blank /\ e = Blank /\ f = Blank
  <2>1. FirstSaid(s) = Blank
    BY <1>0, <1>7, NoneOf
  <2> QED
    BY <1>7, <2>1
<1> QED
  BY <1>1, <1>2, <1>3, <1>4, <1>5, <1>6, <1>7

LEMMA NamedIsNotBlank == Blank # "bad" /\ Blank # "east"
  BY Zenon DEF Blank

\* No region the command looks at is bad, and a profile in a bad region has another one
\* configured.
Sound(p, o) ==
    /\ ~(p.profile \in o.bad /\ configured_api_region(p) = Blank)
    /\ request_transport_region(p, o) \notin o.bad
    /\ repair_lookup_region(p, o) \notin o.bad

\* Where the program sends requests and looks for profiles.
RequestsGoTo(p) == IF p.cli THEN effective_api_region(p) ELSE effective_kiro_api_region(p)

LEMMA NotAnalyzed ==
    ASSUME NEW p, NEW o, ~analyze_object(p, o) PROVE Sound(p, o)
  BY DEF analyze_object, Sound

\* The rules of the command are right by those of the program.
LEMMA SoundIsEnough ==
    ASSUME NEW p, NEW o, Sound(p, o), "bad" \in o.bad, p.profile \notin o.bad \ {"bad"}
    PROVE  RequestsGoTo(p) \notin o.bad /\ profile_lookup_region(p) \notin o.bad
<1> USE NamedIsNotBlank DEF is_known_bad_q_transport_region, normalize_q_transport_region
<1>1. configured_api_region(p) = IF p.api # Blank THEN p.api ELSE p.configured
  BY FirstOfTwo DEF configured_api_region
<1>2. api_transport_region(p) =
          IF p.api # Blank THEN p.api ELSE IF p.configured # Blank THEN p.configured
          ELSE IF p.default # Blank THEN p.default ELSE "east"
  BY FirstOfFour DEF api_transport_region
<1>3. effective_api_region(p) =
          normalize_q_transport_region(IF configured_api_region(p) # Blank
                                       THEN configured_api_region(p) ELSE p.default)
  BY FirstOfTwo DEF effective_api_region
<1>4. api_transport_region(p) \notin o.bad => effective_api_region(p) \notin o.bad
  BY <1>1, <1>2, <1>3
<1>5. CASE p.profile = Blank
  <2>1. api_transport_region(p) \notin o.bad
    BY <1>5 DEF Sound, request_transport_region
  <2>2. RequestsGoTo(p) \notin o.bad
    BY <1>4, <1>5, <2>1 DEF RequestsGoTo, effective_kiro_api_region
  <2>3. repair_lookup_region(p, o) =
            IF p.api # Blank THEN p.api ELSE IF p.region # Blank THEN p.region
            ELSE IF p.configured # Blank THEN p.configured
            ELSE IF p.default # Blank THEN p.default ELSE "east"
    <3>1. p.profile \notin o.bad
      BY <1>5
    <3> QED
      BY <1>5, <3>1, FirstOfSix DEF repair_lookup_region
  <2>4. profile_lookup_region(p) =
            normalize_q_transport_region(
                IF configured_api_region(p) # Blank THEN configured_api_region(p)
                ELSE IF p.region # Blank THEN p.region ELSE p.default)
    BY <1>5, FirstOfThree DEF profile_lookup_region
  <2>5. repair_lookup_region(p, o) \notin o.bad
    BY DEF Sound
  <2>6. profile_lookup_region(p) \notin o.bad
    BY <1>1, <1>2, <2>1, <2>3, <2>4, <2>5
  <2> QED
    BY <2>2, <2>6
<1>6. CASE p.profile = "bad"
  <2>1. configured_api_region(p) # Blank
    BY <1>6 DEF Sound
  <2>2. Overridden(p, o) = configured_api_region(p)
    BY <1>1, <2>1, FirstOfThree DEF Overridden
  <2>3. configured_api_region(p) \notin o.bad
    BY <1>6, <2>2 DEF Sound, repair_lookup_region
  <2>4. effective_kiro_api_region(p) = configured_api_region(p)
    BY <1>6, <2>1, <2>3 DEF effective_kiro_api_region
  <2>5. p.cli => api_transport_region(p) \notin o.bad
    BY DEF Sound, request_transport_region
  <2> QED
    BY <1>4, <1>6, <2>3, <2>4, <2>5 DEF RequestsGoTo, profile_lookup_region
<1>7. CASE p.profile # Blank /\ p.profile # "bad"
  <2>1. effective_kiro_api_region(p) = p.profile /\ p.profile \notin o.bad
    BY <1>7 DEF effective_kiro_api_region
  <2>2. p.cli => api_transport_region(p) \notin o.bad
    BY DEF Sound, request_transport_region
  <2> QED
    BY <1>4, <1>7, <2>1, <2>2 DEF RequestsGoTo, profile_lookup_region
<1> QED
  BY <1>5, <1>6, <1>7

\* The region of the call is what a repaired credential needs.
LEMMA RepairedIsSound ==
    ASSUME NEW p, NEW o, p.api = o.target, o.target # Blank, o.target \notin o.bad
    PROVE  /\ Sound(p, o)
           /\ p.profile \notin o.dead => ~analyze_object(p, o)
<1>1. configured_api_region(p) = o.target
  BY FirstOfTwo DEF configured_api_region
<1>2. api_transport_region(p) = o.target
  BY FirstOfFour DEF api_transport_region
<1>3. Overridden(p, o) = o.target
  BY FirstOfThree DEF Overridden
<1>4. request_transport_region(p, o) \in {o.target, p.profile}
      /\ (request_transport_region(p, o) = p.profile => p.profile = o.target \/ p.profile \notin o.bad)
  BY <1>2, <1>3 DEF request_transport_region
<1>5. repair_lookup_region(p, o) \notin o.bad
  <2>1. CASE p.profile \in o.bad
    BY <1>3, <2>1 DEF repair_lookup_region
  <2>2. CASE p.profile \notin o.bad
    <3>1. repair_lookup_region(p, o) = IF p.profile # Blank THEN p.profile ELSE o.target
      BY <2>2, FirstOfSix DEF repair_lookup_region
    <3> QED
      BY <2>2, <3>1
  <2> QED
    BY <2>1, <2>2
<1> QED
  BY <1>1, <1>4, <1>5 DEF Sound, analyze_object

Helps(p, o) ==
    /\ p.profile \notin o.dead => ~analyze_object(p, o)
    /\ "bad" \in o.bad /\ p.profile \notin o.bad \ {"bad"} =>
           {RequestsGoTo(p), profile_lookup_region(p)} \cap o.bad = {}

\* What is left alone when API regions are set: F and G differ in nothing else.
SameButRegions(F, G) ==
    /\ Len(F) = Len(G)
    /\ \A i \in DOMAIN G : [F[i] EXCEPT !.api = Blank] = [G[i] EXCEPT !.api = Blank]

Files == Seq(SavedCredentials)

\* What the call under way has reached, and what it has to rely on if a later step fails.
RepairUnderWay ==
    \/ repair = NoRepair
    \/ \E o \in RepairCalls :
           /\ ~Refused(o)
           /\ \/ repair = [at |-> "copy", with |-> o] /\ credentialsFile \in Files
              \/ /\ repair = [at |-> "write", with |-> o] /\ credentialsFile \in Files
                 /\ heldBefore = credentialsFile /\ heldBefore \in backups
              \/ /\ repair = [at |-> "restore", with |-> o]
                 /\ heldBefore \in backups /\ repairedWith = Nothing

RepairInv ==
    /\ heldBefore \in Files /\ backups \subseteq Files
    /\ RepairUnderWay
    /\ credentialsFile # Damaged \/ repairedWith # Nothing =>
           credentialsFile \in Files /\ SameButRegions(credentialsFile, heldBefore)
    /\ NothingLost
    /\ \A o \in repairedWith : \A i \in DOMAIN credentialsFile : Helps(PlaceIn(credentialsFile[i]), o)

LEMMA RepairInvIsSafe == RepairInv => RepairIsSafe
<1> SUFFICES ASSUME RepairInv PROVE RepairIsSafe
  OBVIOUS
<1>1. NothingLost
  BY DEF RepairInv
<1>2. RepairHelps
  BY DEF RepairInv, RepairHelps, Helps, RequestsGoTo
<1>3. repairedWith # Nothing => SameButRegions(credentialsFile, heldBefore)
  BY DEF RepairInv
<1> QED
  BY <1>1, <1>2, <1>3 DEF RepairIsSafe, OnlyRegionsChange, SameButRegions

LEMMA RepairAtFirst == RepairInit => RepairInv
  BY RepairAssumption
     DEF RepairInit, RepairInv, RepairUnderWay, SameButRegions, NothingLost, Files, Nothing

\* A credential whose region is set, and one that needs none.
LEMMA OneIsRepaired ==
    ASSUME NEW c \in SavedCredentials, NEW o \in RepairCalls, ~Refused(o)
    PROVE  /\ repair_object(c, o) \in SavedCredentials
           /\ [repair_object(c, o) EXCEPT !.api = Blank] = [c EXCEPT !.api = Blank]
           /\ Helps(PlaceIn(repair_object(c, o)), o)
<1> DEFINE d == repair_object(c, o)
           p == PlaceIn(d)
<1>1. o.target # Blank /\ o.target \notin o.bad /\ o.target \in RegionNames
  BY RepairAssumption DEF Refused
<1>2. CASE analyze_object(PlaceIn(c), o)
  <2>1. d = [c EXCEPT !.api = o.target]
    BY <1>2 DEF repair_object
  <2>2. d \in SavedCredentials /\ d.api = o.target
    BY <1>1, <2>1 DEF SavedCredentials
  <2>3. [d EXCEPT !.api = Blank] = [c EXCEPT !.api = Blank]
    BY <2>1 DEF SavedCredentials
  <2> HIDE DEF d
  <2>4. p.api = o.target
    BY <2>2 DEF PlaceIn
  <2> HIDE DEF p
  <2>5. Sound(p, o) /\ (p.profile \notin o.dead => ~analyze_object(p, o))
    BY <1>1, <2>4, RepairedIsSound
  <2>6. Helps(p, o)
    BY <2>5, SoundIsEnough DEF Helps
  <2> QED
    BY <2>2, <2>3, <2>6 DEF d, p
<1>3. CASE ~analyze_object(PlaceIn(c), o)
  <2>1. d = c
    BY <1>3 DEF repair_object
  <2>2. Helps(PlaceIn(c), o)
    BY <1>3, NotAnalyzed, SoundIsEnough DEF Helps
  <2> QED
    BY <2>1, <2>2
<1> QED
  BY <1>2, <1>3

LEMMA SameAsItself == ASSUME NEW F \in Files PROVE SameButRegions(F, F)
  BY DEF SameButRegions

\* The file the command writes.
LEMMA FileIsRepaired ==
    ASSUME NEW F \in Files, NEW o \in RepairCalls, ~Refused(o)
    PROVE  /\ RepairedFile(F, o) \in Files
           /\ SameButRegions(RepairedFile(F, o), F)
           /\ \A i \in DOMAIN RepairedFile(F, o) : Helps(PlaceIn(RepairedFile(F, o)[i]), o)
<1> DEFINE G == RepairedFile(F, o)
<1>1. DOMAIN G = DOMAIN F /\ \A i \in DOMAIN F : G[i] = repair_object(F[i], o)
  BY DEF RepairedFile
<1>2. \A i \in DOMAIN F : F[i] \in SavedCredentials
  BY DEF Files
<1>3. \A i \in DOMAIN F :
          /\ G[i] \in SavedCredentials
          /\ [G[i] EXCEPT !.api = Blank] = [F[i] EXCEPT !.api = Blank]
          /\ Helps(PlaceIn(G[i]), o)
  <2> TAKE i \in DOMAIN F
  <2> QED
    BY <1>1, <1>2, OneIsRepaired
<1>4. G = [i \in DOMAIN F |-> G[i]]
  BY DEF RepairedFile
<1> HIDE DEF G
<1>5. DOMAIN F = 1 .. Len(F) /\ Len(F) \in Nat
  BY DEF Files
<1>6. G \in Files /\ Len(G) = Len(F)
  <2>1. PICK n \in Nat : n = Len(F) /\ DOMAIN F = 1 .. n
    BY <1>5
  <2>2. G \in [1 .. n -> SavedCredentials]
    BY <1>3, <1>4, <2>1
  <2>3. G \in Files
    BY <2>1, <2>2 DEF Files
  <2>4. Len(G) = n
    BY <2>1, <2>2
  <2> QED
    BY <2>1, <2>3, <2>4
<1>7. SameButRegions(G, F)
  BY <1>3, <1>6 DEF SameButRegions
<1> QED
  BY <1>1, <1>3, <1>6, <1>7 DEF G

LEMMA RepairStep == RepairInv /\ [RepairNext]_repairVars => RepairInv'
<1> SUFFICES ASSUME RepairInv, [RepairNext]_repairVars PROVE RepairInv'
  OBVIOUS
<1>0. /\ heldBefore \in Files /\ backups \subseteq Files
      /\ RepairUnderWay
      /\ credentialsFile # Damaged \/ repairedWith # Nothing =>
             credentialsFile \in Files /\ SameButRegions(credentialsFile, heldBefore)
      /\ NothingLost
      /\ \A o \in repairedWith : \A i \in DOMAIN credentialsFile : Helps(PlaceIn(credentialsFile[i]), o)
  BY DEF RepairInv
<1>k. ASSUME UNCHANGED <<regionSettings, credentialsFile>>, repairedWith' \in {repairedWith, Nothing}
      PROVE  \A o \in repairedWith' : \A i \in DOMAIN credentialsFile' :
                 (Helps(PlaceIn(credentialsFile[i]), o))'
  BY <1>0, <1>k DEF PlaceIn, Nothing
<1>n. ASSUME UNCHANGED regionSettings, repairedWith' = Nothing
      PROVE  \A o \in repairedWith' : \A i \in DOMAIN credentialsFile' :
                 (Helps(PlaceIn(credentialsFile[i]), o))'
  BY <1>n DEF Nothing
<1>1. ASSUME NEW o \in RepairCalls, RunRepair(o) PROVE RepairInv'
  <2>0. UNCHANGED <<credentialsFile, regionSettings, backups, heldBefore>> /\ repair = NoRepair
    BY <1>1 DEF RunRepair
  <2>1. CASE Refused(o) \/ \E i \in DOMAIN credentialsFile : credentialsFile[i].odd
    <3>1. UNCHANGED <<repair, repairedWith>>
      BY <1>1, <2>1 DEF RunRepair
    <3> QED
      BY <1>0, <1>k, <2>0, <3>1 DEF RepairInv, RepairUnderWay, NothingLost
  <2>2. CASE ~(Refused(o) \/ \E i \in DOMAIN credentialsFile : credentialsFile[i].odd)
    <3>1. credentialsFile # Damaged
      BY <2>2 DEF Damaged
    <3>2. credentialsFile \in Files /\ SameButRegions(credentialsFile, heldBefore)
      BY <1>0, <3>1
    <3>3. CASE o.apply /\ \E i \in DOMAIN credentialsFile :
                              analyze_object(PlaceIn(credentialsFile[i]), o)
      <4>1. repair' = [at |-> "copy", with |-> o] /\ UNCHANGED repairedWith
        BY <1>1, <2>2, <3>3 DEF RunRepair
      <4>2. RepairUnderWay'
        BY <2>0, <2>2, <3>2, <4>1 DEF RepairUnderWay, Refused
      <4> QED
        BY <1>0, <1>k, <2>0, <4>1, <4>2 DEF RepairInv, NothingLost
    <3>4. CASE ~(o.apply /\ \E i \in DOMAIN credentialsFile :
                                analyze_object(PlaceIn(credentialsFile[i]), o))
      <4>1. repairedWith' = (IF o.apply THEN {o} ELSE repairedWith) /\ UNCHANGED repair
        BY <1>1, <2>2, <3>4 DEF RunRepair
      <4>2. o.apply => \A i \in DOMAIN credentialsFile : Helps(PlaceIn(credentialsFile[i]), o)
        BY <2>2, <3>4, NotAnalyzed, SoundIsEnough DEF Helps
      <4>3. \A q \in repairedWith' : \A i \in DOMAIN credentialsFile :
                Helps(PlaceIn(credentialsFile[i]), q)
        BY <1>0, <4>1, <4>2
      <4>4. \A q \in repairedWith' : \A i \in DOMAIN credentialsFile' :
                (Helps(PlaceIn(credentialsFile[i]), q))'
        BY <2>0, <4>3 DEF PlaceIn
      <4> QED
        BY <1>0, <2>0, <3>1, <3>2, <4>1, <4>4 DEF RepairInv, RepairUnderWay, NothingLost
    <3> QED
      BY <3>3, <3>4
  <2> QED
    BY <2>1, <2>2
<1>2. CASE MakeCopy
  <2>0. /\ repair.at = "copy" /\ backups' = backups \cup {credentialsFile}
        /\ heldBefore' = credentialsFile /\ repair' = [repair EXCEPT !.at = "write"]
        /\ UNCHANGED <<credentialsFile, regionSettings, repairs, repairedWith>>
    BY <1>2 DEF MakeCopy
  <2>1. PICK o \in RepairCalls :
            ~Refused(o) /\ repair = [at |-> "copy", with |-> o] /\ credentialsFile \in Files
    BY <1>0, <2>0 DEF RepairUnderWay, NoRepair
  <2>2. repair' = [at |-> "write", with |-> o]
    BY <2>0, <2>1
  <2>3. RepairUnderWay'
    BY <2>0, <2>1, <2>2 DEF RepairUnderWay, Refused
  <2>4. SameButRegions(credentialsFile, heldBefore)'
    BY <2>0, <2>1, SameAsItself
  <2> QED
    BY <1>0, <1>k, <2>0, <2>1, <2>3, <2>4 DEF RepairInv, NothingLost
<1>3. CASE WriteRepaired
  <2>0. /\ repair.at = "write"
        /\ credentialsFile' = RepairedFile(credentialsFile, repair.with)
        /\ repairedWith' = {repair.with} /\ repair' = NoRepair
        /\ UNCHANGED <<regionSettings, backups, repairs, heldBefore>>
    BY <1>3 DEF WriteRepaired
  <2>1. PICK o \in RepairCalls :
            /\ ~Refused(o) /\ repair = [at |-> "write", with |-> o] /\ credentialsFile \in Files
            /\ heldBefore = credentialsFile /\ heldBefore \in backups
    BY <1>0, <2>0 DEF RepairUnderWay, NoRepair
  <2>2. credentialsFile' = RepairedFile(heldBefore, o) /\ repairedWith' = {o}
    BY <2>0, <2>1
  <2>3. /\ credentialsFile' \in Files /\ SameButRegions(credentialsFile', heldBefore)
        /\ \A i \in DOMAIN credentialsFile' : Helps(PlaceIn(credentialsFile'[i]), o)
    BY <2>1, <2>2, FileIsRepaired
  <2>4. \A q \in repairedWith' : \A i \in DOMAIN credentialsFile' :
            (Helps(PlaceIn(credentialsFile[i]), q))'
    BY <2>0, <2>2, <2>3 DEF PlaceIn
  <2> QED
    BY <1>0, <2>0, <2>1, <2>3, <2>4 DEF RepairInv, RepairUnderWay, NothingLost
<1>4. CASE WriteRepairedFails
  <2>0. /\ repair.at = "write" /\ credentialsFile' \in {credentialsFile, Damaged}
        /\ repair' = [repair EXCEPT !.at = "restore"] /\ repairedWith' = Nothing
        /\ UNCHANGED <<regionSettings, backups, repairs, heldBefore>>
    BY <1>4 DEF WriteRepairedFails
  <2>1. PICK o \in RepairCalls :
            /\ ~Refused(o) /\ repair = [at |-> "write", with |-> o] /\ credentialsFile \in Files
            /\ heldBefore = credentialsFile /\ heldBefore \in backups
    BY <1>0, <2>0 DEF RepairUnderWay, NoRepair
  <2>2. repair' = [at |-> "restore", with |-> o]
    BY <2>0, <2>1
  <2>3. RepairUnderWay'
    BY <2>0, <2>1, <2>2 DEF RepairUnderWay, Refused
  <2>4. SameButRegions(heldBefore, heldBefore)
    BY <1>0, SameAsItself
  <2> QED
    BY <1>0, <1>n, <2>0, <2>1, <2>3, <2>4 DEF RepairInv, NothingLost
<1>5. CASE RestoreCopy
  <2>0. /\ repair.at = "restore" /\ credentialsFile' \in {heldBefore, Damaged}
        /\ repair' = NoRepair
        /\ UNCHANGED <<regionSettings, backups, repairs, heldBefore, repairedWith>>
    BY <1>5 DEF RestoreCopy
  <2>1. heldBefore \in backups /\ repairedWith = Nothing
    BY <1>0, <2>0 DEF RepairUnderWay, NoRepair
  <2>2. SameButRegions(heldBefore, heldBefore)
    BY <1>0, SameAsItself
  <2> QED
    BY <1>0, <1>n, <2>0, <2>1, <2>2 DEF RepairInv, RepairUnderWay, NothingLost
<1>6. CASE RepairStops
  <2>0. repair' = NoRepair
        /\ UNCHANGED <<credentialsFile, regionSettings, backups, repairs, heldBefore, repairedWith>>
    BY <1>6 DEF RepairStops
  <2> QED
    BY <1>0, <1>k, <2>0 DEF RepairInv, RepairUnderWay, NothingLost
<1>7. CASE PutBack
  <2>0. /\ repair = NoRepair /\ credentialsFile' \in backups
        /\ heldBefore' = credentialsFile' /\ repairedWith' = Nothing
        /\ UNCHANGED <<regionSettings, backups, repair, repairs>>
    BY <1>7 DEF PutBack
  <2>1. credentialsFile' \in Files /\ SameButRegions(credentialsFile', heldBefore')
    BY <1>0, <2>0, SameAsItself
  <2> QED
    BY <1>0, <1>n, <2>0, <2>1 DEF RepairInv, RepairUnderWay, NothingLost
<1>8. CASE UNCHANGED repairVars
  BY <1>0, <1>k, <1>8 DEF repairVars, RepairInv, RepairUnderWay, NothingLost
<1> QED
  BY <1>1, <1>2, <1>3, <1>4, <1>5, <1>6, <1>7, <1>8 DEF RepairNext

\* Whatever the command's calls, their failures and their ends.
THEOREM RepairCorrect == RepairSpec => []RepairInv
  BY RepairAtFirst, RepairStep, PTL DEF RepairSpec

\* RepairIsSafe, whatever the regions, the files and the options: what a file held
\* stays in it or in a copy, the regions the command sets are right by the rules of the
\* program, and nothing else is changed.
THEOREM RepairsAreSafe == RepairSpec => []RepairIsSafe
  BY RepairCorrect, RepairInvIsSafe, PTL

-----------------------------------------------------------------------------
(***************************************************************************)
(* ModelLists, for any number of credentials, requests and models, pages   *)
(* of any size, and however often the upstream changes what it lists.      *)
(***************************************************************************)
ModelOf == [key : ModelKeys, image : BOOLEAN]
ListProviders == {"none"} \cup ModelProviders

\* What a request knows of the lists.
ListerLike(l) ==
    /\ DOMAIN l = {"at", "op", "id", "provider", "todo", "regions", "attempt", "got", "whole",
                   "merged", "told", "soft"}
    /\ l.provider \in ListProviders /\ l.todo \in Seq(ListCreds)
    /\ l.got \in Seq(ModelOf) /\ l.whole \in Seq(ModelOf) /\ l.merged \in Seq(ModelOf)
    /\ l.told \in SUBSET ModelOf

Beginning(some, all) == Len(some) <= Len(all) /\ \A i \in DOMAIN some : some[i] = all[i]

\* The models from the n-th on are still to be merged.
MergesFrom(l, n) ==
    /\ Len(l.got) = Len(l.whole) - n
    /\ \A i \in DOMAIN l.got : l.got[i] = l.whole[n + i]
    /\ MergedFrom(l.merged, l.told \cup {l.whole[i] : i \in 1 .. n})

ListerKnows(l) ==
    /\ ListerLike(l)
    /\ l.at \notin {"idle", "next"} => l.id \in ListCreds /\ l.op \in {"admin", "gateway"}
    /\ l.at = "next" => l.op = "gateway"
    /\ l.at = "page" =>
           l.got = <<>> \/ (Beginning(l.got, l.whole) /\ l.whole = Offered(l.id, l.provider))
    /\ l.at = "show" => l.op = "admin"
    /\ l.at \in {"told", "show"} /\ l.op = "admin" => l.got = l.whole
    /\ l.op = "gateway" =>
           IF l.at = "told" THEN \E n \in 0 .. Len(l.whole) : MergesFrom(l, n)
                            ELSE MergedFrom(l.merged, l.told)

ListersKnow == DOMAIN lister = Listers /\ \A t \in Listers : ListerKnows(lister[t])

ListsInv ==
    /\ catalog \in [ListCreds -> Catalogs] /\ serving \in SUBSET ListCreds
    /\ ListersKnow
    /\ DOMAIN truth = {"routing", "kept", "gateway"}
    /\ ListsAreWhole

LEMMA ListsConstants ==
    /\ ListCreds \subseteq Nat /\ IsFiniteSet(ListCreds) /\ PAGE_SIZE \in Nat \ {0}
    /\ Catalogs \subseteq [ListProviders -> Seq(ModelOf)]
  BY ModelListsAssumption DEF ModelOf, ListProviders

LEMMA WholeOffered ==
    ASSUME catalog \in [ListCreds -> Catalogs], NEW c \in ListCreds, NEW p \in ListProviders
    PROVE  Offered(c, p) \in Seq(ModelOf)
  BY ListsConstants DEF Offered

LEMMA ListPart ==
    ASSUME NEW T, NEW s \in Seq(T), NEW a \in Nat, NEW b \in Nat, a <= b, b <= Len(s)
    PROVE  /\ SubSeq(s, a + 1, b) \in Seq(T) /\ Len(SubSeq(s, a + 1, b)) = b - a
           /\ \A p \in 1 .. b - a : SubSeq(s, a + 1, b)[p] = s[a + p]
  OBVIOUS

LEMMA FirstAndRest ==
    ASSUME NEW T, NEW s \in Seq(T), s # <<>>
    PROVE  /\ Len(s) \in Nat /\ Len(s) >= 1 /\ Head(s) = s[1]
           /\ Tail(s) \in Seq(T) /\ Len(Tail(s)) = Len(s) - 1
           /\ \A i \in 1 .. Len(s) - 1 : Tail(s)[i] = s[i + 1]
  OBVIOUS

LEMMA SameLists ==
    ASSUME NEW T, NEW s \in Seq(T), NEW t \in Seq(T), Len(s) = Len(t),
           \A i \in 1 .. Len(s) : s[i] = t[i]
    PROVE  s = t
  OBVIOUS

LEMMA MergedInfo ==
    ASSUME NEW base \in ModelOf, NEW extra \in ModelOf
    PROVE  /\ merge_model_info(base, extra) \in ModelOf
           /\ merge_model_info(base, extra).key = base.key
           /\ merge_model_info(base, extra).image <=> base.image \/ extra.image
<1> DEFINE d == base.image \/ extra.image
<1>1. d = TRUE \/ d = FALSE
  OBVIOUS
<1>2. merge_model_info(base, extra) = [base EXCEPT !.image = d]
  BY DEF merge_model_info
<1>3. d <=> base.image \/ extra.image
  OBVIOUS
<1> HIDE DEF d
<1>4. [base EXCEPT !.image = d] = [key |-> base.key, image |-> d]
  BY DEF ModelOf
<1>5. [base EXCEPT !.image = d] \in ModelOf
  BY <1>1, <1>4 DEF ModelOf
<1> QED
  BY <1>2, <1>3, <1>4, <1>5

\* MergedFrom, of the models at certain places.
MergedOn(models, D, S) ==
    /\ {models[i].key : i \in D} = {x.key : x \in S}
    /\ \A i, j \in D : models[i].key = models[j].key => i = j
    /\ \A i \in D : models[i].image <=> \E x \in S : x.key = models[i].key /\ x.image

LEMMA MergedMeans ==
    ASSUME NEW models, NEW S
    PROVE  MergedFrom(models, S) <=> MergedOn(models, DOMAIN models, S)
  BY Zenon DEF MergedFrom, MergedOn, Keys

\* One model more is merged.
LEMMA MergesOne ==
    ASSUME NEW models \in Seq(ModelOf), NEW S \in SUBSET ModelOf, MergedFrom(models, S), NEW m \in ModelOf
    PROVE  MergeModel(models, m) \in Seq(ModelOf) /\ MergedFrom(MergeModel(models, m), S \cup {m})
<1>1. PICK n \in Nat : n = Len(models) /\ DOMAIN models = 1 .. n
  OBVIOUS
<1>2. /\ \A i \in 1 .. n : models[i] \in ModelOf
      /\ {models[i].key : i \in 1 .. n} = {x.key : x \in S}
      /\ \A i, j \in 1 .. n : models[i].key = models[j].key => i = j
      /\ \A i \in 1 .. n : models[i].image <=> \E x \in S : x.key = models[i].key /\ x.image
  <2>1. \A i \in 1 .. n : models[i] \in ModelOf
    BY <1>1
  <2>2. MergedOn(models, 1 .. n, S)
    BY <1>1, MergedMeans
  <2> QED
    BY <2>1, <2>2, Zenon DEF MergedOn
<1>3. CASE \E i \in DOMAIN models : models[i].key = m.key
  <2> DEFINE r == [i \in 1 .. n |-> IF models[i].key = m.key THEN merge_model_info(models[i], m) ELSE models[i]]
  <2>1. MergeModel(models, m) = r
    BY <1>1, <1>3 DEF MergeModel
  <2>2. \A i \in 1 .. n : r[i] \in ModelOf /\ r[i].key = models[i].key
    BY <1>2, MergedInfo
  <2>3. \A i \in 1 .. n :
            r[i].image <=> models[i].image \/ (models[i].key = m.key /\ m.image)
    BY <1>2, MergedInfo
  <2>4. DOMAIN r = 1 .. n /\ r \in [1 .. n -> ModelOf]
    BY <2>2
  <2> HIDE DEF r
  <2>5. r \in Seq(ModelOf)
    BY <2>4
  <2>6. {r[i].key : i \in 1 .. n} = {x.key : x \in S \cup {m}}
    <3>1. {r[i].key : i \in 1 .. n} = {models[i].key : i \in 1 .. n}
      BY <2>2
    <3>2. m.key \in {models[i].key : i \in 1 .. n}
      BY <1>1, <1>3
    <3>3. {x.key : x \in S \cup {m}} = {x.key : x \in S} \cup {m.key}
      OBVIOUS
    <3>4. {models[i].key : i \in 1 .. n} = {x.key : x \in S}
      BY <1>2
    <3> QED
      BY <3>1, <3>2, <3>3, <3>4
  <2>7. \A i, j \in 1 .. n : r[i].key = r[j].key => i = j
    BY <1>2, <2>2
  <2>8. ASSUME NEW i \in 1 .. n
        PROVE  r[i].image <=> \E x \in S \cup {m} : x.key = r[i].key /\ x.image
    <3>1. r[i].image <=> models[i].image \/ (models[i].key = m.key /\ m.image)
      BY <2>3
    <3>2. models[i].image <=> \E x \in S : x.key = models[i].key /\ x.image
      BY <1>2
    <3>3. r[i].key = models[i].key
      BY <2>2
    <3> QED
      BY <3>1, <3>2, <3>3
  <2>9. DOMAIN r = 1 .. n
    BY <2>4
  <2>10. MergedOn(r, 1 .. n, S \cup {m})
    BY <2>6, <2>7, <2>8, Zenon DEF MergedOn
  <2>11. MergedFrom(r, S \cup {m})
    BY <2>9, <2>10, MergedMeans
  <2> QED
    BY <2>1, <2>5, <2>11
<1>4. CASE ~\E i \in DOMAIN models : models[i].key = m.key
  <2> DEFINE r == Append(models, m)
  <2>1. MergeModel(models, m) = r
    BY <1>4 DEF MergeModel
  <2>2. r \in Seq(ModelOf) /\ DOMAIN r = 1 .. n + 1 /\ r[n + 1] = m
        /\ \A i \in 1 .. n : r[i] = models[i]
    BY <1>1
  <2> HIDE DEF r
  <2>3. \A i \in 1 .. n + 1 : i \in 1 .. n \/ i = n + 1
    BY <1>1
  <2>4. \A i \in 1 .. n : models[i].key # m.key
    BY <1>1, <1>4
  <2>5. \A x \in S : x.key # m.key
    <3>1. \A x \in S : x.key \in {models[i].key : i \in 1 .. n}
      BY <1>2
    <3> QED
      BY <2>4, <3>1
  <2>6. {r[i].key : i \in 1 .. n + 1} = {x.key : x \in S \cup {m}}
    <3>1. \A i \in 1 .. n + 1 : r[i].key \in {x.key : x \in S \cup {m}}
      <4> TAKE i \in 1 .. n + 1
      <4>1. CASE i \in 1 .. n
        <5>1. r[i].key \in {models[k].key : k \in 1 .. n}
          BY <2>2, <4>1
        <5>2. {models[k].key : k \in 1 .. n} = {x.key : x \in S}
          BY <1>2
        <5>3. r[i].key \in {x.key : x \in S}
          BY <5>1, <5>2
        <5>4. PICK x \in S : x.key = r[i].key
          BY <5>3
        <5> QED
          BY <5>4
      <4>2. CASE i = n + 1
        BY <2>2, <4>2
      <4> QED
        BY <2>3, <4>1, <4>2
    <3>2. ASSUME NEW x \in S \cup {m} PROVE \E i \in 1 .. n + 1 : r[i].key = x.key
      <4>1. CASE x \in S
        <5>1. x.key \in {models[i].key : i \in 1 .. n}
          BY <1>2, <4>1
        <5>2. PICK i \in 1 .. n : models[i].key = x.key
          BY <5>1
        <5>3. i \in 1 .. n + 1
          BY <1>1
        <5> QED
          BY <2>2, <5>2, <5>3
      <4>2. CASE x = m
        <5>1. PICK k \in 1 .. n + 1 : k = n + 1
          BY <1>1
        <5> QED
          BY <2>2, <4>2, <5>1
      <4> QED
        BY <4>1, <4>2
    <3> QED
      BY <3>1, <3>2
  <2>7. ASSUME NEW i \in 1 .. n + 1, NEW j \in 1 .. n + 1, r[i].key = r[j].key PROVE i = j
    BY <1>2, <2>2, <2>3, <2>4, <2>7
  <2>8. ASSUME NEW i \in 1 .. n + 1
        PROVE  r[i].image <=> \E x \in S \cup {m} : x.key = r[i].key /\ x.image
    <3>1. CASE i \in 1 .. n
      <4>1. r[i] = models[i] /\ models[i].key # m.key
        BY <2>2, <2>4, <3>1
      <4>2. models[i].image <=> \E x \in S : x.key = models[i].key /\ x.image
        BY <1>2, <3>1
      <4> QED
        BY <4>1, <4>2
    <3>2. CASE i = n + 1
      BY <2>2, <2>5, <3>2
    <3> QED
      BY <2>3, <3>1, <3>2
  <2>9. DOMAIN r = 1 .. n + 1
    BY <2>2
  <2>10. MergedOn(r, 1 .. n + 1, S \cup {m})
    BY <2>6, <2>7, <2>8, Zenon DEF MergedOn
  <2>11. MergedFrom(r, S \cup {m})
    BY <2>9, <2>10, MergedMeans
  <2> QED
    BY <2>1, <2>2, <2>11
<1> QED
  BY <1>3, <1>4

LEMMA BothLists ==
    ASSUME NEW T, NEW s \in Seq(T), NEW t \in Seq(T)
    PROVE  s \o t \in Seq(T) /\ Len(s \o t) = Len(s) + Len(t)
  OBVIOUS

LEMMA Continues ==
    ASSUME NEW T, NEW got \in Seq(T), NEW rest \in Seq(T), NEW all \in Seq(T),
           NEW n \in Nat, NEW e \in Nat, n <= e, Len(got) = n, Len(rest) = e - n,
           \A p \in 1 .. n : got[p] = all[p], \A p \in 1 .. e - n : rest[p] = all[n + p]
    PROVE  /\ got \o rest \in Seq(T) /\ Len(got \o rest) = e
           /\ \A i \in 1 .. e : (got \o rest)[i] = all[i]
<1>1. got \o rest \in Seq(T) /\ Len(got \o rest) = e
  <2>1. got \o rest \in Seq(T) /\ Len(got \o rest) = Len(got) + Len(rest)
    BY BothLists
  <2>2. n + (e - n) = e
    OBVIOUS
  <2> QED
    BY <2>1, <2>2
<1>2. \A i \in 1 .. e : (got \o rest)[i] = all[i]
  OBVIOUS
<1> QED
  BY <1>1, <1>2

\* A page more of a list.
WithPage(got, all, n, e) == got \o SubSeq(all, n + 1, e)

LEMMA PageComes ==
    ASSUME NEW got \in Seq(ModelOf), NEW all \in Seq(ModelOf), Beginning(got, all),
           NEW n \in Nat, n = Len(got), NEW e \in Nat, n <= e, e <= Len(all),
           NEW more, more = WithPage(got, all, n, e)
    PROVE  more \in Seq(ModelOf) /\ Beginning(more, all) /\ (e = Len(all) => more = all)
<1>1. \A p \in 1 .. n : got[p] = all[p]
  BY DEF Beginning
<1>2. /\ SubSeq(all, n + 1, e) \in Seq(ModelOf) /\ Len(SubSeq(all, n + 1, e)) = e - n
      /\ \A p \in 1 .. e - n : SubSeq(all, n + 1, e)[p] = all[n + p]
  BY ListPart
<1>0. PICK rest : rest = SubSeq(all, n + 1, e) /\ more = got \o rest
  BY DEF WithPage
<1>3. more \in Seq(ModelOf) /\ Len(more) = e /\ \A i \in 1 .. e : more[i] = all[i]
  BY <1>0, <1>1, <1>2, Continues
<1>4. Beginning(more, all)
  BY <1>3 DEF Beginning
<1>5. e = Len(all) => more = all
  BY <1>3, SameLists
<1> QED
  BY <1>0, <1>3, <1>4, <1>5

-----------------------------------------------------------------------------
LEMMA ListerMoves ==
    ASSUME ListersKnow, UNCHANGED catalog, NEW t \in Listers, NEW next,
           lister' = [lister EXCEPT ![t] = next], ListerKnows(next)
    PROVE  ListersKnow'
<1>1. \A l : ListerKnows(l)' <=> ListerKnows(l)
  BY DEF ListerKnows, Offered
<1>2. DOMAIN lister' = Listers
  BY DEF ListersKnow
<1>3. ASSUME NEW u \in Listers PROVE ListerKnows(lister'[u])
  BY <1>3 DEF ListersKnow
<1> QED
  BY <1>1, <1>2, <1>3 DEF ListersKnow

LEMMA NobodyKnows == ListerKnows(NoLister)
<1>1. ListerLike(NoLister)
  BY DEF ListerLike, NoLister, ListProviders
<1> QED
  BY <1>1 DEF ListerKnows, NoLister

\* On the way to a profile nothing of the lists changes.
StillLooks(l, n) ==
    /\ DOMAIN n = DOMAIN l /\ n.at \in {"profile", "lookup", "refresh"}
    /\ n.op = l.op /\ n.id = l.id /\ n.provider = l.provider /\ n.todo = l.todo
    /\ n.got = l.got /\ n.whole = l.whole /\ n.merged = l.merged /\ n.told = l.told

LEMMA OnTheWay ==
    ASSUME NEW l, ListerKnows(l), l.at \in {"profile", "lookup", "refresh"},
           NEW n, StillLooks(l, n)
    PROVE  ListerKnows(n)
<1>1. ListerLike(l) /\ l.id \in ListCreds /\ l.op \in {"admin", "gateway"}
      /\ (l.op = "gateway" => MergedFrom(l.merged, l.told))
  BY DEF ListerKnows
<1>2. ListerLike(n) /\ n.at \in {"profile", "lookup", "refresh"} /\ n.op = l.op /\ n.id = l.id
      /\ n.merged = l.merged /\ n.told = l.told
  BY <1>1 DEF ListerLike, StillLooks
<1> QED
  BY <1>1, <1>2 DEF ListerKnows

LEMMA PagesKnow ==
    ASSUME NEW l, ListerKnows(l), l.at \in {"profile", "lookup", "refresh"}
    PROVE  ListerKnows(Pages(l))
<1>1. ListerLike(l) /\ l.id \in ListCreds /\ l.op \in {"admin", "gateway"}
      /\ (l.op = "gateway" => MergedFrom(l.merged, l.told))
  BY DEF ListerKnows
<1> DEFINE n == Pages(l)
<1>2. ListerLike(n) /\ n.at = "page" /\ n.op = l.op /\ n.id = l.id /\ n.merged = l.merged
      /\ n.told = l.told /\ n.got = <<>>
  BY <1>1 DEF ListerLike, Pages
<1> HIDE DEF n
<1>3. ListerKnows(n)
  BY <1>1, <1>2 DEF ListerKnows
<1> QED
  BY <1>3 DEF n

LEMMA GivesUpKnows ==
    ASSUME NEW l, ListerKnows(l), l.at # "told"
    PROVE  ListerKnows(GivesUp(l))
<1>1. CASE l.op = "gateway"
  <2>1. ListerLike(l) /\ MergedFrom(l.merged, l.told)
    BY <1>1 DEF ListerKnows
  <2> DEFINE n == GivesUp(l)
  <2>2. ListerLike(n) /\ n.at = "next" /\ n.op = "gateway" /\ n.merged = l.merged /\ n.told = l.told
    BY <1>1, <2>1 DEF ListerLike, GivesUp
  <2> HIDE DEF n
  <2>3. ListerKnows(n)
    BY <2>1, <2>2 DEF ListerKnows
  <2> QED
    BY <2>3 DEF n
<1>2. CASE l.op # "gateway"
  BY <1>2, NobodyKnows DEF GivesUp
<1> QED
  BY <1>1, <1>2

\* Steps that keep the lists as they are.
LEMMA ListsStayWhole ==
    ASSUME ListsInv, ListsStay, UNCHANGED <<catalog, serving>>, ListersKnow'
    PROVE  ListsInv'
  BY DEF ListsInv, ListsStay, ListsAreWhole

LEMMA ListsAtFirst == ListInit => ListsInv
<1> SUFFICES ASSUME ListInit PROVE ListsInv
  OBVIOUS
<1>1. ListersKnow
  BY NobodyKnows DEF ListInit, ListersKnow
<1>2. MergedFrom(<<>>, {})
  BY DEF MergedFrom, Keys
<1>3. truth = [routing |-> routing, kept |-> keptLists, gateway |-> {}] /\ gatewayList = <<>>
  BY DEF ListInit
<1> QED
  BY <1>1, <1>2, <1>3 DEF ListInit, ListsInv, ListsAreWhole

\* A request for a list begins.
LEMMA BeginsList ==
    ASSUME ListsInv, NEW t \in Listers, NEW c \in ListCreds, NEW p \in ListProviders,
           list_available_models(t, c, p)
    PROVE  ListsInv'
<1> DEFINE n == [NoLister EXCEPT !.at = "profile", !.op = "admin", !.id = c, !.provider = p]
<1>1. n = [NoLister EXCEPT !.at = "profile", !.op = "admin", !.id = c, !.provider = p]
  OBVIOUS
<1>2. ListerLike(n) /\ n.at = "profile" /\ n.op = "admin" /\ n.id = c
  BY DEF ListerLike, NoLister
<1> HIDE DEF n
<1>3. ListerKnows(n)
  BY <1>2 DEF ListerKnows
<1>4. lister' = [lister EXCEPT ![t] = n] /\ UNCHANGED <<catalog, serving>> /\ ListsStay
  BY <1>1 DEF list_available_models, Turns
<1>5. ListersKnow'
  BY <1>3, <1>4, ListerMoves DEF ListsInv
<1> QED
  BY <1>4, <1>5, ListsStayWhole

LEMMA BeginsGateway == ASSUME ListsInv, NEW t \in Listers, get_models(t) PROVE ListsInv'
<1>1. PICK order \in [1 .. Cardinality(serving) -> serving] :
          lister' = [lister EXCEPT ![t] = [NoLister EXCEPT !.at = "next", !.op = "gateway", !.todo = order]]
  BY DEF get_models, Turns
<1>2. UNCHANGED <<catalog, serving>> /\ ListsStay
  BY DEF get_models
<1>3. order \in Seq(ListCreds)
  <2>1. serving \subseteq ListCreds /\ IsFiniteSet(serving)
    BY ListsConstants, FS_Subset DEF ListsInv
  <2>2. PICK k \in Nat : k = Cardinality(serving)
    BY <2>1, FS_CardinalityType
  <2>3. order \in [1 .. k -> ListCreds]
    BY <1>1, <2>1, <2>2
  <2> QED
    BY <2>3
<1> DEFINE n == [NoLister EXCEPT !.at = "next", !.op = "gateway", !.todo = order]
<1>4. ListerLike(n) /\ n.at = "next" /\ n.op = "gateway" /\ n.merged = <<>> /\ n.told = {}
  BY <1>3 DEF ListerLike, NoLister, ListProviders
<1>5. lister' = [lister EXCEPT ![t] = n]
  BY <1>1
<1> HIDE DEF n
<1>6. MergedFrom(<<>>, {})
  BY DEF MergedFrom, Keys
<1>7. ListerKnows(n)
  BY <1>4, <1>6 DEF ListerKnows
<1>8. ListersKnow'
  BY <1>2, <1>5, <1>7, ListerMoves DEF ListsInv
<1> QED
  BY <1>2, <1>8, ListsStayWhole

LEMMA GoesToNext == ASSUME ListsInv, NEW t \in Listers, NextCredential(t) PROVE ListsInv'
<1> DEFINE l == lister[t]
           n == [l EXCEPT !.at = "profile", !.id = Head(l.todo), !.todo = Tail(l.todo)]
<1>1. lister' = [lister EXCEPT ![t] = n] /\ UNCHANGED <<catalog, serving>> /\ ListsStay
      /\ l.at = "next" /\ l.todo # <<>>
  BY DEF NextCredential, Turns, Now, UpstreamStays
<1>2. ListerKnows(l)
  BY DEF ListsInv, ListersKnow
<1>3. ListerLike(l) /\ l.op = "gateway" /\ MergedFrom(l.merged, l.told)
  BY <1>1, <1>2 DEF ListerKnows
<1>4. Head(l.todo) \in ListCreds /\ Tail(l.todo) \in Seq(ListCreds)
  BY <1>1, <1>3 DEF ListerLike
<1>5. ListerLike(n) /\ n.at = "profile" /\ n.op = "gateway" /\ n.id \in ListCreds
      /\ n.merged = l.merged /\ n.told = l.told
  BY <1>3, <1>4 DEF ListerLike
<1> HIDE DEF n
<1>6. ListerKnows(n)
  BY <1>3, <1>5 DEF ListerKnows
<1>7. ListersKnow'
  BY <1>1, <1>6, ListerMoves DEF ListsInv
<1> QED
  BY <1>1, <1>7, ListsStayWhole

\* Looking for a profile, asking for pages, and giving up.
LEMMA OnTheWayKeeps ==
    ASSUME ListsInv, NEW t \in Listers, UNCHANGED <<catalog, serving>>, ListsStay, NEW n,
           lister' = [lister EXCEPT ![t] = n], ListerKnows(n)
    PROVE  ListsInv'
<1>1. ListersKnow'
  BY ListerMoves DEF ListsInv
<1> QED
  BY <1>1, ListsStayWhole

LEMMA ProfileKeeps ==
    ASSUME ListsInv, NEW t \in Listers,
           \/ ensure_rest_profile_arn_for(t) \/ LookupFinds(t) \/ RefreshFinds(t)
           \/ RefreshFindsNone(t) \/ PageFails(t)
           \/ \E transient, unsupported \in BOOLEAN : LookupFails(t, transient, unsupported)
    PROVE  ListsInv'
<1> DEFINE l == lister[t]
<1>1. ListerKnows(l)
  BY DEF ListsInv, ListersKnow
<1>2. UNCHANGED <<catalog, serving>> /\ ListsStay
  BY DEF ensure_rest_profile_arn_for, LookupFinds, RefreshFinds, RefreshFindsNone, PageFails,
         LookupFails, UpstreamStays
<1>3. l.at \in {"profile", "lookup", "refresh"} => ListerKnows(Pages(l))
  BY <1>1, PagesKnow
<1>4. l.at # "told" => ListerKnows(GivesUp(l))
  BY <1>1, GivesUpKnows
<1>5. ASSUME l.at \in {"profile", "lookup", "refresh"}, NEW r
      PROVE  ListerKnows(Tries(l, r))
  <2>1. ListerLike(l)
    BY <1>1, <1>5 DEF ListerKnows
  <2>2. StillLooks(l, Tries(l, r))
    BY <2>1 DEF ListerLike, Tries, StillLooks
  <2> QED
    BY <1>1, <1>5, <2>2, OnTheWay
<1>6. ASSUME l.at \in {"profile", "lookup", "refresh"}
      PROVE  ListerKnows([l EXCEPT !.attempt = @ + 1])
  <2>1. ListerLike(l)
    BY <1>1, <1>6 DEF ListerKnows
  <2>2. StillLooks(l, [l EXCEPT !.attempt = @ + 1])
    BY <1>6, <2>1 DEF ListerLike, StillLooks
  <2> QED
    BY <1>1, <1>6, <2>2, OnTheWay
<1>7. ASSUME l.at \in {"profile", "lookup", "refresh"}, NEW soft
      PROVE  ListerKnows([l EXCEPT !.at = "refresh", !.soft = soft])
  <2>1. ListerLike(l)
    BY <1>1, <1>7 DEF ListerKnows
  <2>2. StillLooks(l, [l EXCEPT !.at = "refresh", !.soft = soft])
    BY <2>1 DEF ListerLike, StillLooks
  <2> QED
    BY <1>1, <1>7, <2>2, OnTheWay
<1>8. ASSUME NEW n, lister' = [lister EXCEPT ![t] = n], ListerKnows(n) PROVE ListsInv'
  BY <1>2, <1>8, OnTheWayKeeps
<1>9. CASE ensure_rest_profile_arn_for(t)
  <2>1. l.at = "profile"
    BY <1>9 DEF ensure_rest_profile_arn_for, Now
  <2>2. CASE l.id \in hasArn
    <3>1. lister' = [lister EXCEPT ![t] = Pages(l)]
      BY <1>9, <2>2 DEF ensure_rest_profile_arn_for, Turns
    <3> QED
      BY <1>3, <1>8, <2>1, <3>1
  <2>3. CASE l.id \notin hasArn /\ l.id \in suppressed
    <3>1. lister' = [lister EXCEPT ![t] = [l EXCEPT !.at = "refresh", !.soft = TRUE]]
      BY <1>9, <2>3 DEF ensure_rest_profile_arn_for, Turns
    <3>2. ListerKnows([l EXCEPT !.at = "refresh", !.soft = TRUE])
      BY <1>7, <2>1
    <3> QED
      BY <1>8, <3>1, <3>2
  <2>4. CASE l.id \notin hasArn /\ l.id \notin suppressed
    <3>1. PICK r : r = profile_region_candidates(PlaceOf[l.id])
      OBVIOUS
    <3>2. lister' = [lister EXCEPT ![t] = Tries(l, r)]
      BY <1>9, <2>4, <3>1 DEF ensure_rest_profile_arn_for, Turns
    <3>3. ListerKnows(Tries(l, r))
      BY <1>5, <2>1
    <3> QED
      BY <1>8, <3>2, <3>3
  <2> QED
    BY <2>2, <2>3, <2>4
<1>10. CASE LookupFinds(t) \/ RefreshFinds(t)
  <2>1. l.at \in {"lookup", "refresh"} /\ lister' = [lister EXCEPT ![t] = Pages(l)]
    BY <1>10 DEF LookupFinds, RefreshFinds, Now, Turns
  <2> QED
    BY <1>3, <1>8, <2>1
<1>11. CASE RefreshFindsNone(t) \/ PageFails(t)
  <2>1. CASE l.at \in {"refresh", "page"} /\ lister' = [lister EXCEPT ![t] = GivesUp(l)]
    BY <1>4, <1>8, <2>1
  <2>2. CASE l.at = "refresh" /\ lister' = [lister EXCEPT ![t] = Pages(l)]
    BY <1>3, <1>8, <2>2
  <2> QED
    BY <1>11, <2>1, <2>2 DEF RefreshFindsNone, PageFails, Now, Turns
<1>12. ASSUME NEW transient \in BOOLEAN, NEW unsupported \in BOOLEAN,
              LookupFails(t, transient, unsupported)
       PROVE  ListsInv'
  <2>1. l.at = "lookup"
    BY <1>12 DEF LookupFails, Now
  <2>2. CASE transient /\ l.attempt < MAX_ATTEMPTS
    <3>1. lister' = [lister EXCEPT ![t] = [l EXCEPT !.attempt = @ + 1]]
      BY <1>12, <2>2 DEF LookupFails, Turns
    <3>2. ListerKnows([l EXCEPT !.attempt = @ + 1])
      BY <1>6, <2>1
    <3> QED
      BY <1>8, <3>1, <3>2
  <2>3. CASE ~(transient /\ l.attempt < MAX_ATTEMPTS) /\ Len(l.regions) > 1
    <3>1. PICK r : r = Tail(l.regions)
      OBVIOUS
    <3>2. lister' = [lister EXCEPT ![t] = Tries(l, r)]
      BY <1>12, <2>3, <3>1 DEF LookupFails, Turns
    <3>3. ListerKnows(Tries(l, r))
      BY <1>5, <2>1
    <3> QED
      BY <1>8, <3>2, <3>3
  <2>4. CASE ~(transient /\ l.attempt < MAX_ATTEMPTS) /\ ~(Len(l.regions) > 1)
    <3>1. lister' = [lister EXCEPT ![t] = [l EXCEPT !.at = "refresh", !.soft = unsupported]]
      BY <1>12, <2>4 DEF LookupFails, Turns
    <3>2. ListerKnows([l EXCEPT !.at = "refresh", !.soft = unsupported])
      BY <1>7, <2>1
    <3> QED
      BY <1>8, <3>1, <3>2
  <2> QED
    BY <2>2, <2>3, <2>4
<1> QED
  BY <1>9, <1>10, <1>11, <1>12

\* A page comes, the last of a list or not.
LEMMA PageKeeps ==
    ASSUME ListsInv, NEW t \in Listers, fetch_all_available_models(t)
    PROVE  ListsInv'
<1> DEFINE l == lister[t]
           all == Offered(l.id, l.provider)
           page == fetch_page(l)
           g == [l EXCEPT !.got = @ \o page.models, !.whole = WholeOf(l)]
<1>1. ListerKnows(l) /\ l.at = "page"
  BY DEF ListsInv, ListersKnow, fetch_all_available_models, Now
<1>2. /\ ListerLike(l) /\ l.id \in ListCreds /\ l.op \in {"admin", "gateway"}
      /\ l.got = <<>> \/ (Beginning(l.got, l.whole) /\ l.whole = all)
      /\ l.op = "gateway" => MergedFrom(l.merged, l.told)
  BY <1>1 DEF ListerKnows
<1>3. l.got \in Seq(ModelOf) /\ l.provider \in ListProviders
  BY <1>2 DEF ListerLike
<1>4. all \in Seq(ModelOf)
  BY <1>2, <1>3, WholeOffered DEF ListsInv
<1>5. Beginning(l.got, all)
  <2>1. CASE l.got = <<>>
    BY <1>4, <2>1 DEF Beginning
  <2> QED
    BY <1>2, <2>1
<1>6. WholeOf(l) = all
  BY <1>2 DEF WholeOf
<1>7. PICK n \in Nat, k \in Nat : n = Len(l.got) /\ k = Len(all) /\ n <= k
  BY <1>3, <1>4, <1>5 DEF Beginning
<1>8. PICK e \in Nat : e = (IF n + PAGE_SIZE < k THEN n + PAGE_SIZE ELSE k)
  BY <1>7, ListsConstants
<1>9. n <= e /\ e <= k
  BY <1>7, <1>8, ListsConstants
<1>10. page.models = SubSeq(all, n + 1, e) /\ (page.more <=> n + PAGE_SIZE < k)
  BY <1>7, <1>8 DEF fetch_page
<1>11. PICK more : more = WithPage(l.got, all, n, e)
  OBVIOUS
<1>12. more \in Seq(ModelOf) /\ Beginning(more, all) /\ (e = k => more = all)
  <2>1. PICK got, whole : got = l.got /\ whole = all
    OBVIOUS
  <2> HIDE DEF all, l
  <2>2. /\ got \in Seq(ModelOf) /\ whole \in Seq(ModelOf) /\ Beginning(got, whole)
        /\ n \in Nat /\ n = Len(got) /\ e \in Nat /\ n <= e /\ e <= Len(whole)
        /\ more = WithPage(got, whole, n, e)
    BY <1>3, <1>4, <1>5, <1>7, <1>8, <1>9, <1>11, <2>1
  <2>3. more \in Seq(ModelOf) /\ Beginning(more, whole) /\ (e = Len(whole) => more = whole)
    BY <2>2, PageComes
  <2> QED
    BY <1>7, <2>1, <2>3
<1>13. g = [l EXCEPT !.got = more, !.whole = all]
  BY <1>6, <1>10, <1>11 DEF WithPage
<1>14. ListerLike(g) /\ g.at = "page" /\ g.op = l.op /\ g.id = l.id /\ g.provider = l.provider
       /\ g.got = more /\ g.whole = all /\ g.merged = l.merged /\ g.told = l.told
  <2>1. ListerLike([l EXCEPT !.got = more, !.whole = all])
    BY <1>2, <1>4, <1>12 DEF ListerLike
  <2> QED
    BY <1>1, <1>2, <1>13, <2>1 DEF ListerLike
<1>15. UNCHANGED <<catalog, serving>> /\ ListsStay
  BY DEF fetch_all_available_models, UpstreamStays
<1>16. CASE page.more
  <2>1. lister' = [lister EXCEPT ![t] = g]
    BY <1>16 DEF fetch_all_available_models, Turns
  <2> HIDE DEF g
  <2>2. ListerKnows(g)
    BY <1>2, <1>12, <1>14 DEF ListerKnows
  <2> QED
    BY <1>15, <2>1, <2>2, OnTheWayKeeps
<1>17. CASE ~page.more
  <2> DEFINE h == [g EXCEPT !.at = "told"]
  <2>1. lister' = [lister EXCEPT ![t] = h]
    BY <1>17 DEF fetch_all_available_models, Turns
  <2>2. more = all
    BY <1>7, <1>8, <1>10, <1>12, <1>17
  <2> HIDE DEF g
  <2>3. ListerLike(h) /\ h.at = "told" /\ h.op = l.op /\ h.id = l.id
        /\ h.got = all /\ h.whole = all /\ h.merged = l.merged /\ h.told = l.told
    BY <1>14, <2>2 DEF ListerLike
  <2> HIDE DEF h
  <2>4. MergedFrom(l.merged, l.told) => MergesFrom(h, 0)
    <3> SUFFICES ASSUME MergedFrom(l.merged, l.told) PROVE MergesFrom(h, 0)
      OBVIOUS
    <3>1. {h.whole[i] : i \in 1 .. 0} = {}
      OBVIOUS
    <3>2. Len(h.got) = Len(h.whole) - 0 /\ \A i \in DOMAIN h.got : h.got[i] = h.whole[0 + i]
      BY <1>4, <2>3
    <3>3. h.told \cup {} = h.told
      OBVIOUS
    <3> QED
      BY <2>3, <3>1, <3>2, <3>3, Zenon DEF MergesFrom
  <2>5. PICK z \in 0 .. Len(h.whole) : z = 0
    BY <1>4, <2>3
  <2>6. ListerKnows(h)
    BY <1>2, <2>3, <2>4, <2>5 DEF ListerKnows
  <2> QED
    BY <1>15, <2>1, <2>6, OnTheWayKeeps
<1> QED
  BY <1>16, <1>17

\* What was told of a credential is kept: for routing, then for the administrator.
LEMMA ShowsWhatItGot ==
    ASSUME ListsInv, NEW t \in Listers, set_model_list(t)
    PROVE  ListsInv'
<1> DEFINE l == lister[t]
           n == [l EXCEPT !.at = "show"]
<1>1. ListerKnows(l) /\ l.at = "told" /\ l.op = "admin"
  BY DEF ListsInv, ListersKnow, set_model_list, Now
<1>2. ListerLike(l) /\ l.id \in ListCreds /\ l.got = l.whole
  BY <1>1 DEF ListerKnows
<1>3. ListerLike(n) /\ n.at = "show" /\ n.op = "admin" /\ n.id = l.id /\ n.got = n.whole
  BY <1>1, <1>2 DEF ListerLike
<1>4. lister' = [lister EXCEPT ![t] = n]
  BY DEF set_model_list, Turns
<1>5. UNCHANGED <<catalog, serving, keptLists, gatewayList>>
      /\ routing' = [routing EXCEPT ![l.id] = Keys(l.got)]
      /\ truth' = [truth EXCEPT !.routing[l.id] = Keys(l.whole)]
  BY DEF set_model_list, UpstreamStays
<1> HIDE DEF n
<1>6. ListerKnows(n)
  BY <1>2, <1>3 DEF ListerKnows
<1>7. ListersKnow'
  BY <1>4, <1>5, <1>6, ListerMoves DEF ListsInv
<1> HIDE DEF l
<1>8. DOMAIN truth' = {"routing", "kept", "gateway"} /\ truth'.routing = routing'
      /\ truth'.kept = keptLists' /\ truth'.gateway = truth.gateway
  BY <1>2, <1>5 DEF ListsInv, ListsAreWhole
<1>9. MergedFrom(gatewayList', truth'.gateway)
  BY <1>5, <1>8 DEF ListsInv, ListsAreWhole
<1> QED
  BY <1>5, <1>7, <1>8, <1>9 DEF ListsInv, ListsAreWhole

LEMMA KeepsWhatItGot ==
    ASSUME ListsInv, NEW t \in Listers, KeepList(t)
    PROVE  ListsInv'
<1> DEFINE l == lister[t]
           k == <<l.id, l.provider>>
<1>1. ListerKnows(l) /\ l.at = "show"
  BY DEF ListsInv, ListersKnow, KeepList, Now
<1>2. l.got = l.whole
  BY <1>1 DEF ListerKnows
<1>3. UNCHANGED <<catalog, serving, routing, gatewayList>> /\ lister' = [lister EXCEPT ![t] = NoLister]
      /\ keptLists' = [keptLists EXCEPT ![k] = l.got]
      /\ truth' = [truth EXCEPT !.kept[k] = l.whole]
  BY DEF KeepList, UpstreamStays, Turns
<1>4. ListersKnow'
  BY <1>3, NobodyKnows, ListerMoves DEF ListsInv
<1> HIDE DEF l, k
<1>5. DOMAIN truth' = {"routing", "kept", "gateway"} /\ truth'.routing = routing'
      /\ truth'.kept = keptLists' /\ truth'.gateway = truth.gateway
  BY <1>2, <1>3 DEF ListsInv, ListsAreWhole
<1>6. MergedFrom(gatewayList', truth'.gateway)
  BY <1>3, <1>5 DEF ListsInv, ListsAreWhole
<1> QED
  BY <1>3, <1>4, <1>5, <1>6 DEF ListsInv, ListsAreWhole

\* The first of what is still to be merged is the n+1-th of the whole.
LEMMA MergesNext ==
    ASSUME NEW l, ListerLike(l), NEW n \in 0 .. Len(l.whole), MergesFrom(l, n), l.got # <<>>,
           NEW merged, merged = MergeModel(l.merged, Head(l.got)),
           NEW k, DOMAIN k = DOMAIN l, k.got = Tail(l.got), k.merged = merged,
           k.told = l.told, k.whole = l.whole
    PROVE  /\ n + 1 \in 0 .. Len(l.whole) /\ merged \in Seq(ModelOf)
           /\ k.got \in Seq(ModelOf) /\ MergesFrom(k, n + 1)
<1>0. Len(l.whole) \in Nat /\ Len(l.got) \in Nat /\ Len(l.got) = Len(l.whole) - n
  BY DEF ListerLike, MergesFrom
<1>1. PICK w \in Nat, g \in Nat : w = Len(l.whole) /\ g = Len(l.got) /\ n \in Nat /\ n <= w /\ g = w - n
  BY <1>0
<1>2. /\ g >= 1 /\ Tail(l.got) \in Seq(ModelOf) /\ Len(Tail(l.got)) = g - 1
      /\ \A i \in 1 .. g - 1 : Tail(l.got)[i] = l.got[i + 1]
  <2>1. l.got \in Seq(ModelOf)
    BY DEF ListerLike
  <2>2. Len(l.got) = g
    BY <1>1
  <2>3. /\ Len(l.got) >= 1 /\ Tail(l.got) \in Seq(ModelOf) /\ Len(Tail(l.got)) = Len(l.got) - 1
        /\ \A i \in 1 .. Len(l.got) - 1 : Tail(l.got)[i] = l.got[i + 1]
    BY <2>1, FirstAndRest, Zenon
  <2> QED
    BY <2>2, <2>3, Zenon
<1>3. \A i \in 1 .. g : l.got[i] = l.whole[n + i]
  BY <1>1 DEF ListerLike, MergesFrom
<1>4. PICK m : m = Head(l.got)
  OBVIOUS
<1>5. m = l.whole[n + 1] /\ m \in ModelOf /\ n + 1 \in 1 .. w
  BY <1>1, <1>2, <1>3, <1>4 DEF ListerLike
<1> DEFINE S == l.told \cup {l.whole[i] : i \in 1 .. n}
<1>6. S \in SUBSET ModelOf /\ l.merged \in Seq(ModelOf) /\ MergedFrom(l.merged, S)
  BY <1>1 DEF ListerLike, MergesFrom
<1>7. l.told \cup {l.whole[i] : i \in 1 .. n + 1} = S \cup {m}
  <2>1. \A i \in 1 .. n + 1 : i \in 1 .. n \/ i = n + 1
    BY <1>1
  <2>2. n + 1 \in 1 .. n + 1 /\ \A i \in 1 .. n : i \in 1 .. n + 1
    BY <1>1
  <2> QED
    BY <1>5, <2>1, <2>2
<1>8. merged = MergeModel(l.merged, m)
  BY <1>4
<1> HIDE DEF S
<1>9. merged \in Seq(ModelOf) /\ MergedFrom(merged, S \cup {m})
  BY <1>5, <1>6, <1>8, MergesOne
<1>10. /\ k.got \in Seq(ModelOf) /\ Len(k.got) = g - 1
       /\ \A i \in 1 .. g - 1 : k.got[i] = l.got[i + 1]
  BY <1>2
<1>11. \A i \in 1 .. g - 1 : k.got[i] = k.whole[(n + 1) + i]
  <2> TAKE i \in 1 .. g - 1
  <2>1. i + 1 \in 1 .. g /\ n + (i + 1) = (n + 1) + i
    BY <1>1
  <2> QED
    BY <1>3, <1>10, <2>1
<1>12. Len(k.got) = Len(k.whole) - (n + 1) /\ DOMAIN k.got = 1 .. g - 1
  BY <1>1, <1>10
<1>13. MergedFrom(k.merged, k.told \cup {k.whole[i] : i \in 1 .. n + 1})
  BY <1>7, <1>9
<1>14. MergesFrom(k, n + 1)
  BY <1>11, <1>12, <1>13 DEF MergesFrom
<1> QED
  BY <1>1, <1>5, <1>9, <1>10, <1>14

LEMMA MergeKeeps ==
    ASSUME ListsInv, NEW t \in Listers, merge_unique_models(t)
    PROVE  ListsInv'
<1> DEFINE l == lister[t]
<1>1. ListerKnows(l) /\ l.at = "told" /\ l.op = "gateway"
  BY DEF ListsInv, ListersKnow, merge_unique_models, Now
<1>2. ListerLike(l) /\ l.id \in ListCreds
  BY <1>1 DEF ListerKnows
<1>3. PICK n \in 0 .. Len(l.whole) : MergesFrom(l, n)
  BY <1>1 DEF ListerKnows
<1>4. UNCHANGED <<catalog, serving>> /\ ListsStay
  BY DEF merge_unique_models, UpstreamStays
<1>5. CASE l.got # <<>>
  <2>1. PICK merged : merged = MergeModel(l.merged, Head(l.got))
    OBVIOUS
  <2>2. PICK k : k = [l EXCEPT !.merged = merged, !.got = Tail(@)]
    OBVIOUS
  <2>3. lister' = [lister EXCEPT ![t] = k]
    BY <1>5, <2>1, <2>2 DEF merge_unique_models, Turns
  <2>4. DOMAIN k = DOMAIN l /\ k.got = Tail(l.got) /\ k.merged = merged /\ k.told = l.told
        /\ k.whole = l.whole /\ k.at = l.at /\ k.op = l.op /\ k.id = l.id
        /\ k.provider = l.provider /\ k.todo = l.todo
    BY <1>2, <2>2 DEF ListerLike
  <2> HIDE DEF l
  <2>5. /\ n + 1 \in 0 .. Len(l.whole) /\ merged \in Seq(ModelOf)
        /\ k.got \in Seq(ModelOf) /\ MergesFrom(k, n + 1)
    BY <1>2, <1>3, <1>5, <2>1, <2>4, MergesNext
  <2>6. ListerLike(k)
    BY <1>2, <2>4, <2>5 DEF ListerLike
  <2>7. PICK m \in 0 .. Len(k.whole) : m = n + 1
    BY <2>4, <2>5
  <2>8. MergesFrom(k, m)
    BY <2>5, <2>7
  <2>9. ListerKnows(k)
    BY <1>1, <1>2, <2>4, <2>6, <2>8 DEF ListerKnows
  <2> QED
    BY <1>4, <2>3, <2>9, OnTheWayKeeps
<1>6. CASE l.got = <<>>
  <2> DEFINE told == l.told \cup {l.whole[i] : i \in DOMAIN l.whole}
             k == [GivesUp(l) EXCEPT !.told = @ \cup {l.whole[i] : i \in DOMAIN l.whole}]
  <2>1. lister' = [lister EXCEPT ![t] = k]
    BY <1>6 DEF merge_unique_models, Turns
  <2>2. GivesUp(l) = [l EXCEPT !.at = "next", !.regions = <<>>, !.attempt = 0,
                               !.got = <<>>, !.whole = <<>>, !.soft = FALSE]
    BY <1>1 DEF GivesUp
  <2>3. told \in SUBSET ModelOf
    BY <1>2 DEF ListerLike
  <2>4. ListerLike(k) /\ k.at = "next" /\ k.op = "gateway" /\ k.merged = l.merged /\ k.told = told
    BY <1>1, <1>2, <2>2, <2>3 DEF ListerLike
  <2>5. n = Len(l.whole)
    BY <1>2, <1>3, <1>6 DEF ListerLike, MergesFrom
  <2>6. told = l.told \cup {l.whole[i] : i \in 1 .. n}
    BY <1>2, <2>5 DEF ListerLike
  <2>7. MergedFrom(l.merged, told)
    BY <1>3, <2>6 DEF MergesFrom
  <2> HIDE DEF k, told
  <2>8. ListerKnows(k)
    BY <2>4, <2>7 DEF ListerKnows
  <2> QED
    BY <1>4, <2>1, <2>8, OnTheWayKeeps
<1> QED
  BY <1>5, <1>6

LEMMA GatewayKeeps ==
    ASSUME ListsInv, NEW t \in Listers, refresh_models_cache(t)
    PROVE  ListsInv'
<1> DEFINE l == lister[t]
<1>1. ListerKnows(l) /\ l.at = "next"
  BY DEF ListsInv, ListersKnow, refresh_models_cache, Now
<1>2. MergedFrom(l.merged, l.told)
  BY <1>1 DEF ListerKnows
<1>3. UNCHANGED <<catalog, serving, routing, keptLists>> /\ lister' = [lister EXCEPT ![t] = NoLister]
  BY DEF refresh_models_cache, UpstreamStays, Turns
<1>4. ListersKnow'
  BY <1>3, NobodyKnows, ListerMoves DEF ListsInv
<1>5. CASE l.merged = <<>>
  <2>1. UNCHANGED <<gatewayList, truth>>
    BY <1>5 DEF refresh_models_cache
  <2> QED
    BY <1>3, <1>4, <2>1 DEF ListsInv, ListsAreWhole
<1>6. CASE l.merged # <<>>
  <2>1. gatewayList' = l.merged /\ truth' = [truth EXCEPT !.gateway = l.told]
    BY <1>6 DEF refresh_models_cache
  <2> HIDE DEF l
  <2>2. DOMAIN truth' = {"routing", "kept", "gateway"} /\ truth'.routing = routing'
        /\ truth'.kept = keptLists' /\ truth'.gateway = l.told
    BY <1>3, <2>1 DEF ListsInv, ListsAreWhole
  <2>3. MergedFrom(gatewayList', truth'.gateway)
    BY <1>2, <2>1, <2>2
  <2> QED
    BY <1>3, <1>4, <2>2, <2>3 DEF ListsInv, ListsAreWhole
<1> QED
  BY <1>5, <1>6

\* The upstream changes only lists of which no page has come yet.
LEMMA CatalogKeeps ==
    ASSUME ListsInv, NEW c \in ListCreds, NEW models \in Catalogs, CatalogChanges(c, models)
    PROVE  ListsInv'
<1>1. catalog' = [catalog EXCEPT ![c] = models] /\ UNCHANGED <<serving, lister>> /\ ListsStay
  BY DEF CatalogChanges
<1>2. catalog' \in [ListCreds -> Catalogs]
  BY <1>1 DEF ListsInv
<1>3. ASSUME NEW t \in Listers PROVE ListerKnows(lister[t])'
  <2> DEFINE l == lister[t]
  <2>1. ListerKnows(l)
    BY DEF ListsInv, ListersKnow
  <2>2. CASE l.at = "page" /\ l.got # <<>>
    <3>1. l.id # c
      BY <2>2 DEF CatalogChanges, Now
    <3>2. l.id \in ListCreds
      BY <2>1, <2>2 DEF ListerKnows
    <3>3. Offered(l.id, l.provider)' = Offered(l.id, l.provider)
      BY <1>1, <3>1, <3>2 DEF Offered, ListsInv
    <3> QED
      BY <1>1, <2>1, <3>3 DEF ListerKnows
  <2>3. CASE ~(l.at = "page" /\ l.got # <<>>)
    BY <1>1, <2>1, <2>3 DEF ListerKnows
  <2> QED
    BY <2>2, <2>3
<1>4. ListersKnow'
  BY <1>1, <1>3 DEF ListersKnow, ListsInv
<1>5. ListsAreWhole'
  BY <1>1 DEF ListsInv, ListsStay, ListsAreWhole
<1>6. serving' \in SUBSET ListCreds /\ DOMAIN truth' = {"routing", "kept", "gateway"}
  BY <1>1 DEF ListsInv, ListsStay
<1> QED
  BY <1>2, <1>4, <1>5, <1>6 DEF ListsInv

\* What else happens does not touch the lists nor what they are made of.
LEMMA OthersKeep ==
    ASSUME ListsInv, UNCHANGED <<catalog, lister>>, ListsStay, serving' \in SUBSET ListCreds
    PROVE  ListsInv'
<1>1. ListersKnow'
  BY DEF ListsInv, ListersKnow, ListerKnows, Offered
<1> QED
  BY <1>1 DEF ListsInv, ListsStay, ListsAreWhole

LEMMA ListsStep == ListsInv /\ [ListNext]_listVars => ListsInv'
<1> SUFFICES ASSUME ListsInv, [ListNext]_listVars PROVE ListsInv'
  OBVIOUS
<1>1. ASSUME NEW t \in Listers, NEW c \in ListCreds, NEW p \in ListProviders,
             list_available_models(t, c, p)
      PROVE  ListsInv'
  BY <1>1, BeginsList
<1>2. ASSUME NEW t \in Listers, get_models(t) \/ NextCredential(t) PROVE ListsInv'
  BY <1>2, BeginsGateway, GoesToNext
<1>3. ASSUME NEW t \in Listers,
             \/ ensure_rest_profile_arn_for(t) \/ LookupFinds(t) \/ RefreshFinds(t)
             \/ RefreshFindsNone(t) \/ PageFails(t)
             \/ \E transient, unsupported \in BOOLEAN : LookupFails(t, transient, unsupported)
      PROVE  ListsInv'
  BY <1>3, ProfileKeeps
<1>4. ASSUME NEW t \in Listers, fetch_all_available_models(t) \/ merge_unique_models(t)
      PROVE  ListsInv'
  BY <1>4, PageKeeps, MergeKeeps
<1>5. ASSUME NEW t \in Listers, set_model_list(t) \/ KeepList(t) \/ refresh_models_cache(t)
      PROVE  ListsInv'
  BY <1>5, ShowsWhatItGot, KeepsWhatItGot, GatewayKeeps
<1>6. ASSUME NEW c \in ListCreds, SuppressionEnds(c) \/ SetServing(c) PROVE ListsInv'
  <2>1. UNCHANGED <<catalog, lister>> /\ ListsStay
    BY <1>6 DEF SuppressionEnds, SetServing, UpstreamStays
  <2>2. serving' \in SUBSET ListCreds
    BY <1>6 DEF SuppressionEnds, SetServing, UpstreamStays, ListsInv
  <2> QED
    BY <2>1, <2>2, OthersKeep
<1>7. ASSUME NEW c \in ListCreds, NEW models \in Catalogs, CatalogChanges(c, models)
      PROVE  ListsInv'
  BY <1>7, CatalogKeeps
<1>8. CASE UNCHANGED listVars
  BY <1>8, OthersKeep DEF listVars, ListsStay, ListsInv
<1> QED
  BY <1>1, <1>2, <1>3, <1>4, <1>5, <1>6, <1>7, <1>8 DEF ListNext, ListProviders

\* What a request has got is the beginning of what the upstream lists, until the end of it
\* is reached, and what was merged are the models that were told up to then.
THEOREM ListsCorrect == ListSpec => []ListsInv
<1> QED
  BY ListsAtFirst, ListsStep, PTL DEF ListSpec

\* However many credentials, models and pages there are: a list that is kept is one the
\* upstream had, whole, and the gateway's has each model of all that were told once.
THEOREM KeptListsAreWhole == ListSpec => []ListsAreWhole
<1>1. ListsInv => ListsAreWhole
  BY DEF ListsInv
<1> QED
  BY <1>1, ListsCorrect, PTL

=============================================================================
