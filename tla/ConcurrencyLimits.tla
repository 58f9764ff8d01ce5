-------------------------- MODULE ConcurrencyLimits --------------------------
(***************************************************************************)
(* Changing the concurrency limits while calls run: update_global_config    *)
(* (admin/service.rs), the setters it calls, and set_credential_concurrency *)
(* (kiro/token_manager.rs).                                                 *)
(*                                                                          *)
(* A limit lives twice: as a number in the configuration or on the          *)
(* credential, and as the permits of a semaphore.  Each handler changes the *)
(* number first and the semaphore later, from a snapshot it took before,    *)
(* and handlers of two administrator requests interleave between the locks. *)
(*                                                                          *)
(* A semaphore is its free permits, its permits in use and the permits that *)
(* waiting acquire_many(delta) tasks have still to take away; these tasks   *)
(* are taken to queue as soon as they are spawned, and are served first.    *)
(* Calls that hold a permit of a replaced semaphore no longer count.        *)
(***************************************************************************)
EXTENDS Integers

CONSTANTS
    Creds, Admins,
    MaxLimit,               \* bound on the limits an administrator asks for
    Global,                 \* the global semaphore
    Unset                   \* an absent field of a request; no override

Limits == 1 .. MaxLimit
Sems == Creds \cup {Global}

ASSUME LimitsAssumption ==
    /\ Global \notin Creds
    /\ MaxLimit \in Nat \ {0}
    /\ Unset \notin Nat

VARIABLES
    per_credential_concurrency, global_concurrency,     \* config
    override,               \* KiroCredentials.concurrency, or Unset
    exists,                 \* global_semaphore is Some
    avail, inUse, shrink,   \* the semaphores
    pc,                     \* where each administrator request is
    req,                    \* what it asks for
    old,                    \* the limits it read at the top of the handler
    ids,                    \* default_limited_ids
    halfChanged             \* ghost: a refused update has changed a limit

configVars == <<per_credential_concurrency, global_concurrency, override>>
semVars == <<exists, avail, inUse, shrink>>
adminVars == <<pc, req, old, ids>>
vars == <<configVars, semVars, adminVars, halfChanged>>

PC == {"idle", "mutate", "collect", "resize", "global", "replace"}

Update == [per : {Unset} \cup Limits, glob : {Unset, 0} \cup Limits, ok : BOOLEAN]
Override == [cred : Creds, limit : {Unset} \cup Limits]
NoRequest == [ok |-> TRUE]

Goto(a, label) == pc' = [pc EXCEPT ![a] = label]

Done(a) ==
    /\ Goto(a, "idle")
    /\ req' = [req EXCEPT ![a] = NoRequest]
    /\ old' = [old EXCEPT ![a] = NoRequest]
    /\ ids' = [ids EXCEPT ![a] = {}]

\* A fresh Arc<Semaphore> of n permits in the place of semaphore s.
NewSemaphore(s, n) ==
    /\ avail' = [avail EXCEPT ![s] = n]
    /\ inUse' = [inUse EXCEPT ![s] = 0]
    /\ shrink' = [shrink EXCEPT ![s] = 0]

\* n permits more (or fewer) that are free, net of those still to be taken away.
Balance(s, n) == avail[s] - shrink[s] + n

Positive(n) == IF n > 0 THEN n ELSE 0

\* add_permits(to - from), or a spawned acquire_many(from - to).forget().
Resize(S, from, to) ==
    LET left(s) == IF s \in S THEN Balance(s, to - from) ELSE Balance(s, 0)
    IN  /\ avail' = [s \in Sems |-> Positive(left(s))]
        /\ shrink' = [s \in Sems |-> Positive(-left(s))]
        /\ UNCHANGED inUse

ConfiguredFor(c) == IF override[c] = Unset THEN per_credential_concurrency ELSE override[c]

-----------------------------------------------------------------------------
(* MultiTokenManager::new *)
Init ==
    /\ per_credential_concurrency \in Limits
    /\ global_concurrency \in {0} \cup Limits
    /\ override \in [Creds -> {Unset} \cup Limits]
    /\ exists = (global_concurrency > 0)
    /\ avail = [s \in Sems |-> IF s = Global THEN global_concurrency ELSE ConfiguredFor(s)]
    /\ inUse = [s \in Sems |-> 0]
    /\ shrink = [s \in Sems |-> 0]
    /\ pc = [a \in Admins |-> "idle"]
    /\ req = [a \in Admins |-> NoRequest]
    /\ old = [a \in Admins |-> NoRequest]
    /\ ids = [a \in Admins |-> {}]
    /\ halfChanged = FALSE

-----------------------------------------------------------------------------
(* update_global_config *)

\* Fault: the old limits are read when the new ones are in place already.
BeginUpdateLate(a, u) ==
    /\ pc[a] = "idle"
    /\ req' = [req EXCEPT ![a] = u]
    /\ old' = [old EXCEPT ![a] =
                  [per |-> IF u.per = Unset THEN per_credential_concurrency ELSE u.per,
                   glob |-> IF u.glob = Unset THEN global_concurrency ELSE u.glob]]
    /\ Goto(a, "mutate")
    /\ UNCHANGED <<configVars, semVars, ids, halfChanged>>

\* The snapshot "before the write".
BeginUpdate(a, u) ==
    /\ pc[a] = "idle"
    /\ req' = [req EXCEPT ![a] = u]
    /\ old' = [old EXCEPT ![a] = [per |-> per_credential_concurrency,
                                  glob |-> global_concurrency]]
    /\ Goto(a, "mutate")
    /\ UNCHANGED <<configVars, semVars, ids, halfChanged>>

\* with_config_mut: the closure assigns field after field, and returns early when
\* a later one is invalid or the file cannot be written.
MutateConfig(a) ==
    LET u == req[a]
    IN  /\ pc[a] = "mutate"
        /\ per_credential_concurrency' =
               IF u.per = Unset THEN per_credential_concurrency ELSE u.per
        /\ global_concurrency' = IF u.glob = Unset THEN global_concurrency ELSE u.glob
        /\ IF u.ok THEN Goto(a, "collect") /\ UNCHANGED <<req, old, ids>> ELSE Done(a)
        /\ halfChanged' = (halfChanged \/ (~u.ok /\ (u.per # Unset \/ u.glob # Unset)))
        /\ UNCHANGED <<override, semVars>>

\* set_per_credential_concurrency: the credentials without a limit of their own ...
CollectIds(a) ==
    LET wanted == req[a].per \notin {Unset, old[a].per}
    IN  /\ pc[a] = "collect"
        /\ IF wanted
             THEN /\ ids' = [ids EXCEPT ![a] = {c \in Creds : override[c] = Unset}]
                  /\ Goto(a, "resize")
             ELSE Goto(a, "global") /\ UNCHANGED ids
        /\ UNCHANGED <<configVars, semVars, req, old, halfChanged>>

\* ... and then whatever semaphores these have now.
ResizeCredentials(a) ==
    /\ pc[a] = "resize"
    /\ Resize(ids[a], old[a].per, req[a].per)
    /\ Goto(a, "global")
    /\ UNCHANGED <<configVars, exists, req, old, ids, halfChanged>>

\* set_global_concurrency.  There is no semaphore although the old limit was positive
\* when a refused update has set that limit, which is the case the code calls unreachable.
SetGlobal(a) ==
    LET from == old[a].glob
        to == req[a].glob
    IN  /\ pc[a] = "global"
        /\ IF to = Unset \/ to = from
             THEN UNCHANGED semVars
             ELSE IF to = 0
             THEN exists' = FALSE /\ NewSemaphore(Global, 0)
             ELSE IF from = 0 \/ ~exists
             THEN exists' = TRUE /\ NewSemaphore(Global, to)
             ELSE Resize({Global}, from, to) /\ UNCHANGED exists
        /\ Done(a)
        /\ UNCHANGED <<configVars, halfChanged>>

-----------------------------------------------------------------------------
(* set_credential_concurrency: file, entry, then a new semaphore. *)

SetOverride(a, o) ==
    /\ pc[a] = "idle"
    /\ override' = [override EXCEPT ![o.cred] = o.limit]
    /\ req' = [req EXCEPT ![a] = o]
    /\ Goto(a, "replace")
    /\ UNCHANGED <<per_credential_concurrency, global_concurrency, semVars, old, ids, halfChanged>>

ReplaceSemaphore(a) ==
    LET n == IF req[a].limit = Unset THEN per_credential_concurrency ELSE req[a].limit
    IN  /\ pc[a] = "replace"
        /\ NewSemaphore(req[a].cred, n)
        /\ Done(a)
        /\ UNCHANGED <<configVars, exists, halfChanged>>

-----------------------------------------------------------------------------
(* Calls. *)

Acquire(s) ==
    /\ avail[s] > 0
    /\ avail' = [avail EXCEPT ![s] = @ - 1]
    /\ inUse' = [inUse EXCEPT ![s] = @ + 1]
    /\ UNCHANGED <<configVars, exists, shrink, adminVars, halfChanged>>

\* The permit goes to a task that takes permits away, if one is waiting.
Release(s) ==
    /\ inUse[s] > 0
    /\ inUse' = [inUse EXCEPT ![s] = @ - 1]
    /\ IF shrink[s] > 0
         THEN shrink' = [shrink EXCEPT ![s] = @ - 1] /\ UNCHANGED avail
         ELSE avail' = [avail EXCEPT ![s] = @ + 1] /\ UNCHANGED shrink
    /\ UNCHANGED <<configVars, exists, adminVars, halfChanged>>

\* Bound: a history ends with the refused update that changed a limit; where it left
\* the configuration is in ConfigUpdates.
AdminStep(a) ==
    \/ ~halfChanged /\ \E u \in Update : BeginUpdate(a, u)
    \/ MutateConfig(a)
    \/ CollectIds(a)
    \/ ResizeCredentials(a)
    \/ SetGlobal(a)
    \/ \E o \in Override : SetOverride(a, o)
    \/ ReplaceSemaphore(a)

Next ==
    \/ \E a \in Admins : AdminStep(a)
    \/ \E s \in Sems : Acquire(s) \/ Release(s)

Spec == Init /\ [][Next]_vars

-----------------------------------------------------------------------------
TypeOK ==
    /\ per_credential_concurrency \in Limits
    /\ global_concurrency \in {0} \cup Limits
    /\ override \in [Creds -> {Unset} \cup Limits]
    /\ exists \in BOOLEAN
    /\ avail \in [Sems -> Nat] /\ inUse \in [Sems -> Nat] /\ shrink \in [Sems -> Nat]
    /\ pc \in [Admins -> PC]
    /\ ids \in [Admins -> SUBSET Creds]

\* Between two administrator requests the permits in circulation, less those on
\* their way out, are what the configuration says, through any history of
\* growing, shrinking, overriding and clearing an override, until an update is
\* refused after it changed a limit.
LimitsMatchConfig ==
    ~halfChanged /\ (\A a \in Admins : pc[a] = "idle") =>
        /\ \A c \in Creds : avail[c] + inUse[c] - shrink[c] = ConfiguredFor(c)
        /\ exists <=> global_concurrency > 0
        /\ exists => avail[Global] + inUse[Global] - shrink[Global] = global_concurrency

=============================================================================
