--------------------------- MODULE AcquireContext ---------------------------
(***************************************************************************)
(* How a request gets the permits of a call: MultiTokenManager's            *)
(* acquire_context_excluding (any usable credential), the affinity path in  *)
(* front of it and acquire_context_for_credential (one fixed credential),   *)
(* with their waits, timeouts, retries and cancellation.                    *)
(*                                                                          *)
(* A call holds up to three permits: its credential's, the global one, and  *)
(* its pool proxy's.  They live in tokio semaphores, which are external:    *)
(* a released permit goes to the first waiter of the queue, who finds it    *)
(* when it is scheduled again.  Each lock, try_acquire, await and drop      *)
(* sequence of the code is a step of its own.                               *)
(*                                                                          *)
(* Health (CredentialHealth) and ranking appear only as `disabled`, which   *)
(* may change at any time, and as the set of credentials a request may use. *)
(***************************************************************************)
EXTENDS Naturals, Sequences, FiniteSets

CONSTANTS
    Creds, Requests, Proxies,
    Global,                 \* the global semaphore
    Limit,                  \* permits of each semaphore
    GlobalEnabled,          \* config.global_concurrency > 0
    ProxyOf,                \* the pool proxy a credential is bound to, or NoProxy
    NoProxy, NoCred,
    MaxAttempts             \* max_attempts of one acquisition

Sems == Creds \cup Proxies \cup {Global}

ASSUME AcquireAssumption ==
    /\ Global \notin Creds \cup Proxies /\ Creds \cap Proxies = {}
    /\ Limit \in [Sems -> Nat \ {0}]
    /\ ProxyOf \in [Creds -> Proxies \cup {NoProxy}] /\ NoProxy \notin Proxies
    /\ NoCred \notin Creds
    /\ GlobalEnabled \in BOOLEAN
    /\ MaxAttempts \in Nat \ {0}

VARIABLES
    disabled,               \* CredentialEntry.disabled
    avail,                  \* free permits of each semaphore
    queue,                  \* requests waiting for each semaphore, first in first out
    granted,                \* permits handed to a waiter that has not run since
    held,                   \* permits owned by each request
    pc,                     \* where each request is
    use,                    \* credentials it may use (model, exclusions, pinning)
    mode,                   \* which of the three acquisitions it runs
    candidates,             \* the ranked candidates it is about to wait for
    picked,                 \* the credential it is acquiring or calling with
    attempts                \* attempt_count

semVars == <<avail, queue, granted, held>>
requestVars == <<pc, use, mode, candidates, picked, attempts>>
vars == <<disabled, semVars, requestVars>>

\* acquire_context_excluding, the affinity path in front of it, and
\* acquire_context_for_credential
Mode == {"any", "affine", "pinned"}

PC == {"idle", "pick", "join", "waitCred", "check", "proxy", "global",
       "askGlobal", "waitGlobal", "token", "call"}

-----------------------------------------------------------------------------
(* tokio::sync::Semaphore *)

Waiting(r, s) == \E i \in DOMAIN queue[s] : queue[s][i] = r

\* try_acquire_owned, or acquire_owned finding a permit free.
Take(r, s) ==
    /\ avail[s] > 0
    /\ avail' = [avail EXCEPT ![s] = @ - 1]
    /\ held' = [held EXCEPT ![r] = @ \cup {s}]
    /\ UNCHANGED <<queue, granted>>

\* The queue of s without r, who is in it once: its node is unlinked.
Without(r, s) ==
    LET at == CHOOSE i \in DOMAIN queue[s] : queue[s][i] = r
    IN  IF Waiting(r, s)
          THEN [i \in 1 .. Len(queue[s]) - 1 |-> queue[s][IF i < at THEN i ELSE i + 1]]
          ELSE queue[s]

\* r stops waiting everywhere, returns the permits in S it holds or was granted
\* and keeps those in K.  A returned permit goes to the next waiter.
Return(r, S, K) ==
    LET others(s) == Without(r, s)
        passOn(s) == s \in S /\ others(s) # <<>>
    IN  /\ avail' = [s \in Sems |->
                        IF s \in S /\ ~passOn(s) THEN avail[s] + 1 ELSE avail[s]]
        /\ queue' = [s \in Sems |-> IF passOn(s) THEN Tail(others(s)) ELSE others(s)]
        /\ granted' = [x \in Requests |->
                        {s \in Sems : passOn(s) /\ Head(others(s)) = x}
                            \cup (IF x = r THEN {} ELSE granted[x])]
        /\ held' = [held EXCEPT ![r] = K]

\* Gives back S, keeps the rest.
Drop(r, S) == Return(r, S \cap held[r], held[r] \ S)

\* The future is dropped: every permit goes back and every wait ends.
DropAll(r) == Return(r, held[r] \cup granted[r], {})

Enqueue(r, S) ==
    /\ queue' = [s \in Sems |-> IF s \in S THEN Append(queue[s], r) ELSE queue[s]]
    /\ UNCHANGED <<avail, granted, held>>

-----------------------------------------------------------------------------
Usable(r) == {c \in use[r] : ~disabled[c]}

Goto(r, label) == pc' = [pc EXCEPT ![r] = label]

Pick(r, c) == picked' = [picked EXCEPT ![r] = c]

\* The acquisition or the call is over; every permit it has goes back.
End(r) ==
    /\ DropAll(r)
    /\ Goto(r, "idle")
    /\ Pick(r, NoCred)
    /\ use' = [use EXCEPT ![r] = {}]
    /\ mode' = [mode EXCEPT ![r] = "any"]
    /\ attempts' = [attempts EXCEPT ![r] = 0]
    /\ UNCHANGED <<candidates, disabled>>

\* One attempt is used up; the loop starts again with the permits left.
Retry(r) ==
    /\ Goto(r, "pick")
    /\ Pick(r, NoCred)
    /\ attempts' = [attempts EXCEPT ![r] = @ + 1]
    /\ UNCHANGED <<use, mode, candidates, disabled>>

\* The affinity path hands over to acquire_context_excluding.
FallBack(r) ==
    /\ Goto(r, "pick")
    /\ Pick(r, NoCred)
    /\ mode' = [mode EXCEPT ![r] = "any"]
    /\ UNCHANGED <<use, candidates, attempts, disabled>>

Init ==
    /\ disabled = [c \in Creds |-> FALSE]
    /\ avail = Limit
    /\ queue = [s \in Sems |-> <<>>]
    /\ granted = [r \in Requests |-> {}]
    /\ held = [r \in Requests |-> {}]
    /\ pc = [r \in Requests |-> "idle"]
    /\ use = [r \in Requests |-> {}]
    /\ mode = [r \in Requests |-> "any"]
    /\ candidates = [r \in Requests |-> {}]
    /\ picked = [r \in Requests |-> NoCred]
    /\ attempts = [r \in Requests |-> 0]

\* A request may use the credentials in U; a pinned one has no choice.
Start(r, U, m) ==
    /\ pc[r] = "idle"
    /\ U # {} /\ (m = "pinned" => Cardinality(U) = 1)
    /\ Goto(r, "pick")
    /\ use' = [use EXCEPT ![r] = U]
    /\ mode' = [mode EXCEPT ![r] = m]
    /\ UNCHANGED <<semVars, candidates, picked, attempts, disabled>>

\* No candidate, or attempts used up, or the fixed credential is disabled.
NothingToPick(r) ==
    /\ pc[r] = "pick" /\ mode[r] # "affine"
    /\ Usable(r) = {} \/ attempts[r] >= MaxAttempts
    /\ End(r)

\* The credential bound to the session or client, if a permit of it is free ...
TryBound(r, c) ==
    /\ pc[r] = "pick" /\ mode[r] = "affine"
    /\ c \in Usable(r)
    /\ Take(r, c)
    /\ Pick(r, c)
    /\ Goto(r, "check")
    /\ UNCHANGED <<use, mode, candidates, attempts, disabled>>

\* ... and otherwise, or with nothing bound, any other.
BoundMissed(r) ==
    /\ pc[r] = "pick" /\ mode[r] = "affine"
    /\ FallBack(r)
    /\ UNCHANGED semVars

\* try_acquire on the candidates in rank order: some free one is taken.
TryCandidate(r, c) ==
    /\ pc[r] = "pick" /\ mode[r] = "any" /\ attempts[r] < MaxAttempts
    /\ c \in Usable(r)
    /\ Take(r, c)
    /\ Pick(r, c)
    /\ Goto(r, "check")
    /\ UNCHANGED <<use, mode, candidates, attempts, disabled>>

\* Every candidate is taken: a reserved global permit is given up first.
AllBusy(r) ==
    /\ pc[r] = "pick" /\ mode[r] = "any" /\ attempts[r] < MaxAttempts
    /\ Usable(r) # {} /\ \A c \in Usable(r) : avail[c] = 0
    /\ Drop(r, {Global})
    /\ Goto(r, "join")
    /\ candidates' = [candidates EXCEPT ![r] = Usable(r)]
    /\ UNCHANGED <<use, mode, picked, attempts, disabled>>

\* wait_any_credential on the candidates ranked before: one is free by now ...
JoinFindsFree(r, c) ==
    /\ pc[r] = "join"
    /\ c \in candidates[r]
    /\ Take(r, c)
    /\ Pick(r, c)
    /\ Goto(r, "check")
    /\ candidates' = [candidates EXCEPT ![r] = {}]
    /\ UNCHANGED <<use, mode, attempts, disabled>>

\* ... or it waits for all of them at once.
JoinQueues(r) ==
    /\ pc[r] = "join"
    /\ \A c \in candidates[r] : avail[c] = 0
    /\ Enqueue(r, candidates[r])
    /\ Goto(r, "waitCred")
    /\ candidates' = [candidates EXCEPT ![r] = {}]
    /\ UNCHANGED <<use, mode, picked, attempts, disabled>>

\* acquire_context_for_credential waits for its one credential, keeping a
\* reserved global permit.
PinnedTakes(r, c) ==
    /\ pc[r] = "pick" /\ mode[r] = "pinned"
    /\ c \in Usable(r)
    /\ Take(r, c)
    /\ Pick(r, c)
    /\ Goto(r, "proxy")
    /\ UNCHANGED <<use, mode, candidates, attempts, disabled>>

PinnedQueues(r) ==
    /\ pc[r] = "pick" /\ mode[r] = "pinned"
    /\ Usable(r) # {} /\ \A c \in Usable(r) : avail[c] = 0
    /\ Enqueue(r, Usable(r))
    /\ Goto(r, "waitCred")
    /\ UNCHANGED <<use, mode, candidates, picked, attempts, disabled>>

\* Fault: a second permit granted in the meantime is forgotten.
WakeForgetsOthers(r, c) ==
    /\ pc[r] = "waitCred"
    /\ c \in granted[r]
    /\ Return(r, {}, held[r] \cup {c})
    /\ Pick(r, c)
    /\ Goto(r, IF mode[r] = "pinned" THEN "proxy" ELSE "check")
    /\ UNCHANGED <<use, mode, candidates, attempts, disabled>>

\* select_all returns the first permit it finds and drops the other waits.  Only
\* acquire_context_excluding looks again whether the credential is disabled.
WakeWithCredential(r, c) ==
    /\ pc[r] = "waitCred"
    /\ c \in granted[r]
    /\ Return(r, granted[r] \ {c}, held[r] \cup {c})
    /\ Pick(r, c)
    /\ Goto(r, IF mode[r] = "pinned" THEN "proxy" ELSE "check")
    /\ UNCHANGED <<use, mode, candidates, attempts, disabled>>

\* The timeout elapses with nothing granted.
WaitTimesOut(r) ==
    /\ pc[r] \in {"waitCred", "waitGlobal"}
    /\ granted[r] = {}
    /\ End(r)

Recheck(r) ==
    /\ pc[r] = "check"
    /\ ~disabled[picked[r]]
    /\ Goto(r, "proxy")
    /\ UNCHANGED <<semVars, use, mode, candidates, picked, attempts, disabled>>

RecheckFails(r) ==
    /\ pc[r] = "check"
    /\ disabled[picked[r]]
    /\ Drop(r, {picked[r]})
    /\ IF mode[r] = "affine" THEN FallBack(r) ELSE Retry(r)

\* Fault: a full proxy does not keep the call away.
TakeProxyIfFree(r) ==
    /\ pc[r] = "proxy"
    /\ UNCHANGED semVars
    /\ Goto(r, "global")
    /\ UNCHANGED <<use, mode, candidates, picked, attempts, disabled>>

\* acquire_pool_proxy_for_call
TakeProxy(r) ==
    LET p == ProxyOf[picked[r]]
    IN  /\ pc[r] = "proxy"
        /\ IF p = NoProxy THEN UNCHANGED semVars ELSE Take(r, p)
        /\ Goto(r, "global")
        /\ UNCHANGED <<use, mode, candidates, picked, attempts, disabled>>

\* The proxy is unusable or full, which ends a pinned acquisition.
SkipCredential(r) ==
    /\ pc[r] = "proxy"
    /\ ProxyOf[picked[r]] # NoProxy
    /\ CASE mode[r] = "any"    -> Drop(r, {picked[r]}) /\ Retry(r)
         [] mode[r] = "affine" -> Drop(r, {picked[r]}) /\ FallBack(r)
         [] OTHER              -> End(r)

\* Fault: the global permit is taken for granted.
AssumeGlobal(r) ==
    /\ pc[r] = "global"
    /\ Goto(r, "token")
    /\ UNCHANGED <<semVars, use, mode, candidates, picked, attempts, disabled>>

\* A reserved permit, no global limit, or try_acquire_global_permit.
HaveGlobal(r) ==
    /\ pc[r] = "global"
    /\ IF GlobalEnabled /\ Global \notin held[r] THEN Take(r, Global) ELSE UNCHANGED semVars
    /\ Goto(r, "token")
    /\ UNCHANGED <<use, mode, candidates, picked, attempts, disabled>>

\* Fault: the credential's permit is kept during the wait.
GlobalBusyKeeps(r) ==
    /\ pc[r] = "global"
    /\ GlobalEnabled /\ Global \notin held[r] /\ avail[Global] = 0
    /\ Goto(r, "askGlobal")
    /\ UNCHANGED <<semVars, use, mode, candidates, picked, attempts, disabled>>

\* Busy: proxy and credential go back before the wait for the global permit.
GlobalBusy(r) ==
    /\ pc[r] = "global"
    /\ GlobalEnabled /\ Global \notin held[r] /\ avail[Global] = 0
    /\ Drop(r, Sems \ {Global})
    /\ IF mode[r] = "affine"
         THEN FallBack(r)
         ELSE /\ Pick(r, NoCred)
              /\ Goto(r, "askGlobal")
              /\ UNCHANGED <<use, mode, candidates, attempts, disabled>>

\* acquire_global_permit; the reserved permit leads back to the choice, and no
\* attempt is used up.
AskGlobal(r) ==
    /\ pc[r] = "askGlobal"
    /\ \/ Take(r, Global) /\ Goto(r, "pick")
       \/ avail[Global] = 0 /\ Enqueue(r, {Global}) /\ Goto(r, "waitGlobal")
    /\ UNCHANGED <<use, mode, candidates, picked, attempts, disabled>>

WakeWithGlobal(r) ==
    /\ pc[r] = "waitGlobal"
    /\ Global \in granted[r]
    /\ Return(r, {}, held[r] \cup {Global})
    /\ Goto(r, "pick")
    /\ UNCHANGED <<use, mode, candidates, picked, attempts, disabled>>

TokenReady(r) ==
    /\ pc[r] = "token"
    /\ Goto(r, "call")
    /\ UNCHANGED <<semVars, use, mode, candidates, picked, attempts, disabled>>

\* The three permits go back before the failure is reported; the loop goes on
\* if an enabled credential is left.
TokenFails(r) ==
    /\ pc[r] = "token"
    /\ CASE mode[r] = "affine" -> Drop(r, Sems) /\ FallBack(r)
         [] mode[r] = "any" /\ (\E c \in Creds : ~disabled[c]) -> Drop(r, Sems) /\ Retry(r)
         [] OTHER -> End(r)

\* The call ends and its CallContext is dropped.
Finish(r) == pc[r] = "call" /\ End(r)

\* The client goes away: the handler's future is dropped where it awaits.
Cancel(r) == pc[r] \in {"waitCred", "waitGlobal", "token", "call"} /\ End(r)

\* A failure report, an administrator or the recovery switches a credential.
ToggleDisabled(c) ==
    /\ disabled' = [disabled EXCEPT ![c] = ~@]
    /\ UNCHANGED <<semVars, requestVars>>

-----------------------------------------------------------------------------
PickStep(r) ==
    \/ NothingToPick(r)
    \/ \E c \in Creds : TryBound(r, c) \/ TryCandidate(r, c) \/ PinnedTakes(r, c)
    \/ BoundMissed(r)
    \/ AllBusy(r)
    \/ PinnedQueues(r)

JoinStep(r) == JoinQueues(r) \/ \E c \in Creds : JoinFindsFree(r, c)

Wake(r) == WakeWithGlobal(r) \/ \E c \in Creds : WakeWithCredential(r, c)

CheckStep(r) == Recheck(r) \/ RecheckFails(r)
ProxyStep(r) == TakeProxy(r) \/ SkipCredential(r)
GlobalStep(r) == HaveGlobal(r) \/ GlobalBusy(r)
TokenStep(r) == TokenReady(r) \/ TokenFails(r)

\* What the request does when it is scheduled, as opposed to what happens to it.
Runs(r) ==
    \/ PickStep(r) \/ JoinStep(r) \/ Wake(r) \/ CheckStep(r) \/ ProxyStep(r)
    \/ GlobalStep(r) \/ AskGlobal(r) \/ TokenStep(r) \/ Finish(r)

Next ==
    \/ \E r \in Requests :
          \/ \E U \in SUBSET Creds, m \in Mode : Start(r, U, m)
          \/ Runs(r)
          \/ WaitTimesOut(r)
          \/ Cancel(r)
    \/ \E c \in Creds : ToggleDisabled(c)

Spec == Init /\ [][Next]_vars

\* Every future that can run is polled; a call ends.  Timeouts and clients that
\* go away are not relied on.
FairSpec == Spec /\ \A r \in Requests : WF_vars(Runs(r))

-----------------------------------------------------------------------------
TypeOK ==
    /\ disabled \in [Creds -> BOOLEAN]
    /\ avail \in [Sems -> Nat]
    /\ queue \in [Sems -> Seq(Requests)]
    /\ granted \in [Requests -> SUBSET Sems]
    /\ held \in [Requests -> SUBSET Sems]
    /\ pc \in [Requests -> PC]
    /\ use \in [Requests -> SUBSET Creds]
    /\ mode \in [Requests -> Mode]
    /\ candidates \in [Requests -> SUBSET Creds]
    /\ picked \in [Requests -> Creds \cup {NoCred}]
    /\ attempts \in [Requests -> 0 .. MaxAttempts]

\* Timeouts, cancellations, retries and lost races neither leak a permit nor
\* give one back twice: the permits are free or with requests under way.
PermitsConserved ==
    \A s \in Sems :
        avail[s] + Cardinality({r \in Requests :
                       pc[r] # "idle" /\ s \in held[r] \cup granted[r]}) = Limit[s]

\* token_manager.rs:2220: nobody waits for the global permit while it holds a
\* credential's, and a request free to choose waits for credentials with empty
\* hands: what is waited for is never held by a request that waits.
NoHoldAndWait ==
    \A r \in Requests :
        /\ pc[r] = "waitGlobal" => held[r] = {}
        /\ pc[r] = "waitCred" => held[r] \subseteq (IF mode[r] = "pinned" THEN {Global} ELSE {})

\* A call runs with its credential's permit, its proxy's and the global one, so
\* that no more calls run at once than each of the limits allows.
CallIsCovered ==
    \A r \in Requests : pc[r] = "call" =>
        /\ picked[r] \in held[r]
        /\ ProxyOf[picked[r]] # NoProxy => ProxyOf[picked[r]] \in held[r]
        /\ GlobalEnabled => Global \in held[r]

\* The promise made to callers.
Admission == INSTANCE CallAdmission
    WITH running <- [r \in Requests |-> IF pc[r] = "call" THEN picked[r] ELSE NoCred]

AdmissionSpec == Admission!Spec

\* With neither timeouts nor cancellation to help, who waits is served: no
\* cycle of waits, no permit that passes a waiter by.
WaitEnds ==
    \A r \in Requests :
        pc[r] \in {"waitCred", "waitGlobal"} ~> pc[r] \notin {"waitCred", "waitGlobal"}

=============================================================================
