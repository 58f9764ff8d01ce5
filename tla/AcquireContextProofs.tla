------------------------ MODULE AcquireContextProofs ------------------------
(***************************************************************************)
(* Proofs about AcquireContext, for every set of credentials, proxies and   *)
(* requests and all limits: what a request holds at each point of its way,  *)
(* neither less (a call has every permit it needs) nor more (who waits      *)
(* holds nothing that others wait for).  The queues of the semaphores play  *)
(* no part in it: a request changes what it holds itself, and nobody else   *)
(* does.  The second part is about the semaphores: no permit is lost or     *)
(* given back twice, and so a call starts only below the limits, which is   *)
(* what CallAdmission promises.                                             *)
(***************************************************************************)
EXTENDS AcquireContext, FiniteSetTheorems, SequenceTheorems, TLAPS

Picked == {"check", "proxy", "global", "token", "call"}

\* What a request may be, at label, in mode m, with a attempts used, having picked c
\* and holding the permits in K: it has what it needs ...
HasWhatItNeeds(label, c, K) ==
    /\ label \in Picked => c \in Creds /\ c \in K
    /\ label \in {"global", "token", "call"} /\ ProxyOf[c] # NoProxy => ProxyOf[c] \in K
    /\ label \in {"token", "call"} /\ GlobalEnabled => Global \in K

\* ... and no more, above all while it waits ...
HasNoMore(label, m, c, K) ==
    /\ label \in {"idle", "join", "askGlobal", "waitGlobal"} => K = {}
    /\ label \in {"pick", "waitCred"} => K \subseteq {Global}
    /\ label = "waitCred" /\ m # "pinned" => K = {}
    /\ label \in {"check", "proxy"} => K \subseteq {c, Global}

\* ... and only the free choice retries; the affinity path never waits.
StaysInMode(label, m, a) ==
    /\ label \in {"join", "waitCred", "askGlobal", "waitGlobal"} => m # "affine"
    /\ label = "join" => m = "any"
    /\ label = "check" => m # "pinned"
    /\ label = "idle" \/ m # "any" => a = 0
    /\ label \notin {"idle", "pick"} /\ m = "any" => a < MaxAttempts

Fits(label, m, a, c, K) ==
    HasWhatItNeeds(label, c, K) /\ HasNoMore(label, m, c, K) /\ StaysInMode(label, m, a)

\* The part of TypeOK that is about what a request changes of itself.
RequestTypes ==
    /\ held \in [Requests -> SUBSET Sems]
    /\ pc \in [Requests -> PC]
    /\ mode \in [Requests -> Mode]
    /\ attempts \in [Requests -> 0 .. MaxAttempts]
    /\ picked \in [Requests -> Creds \cup {NoCred}]

Covered(r) == Fits(pc[r], mode[r], attempts[r], picked[r], held[r])

CoveredInv == RequestTypes /\ \A r \in Requests : Covered(r)

\* What a step of r owes: it says where r is, in which mode, after how many attempts,
\* with which credential and what it holds, and leaves the other requests alone.
Moves(r, label, m, a, c, K) ==
    /\ pc' = [pc EXCEPT ![r] = label]
    /\ mode' = [mode EXCEPT ![r] = m]
    /\ attempts' = [attempts EXCEPT ![r] = a]
    /\ picked' = [picked EXCEPT ![r] = c]
    /\ held' = [held EXCEPT ![r] = K]

\* A step keeps CoveredInv if the one request that moves is what it may be.
LEMMA MovesAreEnough ==
    ASSUME CoveredInv, NEW r \in Requests, NEW label \in PC, NEW m \in Mode,
           NEW a \in 0 .. MaxAttempts, NEW c \in Creds \cup {NoCred}, NEW K \in SUBSET Sems,
           Moves(r, label, m, a, c, K), Fits(label, m, a, c, K)
    PROVE  CoveredInv'
<1>1. RequestTypes'
  BY DEF CoveredInv, RequestTypes, Moves
<1>2. ASSUME NEW x \in Requests PROVE Covered(x)'
  <2>1. CASE x = r
    BY <2>1 DEF CoveredInv, RequestTypes, Moves, Covered
  <2>2. CASE x # r
    <3>1. /\ pc'[x] = pc[x] /\ mode'[x] = mode[x] /\ attempts'[x] = attempts[x]
          /\ picked'[x] = picked[x] /\ held'[x] = held[x]
      BY <2>2 DEF CoveredInv, RequestTypes, Moves
    <3>2. Covered(x)
      BY DEF CoveredInv
    <3> QED
      BY <3>1, <3>2 DEF Covered
  <2> QED
    BY <2>1, <2>2
<1> QED
  BY <1>1, <1>2 DEF CoveredInv

\* What CoveredInv says of one request, and of an EXCEPT that puts back what was there.
LEMMA OneRequest ==
    ASSUME CoveredInv, NEW r \in Requests
    PROVE  /\ held[r] \in SUBSET Sems /\ pc[r] \in PC /\ mode[r] \in Mode
           /\ attempts[r] \in 0 .. MaxAttempts /\ picked[r] \in Creds \cup {NoCred}
           /\ held = [held EXCEPT ![r] = held[r]] /\ picked = [picked EXCEPT ![r] = picked[r]]
           /\ mode = [mode EXCEPT ![r] = mode[r]]
           /\ attempts = [attempts EXCEPT ![r] = attempts[r]]
           /\ HasWhatItNeeds(pc[r], picked[r], held[r])
           /\ HasNoMore(pc[r], mode[r], picked[r], held[r])
           /\ StaysInMode(pc[r], mode[r], attempts[r])
  BY DEF CoveredInv, RequestTypes, Covered, Fits

\* The loop is left, or entered again.
LEMMA RoundEnds ==
    ASSUME CoveredInv, NEW r \in Requests
    PROVE  /\ End(r) => CoveredInv'
           /\ \A S : Drop(r, S) /\ Retry(r) /\ held[r] \ S \subseteq {Global}
                     /\ mode[r] = "any" /\ pc[r] # "idle" /\ pc[r] # "pick" => CoveredInv'
           /\ \A S : Drop(r, S) /\ FallBack(r) /\ held[r] \ S \subseteq {Global}
                     /\ mode[r] = "affine" => CoveredInv'
           /\ UNCHANGED held /\ FallBack(r) /\ held[r] \subseteq {Global}
                     /\ mode[r] = "affine" => CoveredInv'
<1> USE DEF Picked, PC, Mode
<1>t. /\ MaxAttempts \in Nat \ {0} /\ 0 \in 0 .. MaxAttempts /\ {} \in SUBSET Sems
      /\ NoCred \in Creds \cup {NoCred} /\ Global \in Sems
  BY AcquireAssumption DEF Sems
<1>1. ASSUME End(r) PROVE CoveredInv'
  <2>1. Moves(r, "idle", "any", 0, NoCred, {})
    BY <1>1 DEF End, DropAll, Return, Goto, Pick, Moves
  <2>2. Fits("idle", "any", 0, NoCred, {})
    BY DEF Fits, HasWhatItNeeds, HasNoMore, StaysInMode
  <2> QED
    BY <2>1, <2>2, <1>t, MovesAreEnough
<1>2. ASSUME NEW S, Drop(r, S), Retry(r), held[r] \ S \subseteq {Global},
             mode[r] = "any", pc[r] # "idle", pc[r] # "pick"
      PROVE  CoveredInv'
  <2>1. Moves(r, "pick", mode[r], attempts[r] + 1, NoCred, held[r] \ S)
    BY <1>2, OneRequest DEF Drop, Return, Retry, Goto, Pick, Moves
  <2>2. attempts[r] + 1 \in 0 .. MaxAttempts
    BY <1>2, <1>t, OneRequest DEF StaysInMode
  <2>3. Fits("pick", mode[r], attempts[r] + 1, NoCred, held[r] \ S)
    BY <1>2 DEF Fits, HasWhatItNeeds, HasNoMore, StaysInMode
  <2>4. held[r] \ S \in SUBSET Sems
    BY OneRequest
  <2> QED
    BY <2>1, <2>2, <2>3, <2>4, <1>t, OneRequest, MovesAreEnough, ZenonT(30)
<1>3. ASSUME NEW K \in SUBSET {Global}, held' = [held EXCEPT ![r] = K], FallBack(r),
             mode[r] = "affine"
      PROVE  CoveredInv'
  <2>1. Moves(r, "pick", "any", 0, NoCred, K)
    BY <1>3, OneRequest DEF FallBack, Goto, Pick, Moves, StaysInMode
  <2>2. Fits("pick", "any", 0, NoCred, K)
    BY <1>3 DEF Fits, HasWhatItNeeds, HasNoMore, StaysInMode
  <2> QED
    BY <2>1, <2>2, <1>t, MovesAreEnough
<1>4. ASSUME NEW S, Drop(r, S), FallBack(r), held[r] \ S \subseteq {Global}, mode[r] = "affine"
      PROVE  CoveredInv'
  BY <1>3, <1>4 DEF Drop, Return
<1>5. ASSUME UNCHANGED held, FallBack(r), held[r] \subseteq {Global}, mode[r] = "affine"
      PROVE  CoveredInv'
  BY <1>3, <1>5, OneRequest
<1> QED
  BY <1>1, <1>2, <1>4, <1>5

\* Nobody holds a permit, or has picked anything, at the start.
LEMMA CoveredInit == Init => CoveredInv
  BY AcquireAssumption
     DEF Init, CoveredInv, RequestTypes, Covered, Picked, PC, Mode, Fits, HasWhatItNeeds,
         HasNoMore, StaysInMode

\* Every step a request takes, or that a timeout or its client takes for it.
LEMMA CoveredStep ==
    ASSUME CoveredInv, NEW r \in Requests,
           \/ \E U \in SUBSET Creds, m \in Mode : Start(r, U, m)
           \/ Runs(r) \/ WaitTimesOut(r) \/ Cancel(r)
    PROVE  CoveredInv'
<1> DEFINE m0 == mode[r]  a0 == attempts[r]  c0 == picked[r]  K0 == held[r]
<1> USE DEF Picked, PC, Mode
<1>t. /\ K0 \in SUBSET Sems /\ pc[r] \in PC /\ m0 \in Mode
      /\ a0 \in 0 .. MaxAttempts /\ c0 \in Creds \cup {NoCred}
      /\ held = [held EXCEPT ![r] = K0] /\ picked = [picked EXCEPT ![r] = c0]
      /\ mode = [mode EXCEPT ![r] = m0] /\ attempts = [attempts EXCEPT ![r] = a0]
  BY OneRequest
<1>f. /\ HasWhatItNeeds(pc[r], c0, K0) /\ HasNoMore(pc[r], m0, c0, K0)
      /\ StaysInMode(pc[r], m0, a0)
  BY OneRequest
<1>s. /\ Creds \subseteq Sems /\ Global \in Sems /\ Global \notin Creds
      /\ MaxAttempts \in Nat \ {0}
  BY AcquireAssumption DEF Sems
<1> HIDE DEF m0, a0, c0, K0
<1>1. CASE \E U \in SUBSET Creds, m \in Mode : Start(r, U, m)
  <2> PICK U \in SUBSET Creds, m \in Mode : Start(r, U, m)
    BY <1>1
  <2>1. Moves(r, "pick", m, a0, c0, K0)
    BY <1>t DEF Start, Goto, Moves, semVars
  <2>2. Fits("pick", m, a0, c0, K0)
    BY <1>f, <1>s, <1>t DEF Start, Fits, HasWhatItNeeds, HasNoMore, StaysInMode
  <2> QED
    BY <2>1, <2>2, <1>t, MovesAreEnough
<1>2. CASE NothingToPick(r) \/ WaitTimesOut(r) \/ Cancel(r) \/ Finish(r)
  BY <1>2, RoundEnds DEF NothingToPick, WaitTimesOut, Cancel, Finish
<1>3. CASE BoundMissed(r)
  BY <1>3, <1>f, RoundEnds DEF BoundMissed, semVars, HasNoMore, m0, K0
<1>4. ASSUME NEW c \in Creds, TryBound(r, c) \/ TryCandidate(r, c) \/ JoinFindsFree(r, c)
      PROVE  CoveredInv'
  <2>1. Moves(r, "check", m0, a0, c, K0 \cup {c})
    BY <1>4, <1>t DEF TryBound, TryCandidate, JoinFindsFree, Take, Goto, Pick, Moves, K0
  <2>2. Fits("check", m0, a0, c, K0 \cup {c})
    BY <1>4, <1>f, <1>s, <1>t
       DEF TryBound, TryCandidate, JoinFindsFree, Fits, HasWhatItNeeds, HasNoMore,
           StaysInMode, m0, a0
  <2> QED
    BY <2>1, <2>2, <1>t, <1>s, MovesAreEnough
<1>5. ASSUME NEW c \in Creds, PinnedTakes(r, c)
      PROVE  CoveredInv'
  <2>1. Moves(r, "proxy", m0, a0, c, K0 \cup {c})
    BY <1>5, <1>t DEF PinnedTakes, Take, Goto, Pick, Moves, K0
  <2>2. Fits("proxy", m0, a0, c, K0 \cup {c})
    BY <1>5, <1>f, <1>s, <1>t
       DEF PinnedTakes, Fits, HasWhatItNeeds, HasNoMore, StaysInMode, m0
  <2> QED
    BY <2>1, <2>2, <1>t, <1>s, MovesAreEnough
<1>6. CASE AllBusy(r)
  <2>1. Moves(r, "join", m0, a0, c0, K0 \ {Global})
    BY <1>6, <1>t DEF AllBusy, Drop, Return, Goto, Moves, K0
  <2>2. Fits("join", m0, a0, c0, K0 \ {Global})
    BY <1>6, <1>f, <1>s, <1>t
       DEF AllBusy, Fits, HasWhatItNeeds, HasNoMore, StaysInMode, m0, a0
  <2> QED
    BY <2>1, <2>2, <1>t, MovesAreEnough
<1>7. CASE PinnedQueues(r) \/ JoinQueues(r)
  <2>1. Moves(r, "waitCred", m0, a0, c0, K0)
    BY <1>7, <1>t DEF PinnedQueues, JoinQueues, Enqueue, Goto, Moves
  <2>2. Fits("waitCred", m0, a0, c0, K0)
    BY <1>7, <1>f, <1>s, <1>t
       DEF PinnedQueues, JoinQueues, Fits, HasWhatItNeeds, HasNoMore, StaysInMode, m0
  <2> QED
    BY <2>1, <2>2, <1>t, MovesAreEnough
<1>8. ASSUME NEW c \in Creds, WakeWithCredential(r, c)
      PROVE  CoveredInv'
  <2> DEFINE label == IF m0 = "pinned" THEN "proxy" ELSE "check"
  <2>1. Moves(r, label, m0, a0, c, K0 \cup {c})
    BY <1>8, <1>t DEF WakeWithCredential, Return, Goto, Pick, Moves, K0, m0
  <2>2. Fits(label, m0, a0, c, K0 \cup {c})
    BY <1>8, <1>f, <1>s, <1>t
       DEF WakeWithCredential, Fits, HasWhatItNeeds, HasNoMore, StaysInMode
  <2> QED
    BY <2>1, <2>2, <1>t, <1>s, MovesAreEnough
<1>9. CASE WakeWithGlobal(r)
  <2>1. Moves(r, "pick", m0, a0, c0, K0 \cup {Global})
    BY <1>9, <1>t DEF WakeWithGlobal, Return, Goto, Moves, K0
  <2>2. Fits("pick", m0, a0, c0, K0 \cup {Global})
    BY <1>9, <1>f, <1>s, <1>t
       DEF WakeWithGlobal, Fits, HasWhatItNeeds, HasNoMore, StaysInMode
  <2> QED
    BY <2>1, <2>2, <1>t, <1>s, MovesAreEnough
<1>10. CASE Recheck(r)
  <2>1. Moves(r, "proxy", m0, a0, c0, K0)
    BY <1>10, <1>t DEF Recheck, Goto, Moves, semVars
  <2>2. Fits("proxy", m0, a0, c0, K0)
    BY <1>10, <1>f, <1>s, <1>t DEF Recheck, Fits, HasWhatItNeeds, HasNoMore, StaysInMode
  <2> QED
    BY <2>1, <2>2, <1>t, MovesAreEnough
<1>11. CASE RecheckFails(r)
  <2>1. K0 \ {c0} \subseteq {Global}
    BY <1>11, <1>f DEF RecheckFails, HasNoMore
  <2>2. m0 \in {"affine", "any"}
    BY <1>11, <1>f, <1>t DEF RecheckFails, StaysInMode
  <2> QED
    BY <1>11, <2>1, <2>2, RoundEnds DEF RecheckFails, m0, c0, K0
<1>12. CASE TakeProxy(r)
  <2> DEFINE p == ProxyOf[c0]
             K == IF p = NoProxy THEN K0 ELSE K0 \cup {p}
  <2>1. c0 \in Creds
    BY <1>12, <1>f DEF TakeProxy, HasWhatItNeeds
  <2>2. K \in SUBSET Sems
    BY <2>1, <1>t, AcquireAssumption DEF Sems
  <2>3. Moves(r, "global", m0, a0, c0, K)
    BY <1>12, <1>t DEF TakeProxy, Take, Goto, Moves, semVars, K0, c0
  <2>4. Fits("global", m0, a0, c0, K)
    BY <1>12, <1>f, <1>t DEF TakeProxy, Fits, HasWhatItNeeds, HasNoMore, StaysInMode
  <2> QED
    BY <2>2, <2>3, <2>4, <1>t, MovesAreEnough
<1>13. CASE SkipCredential(r)
  <2>1. K0 \ {c0} \subseteq {Global}
    BY <1>13, <1>f DEF SkipCredential, HasNoMore
  <2>2. CASE m0 = "any" \/ m0 = "affine"
    BY <1>13, <2>1, <2>2, RoundEnds DEF SkipCredential, m0, c0, K0
  <2>3. CASE m0 = "pinned"
    BY <1>13, <2>3, RoundEnds DEF SkipCredential, m0
  <2> QED
    BY <2>2, <2>3, <1>t
<1>14. CASE HaveGlobal(r)
  <2> DEFINE K == IF GlobalEnabled /\ Global \notin K0 THEN K0 \cup {Global} ELSE K0
  <2>1. Moves(r, "token", m0, a0, c0, K)
    BY <1>14, <1>t DEF HaveGlobal, Take, Goto, Moves, semVars, K0
  <2>2. Fits("token", m0, a0, c0, K)
    BY <1>14, <1>f, <1>t DEF HaveGlobal, Fits, HasWhatItNeeds, HasNoMore, StaysInMode
  <2> QED
    BY <2>1, <2>2, <1>t, <1>s, MovesAreEnough
<1>15. CASE GlobalBusy(r)
  <2>1. K0 \ (Sems \ {Global}) \subseteq {} /\ {} \subseteq {Global}
    BY <1>15, <1>t DEF GlobalBusy, K0
  <2>2. CASE m0 = "affine"
    BY <1>15, <2>1, <2>2, RoundEnds DEF GlobalBusy, m0, K0
  <2>3. CASE m0 # "affine"
    <3>1. Moves(r, "askGlobal", m0, a0, NoCred, {})
      BY <1>15, <2>1, <2>3, <1>t DEF GlobalBusy, Drop, Return, Goto, Pick, Moves, m0, K0
    <3>2. Fits("askGlobal", m0, a0, NoCred, {})
      BY <1>15, <1>f, <1>t, <2>3
         DEF GlobalBusy, Fits, HasWhatItNeeds, HasNoMore, StaysInMode
    <3> QED
      BY <3>1, <3>2, <1>t, MovesAreEnough
  <2> QED
    BY <2>2, <2>3
<1>16. CASE AskGlobal(r)
  <2>1. CASE Take(r, Global) /\ Goto(r, "pick")
    <3>1. Moves(r, "pick", m0, a0, c0, K0 \cup {Global})
      BY <1>16, <2>1, <1>t DEF AskGlobal, Take, Goto, Moves, K0
    <3>2. Fits("pick", m0, a0, c0, K0 \cup {Global})
      BY <1>16, <1>f, <1>t DEF AskGlobal, Fits, HasWhatItNeeds, HasNoMore, StaysInMode
    <3> QED
      BY <3>1, <3>2, <1>t, <1>s, MovesAreEnough
  <2>2. CASE Enqueue(r, {Global}) /\ Goto(r, "waitGlobal")
    <3>1. Moves(r, "waitGlobal", m0, a0, c0, K0)
      BY <1>16, <2>2, <1>t DEF AskGlobal, Enqueue, Goto, Moves
    <3>2. Fits("waitGlobal", m0, a0, c0, K0)
      BY <1>16, <1>f, <1>t DEF AskGlobal, Fits, HasWhatItNeeds, HasNoMore, StaysInMode
    <3> QED
      BY <3>1, <3>2, <1>t, MovesAreEnough
  <2> QED
    BY <1>16, <2>1, <2>2 DEF AskGlobal
<1>17. CASE TokenReady(r)
  <2>1. Moves(r, "call", m0, a0, c0, K0)
    BY <1>17, <1>t DEF TokenReady, Goto, Moves, semVars
  <2>2. Fits("call", m0, a0, c0, K0)
    BY <1>17, <1>f, <1>t DEF TokenReady, Fits, HasWhatItNeeds, HasNoMore, StaysInMode
  <2> QED
    BY <2>1, <2>2, <1>t, MovesAreEnough
<1>18. CASE TokenFails(r)
  <2>1. K0 \ Sems \subseteq {Global}
    BY <1>t
  <2>2. CASE m0 = "affine"
    BY <1>18, <2>1, <2>2, RoundEnds DEF TokenFails, m0, K0
  <2>3. CASE m0 = "any"
    BY <1>18, <2>1, <2>3, RoundEnds DEF TokenFails, m0, K0
  <2>4. CASE m0 = "pinned"
    BY <1>18, <2>4, RoundEnds DEF TokenFails, m0
  <2> QED
    BY <2>2, <2>3, <2>4, <1>t
<1> QED
  BY <1>1, <1>2, <1>3, <1>4, <1>5, <1>6, <1>7, <1>8, <1>9, <1>10, <1>11, <1>12, <1>13,
     <1>14, <1>15, <1>16, <1>17, <1>18
     DEF Runs, PickStep, JoinStep, Wake, CheckStep, ProxyStep, GlobalStep, TokenStep

\* CoveredInv is inductive.
THEOREM CoveredCorrect == Spec => []CoveredInv
<1>1. CoveredInv /\ [Next]_vars => CoveredInv'
  <2> SUFFICES ASSUME CoveredInv, [Next]_vars PROVE CoveredInv'
    OBVIOUS
  <2>1. ASSUME NEW c \in Creds, ToggleDisabled(c) PROVE CoveredInv'
    BY <2>1 DEF ToggleDisabled, semVars, requestVars, CoveredInv, RequestTypes, Covered
  <2>2. CASE UNCHANGED vars
    BY <2>2 DEF vars, semVars, requestVars, CoveredInv, RequestTypes, Covered
  <2> QED
    BY <2>1, <2>2, CoveredStep DEF Next
<1> QED
  BY CoveredInit, <1>1, PTL DEF Spec

\* Every call on every path (any, affine, pinned) runs with the permit of its
\* credential, of its proxy and of the program.
THEOREM CallsAreCovered == Spec => []CallIsCovered
<1>1. CoveredInv => CallIsCovered
  BY DEF CoveredInv, Covered, Fits, HasWhatItNeeds, CallIsCovered, Picked
<1> QED
  BY CoveredCorrect, <1>1, PTL

\* Who waits for the global permit holds nothing, and who waits for a credential holds
\* nothing but a reserved global permit, and that only with no choice: no cycle of waits.
THEOREM WaitersHoldNothing == Spec => []NoHoldAndWait
<1>1. CoveredInv => NoHoldAndWait
  BY DEF CoveredInv, Covered, Fits, HasNoMore, NoHoldAndWait
<1> QED
  BY CoveredCorrect, <1>1, PTL

-----------------------------------------------------------------------------
(* The semaphores: who owns a permit, and where the others are. *)

Owns(r) == held[r] \cup granted[r]
Owners(s) == {r \in Requests : s \in Owns(r)}

SemTypes ==
    /\ avail \in [Sems -> Nat]
    /\ queue \in [Sems -> Seq(Requests)]
    /\ granted \in [Requests -> SUBSET Sems]
    /\ held \in [Requests -> SUBSET Sems]

\* A request is in a queue once, and only for what it has not got.
InLineOnce(s) == \A i, j \in DOMAIN queue[s] : queue[s][i] = queue[s][j] => i = j
WaitsForOthers(r) == \A s \in Owns(r) : ~Waiting(r, s)
GrantedIsNew(r) == held[r] \cap granted[r] = {}

Balanced(s) == IsFiniteSet(Owners(s)) /\ avail[s] + Cardinality(Owners(s)) = Limit[s]

SemInv ==
    /\ SemTypes
    /\ \A s \in Sems : InLineOnce(s) /\ Balanced(s)
    /\ \A r \in Requests : WaitsForOthers(r) /\ GrantedIsNew(r)

Idle(r) == granted[r] = {} /\ \A s \in Sems : ~Waiting(r, s)

-----------------------------------------------------------------------------
(* What Without does to a queue. *)

\* Without r, a queue holds the others, each of them once.
LEMMA WithoutOne ==
    ASSUME SemTypes, NEW r \in Requests, NEW s \in Sems, InLineOnce(s)
    PROVE  /\ Without(r, s) \in Seq(Requests)
           /\ \A i, j \in DOMAIN Without(r, s) : Without(r, s)[i] = Without(r, s)[j] => i = j
           /\ \A i \in DOMAIN Without(r, s) :
                  Without(r, s)[i] # r /\ Waiting(Without(r, s)[i], s)
<1> DEFINE q == queue[s]
           at == CHOOSE i \in DOMAIN q : q[i] = r
<1>1. q \in Seq(Requests) /\ Len(q) \in Nat /\ DOMAIN q = 1 .. Len(q)
  BY DEF SemTypes
<1>2. CASE ~Waiting(r, s)
  BY <1>1, <1>2 DEF Without, Waiting, InLineOnce
<1>3. CASE Waiting(r, s)
  <2>1. at \in 1 .. Len(q) /\ q[at] = r
    BY <1>1, <1>3 DEF Waiting
  <2> DEFINE o == [i \in 1 .. Len(q) - 1 |-> q[IF i < at THEN i ELSE i + 1]]
  <2>2. Without(r, s) = o
    BY <1>3 DEF Without
  <2> HIDE DEF at
  <2>3. Len(q) - 1 \in Nat
    BY <1>1, <2>1
  <2>4. \A i \in 1 .. Len(q) - 1 : (IF i < at THEN i ELSE i + 1) \in 1 .. Len(q)
    BY <1>1, <2>1
  <2>5. o \in Seq(Requests) /\ DOMAIN o = 1 .. Len(q) - 1
    <3> DEFINE n == Len(q) - 1
    <3>1. \A i \in 1 .. n : o[i] \in Requests
      BY <1>1, <2>4
    <3>2. o \in [1 .. n -> Requests]
      BY <3>1
    <3> QED
      BY <2>3, <3>2
  <2>6. ASSUME NEW i \in DOMAIN o, NEW j \in DOMAIN o, o[i] = o[j] PROVE i = j
    <3> DEFINE a == IF i < at THEN i ELSE i + 1
               b == IF j < at THEN j ELSE j + 1
    <3>1. a = b
      BY <1>1, <2>4, <2>5, <2>6 DEF InLineOnce
    <3> QED
      BY <1>1, <2>1, <2>5, <3>1
  <2>7. ASSUME NEW i \in DOMAIN o PROVE o[i] # r /\ Waiting(o[i], s)
    <3> DEFINE a == IF i < at THEN i ELSE i + 1
    <3>1. a \in DOMAIN q /\ a # at
      BY <1>1, <2>1, <2>4, <2>5
    <3>2. q[a] # q[at]
      BY <1>1, <2>1, <3>1 DEF InLineOnce
    <3> QED
      BY <2>1, <2>5, <3>1, <3>2 DEF Waiting
  <2> HIDE DEF o
  <2> QED
    BY <2>2, <2>5, <2>6, <2>7
<1> QED
  BY <1>2, <1>3

-----------------------------------------------------------------------------
(* Each operation of the semaphores keeps SemInv. *)

LEMMA OwnersAre ==
    ASSUME SemTypes, NEW s \in Sems
    PROVE  Owners(s) \subseteq Requests /\ \A x \in Requests : x \in Owners(s) <=> s \in Owns(x)
  BY DEF Owners

LEMMA TakeKeeps ==
    ASSUME SemInv, NEW r \in Requests, NEW s \in Sems, Idle(r), s \notin held[r], Take(r, s)
    PROVE  SemInv'
<1>1. /\ avail' = [avail EXCEPT ![s] = @ - 1] /\ avail[s] \in Nat \ {0}
      /\ held' = [held EXCEPT ![r] = @ \cup {s}] /\ queue' = queue /\ granted' = granted
      /\ SemTypes
  BY DEF Take, SemInv, SemTypes
<1>2. SemTypes'
  BY <1>1 DEF SemTypes
<1>3. ASSUME NEW t \in Sems PROVE InLineOnce(t)' /\ Balanced(t)'
  <2>1. InLineOnce(t) /\ Balanced(t)
    BY DEF SemInv
  <2>2. InLineOnce(t)'
    BY <1>1, <2>1 DEF InLineOnce
  <2>3. CASE t = s
    <3>1. Owners(s)' = Owners(s) \cup {r} /\ r \notin Owners(s)
      BY <1>1 DEF Owners, Owns, SemTypes, Idle
    <3>2. IsFiniteSet(Owners(s)') /\ Cardinality(Owners(s)') = Cardinality(Owners(s)) + 1
      BY <2>1, <2>3, <3>1, FS_AddElement DEF Balanced
    <3>3. Cardinality(Owners(s)) \in Nat
      BY <2>1, <2>3, FS_CardinalityType DEF Balanced
    <3>4. avail'[s] = avail[s] - 1
      BY <1>1 DEF SemTypes
    <3> QED
      BY <1>1, <2>1, <2>2, <2>3, <3>2, <3>3, <3>4 DEF Balanced
  <2>4. CASE t # s
    <3>1. Owners(t)' = Owners(t) /\ avail'[t] = avail[t]
      BY <1>1, <2>4 DEF Owners, Owns, SemTypes
    <3> QED
      BY <2>1, <2>2, <3>1 DEF Balanced
  <2> QED
    BY <2>3, <2>4
<1>4. ASSUME NEW x \in Requests PROVE WaitsForOthers(x)' /\ GrantedIsNew(x)'
  <2>1. WaitsForOthers(x) /\ GrantedIsNew(x)
    BY DEF SemInv
  <2>2. /\ Owns(x)' = Owns(x) \cup (IF x = r THEN {s} ELSE {})
        /\ \A t : Waiting(x, t)' <=> Waiting(x, t)
    BY <1>1 DEF Owns, Waiting, SemTypes
  <2>3. WaitsForOthers(x)'
    BY <2>1, <2>2 DEF WaitsForOthers, Idle
  <2>4. GrantedIsNew(x)'
    BY <1>1, <2>1 DEF GrantedIsNew, SemTypes, Idle
  <2> QED
    BY <2>3, <2>4
<1> QED
  BY <1>2, <1>3, <1>4 DEF SemInv

LEMMA EnqueueKeeps ==
    ASSUME SemInv, NEW r \in Requests, NEW S \in SUBSET Sems, Idle(r), S \cap held[r] = {},
           Enqueue(r, S)
    PROVE  /\ SemInv'
           /\ \A x \in Requests, s \in Sems :
                  Waiting(x, s)' => Waiting(x, s) \/ (x = r /\ s \in S)
<1>1. /\ queue' = [s \in Sems |-> IF s \in S THEN Append(queue[s], r) ELSE queue[s]]
      /\ avail' = avail /\ granted' = granted /\ held' = held /\ SemTypes
  BY DEF Enqueue, SemInv
<1>2. SemTypes'
  BY <1>1 DEF SemTypes
<1>3. ASSUME NEW s \in Sems
      PROVE  /\ InLineOnce(s)'
             /\ \A x \in Requests : Waiting(x, s)' => Waiting(x, s) \/ (x = r /\ s \in S)
  <2>1. InLineOnce(s) /\ ~Waiting(r, s) /\ queue[s] \in Seq(Requests)
    BY <1>1 DEF SemInv, Idle, SemTypes
  <2>2. CASE s \notin S
    BY <1>1, <2>1, <2>2 DEF InLineOnce, Waiting
  <2>3. CASE s \in S
    <3> DEFINE q == queue[s]
    <3>1. queue'[s] = Append(q, r)
      BY <1>1, <2>3
    <3>2. /\ Len(q) \in Nat /\ DOMAIN Append(q, r) = 1 .. Len(q) + 1
          /\ DOMAIN q = 1 .. Len(q)
          /\ \A i \in 1 .. Len(q) : Append(q, r)[i] = q[i]
          /\ Append(q, r)[Len(q) + 1] = r
      BY <2>1
    <3>3. \A i \in 1 .. Len(q) : q[i] # r
      BY <2>1, <3>2 DEF Waiting
    <3>4. \A i, j \in 1 .. Len(q) : q[i] = q[j] => i = j
      BY <2>1, <3>2 DEF InLineOnce
    <3>5. ASSUME NEW i \in 1 .. Len(q) + 1, NEW j \in 1 .. Len(q) + 1,
                 Append(q, r)[i] = Append(q, r)[j]
          PROVE  i = j
      BY <3>2, <3>3, <3>4, <3>5
    <3>6. \A i \in 1 .. Len(q) + 1 : Append(q, r)[i] # r => i \in DOMAIN q /\ Append(q, r)[i] = q[i]
      BY <3>2
    <3> HIDE DEF q
    <3>7. InLineOnce(s)'
      BY <3>1, <3>2, <3>5 DEF InLineOnce
    <3>8. \A x \in Requests : Waiting(x, s)' => Waiting(x, s) \/ x = r
      BY <3>1, <3>2, <3>6 DEF Waiting, q
    <3> QED
      BY <2>3, <3>7, <3>8
  <2> QED
    BY <2>2, <2>3
<1>4. ASSUME NEW s \in Sems PROVE Balanced(s)'
  BY <1>1 DEF SemInv, Balanced, Owners, Owns
<1>5. ASSUME NEW x \in Requests PROVE WaitsForOthers(x)' /\ GrantedIsNew(x)'
  <2>1. WaitsForOthers(x) /\ GrantedIsNew(x) /\ Owns(x)' = Owns(x) /\ Owns(x) \subseteq Sems
    BY <1>1 DEF SemInv, Owns, SemTypes
  <2>2. x = r => Owns(x) \cap S = {}
    BY DEF Idle, Owns
  <2> QED
    BY <1>1, <1>3, <2>1, <2>2 DEF WaitsForOthers, GrantedIsNew
<1> QED
  BY <1>2, <1>3, <1>4, <1>5 DEF SemInv

\* What Return does to one semaphore: what goes back goes to the first who waits for it,
\* and is free only if nobody does.
PassedOn(r, S, s) == s \in S /\ Without(r, s) # <<>>

LEMMA ReturnEffect ==
    ASSUME SemInv, NEW r \in Requests, NEW S \in SUBSET Owns(r),
           Return(r, S, Owns(r) \ S), NEW s \in Sems
    PROVE  /\ queue'[s] = IF PassedOn(r, S, s) THEN Tail(Without(r, s)) ELSE Without(r, s)
           /\ avail'[s] = IF s \in S /\ ~PassedOn(r, S, s) THEN avail[s] + 1 ELSE avail[s]
           /\ \A x \in Requests :
                  /\ s \in granted'[x] <=>
                         \/ PassedOn(r, S, s) /\ x = Head(Without(r, s))
                         \/ x # r /\ s \in granted[x]
                  /\ s \in Owns(x)' <=>
                         \/ PassedOn(r, S, s) /\ x = Head(Without(r, s))
                         \/ s \in Owns(x) /\ ~(x = r /\ s \in S)
<1>1. SemTypes
  BY DEF SemInv
<1>2. /\ queue'[s] = IF PassedOn(r, S, s) THEN Tail(Without(r, s)) ELSE Without(r, s)
      /\ avail'[s] = IF s \in S /\ ~PassedOn(r, S, s) THEN avail[s] + 1 ELSE avail[s]
  BY DEF Return, PassedOn
<1>3. ASSUME NEW x \in Requests
      PROVE  s \in granted'[x] <=>
                 \/ PassedOn(r, S, s) /\ x = Head(Without(r, s))
                 \/ x # r /\ s \in granted[x]
  BY DEF Return, PassedOn
<1>4. ASSUME NEW x \in Requests
      PROVE  s \in held'[x] <=> IF x = r THEN s \in Owns(r) \ S ELSE s \in held[x]
  BY <1>1 DEF Return, SemTypes
<1>5. ASSUME NEW x \in Requests
      PROVE  s \in Owns(x)' <=>
                 \/ PassedOn(r, S, s) /\ x = Head(Without(r, s))
                 \/ s \in Owns(x) /\ ~(x = r /\ s \in S)
  BY <1>3, <1>4 DEF Owns
<1> QED
  BY <1>2, <1>3, <1>5

LEMMA ReturnKeeps ==
    ASSUME SemInv, NEW r \in Requests, NEW S \in SUBSET Owns(r), Return(r, S, Owns(r) \ S)
    PROVE  /\ SemInv'
           /\ Idle(r)'
           /\ \A x \in Requests, s \in Sems :
                  /\ Waiting(x, s)' => Waiting(x, s)
                  /\ s \in granted'[x] => s \in granted[x] \/ Waiting(x, s)
<1>1. SemTypes /\ S \subseteq Sems /\ Owns(r) \subseteq Sems
  BY DEF SemInv, SemTypes, Owns
<1>2. ASSUME NEW s \in Sems
      PROVE  /\ avail'[s] \in Nat /\ queue'[s] \in Seq(Requests)
             /\ InLineOnce(s)' /\ Balanced(s)'
             /\ ~Waiting(r, s)' /\ s \notin granted'[r]
             /\ \A x \in Requests :
                    /\ Waiting(x, s)' => Waiting(x, s) /\ s \notin Owns(x)'
                    /\ s \in granted'[x] => s \in granted[x] \/ Waiting(x, s)
                    /\ s \notin granted'[x] \/ s \notin held'[x]
  <2> DEFINE q == Without(r, s)
             passed == s \in S /\ q # <<>>
  <2>1. /\ InLineOnce(s) /\ Balanced(s) /\ avail[s] \in Nat
        /\ \A x \in Requests : Waiting(x, s) => s \notin Owns(x)
    BY <1>1 DEF SemInv, WaitsForOthers, SemTypes
  <2>2. /\ q \in Seq(Requests) /\ \A i, j \in DOMAIN q : q[i] = q[j] => i = j
        /\ \A i \in DOMAIN q : q[i] # r /\ Waiting(q[i], s)
    BY <1>1, <2>1, WithoutOne
  <2>3. /\ queue'[s] = IF passed THEN Tail(q) ELSE q
        /\ avail'[s] = IF s \in S /\ ~passed THEN avail[s] + 1 ELSE avail[s]
        /\ \A x \in Requests :
               /\ s \in granted'[x] <=> (passed /\ x = Head(q)) \/ (x # r /\ s \in granted[x])
               /\ s \in Owns(x)' <=>
                      (passed /\ x = Head(q)) \/ (s \in Owns(x) /\ ~(x = r /\ s \in S))
    BY ReturnEffect DEF PassedOn
  <2>4. Owners(s) \subseteq Requests /\ IsFiniteSet(Owners(s)) /\ Cardinality(Owners(s)) \in Nat
    BY <2>1, FS_CardinalityType DEF Owners, Balanced
  <2>5. s \in S => r \in Owners(s)
    BY DEF Owners
  <2>6. q # <<>> => Head(q) = q[1] /\ 1 \in DOMAIN q /\ Head(q) \in Requests
    BY <2>2
  <2>7. passed => /\ Tail(q) \in Seq(Requests) /\ DOMAIN Tail(q) = 1 .. Len(q) - 1
                  /\ \A i \in DOMAIN Tail(q) : Tail(q)[i] = q[i + 1] /\ i + 1 \in DOMAIN q
    BY <2>2
  <2> HIDE DEF q
  <2>8. avail'[s] \in Nat /\ queue'[s] \in Seq(Requests) /\ InLineOnce(s)'
    <3>1. CASE passed
      BY <3>1, <2>1, <2>2, <2>3, <2>7 DEF InLineOnce
    <3>2. CASE ~passed
      BY <3>2, <2>1, <2>2, <2>3 DEF InLineOnce
    <3> QED
      BY <3>1, <3>2
  <2>9. \A i \in DOMAIN queue'[s] :
            /\ queue'[s][i] # r /\ Waiting(queue'[s][i], s)
            /\ ~(passed /\ queue'[s][i] = Head(q))
    <3>1. CASE passed
      BY <3>1, <2>2, <2>3, <2>6, <2>7
    <3>2. CASE ~passed
      BY <3>2, <2>2, <2>3
    <3> QED
      BY <3>1, <3>2
  <2>10. Balanced(s)'
    <3>1. CASE passed
      <4>1. /\ Owners(s)' = (Owners(s) \ {r}) \cup {Head(q)} /\ Head(q) \notin Owners(s)
            /\ r \in Owners(s)
        BY <3>1, <2>1, <2>2, <2>3, <2>5, <2>6 DEF Owners
      <4>2. /\ IsFiniteSet(Owners(s) \ {r})
            /\ Cardinality(Owners(s) \ {r}) = Cardinality(Owners(s)) - 1
        BY <4>1, <2>4, FS_RemoveElement
      <4>3. /\ IsFiniteSet(Owners(s)')
            /\ Cardinality(Owners(s)') = Cardinality(Owners(s)) - 1 + 1
        BY <4>1, <4>2, FS_AddElement
      <4> QED
        BY <3>1, <4>3, <2>1, <2>3, <2>4 DEF Balanced
    <3>2. CASE s \in S /\ ~passed
      <4>1. Owners(s)' = Owners(s) \ {r} /\ r \in Owners(s)
        BY <3>2, <2>3, <2>5 DEF Owners
      <4>2. /\ IsFiniteSet(Owners(s)')
            /\ Cardinality(Owners(s)') = Cardinality(Owners(s)) - 1
        BY <4>1, <2>4, FS_RemoveElement
      <4> QED
        BY <3>2, <4>2, <2>1, <2>3, <2>4 DEF Balanced
    <3>3. CASE s \notin S
      <4>1. Owners(s)' = Owners(s)
        BY <3>3, <2>3 DEF Owners
      <4> QED
        BY <3>3, <4>1, <2>1, <2>3 DEF Balanced
    <3> QED
      BY <3>1, <3>2, <3>3
  <2>11. ~Waiting(r, s)' /\ s \notin granted'[r]
    BY <2>2, <2>3, <2>6, <2>9 DEF Waiting
  <2>12. ASSUME NEW x \in Requests
         PROVE  /\ Waiting(x, s)' => Waiting(x, s) /\ s \notin Owns(x)'
                /\ s \in granted'[x] => s \in granted[x] \/ Waiting(x, s)
                /\ s \notin granted'[x] \/ s \notin held'[x]
    <3>1. Waiting(x, s)' => Waiting(x, s) /\ ~(passed /\ x = Head(q))
      BY <2>9 DEF Waiting
    <3>2. Waiting(x, s)' => s \notin Owns(x)'
      BY <3>1, <2>1, <2>3
    <3>3. s \in granted'[x] => s \in granted[x] \/ Waiting(x, s)
      BY <2>2, <2>3, <2>6
    <3>4. s \notin granted'[x] \/ s \notin held'[x]
      <4>1. CASE x = r
        BY <4>1, <2>11
      <4>2. CASE x # r
        <5>1. held'[x] = held[x] /\ (s \notin held[x] \/ s \notin granted[x])
          BY <4>2, <1>1 DEF Return, SemTypes, SemInv, GrantedIsNew
        <5>2. held'[x] = held[x]
          BY <4>2, <1>1 DEF Return, SemTypes
        <5> QED
          BY <5>1, <5>2, <3>3, <2>1, <2>2, <2>3, <2>6 DEF Owns
      <4> QED
        BY <4>1, <4>2
    <3> QED
      BY <3>1, <3>2, <3>3, <3>4
  <2> QED
    BY <2>8, <2>10, <2>11, <2>12
<1>3. SemTypes'
  <2>1. /\ DOMAIN avail' = Sems /\ avail' = [s \in Sems |-> avail'[s]]
        /\ queue' = [s \in Sems |-> queue'[s]]
        /\ granted' \in [Requests -> SUBSET Sems] /\ held' \in [Requests -> SUBSET Sems]
    BY <1>1 DEF Return, SemTypes
  <2> QED
    BY <1>2, <2>1 DEF SemTypes
<1>4. Idle(r)'
  BY <1>2, <1>3 DEF Idle, SemTypes
<1>5. ASSUME NEW x \in Requests PROVE WaitsForOthers(x)' /\ GrantedIsNew(x)'
  <2>1. Owns(x)' \subseteq Sems /\ granted'[x] \subseteq Sems
    BY <1>3 DEF Owns, SemTypes
  <2> QED
    BY <1>2, <2>1 DEF WaitsForOthers, GrantedIsNew
<1> QED
  BY <1>2, <1>3, <1>4, <1>5 DEF SemInv

-----------------------------------------------------------------------------
(* Who waits for what, and what each step is to the semaphores. *)

Waits == {"waitCred", "waitGlobal"}

\* Only who waits is in a queue or has been granted something, and for the global permit
\* nobody waits beside another.
WaitsWhere(r) ==
    /\ pc[r] \notin Waits => Idle(r)
    /\ pc[r] = "waitGlobal" =>
           granted[r] \subseteq {Global} /\ \A s \in Sems : Waiting(r, s) => s = Global

\* The rest of TypeOK.
OtherTypes ==
    /\ disabled \in [Creds -> BOOLEAN]
    /\ use \in [Requests -> SUBSET Creds]
    /\ candidates \in [Requests -> SUBSET Creds]

PermitsInv == CoveredInv /\ OtherTypes /\ SemInv /\ \A r \in Requests : WaitsWhere(r)

Untouched(r) == UNCHANGED semVars /\ pc[r] \notin Waits /\ pc'[r] \notin Waits

Takes(r) ==
    /\ \E s \in Sems : s \notin held[r] /\ Take(r, s)
    /\ pc[r] \notin Waits /\ pc'[r] \notin Waits

GetsInLine(r) ==
    /\ pc[r] \notin Waits /\ pc'[r] \in Waits
    /\ \E S \in SUBSET Sems :
           /\ S \cap held[r] = {} /\ Enqueue(r, S)
           /\ pc'[r] = "waitGlobal" => S = {Global}

GivesBack(r) ==
    /\ \E S \in SUBSET Owns(r) : Return(r, S, Owns(r) \ S)
    /\ pc'[r] \notin Waits

SemStep(r) ==
    /\ \E label \in PC : Goto(r, label)
    /\ Untouched(r) \/ Takes(r) \/ GetsInLine(r) \/ GivesBack(r)

LEMMA SameSems ==
    ASSUME SemInv, UNCHANGED semVars
    PROVE  SemInv'
<1>1. queue' = queue /\ avail' = avail /\ granted' = granted /\ held' = held
  BY DEF semVars
<1>2. ASSUME NEW s PROVE (InLineOnce(s) <=> InLineOnce(s)') /\ (Balanced(s) <=> Balanced(s)')
  BY <1>1 DEF InLineOnce, Balanced, Owners, Owns
<1>3. ASSUME NEW r
      PROVE  (WaitsForOthers(r) <=> WaitsForOthers(r)') /\ (GrantedIsNew(r) <=> GrantedIsNew(r)')
  BY <1>1 DEF WaitsForOthers, GrantedIsNew, Owns, Waiting
<1>4. SemTypes'
  BY <1>1 DEF SemInv, SemTypes
<1> QED
  BY <1>2, <1>3, <1>4 DEF SemInv

LEMMA SemStepKeeps ==
    ASSUME PermitsInv, NEW r \in Requests, SemStep(r)
    PROVE  SemInv' /\ \A x \in Requests : WaitsWhere(x)'
<1>1. /\ SemInv /\ SemTypes /\ WaitsWhere(r)
      /\ pc \in [Requests -> PC] /\ \A x \in Requests \ {r} : pc'[x] = pc[x]
  BY DEF PermitsInv, SemStep, Goto, SemInv, CoveredInv, RequestTypes
<1>2. ASSUME SemInv',
             pc'[r] \notin Waits => Idle(r)',
             pc'[r] = "waitGlobal" => /\ granted'[r] \subseteq {Global}
                                      /\ \A s \in Sems : Waiting(r, s)' => s = Global,
             \A x \in Requests \ {r}, s \in Sems :
                 /\ Waiting(x, s)' => Waiting(x, s)
                 /\ s \in granted'[x] => s \in granted[x] \/ Waiting(x, s)
      PROVE  \A x \in Requests : WaitsWhere(x)'
  <2> SUFFICES ASSUME NEW x \in Requests PROVE WaitsWhere(x)'
    OBVIOUS
  <2>1. CASE x = r
    BY <1>2, <2>1 DEF WaitsWhere
  <2>2. CASE x # r
    <3>1. granted'[x] \subseteq Sems /\ WaitsWhere(x) /\ pc'[x] = pc[x]
      BY <1>1, <1>2, <2>2 DEF SemInv, SemTypes, PermitsInv
    <3> QED
      BY <1>2, <2>2, <3>1 DEF WaitsWhere, Idle
  <2> QED
    BY <2>1, <2>2
<1>3. CASE Untouched(r)
  <2>1. SemInv'
    BY <1>1, <1>3, SameSems DEF Untouched
  <2> QED
    BY <1>1, <1>2, <1>3, <2>1 DEF Untouched, semVars, WaitsWhere, Idle, Waiting, Waits
<1>4. CASE Takes(r)
  <2>1. PICK s \in Sems : s \notin held[r] /\ Take(r, s)
    BY <1>4 DEF Takes
  <2>2. SemInv'
    BY <1>1, <1>4, <2>1, TakeKeeps DEF Takes, WaitsWhere
  <2> QED
    BY <1>1, <1>2, <1>4, <2>1, <2>2 DEF Takes, Take, WaitsWhere, Idle, Waiting, Waits
<1>5. CASE GetsInLine(r)
  <2>1. PICK S \in SUBSET Sems : /\ S \cap held[r] = {} /\ Enqueue(r, S)
                                 /\ pc'[r] = "waitGlobal" => S = {Global}
    BY <1>5 DEF GetsInLine
  <2>2. Idle(r)
    BY <1>1, <1>5 DEF GetsInLine, WaitsWhere
  <2>3. /\ SemInv' /\ \A x \in Requests, s \in Sems :
                          Waiting(x, s)' => Waiting(x, s) \/ (x = r /\ s \in S)
    BY <1>1, <2>1, <2>2, EnqueueKeeps
  <2>4. granted' = granted
    BY <2>1 DEF Enqueue
  <2>5. pc'[r] \in Waits
    BY <1>5 DEF GetsInLine
  <2> QED
    BY <1>1, <1>2, <2>1, <2>2, <2>3, <2>4, <2>5 DEF Idle
<1>6. CASE GivesBack(r)
  <2>1. PICK S \in SUBSET Owns(r) : Return(r, S, Owns(r) \ S)
    BY <1>6 DEF GivesBack
  <2>2. /\ SemInv' /\ Idle(r)'
        /\ \A x \in Requests, s \in Sems :
               /\ Waiting(x, s)' => Waiting(x, s)
               /\ s \in granted'[x] => s \in granted[x] \/ Waiting(x, s)
    BY <1>1, <2>1, ReturnKeeps
  <2> QED
    BY <1>2, <1>6, <2>2 DEF GivesBack, Waits
<1> QED
  BY <1>3, <1>4, <1>5, <1>6 DEF SemStep

\* Dropping permits is giving them back, for a request that waits for nothing.
LEMMA DropGivesBack ==
    ASSUME PermitsInv, NEW r \in Requests
    PROVE  /\ \A S : Drop(r, S) /\ Idle(r) => \E T \in SUBSET Owns(r) : Return(r, T, Owns(r) \ T)
           /\ DropAll(r) => \E T \in SUBSET Owns(r) : Return(r, T, Owns(r) \ T)
<1>1. ASSUME NEW S, Drop(r, S), Idle(r)
      PROVE  \E T \in SUBSET Owns(r) : Return(r, T, Owns(r) \ T)
  <2>1. Owns(r) = held[r]
    BY <1>1 DEF Idle, Owns
  <2>2. S \cap held[r] \in SUBSET Owns(r) /\ Owns(r) \ (S \cap held[r]) = held[r] \ S
    BY <2>1
  <2> QED
    BY <1>1, <2>2 DEF Drop
<1>2. ASSUME DropAll(r) PROVE \E T \in SUBSET Owns(r) : Return(r, T, Owns(r) \ T)
  <2>1. held[r] \cup granted[r] = Owns(r) /\ {} = Owns(r) \ Owns(r)
    BY DEF Owns
  <2> QED
    BY <1>2, <2>1 DEF DropAll
<1> QED
  BY <1>1, <1>2

\* Each step of a request is one of the four.
LEMMA StepsAreSemSteps ==
    ASSUME PermitsInv, NEW r \in Requests,
           \/ \E U \in SUBSET Creds, m \in Mode : Start(r, U, m)
           \/ Runs(r) \/ WaitTimesOut(r) \/ Cancel(r)
    PROVE  SemStep(r)
<1> USE DEF Waits, PC, Goto
<1>t. /\ pc \in [Requests -> PC] /\ WaitsWhere(r) /\ GrantedIsNew(r)
      /\ HasNoMore(pc[r], mode[r], picked[r], held[r]) /\ HasWhatItNeeds(pc[r], picked[r], held[r])
      /\ candidates[r] \in SUBSET Creds /\ use[r] \in SUBSET Creds
      /\ Creds \subseteq Sems /\ Global \in Sems /\ Global \notin Creds
  BY OneRequest, AcquireAssumption
     DEF PermitsInv, OtherTypes, SemInv, CoveredInv, RequestTypes, Sems
<1>1. CASE \E U \in SUBSET Creds, m \in Mode : Start(r, U, m)
  BY <1>1, <1>t DEF Start, SemStep, Untouched
<1>2. ASSUME End(r) PROVE SemStep(r)
  BY <1>2, <1>t, DropGivesBack DEF End, SemStep, GivesBack
<1>3. ASSUME NEW S, Drop(r, S), pc[r] \notin Waits, NEW label \in PC \ Waits, Goto(r, label)
      PROVE  SemStep(r)
  BY <1>3, <1>t, DropGivesBack DEF WaitsWhere, SemStep, GivesBack
<1>4. ASSUME NEW s \in Sems, Take(r, s), s \notin held[r], pc[r] \notin Waits,
             NEW label \in PC \ Waits, Goto(r, label)
      PROVE  SemStep(r)
  BY <1>4, <1>t DEF SemStep, Takes
<1>5. CASE NothingToPick(r) \/ WaitTimesOut(r) \/ Cancel(r) \/ Finish(r)
  BY <1>2, <1>5 DEF NothingToPick, WaitTimesOut, Cancel, Finish
<1>6. CASE BoundMissed(r) \/ Recheck(r) \/ TokenReady(r)
  BY <1>6, <1>t DEF BoundMissed, FallBack, Recheck, TokenReady, SemStep, Untouched
<1>7. ASSUME NEW c \in Creds,
             TryBound(r, c) \/ TryCandidate(r, c) \/ PinnedTakes(r, c) \/ JoinFindsFree(r, c)
      PROVE  SemStep(r)
  <2>1. Take(r, c) /\ pc[r] \in {"pick", "join"}
    BY <1>7 DEF TryBound, TryCandidate, PinnedTakes, JoinFindsFree
  <2>2. c \notin held[r]
    BY <2>1, <1>t DEF HasNoMore
  <2>3. PICK label \in {"check", "proxy"} : Goto(r, label)
    BY <1>7 DEF TryBound, TryCandidate, PinnedTakes, JoinFindsFree
  <2> QED
    BY <2>1, <2>2, <2>3, <1>4, <1>t
<1>8. CASE AllBusy(r)
  BY <1>8, <1>3 DEF AllBusy
<1>9. CASE PinnedQueues(r)
  BY <1>9, <1>t DEF PinnedQueues, SemStep, GetsInLine, HasNoMore, Usable
<1>10. CASE JoinQueues(r)
  BY <1>10, <1>t DEF JoinQueues, SemStep, GetsInLine, HasNoMore
<1>11. ASSUME NEW c \in Creds, WakeWithCredential(r, c)
       PROVE  SemStep(r)
  <2>1. granted[r] \ {c} \in SUBSET Owns(r) /\ Owns(r) \ (granted[r] \ {c}) = held[r] \cup {c}
    BY <1>11, <1>t DEF WakeWithCredential, Owns, GrantedIsNew
  <2> QED
    BY <1>11, <2>1, <1>t DEF WakeWithCredential, SemStep, GivesBack
<1>12. CASE WakeWithGlobal(r)
  <2>1. {} \in SUBSET Owns(r) /\ Owns(r) \ {} = held[r] \cup {Global}
    BY <1>12, <1>t DEF WakeWithGlobal, Owns, WaitsWhere
  <2> QED
    BY <1>12, <2>1, <1>t DEF WakeWithGlobal, SemStep, GivesBack
<1>13. CASE RecheckFails(r) \/ SkipCredential(r) \/ TokenFails(r)
  BY <1>13, <1>2, <1>3 DEF RecheckFails, SkipCredential, TokenFails, Retry, FallBack
<1>14. CASE TakeProxy(r)
  <2>1. CASE ProxyOf[picked[r]] = NoProxy
    BY <1>14, <2>1, <1>t DEF TakeProxy, SemStep, Untouched
  <2>2. CASE ProxyOf[picked[r]] # NoProxy
    <3>1. /\ ProxyOf[picked[r]] \in Sems
          /\ ProxyOf[picked[r]] \notin held[r]
      BY <1>14, <2>2, <1>t, AcquireAssumption
         DEF TakeProxy, HasWhatItNeeds, HasNoMore, Picked, Sems
    <3> QED
      BY <1>14, <2>2, <3>1, <1>4 DEF TakeProxy
  <2> QED
    BY <2>1, <2>2
<1>15. CASE HaveGlobal(r)
  BY <1>15, <1>4, <1>t DEF HaveGlobal, SemStep, Untouched
<1>16. CASE GlobalBusy(r)
  BY <1>16, <1>3 DEF GlobalBusy, FallBack
<1>17. CASE AskGlobal(r)
  <2>1. Global \notin held[r]
    BY <1>17, <1>t DEF AskGlobal, HasNoMore
  <2>2. CASE Take(r, Global) /\ Goto(r, "pick")
    BY <1>17, <2>1, <2>2, <1>4, <1>t DEF AskGlobal
  <2>3. CASE Enqueue(r, {Global}) /\ Goto(r, "waitGlobal")
    BY <1>17, <2>1, <2>3, <1>t DEF AskGlobal, SemStep, GetsInLine
  <2> QED
    BY <1>17, <2>2, <2>3 DEF AskGlobal
<1> QED
  BY <1>1, <1>5, <1>6, <1>7, <1>8, <1>9, <1>10, <1>11, <1>12, <1>13, <1>14, <1>15, <1>16, <1>17
     DEF Runs, PickStep, JoinStep, Wake, CheckStep, ProxyStep, GlobalStep, TokenStep

-----------------------------------------------------------------------------
(* The inductive invariant. *)

LEMMA PermitsInit == Init => PermitsInv
<1> SUFFICES ASSUME Init PROVE PermitsInv
  OBVIOUS
<1>1. /\ avail = Limit /\ queue = [s \in Sems |-> <<>>]
      /\ granted = [r \in Requests |-> {}] /\ held = [r \in Requests |-> {}]
  BY DEF Init
<1>2. SemTypes /\ \A s \in Sems : \A r : ~Waiting(r, s)
  BY <1>1, AcquireAssumption DEF SemTypes, Waiting
<1>3. ASSUME NEW s \in Sems PROVE InLineOnce(s) /\ Balanced(s)
  <2>1. Owners(s) = {} /\ avail[s] = Limit[s] /\ Limit[s] \in Nat /\ queue[s] = <<>>
    BY <1>1, AcquireAssumption DEF Owners, Owns
  <2> QED
    BY <2>1, FS_EmptySet DEF InLineOnce, Balanced
<1>4. ASSUME NEW r \in Requests PROVE WaitsForOthers(r) /\ GrantedIsNew(r) /\ WaitsWhere(r)
  BY <1>1, <1>2 DEF Init, WaitsForOthers, GrantedIsNew, WaitsWhere, Owns, Idle, Waits
<1>5. OtherTypes
  BY DEF Init, OtherTypes
<1> QED
  BY <1>2, <1>3, <1>4, <1>5, CoveredInit DEF SemInv, PermitsInv

LEMMA OtherTypesKept ==
    ASSUME PermitsInv, NEW r \in Requests,
           \/ \E U \in SUBSET Creds, m \in Mode : Start(r, U, m)
           \/ Runs(r) \/ WaitTimesOut(r) \/ Cancel(r)
    PROVE  OtherTypes'
<1>1. OtherTypes
  BY DEF PermitsInv
<1>2. CASE \E U \in SUBSET Creds, m \in Mode : Start(r, U, m)
  BY <1>1, <1>2 DEF Start, OtherTypes
<1>3. End(r) \/ Retry(r) \/ FallBack(r) => OtherTypes'
  BY <1>1 DEF End, Retry, FallBack, OtherTypes
<1>4. CASE NothingToPick(r) \/ WaitTimesOut(r) \/ Cancel(r) \/ Finish(r) \/ BoundMissed(r)
  BY <1>3, <1>4 DEF NothingToPick, WaitTimesOut, Cancel, Finish, BoundMissed
<1>5. CASE RecheckFails(r) \/ SkipCredential(r) \/ TokenFails(r)
  BY <1>3, <1>5 DEF RecheckFails, SkipCredential, TokenFails
<1>6. CASE \E c \in Creds :
               TryBound(r, c) \/ TryCandidate(r, c) \/ PinnedTakes(r, c) \/ WakeWithCredential(r, c)
  BY <1>1, <1>6 DEF TryBound, TryCandidate, PinnedTakes, WakeWithCredential, OtherTypes
<1>7. CASE AllBusy(r) \/ JoinQueues(r) \/ \E c \in Creds : JoinFindsFree(r, c)
  BY <1>1, <1>7 DEF AllBusy, JoinQueues, JoinFindsFree, OtherTypes, Usable
<1>8. CASE PinnedQueues(r) \/ Recheck(r) \/ TakeProxy(r) \/ HaveGlobal(r) \/ AskGlobal(r)
  BY <1>1, <1>8 DEF PinnedQueues, Recheck, TakeProxy, HaveGlobal, AskGlobal, OtherTypes
<1>9. CASE WakeWithGlobal(r) \/ TokenReady(r)
  BY <1>1, <1>9 DEF WakeWithGlobal, TokenReady, OtherTypes
<1>10. CASE GlobalBusy(r)
  BY <1>1, <1>3, <1>10 DEF GlobalBusy, OtherTypes
<1> QED
  BY <1>2, <1>4, <1>5, <1>6, <1>7, <1>8, <1>9, <1>10
     DEF Runs, PickStep, JoinStep, Wake, CheckStep, ProxyStep, GlobalStep, TokenStep

LEMMA PermitsStep == PermitsInv /\ [Next]_vars => PermitsInv'
<1> SUFFICES ASSUME PermitsInv, [Next]_vars PROVE PermitsInv'
  OBVIOUS
<1>1. ASSUME NEW r \in Requests,
             \/ \E U \in SUBSET Creds, m \in Mode : Start(r, U, m)
             \/ Runs(r) \/ WaitTimesOut(r) \/ Cancel(r)
      PROVE  PermitsInv'
  <2>1. CoveredInv'
    BY <1>1, CoveredStep DEF PermitsInv
  <2>2. SemInv' /\ \A x \in Requests : WaitsWhere(x)'
    BY <1>1, StepsAreSemSteps, SemStepKeeps
  <2> QED
    BY <1>1, <2>1, <2>2, OtherTypesKept DEF PermitsInv
<1>2. ASSUME UNCHANGED <<semVars, requestVars>>, disabled' \in [Creds -> BOOLEAN]
      PROVE  PermitsInv'
  <2>1. CoveredInv' /\ OtherTypes'
    BY <1>2 DEF semVars, requestVars, PermitsInv, OtherTypes, CoveredInv, RequestTypes, Covered
  <2>2. SemInv'
    BY <1>2, SameSems DEF PermitsInv
  <2>3. \A x \in Requests : WaitsWhere(x)'
    BY <1>2 DEF semVars, requestVars, PermitsInv, WaitsWhere, Idle, Waiting
  <2> QED
    BY <2>1, <2>2, <2>3 DEF PermitsInv
<1>3. ASSUME NEW c \in Creds, ToggleDisabled(c) PROVE PermitsInv'
  BY <1>2, <1>3 DEF ToggleDisabled, PermitsInv, OtherTypes
<1>4. CASE UNCHANGED vars
  BY <1>2, <1>4 DEF vars, PermitsInv, OtherTypes
<1> QED
  BY <1>1, <1>3, <1>4 DEF Next

\* PermitsInv is inductive.
THEOREM PermitsCorrect == Spec => []PermitsInv
  BY PermitsInit, PermitsStep, PTL DEF Spec

\* Types: above all, no count of free permits falls below zero and no loop goes on after
\* its last attempt.
THEOREM AcquireTypeCorrect == Spec => []TypeOK
<1>1. PermitsInv => TypeOK
  BY DEF PermitsInv, CoveredInv, RequestTypes, OtherTypes, SemInv, SemTypes, TypeOK
<1> QED
  BY <1>1, PermitsCorrect, PTL

\* No permit is lost, and none is given back twice: whatever times out, is cancelled, is
\* tried again or loses a race, the permits are free or with requests under way.
THEOREM NoPermitIsLost == Spec => []PermitsConserved
<1>1. ASSUME PermitsInv PROVE PermitsConserved
  <2> SUFFICES ASSUME NEW s \in Sems
               PROVE  avail[s] + Cardinality({r \in Requests :
                          pc[r] # "idle" /\ s \in held[r] \cup granted[r]}) = Limit[s]
    BY DEF PermitsConserved
  <2>1. \A r \in Requests : pc[r] = "idle" => held[r] = {} /\ granted[r] = {}
    BY <1>1 DEF PermitsInv, CoveredInv, Covered, Fits, HasNoMore, WaitsWhere, Idle, Waits
  <2>2. {r \in Requests : pc[r] # "idle" /\ s \in held[r] \cup granted[r]} = Owners(s)
    BY <2>1 DEF Owners, Owns
  <2> QED
    BY <1>1, <2>2 DEF PermitsInv, SemInv, Balanced
<1> QED
  BY <1>1, PermitsCorrect, PTL

-----------------------------------------------------------------------------
(* AcquireContext implements CallAdmission. *)

Running == [r \in Requests |-> IF pc[r] = "call" THEN picked[r] ELSE NoCred]

\* Whoever holds a permit besides r leaves room for r.
LEMMA RoomForOneMore ==
    ASSUME PermitsInv, NEW s \in Sems, NEW r \in Owners(s), NEW C \in SUBSET Owners(s), r \notin C
    PROVE  Cardinality(C) < Limit[s]
<1>1. IsFiniteSet(Owners(s)) /\ avail[s] \in Nat /\ avail[s] + Cardinality(Owners(s)) = Limit[s]
  BY DEF PermitsInv, SemInv, SemTypes, Balanced
<1>2. IsFiniteSet(C) /\ Cardinality(C) \in Nat /\ Cardinality(Owners(s)) \in Nat
  BY <1>1, FS_Subset, FS_CardinalityType
<1>3. IsFiniteSet(C \cup {r}) /\ Cardinality(C \cup {r}) = Cardinality(C) + 1
  BY <1>2, FS_AddElement
<1>4. Cardinality(C \cup {r}) <= Cardinality(Owners(s))
  BY <1>1, FS_Subset
<1> QED
  BY <1>1, <1>2, <1>3, <1>4

\* Only TokenReady begins a call, and only its end leaves one.
LEMMA CallsBeginAndEnd ==
    ASSUME PermitsInv, NEW r \in Requests,
           \/ \E U \in SUBSET Creds, m \in Mode : Start(r, U, m)
           \/ Runs(r) \/ WaitTimesOut(r) \/ Cancel(r)
    PROVE  /\ \/ TokenReady(r)
              \/ pc[r] = "call" /\ End(r)
              \/ pc[r] # "call" /\ pc'[r] # "call"
           /\ \A x \in Requests \ {r} : pc'[x] = pc[x] /\ picked'[x] = picked[x]
<1> USE DEF Goto, Pick
<1>t. pc \in [Requests -> PC] /\ picked \in [Requests -> Creds \cup {NoCred}]
  BY DEF PermitsInv, CoveredInv, RequestTypes
<1> DEFINE Others == \A x \in Requests \ {r} : pc'[x] = pc[x] /\ picked'[x] = picked[x]
           Outside == pc[r] # "call" /\ pc'[r] # "call"
<1>1. CASE \E U \in SUBSET Creds, m \in Mode : Start(r, U, m)
  BY <1>1, <1>t DEF Start
<1>2. /\ End(r) => Others /\ pc'[r] # "call"
      /\ Retry(r) \/ FallBack(r) => Others /\ pc'[r] # "call"
  BY <1>t DEF End, Retry, FallBack
<1>3. CASE NothingToPick(r) \/ WaitTimesOut(r) \/ Cancel(r) \/ Finish(r) \/ BoundMissed(r)
  BY <1>2, <1>3 DEF NothingToPick, WaitTimesOut, Cancel, Finish, BoundMissed
<1>4. CASE RecheckFails(r) \/ SkipCredential(r) \/ TokenFails(r)
  BY <1>2, <1>4 DEF RecheckFails, SkipCredential, TokenFails
<1>5. CASE \E c \in Creds :
               \/ TryBound(r, c) \/ TryCandidate(r, c) \/ PinnedTakes(r, c)
               \/ WakeWithCredential(r, c) \/ JoinFindsFree(r, c)
  BY <1>t, <1>5 DEF TryBound, TryCandidate, PinnedTakes, WakeWithCredential, JoinFindsFree
<1>6. CASE AllBusy(r) \/ JoinQueues(r) \/ PinnedQueues(r) \/ Recheck(r) \/ TakeProxy(r)
  BY <1>t, <1>6 DEF AllBusy, JoinQueues, PinnedQueues, Recheck, TakeProxy
<1>7. CASE HaveGlobal(r) \/ AskGlobal(r) \/ WakeWithGlobal(r)
  BY <1>t, <1>7 DEF HaveGlobal, AskGlobal, WakeWithGlobal
<1>8. CASE GlobalBusy(r)
  BY <1>t, <1>2, <1>8 DEF GlobalBusy
<1>9. CASE TokenReady(r)
  BY <1>t, <1>9 DEF TokenReady
<1> QED
  BY <1>1, <1>3, <1>4, <1>5, <1>6, <1>7, <1>8, <1>9
     DEF Runs, PickStep, JoinStep, Wake, CheckStep, ProxyStep, GlobalStep, TokenStep

\* CallAdmission counts as AcquireContext does.
LEMMA SameCardinality == \A S : Admission!Cardinality(S) = Cardinality(S)
  BY DEF Admission!Cardinality, Cardinality

\* A call that begins is one that CallAdmission lets in.
LEMMA AdmittedCall ==
    ASSUME PermitsInv, NEW r \in Requests, TokenReady(r)
    PROVE  \E c \in Creds : Admission!Enter(r, c)
<1> DEFINE c == picked[r]
<1>1. /\ pc[r] = "token" /\ pc' = [pc EXCEPT ![r] = "call"] /\ picked' = picked
      /\ UNCHANGED semVars
  BY DEF TokenReady, Goto
<1>2. /\ pc \in [Requests -> PC] /\ c \in Creds /\ c \in held[r]
      /\ ProxyOf[c] # NoProxy => ProxyOf[c] \in held[r]
      /\ GlobalEnabled => Global \in held[r]
      /\ held \in [Requests -> SUBSET Sems] /\ NoCred \notin Creds
  BY <1>1, OneRequest, AcquireAssumption
     DEF PermitsInv, CoveredInv, RequestTypes, HasWhatItNeeds, Picked
<1>3. ASSUME NEW x \in Requests, Running[x] \in Creds
      PROVE  /\ x # r /\ picked[x] = Running[x] /\ picked[x] \in held[x]
             /\ ProxyOf[picked[x]] # NoProxy => ProxyOf[picked[x]] \in held[x]
             /\ GlobalEnabled => Global \in held[x]
  BY <1>1, <1>2, <1>3, OneRequest
     DEF Running, PermitsInv, CoveredInv, Covered, Fits, HasWhatItNeeds, Picked
<1>4. Running[r] = NoCred /\ Running' = [Running EXCEPT ![r] = c]
  BY <1>1, <1>2 DEF Running
<1>5. ASSUME NEW s \in Sems, s \in held[r], NEW C,
             \A x \in Requests : Running[x] \in C => x # r /\ s \in held[x]
      PROVE  Cardinality({x \in Requests : Running[x] \in C}) < Limit[s]
  <2>1. r \in Owners(s) /\ r \notin {x \in Requests : Running[x] \in C}
    BY <1>5 DEF Owners, Owns
  <2>2. {x \in Requests : Running[x] \in C} \in SUBSET Owners(s)
    BY <1>5 DEF Owners, Owns
  <2> QED
    BY <2>1, <2>2, RoomForOneMore
<1>6. Admission!CallsOn({c}) < Limit[c]
  BY <1>2, <1>3, <1>5, SameCardinality DEF Admission!CallsOn, Running
<1>7. ProxyOf[c] # NoProxy => Admission!CallsOn(Admission!Behind(ProxyOf[c])) < Limit[ProxyOf[c]]
  <2> SUFFICES ASSUME ProxyOf[c] # NoProxy
               PROVE  Admission!CallsOn(Admission!Behind(ProxyOf[c])) < Limit[ProxyOf[c]]
    OBVIOUS
  <2> DEFINE p == ProxyOf[c]
             B == Admission!Behind(p)
  <2>1. \A x \in Requests : Running[x] \in B => x # r /\ p \in held[x]
    BY <1>3 DEF Admission!Behind
  <2>2. p \in Sems /\ p \in held[r]
    BY <1>2
  <2> HIDE DEF p, B
  <2>3. Cardinality({x \in Requests : Running[x] \in B}) < Limit[p]
    BY <1>5, <2>1, <2>2
  <2> QED
    BY <2>3, SameCardinality DEF Admission!CallsOn, Running, p, B
<1>8. GlobalEnabled => Admission!CallsOn(Creds) < Limit[Global]
  BY <1>2, <1>3, <1>5, SameCardinality DEF Admission!CallsOn, Running
<1> QED
  BY <1>2, <1>4, <1>6, <1>7, <1>8 DEF Admission!Enter, Running

LEMMA StepsAreAdmitted ==
    ASSUME PermitsInv, [Next]_vars
    PROVE  Admission!Next \/ UNCHANGED Running
<1>1. ASSUME NEW r \in Requests,
             \/ \E U \in SUBSET Creds, m \in Mode : Start(r, U, m)
             \/ Runs(r) \/ WaitTimesOut(r) \/ Cancel(r)
      PROVE  Admission!Next \/ UNCHANGED Running
  <2>1. CASE TokenReady(r)
    BY <2>1, AdmittedCall DEF Admission!Next
  <2>2. CASE pc[r] = "call" /\ End(r)
    <3>1. picked[r] \in Creds /\ NoCred \notin Creds /\ pc \in [Requests -> PC]
      BY <2>2, OneRequest, AcquireAssumption
         DEF PermitsInv, CoveredInv, RequestTypes, HasWhatItNeeds, Picked
    <3>2. Running[r] # NoCred /\ Running' = [Running EXCEPT ![r] = NoCred]
      BY <1>1, <2>2, <3>1, CallsBeginAndEnd DEF Running, End, Goto
    <3> QED
      BY <3>2 DEF Admission!Next, Admission!Leave, Running
  <2>3. CASE pc[r] # "call" /\ pc'[r] # "call"
    BY <1>1, <2>3, CallsBeginAndEnd DEF Running
  <2> QED
    BY <1>1, <2>1, <2>2, <2>3, CallsBeginAndEnd
<1>2. ASSUME NEW c \in Creds, ToggleDisabled(c) PROVE UNCHANGED Running
  BY <1>2 DEF ToggleDisabled, requestVars, Running
<1>3. CASE UNCHANGED vars
  BY <1>3 DEF vars, requestVars, Running
<1> QED
  BY <1>1, <1>2, <1>3 DEF Next

\* AcquireContext implements CallAdmission: a call starts only while its credential, its
\* proxy and the program are below their limits.
THEOREM CallsAreAdmitted == Spec => AdmissionSpec
<1>1. Init => Admission!Init
  BY DEF Init, Admission!Init
<1>2. PermitsInv /\ [Next]_vars => [Admission!Next]_Running
  BY StepsAreAdmitted
<1> QED
  BY <1>1, <1>2, PermitsCorrect, PTL DEF Spec, AdmissionSpec, Admission!Spec, Running

=============================================================================
