------------------------ MODULE CredentialPoolProofs ------------------------
(***************************************************************************)
(* Proofs about the pool of credentials: where they are kept               *)
(* (CredentialStore); where tokens come from, the refresh of a credential  *)
(* (TokenRefresh) and the login that yields a new one (LoginSessions); and *)
(* what a request finds when it is routed, the credential its session is   *)
(* bound to (Affinity), the order in which the others are tried            *)
(* (CandidateRanking), the proxy its credential is bound to (ProxyPool),   *)
(* and the prefixes that are known to be cached (PromptCacheTracker).      *)
(***************************************************************************)
EXTENDS CredentialStore, TokenRefresh, LoginSessions, CandidateRanking, Affinity, ProxyPool,
        PromptCacheTracker, FiniteSetTheorems, FunctionTheorems, SequenceTheorems,
        WellFoundedInduction, TLAPS

-----------------------------------------------------------------------------
(***************************************************************************)
(* TokenRefresh, for any number of tasks of any kinds and of refresh       *)
(* tokens.                                                                 *)
(***************************************************************************)
\* What holds whatever is lost: a refresh is sent under the lock, except the bare one; an
\* answer is kept only until it is received.
LockInv == \A t \in Tasks :
    /\ pc[t] = "exchange" => lock = t
    /\ pc[t] = "receive" => lock = t \/ unlocked
    /\ pc[t] = "bare" => unlocked
    /\ pc[t] # "receive" => answer[t] = NoAnswer

\* The holder of the lock has got a new refresh token that is not stored yet.
NewTokenUnderWay ==
    \E t \in Tasks : lock = t /\ pc[t] = "receive" /\ answer[t].ok
                     /\ answer[t].token # copy[t].token

\* What holds as long as no new token was lost and none was asked for without the lock.
TokenInv ==
    /\ ~invalid
    /\ NewTokenUnderWay \/ cred.token = live
    /\ \A t \in Tasks :
           /\ pc[t] # "report"
           /\ pc[t] = "exchange" /\ DoubleChecks(t) => copy[t].token = cred.token
           /\ pc[t] = "receive" /\ answer[t].ok => answer[t].token = live
           /\ pc[t] = "receive" /\ DoubleChecks(t) => answer[t].why # "invalid_grant"

RefreshInv == RefreshTypeOK /\ LockInv /\ (~lost /\ ~unlocked => TokenInv)

LEMMA Typed ==
    /\ 0 \in TokenIds /\ NoCopy \in Tokens /\ NoAnswer \in Answers
    /\ \A tok \in TokenIds, arn \in BOOLEAN : [token |-> tok, age |-> "fresh", arn |-> arn] \in Tokens
    /\ \A c \in Tokens : Older(c) \in Tokens /\ Older(c).token = c.token
    /\ \A c \in Tokens : [c EXCEPT !.arn = TRUE] \in Tokens /\ [c EXCEPT !.arn = TRUE].token = c.token
<1>1. 0 \in TokenIds
  BY RefreshAssumption DEF TokenIds
<1>2. NoCopy \in Tokens /\ NoAnswer \in Answers
  BY <1>1 DEF NoCopy, NoAnswer, Tokens, Ages, Answers
<1>3. ASSUME NEW tok \in TokenIds, NEW arn \in BOOLEAN
      PROVE  [token |-> tok, age |-> "fresh", arn |-> arn] \in Tokens
  BY DEF Tokens, Ages
<1>4. ASSUME NEW c \in Tokens PROVE Older(c) \in Tokens /\ Older(c).token = c.token
  BY DEF Tokens, Ages, Older
<1>5. ASSUME NEW c \in Tokens
      PROVE  [c EXCEPT !.arn = TRUE] \in Tokens /\ [c EXCEPT !.arn = TRUE].token = c.token
  BY DEF Tokens
<1> QED
  BY <1>1, <1>2, <1>3, <1>4, <1>5

\* The answers of the upstream, and what is left of the current refresh token.
LEMMA Answered ==
    ASSUME RefreshTypeOK, NEW t \in Tasks, answer[t] = NoAnswer, Exchange(t)
    PROVE  /\ live' \in TokenIds /\ answer' \in [Tasks -> Answers]
           /\ \A x \in Tasks \ {t} : answer'[x] = answer[x]
           /\ \/ answer'[t].ok /\ answer'[t].token = live' /\ answer'[t].why = "none"
              \/ ~answer'[t].ok /\ live' = live /\ answer'[t].why = "network"
              \/ ~answer'[t].ok /\ live' = live /\ answer'[t].why = "invalid_grant"
                 /\ copy[t].token # live
           /\ live' # live => copy[t].token = live
<1>1. ASSUME NEW why \in {"network", "invalid_grant"}, NEW a, a = [NoAnswer EXCEPT !.why = why]
      PROVE  a \in Answers /\ ~a.ok /\ a.why = why
  BY <1>1, Typed DEF NoAnswer, Answers
<1>2. ASSUME NEW tok \in TokenIds, NEW a, a = [ok |-> TRUE, token |-> tok, why |-> "none"]
      PROVE  a \in Answers /\ a.ok /\ a.token = tok /\ a.why = "none"
  BY <1>2 DEF Answers
<1>3. answer \in [Tasks -> Answers] /\ live \in TokenIds
  BY DEF RefreshTypeOK
<1>4. PICK a \in Answers :
          /\ answer' = [answer EXCEPT ![t] = a]
          /\ \/ a.ok /\ a.token = live' /\ a.why = "none" /\ copy[t].token = live
             \/ ~a.ok /\ live' = live /\ a.why = "network"
             \/ ~a.ok /\ live' = live /\ a.why = "invalid_grant" /\ copy[t].token # live
  BY <1>1, <1>2, <1>3 DEF Exchange
<1> QED
  BY <1>3, <1>4 DEF Exchange

-----------------------------------------------------------------------------
LEMMA RefreshInitially == RefreshInit => RefreshInv
<1> SUFFICES ASSUME RefreshInit PROVE RefreshInv
  OBVIOUS
<1>1. cred \in Tokens /\ live \in TokenIds
  BY Typed DEF RefreshInit
<1>2. RefreshTypeOK
  BY <1>1, RefreshAssumption, Typed DEF RefreshInit, RefreshTypeOK, RefreshPC, CallerKinds
<1>3. LockInv /\ TokenInv
  BY DEF RefreshInit, LockInv, TokenInv
<1> QED
  BY <1>2, <1>3 DEF RefreshInv

LEMMA RefreshTypes ==
    ASSUME RefreshInv, NEW t \in Tasks, TaskStep(t)
    PROVE  RefreshTypeOK'
<1> USE Typed, RefreshAssumption DEF RefreshTypeOK, Move, RefreshPC
<1>1. RefreshTypeOK /\ LockInv
  BY DEF RefreshInv
<1>2. ASSUME NEW k \in Kinds, StartRefresh(t, k) PROVE RefreshTypeOK'
  BY <1>1, <1>2 DEF StartRefresh
<1>3. CASE TakeLock(t)
  BY <1>1, <1>3 DEF TakeLock, Continue, Done, CallerKinds
<1>4. CASE Exchange(t)
  BY <1>1, <1>4, Answered DEF Exchange, LockInv
<1>5. CASE LoseAnswer(t)
  BY <1>1, <1>5 DEF LoseAnswer, Release, Done, CallerKinds
<1>6. CASE StoreTokens(t)
  <2>1. answer[t].token \in TokenIds /\ copy[t].arn \in BOOLEAN
    BY <1>1 DEF Answers, Tokens
  <2>2. PICK arn \in BOOLEAN : cred' = [token |-> answer[t].token, age |-> "fresh", arn |-> arn]
    BY <1>6, <2>1 DEF StoreTokens
  <2>3. cred' \in Tokens
    BY <2>1, <2>2
  <2>4. /\ copy' \in [Tasks -> Tokens] /\ answer' \in [Tasks -> Answers]
        /\ pc' \in [Tasks -> RefreshPC] /\ kind' \in [Tasks -> CallerKinds]
        /\ \A x \in Tasks \ {t} : pc'[x] = pc[x]
    BY <1>1, <1>6, <2>3 DEF StoreTokens, Continue, Done, CallerKinds
  <2> QED
    BY <1>1, <1>6, <2>3, <2>4 DEF StoreTokens, Release
<1>7. CASE RefreshFails(t)
  BY <1>1, <1>7 DEF RefreshFails, Release, Continue, Done, CallerKinds
<1>8. CASE ReportInvalid(t)
  BY <1>1, <1>8 DEF ReportInvalid, Done, CallerKinds
<1>9. CASE LookupArn(t)
  BY <1>1, <1>9 DEF LookupArn, Done, CallerKinds
<1>10. CASE LookupFails(t)
  BY <1>1, <1>10 DEF LookupFails, Continue
<1>11. CASE FinishBareRefresh(t)
  <2>1. answer[t].token \in TokenIds /\ cred \in Tokens
    BY <1>1 DEF Answers
  <2>2. cred' \in Tokens
    BY <1>11, <2>1 DEF FinishBareRefresh
  <2> QED
    BY <1>1, <1>11, <2>2 DEF FinishBareRefresh, Done, CallerKinds
<1> QED
  BY <1>2, <1>3, <1>4, <1>5, <1>6, <1>7, <1>8, <1>9, <1>10, <1>11 DEF TaskStep

LEMMA LocksKept ==
    ASSUME RefreshInv, NEW t \in Tasks, TaskStep(t)
    PROVE  LockInv'
<1> USE RefreshAssumption DEF LockInv, RefreshTypeOK, Move
<1>1. RefreshTypeOK /\ LockInv
  BY DEF RefreshInv
<1>2. ASSUME NEW k \in Kinds, StartRefresh(t, k) PROVE LockInv'
  BY <1>1, <1>2 DEF StartRefresh
<1>3. CASE TakeLock(t)
  BY <1>1, <1>3 DEF TakeLock, Continue, Done
<1>4. CASE Exchange(t)
  BY <1>1, <1>4, Answered DEF Exchange
<1>5. CASE LoseAnswer(t)
  BY <1>1, <1>5 DEF LoseAnswer, Release, Done
<1>6. CASE StoreTokens(t)
  BY <1>1, <1>6 DEF StoreTokens, Release, Continue, Done
<1>7. CASE RefreshFails(t)
  BY <1>1, <1>7 DEF RefreshFails, Release, Continue, Done
<1>8. CASE ReportInvalid(t)
  BY <1>1, <1>8 DEF ReportInvalid, Done
<1>9. CASE LookupArn(t)
  BY <1>1, <1>9 DEF LookupArn, Done
<1>10. CASE LookupFails(t)
  BY <1>1, <1>10 DEF LookupFails, Continue
<1>11. CASE FinishBareRefresh(t)
  BY <1>1, <1>11 DEF FinishBareRefresh, Done
<1> QED
  BY <1>2, <1>3, <1>4, <1>5, <1>6, <1>7, <1>8, <1>9, <1>10, <1>11 DEF TaskStep

LEMMA TokensKept ==
    ASSUME RefreshInv, NEW t \in Tasks, TaskStep(t), ~lost', ~unlocked'
    PROVE  TokenInv'
<1> USE RefreshAssumption
    DEF LockInv, RefreshTypeOK, TokenInv, NewTokenUnderWay, DoubleChecks, Move
<1>1. RefreshTypeOK /\ LockInv /\ (~lost /\ ~unlocked => TokenInv)
  BY DEF RefreshInv
<1>2. ASSUME NEW k \in Kinds, StartRefresh(t, k) PROVE TokenInv'
  BY <1>1, <1>2 DEF StartRefresh
\* Who looks again has the current token in its copy from here on ...
<1>3. CASE TakeLock(t)
  BY <1>1, <1>3 DEF TakeLock, Continue, Done
\* ... so that only the others can be told that theirs is void.
<1>4. CASE Exchange(t)
  <2>1. /\ pc[t] = "exchange" /\ lock = t /\ answer[t] = NoAnswer /\ TokenInv /\ ~unlocked
        /\ UNCHANGED <<cred, invalid, lock, kind, copy>>
        /\ pc' = [pc EXCEPT ![t] = "receive"]
    BY <1>1, <1>4 DEF Exchange
  <2>2. cred.token = live
    BY <2>1
  <2>3. \A x \in Tasks \ {t} : pc'[x] = pc[x] /\ pc[x] \notin {"exchange", "receive"}
    BY <1>1, <2>1
  <2>4. pc'[t] = "receive"
    BY <1>1, <2>1
  <2>5. DoubleChecks(t) => copy[t].token = live
    BY <2>1, <2>2
  <2> HIDE DEF DoubleChecks
  <2>6. NewTokenUnderWay' \/ cred'.token = live'
    BY <1>1, <1>4, <2>1, <2>2, <2>4, Answered
  <2>7. /\ answer'[t].ok => answer'[t].token = live'
        /\ DoubleChecks(t) => answer'[t].why # "invalid_grant"
    BY <1>1, <1>4, <2>1, <2>5, Answered
  <2> QED
    BY <1>1, <2>1, <2>3, <2>4, <2>6, <2>7 DEF DoubleChecks
<1>5. CASE LoseAnswer(t)
  BY <1>1, <1>5 DEF LoseAnswer, Release, Done
<1>6. CASE StoreTokens(t)
  BY <1>1, <1>6 DEF StoreTokens, Release, Continue, Done
<1>7. CASE RefreshFails(t)
  BY <1>1, <1>7 DEF RefreshFails, Release, Continue, Done
<1>8. CASE ReportInvalid(t)
  BY <1>1, <1>8 DEF ReportInvalid, Done
<1>9. CASE LookupArn(t)
  BY <1>1, <1>9, Typed DEF LookupArn, Done
<1>10. CASE LookupFails(t)
  BY <1>10 DEF LookupFails
<1>11. CASE FinishBareRefresh(t)
  BY <1>1, <1>11 DEF FinishBareRefresh, Done
<1> QED
  BY <1>2, <1>3, <1>4, <1>5, <1>6, <1>7, <1>8, <1>9, <1>10, <1>11 DEF TaskStep

LEMMA TokensAge == RefreshInv /\ Age => RefreshInv'
<1> SUFFICES ASSUME RefreshInv, Age PROVE RefreshInv'
  OBVIOUS
<1>1. /\ RefreshTypeOK' /\ cred'.token = cred.token
      /\ \A t \in Tasks : copy'[t].token = copy[t].token
  BY Typed DEF RefreshInv, RefreshTypeOK, Age
<1>2. LockInv'
  BY DEF RefreshInv, LockInv, Age
<1>3. TokenInv => TokenInv'
  BY <1>1 DEF TokenInv, NewTokenUnderWay, DoubleChecks, Age
<1> QED
  BY <1>1, <1>2, <1>3 DEF RefreshInv, Age

LEMMA NothingRefreshed == RefreshInv /\ UNCHANGED refreshVars => RefreshInv'
BY DEF RefreshInv, RefreshTypeOK, LockInv, TokenInv, NewTokenUnderWay, DoubleChecks,
       refreshVars, taskVars

\* Who holds the lock is in the middle of a refresh, and what is in memory is current as
\* long as no answer was lost.
THEOREM RefreshCorrect == RefreshSpec => []RefreshInv
<1>1. RefreshInit => RefreshInv
  BY RefreshInitially
<1>2. RefreshInv /\ [RefreshNext]_refreshVars => RefreshInv'
  BY RefreshTypes, LocksKept, TokensKept, TokensAge, NothingRefreshed
     DEF RefreshNext, RefreshInv
<1> QED
  BY <1>1, <1>2, PTL DEF RefreshSpec

\* However a refresh ends - stored, failed, lost, or its client gone - the lock is not
\* left with a task that is out of the refresh.
THEOREM RefreshTypeCorrect == RefreshSpec => []RefreshTypeOK
<1>1. RefreshInv => RefreshTypeOK
  BY DEF RefreshInv
<1> QED
  BY <1>1, RefreshCorrect, PTL

\* Requests, administrators and the background task renew the tokens of one credential at
\* the same time, some with copies from before the lock: unless an answer is lost or a
\* refresh goes around the lock, the credential is never declared invalid and the refresh
\* token in memory stays the one the upstream accepts.
THEOREM TheTokenIsKept == RefreshSpec => []RefreshTokenKept
<1>1. RefreshInv => RefreshTokenKept
  BY DEF RefreshInv, TokenInv, RefreshTokenKept, NewTokenUnderWay, AnswerUnderWay
<1> QED
  BY <1>1, RefreshCorrect, PTL

-----------------------------------------------------------------------------
(***************************************************************************)
(* LoginSessions, for any flows and any number of handlers.                *)
(***************************************************************************)
\* Where a handler can be in which flow, and where it can have tokens.
InPlace(t) ==
    /\ flow = "none" => lpc[t] = "idle"
    /\ lpc[t] = "claim" => flow = "manual"
    /\ lpc[t] = "capture" => flow = "kiro"
    /\ lpc[t] = "enrich" => flow \in {"manual", "helper"}
    /\ lpc[t] = "write" => flow = "helper" /\ (added \/ refused)
    /\ token[t] => lpc[t] \in {"enrich", "write", "answered", "add"}

\* These handlers complete the login ...
Completing(t) == lpc[t] \in {"capture", "exchange", "enrich", "write"}

\* ... and have what only one of them can have: the removal of the session, the mark in
\* it, or what the callback server sent.
Alone(t) ==
    /\ flow = "manual" => ~open
    /\ flow = "helper" => completing
    /\ flow = "kiro" => channel = "taken"
    /\ flow \in {"manual", "helper", "kiro"} => \A u \in Handlers : Completing(u) => u = t

\* The callback server sends once.
ServerInv ==
    /\ flow = "none" => server = "off" /\ channel = "empty"
    /\ server \in {"leg1", "leg2"} => channel = "empty"

GrantAccounted == grant = "spent" => added \/ refused \/ dropped \/ \E t \in Handlers : token[t]

LoginInv ==
    /\ LoginTypeOK
    /\ \A t \in Handlers : InPlace(t) /\ (Completing(t) => Alone(t))
    /\ ServerInv /\ GrantAccounted

LEMMA LoginInitially == LoginInit => LoginInv
BY DEF LoginInit, LoginInv, LoginTypeOK, LoginPC, InPlace, Completing, ServerInv, GrantAccounted

LEMMA HandlersTyped ==
    ASSUME LoginInv, NEW t \in Handlers, HandlerStep(t)
    PROVE  lpc' \in [Handlers -> LoginPC] /\ token' \in [Handlers -> BOOLEAN]
<1> USE DEF LoginTypeOK, LoginPC, Goto, Return, Step, Redeem, sessionVars, kiroVars,
            handlerVars, historyVars
<1>1. LoginTypeOK
  BY DEF LoginInv
<1>2. CASE RemoveSession(t) \/ ClientGone(t) \/ AddSignedIn(t)
  BY <1>1, <1>2
     DEF RemoveSession, ClientGone, AddSignedIn
<1>3. CASE PollSocial(t) \/ CompleteManual(t) \/ ClaimManual(t) \/ ExchangeSocialCode(t)
  BY <1>1, <1>3
     DEF PollSocial, CompleteManual, ClaimManual, ExchangeSocialCode
<1>4. CASE CompleteHelper(t) \/ EnrichSocial(t) \/ WriteHelperResult(t)
  BY <1>1, <1>4
     DEF CompleteHelper, EnrichSocial, WriteHelperResult
<1>5. CASE PollIdc(t) \/ PollBuilderId(t) \/ PollToken(t) \/ CompleteIamSso(t) \/
         ExchangeIamCode(t)
  BY <1>1, <1>5
     DEF PollIdc, PollBuilderId, PollToken, CompleteIamSso, ExchangeIamCode, PollDevice,
         HandleToken, TakeTokens
<1>6. CASE SubmitKiroCallback(t) \/ HandleCallback(t) \/ PollKiroSso(t) \/
         CompleteKiroSso(t)
  BY <1>1, <1>6
     DEF SubmitKiroCallback, HandleCallback, PollKiroSso, CompleteKiroSso
<1> QED
  BY <1>2, <1>3, <1>4, <1>5, <1>6 DEF HandlerStep

LEMMA SessionTyped ==
    ASSUME LoginInv, NEW t \in Handlers, HandlerStep(t)
    PROVE  /\ flow' \in LoginFlows \cup {"none"} /\ result' \in {"none", "ok", "failed"}
           /\ open' \in BOOLEAN /\ timeUp' \in BOOLEAN /\ completing' \in BOOLEAN
<1> USE DEF LoginTypeOK, Goto, Return, Step, Redeem, sessionVars, kiroVars, historyVars
<1>1. LoginTypeOK
  BY DEF LoginInv
<1>2. CASE RemoveSession(t) \/ ClientGone(t) \/ AddSignedIn(t)
  BY <1>1, <1>2
     DEF RemoveSession, ClientGone, AddSignedIn
<1>3. CASE PollSocial(t) \/ CompleteManual(t) \/ ClaimManual(t) \/ ExchangeSocialCode(t)
  BY <1>1, <1>3
     DEF PollSocial, CompleteManual, ClaimManual, ExchangeSocialCode
<1>4. CASE CompleteHelper(t) \/ EnrichSocial(t) \/ WriteHelperResult(t)
  BY <1>1, <1>4
     DEF CompleteHelper, EnrichSocial, WriteHelperResult
<1>5. CASE PollIdc(t) \/ PollBuilderId(t) \/ PollToken(t) \/ CompleteIamSso(t) \/
         ExchangeIamCode(t)
  BY <1>1, <1>5
     DEF PollIdc, PollBuilderId, PollToken, CompleteIamSso, ExchangeIamCode, PollDevice,
         HandleToken, TakeTokens
<1>6. CASE SubmitKiroCallback(t) \/ HandleCallback(t) \/ PollKiroSso(t) \/
         CompleteKiroSso(t)
  BY <1>1, <1>6
     DEF SubmitKiroCallback, HandleCallback, PollKiroSso, CompleteKiroSso
<1> QED
  BY <1>2, <1>3, <1>4, <1>5, <1>6 DEF HandlerStep

LEMMA OutcomeTyped ==
    ASSUME LoginInv, NEW t \in Handlers, HandlerStep(t)
    PROVE  /\ grant' \in {"pending", "granted", "spent"}
           /\ server' \in {"off", "leg1", "leg2", "ended"}
           /\ channel' \in {"empty", "sent", "taken", "closed"}
           /\ added' \in BOOLEAN /\ refused' \in BOOLEAN /\ dropped' \in BOOLEAN
<1> USE DEF LoginTypeOK, Goto, Return, Step, Redeem, sessionVars, kiroVars, historyVars
<1>1. LoginTypeOK
  BY DEF LoginInv
<1>2. CASE RemoveSession(t) \/ ClientGone(t) \/ AddSignedIn(t)
  BY <1>1, <1>2
     DEF RemoveSession, ClientGone, AddSignedIn
<1>3. CASE PollSocial(t) \/ CompleteManual(t) \/ ClaimManual(t) \/ ExchangeSocialCode(t)
  BY <1>1, <1>3
     DEF PollSocial, CompleteManual, ClaimManual, ExchangeSocialCode
<1>4. CASE CompleteHelper(t) \/ EnrichSocial(t) \/ WriteHelperResult(t)
  BY <1>1, <1>4
     DEF CompleteHelper, EnrichSocial, WriteHelperResult
<1>5. CASE PollIdc(t) \/ PollBuilderId(t) \/ PollToken(t) \/ CompleteIamSso(t) \/
         ExchangeIamCode(t)
  BY <1>1, <1>5
     DEF PollIdc, PollBuilderId, PollToken, CompleteIamSso, ExchangeIamCode, PollDevice,
         HandleToken, TakeTokens
<1>6. CASE SubmitKiroCallback(t) \/ HandleCallback(t) \/ PollKiroSso(t) \/
         CompleteKiroSso(t)
  BY <1>1, <1>6
     DEF SubmitKiroCallback, HandleCallback, PollKiroSso, CompleteKiroSso
<1> QED
  BY <1>2, <1>3, <1>4, <1>5, <1>6 DEF HandlerStep

LEMMA PlacesKept ==
    ASSUME LoginInv, NEW t \in Handlers, HandlerStep(t)
    PROVE  \A x \in Handlers : InPlace(x)'
<1> USE DEF LoginTypeOK, LoginPC, InPlace, Goto, Return, Step, Redeem, sessionVars,
            kiroVars, handlerVars, historyVars
<1>1. LoginTypeOK /\ \A x \in Handlers : InPlace(x)
  BY DEF LoginInv
<1>2. CASE RemoveSession(t) \/ ClientGone(t) \/ AddSignedIn(t)
  BY <1>1, <1>2
     DEF RemoveSession, ClientGone, AddSignedIn
<1>3. CASE PollSocial(t) \/ CompleteManual(t) \/ ClaimManual(t) \/ ExchangeSocialCode(t)
  BY <1>1, <1>3
     DEF PollSocial, CompleteManual, ClaimManual, ExchangeSocialCode
<1>4. CASE CompleteHelper(t) \/ EnrichSocial(t) \/ WriteHelperResult(t)
  <2>1. CASE CompleteHelper(t)
    BY <1>1, <2>1 DEF CompleteHelper
  <2>2. CASE EnrichSocial(t)
    BY <1>1, <2>2 DEF EnrichSocial
  <2>3. CASE WriteHelperResult(t)
    BY <1>1, <2>3 DEF WriteHelperResult
  <2> QED
    BY <1>4, <2>1, <2>2, <2>3
<1>5. CASE PollIdc(t) \/ PollBuilderId(t) \/ PollToken(t) \/ CompleteIamSso(t) \/
         ExchangeIamCode(t)
  BY <1>1, <1>5
     DEF PollIdc, PollBuilderId, PollToken, CompleteIamSso, ExchangeIamCode, PollDevice,
         HandleToken, TakeTokens
<1>6. CASE SubmitKiroCallback(t) \/ HandleCallback(t) \/ PollKiroSso(t) \/
         CompleteKiroSso(t)
  BY <1>1, <1>6
     DEF SubmitKiroCallback, HandleCallback, PollKiroSso, CompleteKiroSso
<1> QED
  BY <1>2, <1>3, <1>4, <1>5, <1>6 DEF HandlerStep

LEMMA GrantKept ==
    ASSUME LoginInv, NEW t \in Handlers, HandlerStep(t)
    PROVE  GrantAccounted' /\ ServerInv'
<1> USE DEF LoginTypeOK, LoginPC, InPlace, GrantAccounted, ServerInv, Goto, Return, Step,
            Redeem, sessionVars, kiroVars, handlerVars, historyVars
<1>1. LoginTypeOK /\ InPlace(t) /\ GrantAccounted /\ ServerInv
  BY DEF LoginInv
<1>2. CASE RemoveSession(t) \/ ClientGone(t) \/ AddSignedIn(t)
  BY <1>1, <1>2
     DEF RemoveSession, ClientGone, AddSignedIn
<1>3. CASE PollSocial(t) \/ CompleteManual(t) \/ ClaimManual(t) \/ ExchangeSocialCode(t)
  BY <1>1, <1>3
     DEF PollSocial, CompleteManual, ClaimManual, ExchangeSocialCode
<1>4. CASE CompleteHelper(t) \/ EnrichSocial(t) \/ WriteHelperResult(t)
  BY <1>1, <1>4
     DEF CompleteHelper, EnrichSocial, WriteHelperResult
<1>5. CASE PollIdc(t) \/ PollBuilderId(t) \/ PollToken(t) \/ CompleteIamSso(t) \/
         ExchangeIamCode(t)
  BY <1>1, <1>5
     DEF PollIdc, PollBuilderId, PollToken, CompleteIamSso, ExchangeIamCode, PollDevice,
         HandleToken, TakeTokens
<1>6. CASE SubmitKiroCallback(t) \/ HandleCallback(t) \/ PollKiroSso(t) \/
         CompleteKiroSso(t)
  BY <1>1, <1>6
     DEF SubmitKiroCallback, HandleCallback, PollKiroSso, CompleteKiroSso
<1> QED
  BY <1>2, <1>3, <1>4, <1>5, <1>6 DEF HandlerStep

LEMMA AloneKept ==
    ASSUME LoginInv, NEW t \in Handlers, HandlerStep(t)
    PROVE  \A x \in Handlers : Completing(x)' => Alone(x)'
<1> USE DEF LoginTypeOK, LoginPC, InPlace, Completing, Alone, ServerInv, Goto, Return,
            Step, Redeem, sessionVars, kiroVars, handlerVars, historyVars
<1>1. /\ LoginTypeOK /\ ServerInv /\ InPlace(t)
      /\ \A x \in Handlers : Completing(x) => Alone(x)
  BY DEF LoginInv
<1>2. CASE RemoveSession(t) \/ ClientGone(t) \/ AddSignedIn(t)
  BY <1>1, <1>2
     DEF RemoveSession, ClientGone, AddSignedIn
<1>3. CASE PollSocial(t) \/ CompleteManual(t) \/ ClaimManual(t) \/ ExchangeSocialCode(t)
  BY <1>1, <1>3
     DEF PollSocial, CompleteManual, ClaimManual, ExchangeSocialCode
<1>4. CASE CompleteHelper(t) \/ EnrichSocial(t) \/ WriteHelperResult(t)
  BY <1>1, <1>4
     DEF CompleteHelper, EnrichSocial, WriteHelperResult
<1>5. CASE PollIdc(t) \/ PollBuilderId(t) \/ PollToken(t) \/ CompleteIamSso(t) \/
         ExchangeIamCode(t)
  BY <1>1, <1>5
     DEF PollIdc, PollBuilderId, PollToken, CompleteIamSso, ExchangeIamCode, PollDevice,
         HandleToken, TakeTokens
<1>6. CASE SubmitKiroCallback(t) \/ HandleCallback(t) \/ PollKiroSso(t) \/
         CompleteKiroSso(t)
  BY <1>1, <1>6
     DEF SubmitKiroCallback, HandleCallback, PollKiroSso, CompleteKiroSso
<1> QED
  BY <1>2, <1>3, <1>4, <1>5, <1>6 DEF HandlerStep

\* The start of a session, the user, time, the callback server's end and a cancellation.
LEMMA OthersKeep ==
    ASSUME LoginInv,
           \/ StartSocial \/ StartIdc \/ StartBuilderId \/ StartIamSso \/ StartKiroSso
           \/ SignIn \/ Expire \/ EndCallbackServer \/ CancelKiroSso
    PROVE  LoginInv'
<1> USE LoginAssumption
    DEF LoginFlows, Started, sessionVars, kiroVars, handlerVars, historyVars
<1>1. LoginInv
  OBVIOUS
<1>2. UNCHANGED <<lpc, token, result, completing, added, refused, dropped>>
  BY DEF StartSocial, StartIdc, StartBuilderId, StartIamSso, StartKiroSso,
         SignIn, Expire, EndCallbackServer, CancelKiroSso
<1>3. /\ flow' \in LoginFlows \cup {"none"} /\ open' \in BOOLEAN /\ timeUp' \in BOOLEAN
      /\ grant' \in {"pending", "granted", "spent"}
      /\ server' \in {"off", "leg1", "leg2", "ended"}
      /\ channel' \in {"empty", "sent", "taken", "closed"}
  <2>1. CASE StartSocial \/ StartIdc \/ StartBuilderId \/ StartIamSso \/ StartKiroSso
    BY <1>1, <2>1 DEF LoginInv, LoginTypeOK,
       StartSocial, StartIdc, StartBuilderId, StartIamSso, StartKiroSso
  <2>2. CASE SignIn
    BY <1>1, <2>2 DEF LoginInv, LoginTypeOK, SignIn
  <2>3. CASE Expire \/ EndCallbackServer
    BY <1>1, <2>3 DEF LoginInv, LoginTypeOK, Expire, EndCallbackServer
  <2>4. CASE CancelKiroSso
    BY <1>1, <2>4 DEF LoginInv, LoginTypeOK, CancelKiroSso
  <2> QED
    BY <2>1, <2>2, <2>3, <2>4
<1>4. LoginTypeOK'
  BY <1>1, <1>2, <1>3 DEF LoginInv, LoginTypeOK
<1>5. CASE StartSocial \/ StartIdc \/ StartBuilderId \/ StartIamSso \/ StartKiroSso
  <2>1. \A t \in Handlers : InPlace(t)' /\ ~Completing(t)'
    BY <1>1, <1>2, <1>5 DEF LoginInv, LoginTypeOK, InPlace, Completing,
       StartSocial, StartIdc, StartBuilderId, StartIamSso, StartKiroSso
  <2>2. ServerInv' /\ GrantAccounted'
    BY <1>1, <1>2, <1>5 DEF LoginInv, ServerInv, GrantAccounted,
       StartSocial, StartIdc, StartBuilderId, StartIamSso, StartKiroSso
  <2> QED
    BY <1>4, <2>1, <2>2 DEF LoginInv
<1>6. CASE SignIn \/ Expire \/ EndCallbackServer \/ CancelKiroSso
  <2>1. \A t \in Handlers : InPlace(t)' /\ (Completing(t)' => Alone(t)')
    BY <1>1, <1>2, <1>6 DEF LoginInv, InPlace, Completing, Alone, ServerInv,
       SignIn, Expire, EndCallbackServer, CancelKiroSso
  <2>2. ServerInv' /\ GrantAccounted'
    BY <1>1, <1>2, <1>6 DEF LoginInv, ServerInv, GrantAccounted,
       SignIn, Expire, EndCallbackServer, CancelKiroSso
  <2> QED
    BY <1>4, <2>1, <2>2 DEF LoginInv
<1> QED
  BY <1>5, <1>6

LEMMA NothingHappens == LoginInv /\ UNCHANGED loginVars => LoginInv'
BY DEF LoginInv, LoginTypeOK, InPlace, Completing, Alone, ServerInv, GrantAccounted,
       loginVars, sessionVars, kiroVars, handlerVars, historyVars

\* Polls, completions, expiries and cancellations of one session overlap in any order:
\* who completes the login has what only one handler can have, and tokens are only where
\* they are still counted.
THEOREM LoginCorrect == LoginSpec => []LoginInv
<1>1. LoginInit => LoginInv
  BY LoginInitially
<1>2. ASSUME LoginInv, NEW t \in Handlers, HandlerStep(t) PROVE LoginInv'
  <2>1. LoginTypeOK'
    BY <1>2, HandlersTyped, SessionTyped, OutcomeTyped DEF LoginTypeOK
  <2> QED
    BY <1>2, <2>1, PlacesKept, AloneKept, GrantKept DEF LoginInv
<1>3. LoginInv /\ [LoginNext]_loginVars => LoginInv'
  BY <1>2, OthersKeep, NothingHappens DEF LoginNext
<1> QED
  BY <1>1, <1>3, PTL DEF LoginSpec

\* However many handlers work on a session: a code is exchanged, a helper's answer is
\* looked at, and a captured callback is completed by one of them only; and tokens the
\* upstream gave for the grant are with a handler, or led to a credential or a refusal,
\* unless their client went away.
THEOREM GrantIsUsedOnce == LoginSpec => []GrantUsedOnce
<1>1. LoginInv => GrantUsedOnce
  BY DEF LoginInv, GrantUsedOnce, GrantAccounted, Completing, Alone
<1> QED
  BY <1>1, LoginCorrect, PTL

-----------------------------------------------------------------------------
(***************************************************************************)
(* Affinity, for any number of routing keys, credentials, requests and     *)
(* entries.                                                                *)
(***************************************************************************)
Bindings == [credential_id : AffinityCreds, last_used : Nat]

Routes == [step : {"idle", "found", "rank", "usable", "token", "served"},
           key : RouteKeys \cup {"none"}, bound : AffinityCreds \cup {"none"}]

\* A request on its way has a routing key, and one that is served has a credential.
RouteInv ==
    /\ route \in [Routed -> Routes]
    /\ \A r \in Routed :
           /\ ~At(r, "idle") => route[r].key \in RouteKeys
           /\ At(r, "served") => route[r].bound \in AffinityCreds

MapInv ==
    /\ affinity \in [DOMAIN affinity -> Bindings] /\ DOMAIN affinity \subseteq RouteKeys
    /\ IsFiniteSet(DOMAIN affinity) /\ Cardinality(DOMAIN affinity) <= MaxEntries

\* The credentials that cannot be used, and whose bindings have been removed.
Unbound == {c \in AffinityCreds : /\ c \in unusable /\ c \notin left
                                  /\ \A w \in Removers : removing[w] # c}

BoundLate == \A k \in DOMAIN affinity : affinity[k].credential_id \in Unbound => k \in late

RemoversInv == removing \in [Removers -> AffinityCreds \cup {"none"}]

AffinityInv == clock \in Nat /\ RemoversInv /\ RouteInv /\ MapInv /\ BoundLate

\* The domains a step may leave: the same, a smaller one, or one with a new key that has
\* room or the place of another.
LEMMA Room ==
    ASSUME NEW D, IsFiniteSet(D), Cardinality(D) <= MaxEntries, NEW key
    PROVE  /\ \A E \in SUBSET D : IsFiniteSet(E) /\ Cardinality(E) <= MaxEntries
           /\ IsFiniteSet(D \cup {key})
           /\ key \in D \/ Cardinality(D) < MaxEntries => Cardinality(D \cup {key}) <= MaxEntries
           /\ \A old \in D : /\ IsFiniteSet((D \ {old}) \cup {key})
                             /\ Cardinality((D \ {old}) \cup {key}) <= MaxEntries
<1> USE AffinityAssumption
<1>1. ASSUME NEW E \in SUBSET D PROVE IsFiniteSet(E) /\ Cardinality(E) <= MaxEntries
  BY <1>1, FS_Subset, FS_CardinalityType
<1>2. IsFiniteSet(D \cup {key}) /\ (key \in D \/ Cardinality(D) < MaxEntries => Cardinality(D \cup {key}) <= MaxEntries)
  <2>1. IsFiniteSet(D \cup {key})
    BY FS_AddElement
  <2>2. Cardinality(D \cup {key}) = IF key \in D THEN Cardinality(D) ELSE Cardinality(D) + 1
    BY FS_AddElement
  <2>3. Cardinality(D) \in Nat
    BY FS_CardinalityType
  <2> QED
    BY <2>1, <2>2, <2>3
<1>3. ASSUME NEW old \in D
      PROVE  /\ IsFiniteSet((D \ {old}) \cup {key})
             /\ Cardinality((D \ {old}) \cup {key}) <= MaxEntries
  <2> DEFINE E == D \ {old}
  <2>1. IsFiniteSet(E) /\ Cardinality(E) = Cardinality(D) - 1
    BY FS_RemoveElement
  <2>2. Cardinality(E) \in Nat /\ Cardinality(D) \in Nat
    BY <2>1, FS_CardinalityType
  <2> HIDE DEF E
  <2>3. IsFiniteSet(E \cup {key})
    BY <2>1, FS_AddElement
  <2>4. Cardinality(E \cup {key}) = IF key \in E THEN Cardinality(E) ELSE Cardinality(E) + 1
    BY <2>1, FS_AddElement
  <2> QED
    BY <2>1, <2>2, <2>3, <2>4 DEF E
<1> QED
  BY <1>1, <1>2, <1>3

\* Bindings go, or are renewed, and those left lead where they led.
LEMMA BindingsGo ==
    ASSUME AffinityInv, affinity' \in [DOMAIN affinity' -> Bindings],
           DOMAIN affinity' \subseteq DOMAIN affinity,
           \A k \in DOMAIN affinity' :
               /\ affinity'[k].credential_id = affinity[k].credential_id
               /\ affinity[k].credential_id \in Unbound' => affinity[k].credential_id \in Unbound,
           late' = late
    PROVE  MapInv' /\ BoundLate'
<1>1. MapInv'
  BY Room DEF AffinityInv, MapInv
<1>2. BoundLate'
  BY DEF AffinityInv, BoundLate
<1> QED
  BY <1>1, <1>2

\* CredentialAffinity::set keeps to the limit.
LEMMA BindingComes ==
    ASSUME AffinityInv, NEW key \in RouteKeys, NEW c \in AffinityCreds, SetAffinity(key, c),
           UNCHANGED outsideVars, late' = IF c \in unusable THEN late \cup {key} ELSE late \ {key}
    PROVE  MapInv' /\ BoundLate'
<1>1. PICK kept \in SUBSET DOMAIN affinity :
          /\ affinity' = [k \in kept \cup {key} |-> IF k = key THEN Renewed(c) ELSE affinity[k]]
          /\ \/ kept = DOMAIN affinity /\ (key \in kept \/ Cardinality(kept) < MaxEntries)
             \/ \E old \in DOMAIN affinity : kept = DOMAIN affinity \ {old}
  <2>1. Cardinality(DOMAIN affinity) \in Nat /\ MaxEntries \in Nat
    BY AffinityAssumption, FS_CardinalityType DEF AffinityInv, MapInv
  <2>2. CASE Cardinality(DOMAIN affinity) >= MaxEntries /\ key \notin DOMAIN affinity
    BY <2>2 DEF SetAffinity, Oldest
  <2>3. CASE ~(Cardinality(DOMAIN affinity) >= MaxEntries /\ key \notin DOMAIN affinity)
    BY <2>1, <2>3 DEF SetAffinity
  <2> QED
    BY <2>2, <2>3
<1>2. Renewed(c) \in Bindings /\ Renewed(c).credential_id = c
  BY DEF Renewed, Bindings, AffinityInv
<1>3. affinity' \in [kept \cup {key} -> Bindings] /\ DOMAIN affinity' = kept \cup {key}
  BY <1>1, <1>2 DEF AffinityInv, MapInv
<1>4. IsFiniteSet(kept \cup {key}) /\ Cardinality(kept \cup {key}) <= MaxEntries
  BY <1>1, Room DEF AffinityInv, MapInv
<1>5. MapInv'
  BY <1>3, <1>4 DEF AffinityInv, MapInv
<1>6. BoundLate'
  <2>1. Unbound' = Unbound /\ (c \in Unbound => c \in unusable)
    BY DEF Unbound, outsideVars
  <2> QED
    BY <1>1, <1>2, <2>1 DEF AffinityInv, BoundLate
<1> QED
  BY <1>5, <1>6

-----------------------------------------------------------------------------
LEMMA AffinityInitially == AffinityInit => AffinityInv
<1> SUFFICES ASSUME AffinityInit PROVE AffinityInv
  OBVIOUS
<1>1. DOMAIN affinity = {} /\ affinity \in [DOMAIN affinity -> Bindings]
  BY DEF AffinityInit, NoBinding
<1>2. MapInv /\ BoundLate
  BY <1>1, FS_EmptySet, AffinityAssumption DEF MapInv, BoundLate
<1>3. RouteInv /\ RemoversInv
  BY DEF AffinityInit, RouteInv, RemoversInv, Unrouted, Routes, At
<1> QED
  BY <1>2, <1>3 DEF AffinityInit, AffinityInv

\* A request on its way.
LEMMA Routing ==
    ASSUME AffinityInv, NEW r \in Routed,
           \/ \E key \in RouteKeys : Look(r, key)
           \/ CheckBound(r) \/ TryBoundPermit(r) \/ EnsureBoundToken(r) \/ RankInstead(r)
           \/ BindServed(r)
    PROVE  RouteInv'
<1> USE DEF AffinityInv, RouteInv, Routes, At, Steps, Leaves, GoesRanking, Unrouted
<1>1. ASSUME NEW key \in RouteKeys, Look(r, key) PROVE RouteInv'
  BY <1>1 DEF Look, MapInv, Bindings
<1>2. CASE CheckBound(r)
  BY <1>2 DEF CheckBound
<1>3. CASE TryBoundPermit(r)
  BY <1>3 DEF TryBoundPermit
<1>4. CASE EnsureBoundToken(r)
  BY <1>4 DEF EnsureBoundToken
<1>5. CASE RankInstead(r)
  BY <1>5 DEF RankInstead
<1>6. CASE BindServed(r)
  BY <1>6 DEF BindServed
<1> QED
  BY <1>1, <1>2, <1>3, <1>4, <1>5, <1>6

LEMMA Bound ==
    ASSUME AffinityInv, NEW r \in Routed,
           \/ \E key \in RouteKeys : Look(r, key)
           \/ CheckBound(r) \/ TryBoundPermit(r) \/ EnsureBoundToken(r) \/ RankInstead(r)
           \/ BindServed(r)
    PROVE  MapInv' /\ BoundLate'
<1>1. AffinityInv /\ affinity \in [DOMAIN affinity -> Bindings] /\ clock \in Nat
  BY DEF AffinityInv, MapInv
<1>6. Unbound' = Unbound
  BY DEF Unbound, outsideVars, Look, CheckBound, TryBoundPermit, EnsureBoundToken, RankInstead,
         BindServed
<1>2. CASE (\E key \in RouteKeys : Look(r, key)) \/ CheckBound(r)
  BY <1>1, <1>6, <1>2, BindingsGo DEF Look, CheckBound, RemoveKey
<1>3. CASE TryBoundPermit(r) \/ RankInstead(r)
  BY <1>1, <1>6, <1>3, BindingsGo DEF TryBoundPermit, RankInstead
<1>4. CASE EnsureBoundToken(r)
  <2>1. \A k \in DOMAIN affinity : /\ [affinity[k] EXCEPT !.last_used = clock] \in Bindings
                                   /\ [affinity[k] EXCEPT !.last_used = clock].credential_id = affinity[k].credential_id
    BY <1>1 DEF Bindings
  <2> QED
    BY <1>1, <1>6, <1>4, <2>1, BindingsGo DEF EnsureBoundToken
<1>5. CASE BindServed(r)
  <2>1. route[r].key \in RouteKeys /\ route[r].bound \in AffinityCreds
    BY <1>5 DEF BindServed, AffinityInv, RouteInv, At
  <2> QED
    BY <1>5, <2>1, BindingComes DEF BindServed
<1> QED
  BY <1>2, <1>3, <1>4, <1>5

LEMMA Surroundings ==
    ASSUME AffinityInv,
           \/ \E w \in Removers :
                  (\E c \in AffinityCreds : TakesOut(w, c)) \/ RemoveByCredential(w)
           \/ \E c \in AffinityCreds : KeepsBindings({c}) \/ BecomesUsable(c) \/ TakesPermits(c)
           \/ KeepsBindings(AffinityCreds)
           \/ ClearAffinity \/ TimePasses \/ UNCHANGED affinityVars
    PROVE  AffinityInv'
<1>1. affinity \in [DOMAIN affinity -> Bindings] /\ clock \in Nat
  BY DEF AffinityInv, MapInv
<1> DEFINE Rest == clock' \in Nat /\ route' = route /\ late' = late /\ RemoversInv'
           Maps == MapInv' /\ BoundLate'
<1>2. ASSUME NEW w \in Removers, NEW c \in AffinityCreds, TakesOut(w, c) PROVE Rest /\ Maps
  <2>1. Rest
    BY <1>1, <1>2 DEF TakesOut, RemoversInv, AffinityInv
  <2>2. removing'[w] = c /\ removing[w] = "none"
        /\ \A x \in Removers \ {w} : removing'[x] = removing[x]
    BY <1>2 DEF TakesOut, RemoversInv, AffinityInv
  <2>3. \A d \in AffinityCreds : d \in Unbound' => d \in Unbound
    BY <1>2, <2>2, AffinityAssumption DEF TakesOut, Unbound
  <2>4. Maps
    BY <1>1, <1>2, <2>3, BindingsGo DEF TakesOut, Bindings
  <2> QED
    BY <2>1, <2>4
<1>3. ASSUME NEW w \in Removers, RemoveByCredential(w) PROVE Rest /\ Maps
  <2>1. Rest
    BY <1>1, <1>3 DEF RemoveByCredential, RemoversInv, AffinityInv
  <2>2. \A x \in Removers \ {w} : removing'[x] = removing[x]
    BY <1>3 DEF RemoveByCredential, RemoversInv, AffinityInv
  <2>3. \A d \in AffinityCreds \ {removing[w]} : d \in Unbound' => d \in Unbound
    BY <1>3, <2>2 DEF RemoveByCredential, Unbound
  <2>4. Maps
    BY <1>1, <1>3, <2>3, BindingsGo DEF RemoveByCredential, Bindings
  <2> QED
    BY <2>1, <2>4
<1>4. ASSUME NEW out \in SUBSET AffinityCreds, KeepsBindings(out) PROVE Rest /\ Maps
  <2>1. \A d \in AffinityCreds : d \in Unbound' => d \in Unbound
    BY <1>4 DEF KeepsBindings, Unbound
  <2> QED
    BY <1>1, <1>4, <2>1, BindingsGo DEF KeepsBindings, RemoversInv, AffinityInv, Bindings
<1>5. ASSUME NEW c \in AffinityCreds, BecomesUsable(c) PROVE Rest /\ Maps
  <2>1. \A d \in AffinityCreds : d \in Unbound' => d \in Unbound
    BY <1>5 DEF BecomesUsable, Unbound
  <2> QED
    BY <1>1, <1>5, <2>1, BindingsGo DEF BecomesUsable, RemoversInv, AffinityInv, Bindings
<1>6. ASSUME \/ \E c \in AffinityCreds : TakesPermits(c)
             \/ ClearAffinity \/ TimePasses \/ UNCHANGED affinityVars
      PROVE  Rest /\ Maps
  <2> USE DEF TakesPermits, ClearAffinity, TimePasses, affinityVars, outsideVars
  <2>1. Unbound' = Unbound
    BY <1>6 DEF Unbound
  <2>2. Rest
    BY <1>1, <1>6 DEF RemoversInv, AffinityInv
  <2>3. affinity' = affinity \/ affinity' = NoBinding
    BY <1>6
  <2>4. late' = late
    BY <2>2
  <2>5. CASE affinity' = affinity
    BY <1>1, <2>1, <2>2, <2>4, <2>5, BindingsGo
  <2>6. CASE affinity' = NoBinding
    BY <2>1, <2>2, <2>4, <2>6, BindingsGo DEF NoBinding
  <2> QED
    BY <2>3, <2>5, <2>6
<1> HIDE DEF Rest, Maps
<1>7. Rest /\ Maps
  <2>1. KeepsBindings(AffinityCreds) => Rest /\ Maps
    BY <1>4
  <2>2. \A c \in AffinityCreds : KeepsBindings({c}) => Rest /\ Maps
    BY <1>4
  <2> QED
    BY <1>2, <1>3, <1>5, <1>6, <2>1, <2>2
<1> USE DEF Rest, Maps
<1>8. RouteInv'
  BY <1>7 DEF AffinityInv, RouteInv, At
<1> QED
  BY <1>7, <1>8 DEF AffinityInv

\* However many requests look at their bindings, wait and bind at once, the map is within
\* its limit, and a binding to a credential that was taken out and unbound is late.
THEOREM AffinityCorrect == AffinitySpec => []AffinityInv
<1>1. AffinityInit => AffinityInv
  BY AffinityInitially
<1>2. AffinityInv /\ [AffinityNext]_affinityVars => AffinityInv'
  <2>1. ASSUME AffinityInv, AffinityNext PROVE AffinityInv'
    <3>1. CASE \E r \in Routed :
              \/ \E key \in RouteKeys : Look(r, key)
              \/ CheckBound(r) \/ TryBoundPermit(r) \/ EnsureBoundToken(r)
              \/ RankInstead(r) \/ BindServed(r)
      <4>1. clock' = clock /\ removing' = removing
        BY <3>1 DEF Look, CheckBound, TryBoundPermit, EnsureBoundToken, RankInstead, BindServed,
                    outsideVars
      <4> QED
        BY <2>1, <3>1, <4>1, Routing, Bound DEF AffinityInv, RemoversInv
    <3> QED
      BY <2>1, <3>1, Surroundings DEF AffinityNext
  <2> QED
    BY <2>1, Surroundings
<1> QED
  BY <1>1, <1>2, PTL DEF AffinitySpec

\* A credential that was taken out, and whose bindings have been removed, gets no session
\* back, except from a request that was ranked to it before; for any number of keys,
\* credentials, entries and removers, and with the paths that remove nothing told apart.
THEOREM TakenOutStayOut == AffinitySpec => []TakenOutStaysOut
<1>1. AffinityInv => TakenOutStaysOut
  <2> SUFFICES ASSUME AffinityInv, NEW k \in DOMAIN affinity,
                      affinity[k].credential_id \in unusable, k \notin late,
                      affinity[k].credential_id \notin left,
                      \A w \in Removers : removing[w] # affinity[k].credential_id
               PROVE  FALSE
    BY DEF AffinityInv, MapInv, TakenOutStaysOut
  <2>1. affinity[k].credential_id \in AffinityCreds
    BY DEF AffinityInv, MapInv, Bindings
  <2> QED
    BY <2>1 DEF AffinityInv, BoundLate, Unbound
<1> QED
  BY <1>1, AffinityCorrect, PTL

-----------------------------------------------------------------------------
(***************************************************************************)
(* ProxyPool, for any number of administrators, credentials and proxies.   *)
(***************************************************************************)
Entries == [entry : Nat, disabled : BOOLEAN, failures : Nat]
Lists == UNION {[ids -> Nat] : ids \in SUBSET Nat}
ProxyRequests == [step : {"none", "delete", "bind", "test"}, id : Nat, todo : SUBSET PoolCreds,
                  list : Lists]

ProxiesTyped ==
    /\ proxiesAdded \in Nat
    /\ DOMAIN proxies \subseteq 1 .. proxiesAdded
    /\ proxies \in [DOMAIN proxies -> Entries]

RequestsTyped ==
    /\ request \in [ProxyAdmins -> ProxyRequests]
    /\ boundTo \in [PoolCreds -> Nat] /\ meant \in [PoolCreds -> Nat]
    /\ \A a \in ProxyAdmins : request[a].step = "delete" => request[a].id # 0

\* What a deletion has still to unbind: whoever is bound to the proxy, and was not bound
\* while it was under way.
DeletionsKnow == \A a \in ProxyAdmins, c \in PoolCreds :
    request[a].step = "delete" /\ boundTo[c] = request[a].id /\ c \notin missed =>
        c \in request[a].todo

PoolInv == ProxiesTyped /\ RequestsTyped /\ DeletionsKnow /\ BindingKeepsItsProxy

-----------------------------------------------------------------------------
\* Of numbers that are bounded one is the largest.
LEMMA MaxOfBounded ==
    ASSUME NEW n \in Nat, NEW S \in SUBSET (0 .. n), S # {}
    PROVE  Max(S) \in S /\ \A y \in S : y <= Max(S)
<1> DEFINE Above == {m \in Nat : \A y \in S : y <= m}
<1>1. n \in Above /\ Above \subseteq Nat
  OBVIOUS
<1> HIDE DEF Above
<1>2. PICK m \in Above : \A k \in Above : <<k, m>> \notin OpToRel(<, Nat)
  BY <1>1, WFMin, NatLessThanWellFounded
<1>3. \A k \in Above : ~(k < m)
  BY <1>1, <1>2 DEF OpToRel
<1>4. m \in S
  <2>1. SUFFICES ASSUME m \notin S PROVE FALSE
    OBVIOUS
  <2>2. \A y \in S : y \in Nat /\ y < m
    BY <2>1 DEF Above
  <2>3. m \in Nat /\ m - 1 \in Nat
    <3>1. PICK y \in S : y \in Nat /\ y < m
      BY <2>2
    <3> QED
      BY <3>1 DEF Above
  <2>4. m - 1 \in Above
    BY <2>2, <2>3 DEF Above
  <2> QED
    BY <1>3, <2>3, <2>4
<1>5. \E x \in S : \A y \in S : x >= y
  BY <1>4 DEF Above
<1> QED
  BY <1>5 DEF Max

LEMMA FreshId == ProxiesTyped => NextProxyId \in 1 .. proxiesAdded + 1 /\ NextProxyId \notin DOMAIN proxies
<1> SUFFICES ASSUME ProxiesTyped
             PROVE  NextProxyId \in 1 .. proxiesAdded + 1 /\ NextProxyId \notin DOMAIN proxies
  OBVIOUS
<1> DEFINE S == DOMAIN proxies \cup {0}
           M == Max(S)
<1>1. S \in SUBSET (0 .. proxiesAdded) /\ S # {} /\ proxiesAdded \in Nat
  BY DEF ProxiesTyped
<1> HIDE DEF S
<1>2. M \in S /\ \A y \in S : y <= M
  BY <1>1, MaxOfBounded
<1> HIDE DEF M
<1>3. M \in Nat /\ M <= proxiesAdded
  BY <1>1, <1>2
<1>4. M + 1 \notin S
  BY <1>2, <1>3
<1> QED
  BY <1>1, <1>3, <1>4 DEF NextProxyId, S, M

LEMMA ListOfEntries == ProxiesTyped => \A ids \in SUBSET DOMAIN proxies : EntriesOf(ids) \in Lists
<1> SUFFICES ASSUME ProxiesTyped, NEW ids \in SUBSET DOMAIN proxies PROVE EntriesOf(ids) \in Lists
  OBVIOUS
<1>1. ids \in SUBSET Nat /\ EntriesOf(ids) \in [ids -> Nat]
  BY DEF ProxiesTyped, EntriesOf, Entries
<1> QED
  BY <1>1 DEF Lists

LEMMA NoRequestTyped == NoRequest \in ProxyRequests
<1>1. <<>> \in [{} -> Nat]
  OBVIOUS
<1>2. <<>> \in Lists
  BY <1>1 DEF Lists
<1> QED
  BY <1>2 DEF NoRequest, ProxyRequests

LEMMA PoolInitially == ProxyPoolInit => PoolInv
BY NoRequestTyped
   DEF ProxyPoolInit, PoolInv, ProxiesTyped, RequestsTyped, DeletionsKnow, BindingKeepsItsProxy,
       NoRequest

-----------------------------------------------------------------------------
(* Steps that change the proxies *)

LEMMA AddKeeps == PoolInv /\ AddProxy => PoolInv'
<1> SUFFICES ASSUME PoolInv, AddProxy PROVE PoolInv'
  OBVIOUS
<1>1. NextProxyId \in 1 .. proxiesAdded + 1 /\ ProxiesTyped /\ proxiesAdded' = proxiesAdded + 1
  BY FreshId DEF PoolInv, AddProxy
<1>2. DOMAIN proxies' = DOMAIN proxies \cup {NextProxyId}
  BY DEF AddProxy
<1>3. NextProxyId \notin DOMAIN proxies
  BY <1>1, FreshId
<1>4. \A id \in DOMAIN proxies : proxies'[id] = proxies[id]
  BY <1>2, <1>3 DEF AddProxy
<1>5. ProxiesTyped'
  <2>1. DOMAIN proxies' \subseteq 1 .. proxiesAdded'
    BY <1>1, <1>2 DEF ProxiesTyped
  <2>2. [entry |-> proxiesAdded', disabled |-> FALSE, failures |-> 0] \in Entries
    BY <1>1 DEF ProxiesTyped, Entries
  <2>3. proxies' \in [DOMAIN proxies' -> Entries]
    BY <1>1, <1>2, <2>2 DEF AddProxy, ProxiesTyped
  <2> QED
    BY <1>1, <2>1, <2>3 DEF ProxiesTyped
<1>6. BindingKeepsItsProxy'
  <2>1. UNCHANGED <<boundTo, meant, missed>>
    BY DEF AddProxy
  <2> QED
    BY <1>2, <1>4, <2>1 DEF PoolInv, BindingKeepsItsProxy
<1> QED
  BY <1>5, <1>6 DEF PoolInv, AddProxy, RequestsTyped, DeletionsKnow

\* An entry is written with its health changed, and keeps its number.
HealthChanges ==
    \/ UNCHANGED proxies
    \/ \E id \in DOMAIN proxies, e \in Entries :
           e.entry = proxies[id].entry /\ proxies' = [proxies EXCEPT ![id] = e]

LEMMA EntriesStay ==
    ASSUME ProxiesTyped, HealthChanges, UNCHANGED proxiesAdded
    PROVE  /\ ProxiesTyped' /\ DOMAIN proxies' = DOMAIN proxies
           /\ \A id \in DOMAIN proxies : proxies'[id].entry = proxies[id].entry
BY DEF ProxiesTyped, HealthChanges

LEMMA HealthOfEntry ==
    ASSUME ProxiesTyped, NEW id \in DOMAIN proxies
    PROVE  /\ [proxies[id] EXCEPT !.disabled = ~@] \in Entries
           /\ [proxies[id] EXCEPT !.disabled = ~@].entry = proxies[id].entry
           /\ \A n \in Nat : /\ [proxies[id] EXCEPT !.failures = n] \in Entries
                             /\ [proxies[id] EXCEPT !.failures = n].entry = proxies[id].entry
BY DEF ProxiesTyped, Entries

LEMMA RequestEnds ==
    ASSUME RequestsTyped, NEW a \in ProxyAdmins, Ends(a), UNCHANGED <<boundTo, meant>>
    PROVE  RequestsTyped' /\ request'[a] = NoRequest
           /\ \A x \in ProxyAdmins \ {a} : request'[x] = request[x]
BY NoRequestTyped DEF RequestsTyped, Ends, NoRequest

LEMMA MinOfTwo == ASSUME NEW m \in Nat, NEW n \in Nat PROVE Min({m, n}) \in Nat
<1>1. \E x \in {m, n} : \A y \in {m, n} : x <= y
  OBVIOUS
<1> QED
  BY <1>1 DEF Min

LEMMA UpdateProxyKeeps == ASSUME PoolInv, NEW id \in DOMAIN proxies, UpdateProxy(id) PROVE PoolInv'
<1>1. HealthChanges
  BY HealthOfEntry DEF PoolInv, UpdateProxy, HealthChanges
<1>2. UNCHANGED <<proxiesAdded, boundTo, request, meant, missed>>
  BY DEF UpdateProxy
<1>3. /\ ProxiesTyped' /\ DOMAIN proxies' = DOMAIN proxies
      /\ \A x \in DOMAIN proxies : proxies'[x].entry = proxies[x].entry
  BY <1>1, <1>2, EntriesStay DEF PoolInv
<1> QED
  BY <1>2, <1>3 DEF PoolInv, RequestsTyped, DeletionsKnow, BindingKeepsItsProxy

LEMMA RecordKeeps == ASSUME PoolInv, NEW a \in ProxyAdmins, RecordHealth(a) PROVE PoolInv'
<1>1. HealthChanges
  <2>1. CASE request[a].id \in DOMAIN proxies
    <3>1. proxies[request[a].id].failures + 1 \in Nat /\ PROXY_DEAD_THRESHOLD \in Nat
      BY <2>1, ProxyAssumption DEF PoolInv, ProxiesTyped, Entries
    <3>2. Min({proxies[request[a].id].failures + 1, PROXY_DEAD_THRESHOLD}) \in Nat
      BY <3>1, MinOfTwo
    <3>3. PICK n \in Nat : proxies' = [proxies EXCEPT ![request[a].id].failures = n]
      BY <2>1, <3>2 DEF RecordHealth
    <3> QED
      BY <2>1, <3>3, HealthOfEntry DEF PoolInv, HealthChanges
  <2>2. CASE request[a].id \notin DOMAIN proxies
    BY <2>2 DEF RecordHealth, HealthChanges
  <2> QED
    BY <2>1, <2>2
<1>2. Ends(a) /\ UNCHANGED <<proxiesAdded, boundTo, meant, missed>>
  BY DEF RecordHealth
<1>3. /\ ProxiesTyped' /\ DOMAIN proxies' = DOMAIN proxies
      /\ \A x \in DOMAIN proxies : proxies'[x].entry = proxies[x].entry
  BY <1>1, <1>2, EntriesStay DEF PoolInv
<1>4. /\ RequestsTyped' /\ request'[a].step = "none"
      /\ \A x \in ProxyAdmins \ {a} : request'[x] = request[x]
  BY <1>2, RequestEnds DEF PoolInv, NoRequest
<1> QED
  BY <1>2, <1>3, <1>4 DEF PoolInv, DeletionsKnow, BindingKeepsItsProxy

\* The proxy goes when nobody is left to unbind: who is still bound to it counts as missed.
LEMMA DeleteEndKeeps == ASSUME PoolInv, NEW a \in ProxyAdmins, DeleteEnds(a) PROVE PoolInv'
<1>1. /\ request[a].step = "delete" /\ request[a].todo = {} /\ Ends(a)
      /\ DOMAIN proxies' = DOMAIN proxies \ {request[a].id}
      /\ \A id \in DOMAIN proxies' : proxies'[id] = proxies[id]
      /\ UNCHANGED <<proxiesAdded, boundTo, meant, missed>>
  BY DEF DeleteEnds
<1>2. ProxiesTyped'
  BY <1>1 DEF PoolInv, ProxiesTyped, DeleteEnds
<1>3. /\ RequestsTyped' /\ request'[a].step = "none"
      /\ \A x \in ProxyAdmins \ {a} : request'[x] = request[x]
  BY <1>1, RequestEnds DEF PoolInv, NoRequest
<1>4. DeletionsKnow'
  BY <1>1, <1>3 DEF PoolInv, DeletionsKnow
<1>5. BindingKeepsItsProxy'
  BY <1>1 DEF PoolInv, DeletionsKnow, BindingKeepsItsProxy
<1> QED
  BY <1>2, <1>3, <1>4, <1>5 DEF PoolInv

-----------------------------------------------------------------------------
(* Steps of a request that leave the proxies alone *)

LEMMA RequestBegins ==
    ASSUME PoolInv, NEW a \in ProxyAdmins, NEW r \in ProxyRequests, Starts(a, r),
           r.step = "delete" => r.id \in DOMAIN proxies /\ r.todo = BoundToProxy(r.id),
           UNCHANGED <<proxies, proxiesAdded, boundTo, meant, missed>>
    PROVE  PoolInv'
<1>1. request' = [request EXCEPT ![a] = r] /\ request \in [ProxyAdmins -> ProxyRequests]
  BY DEF Starts, PoolInv, RequestsTyped
<1>2. request'[a] = r /\ \A x \in ProxyAdmins \ {a} : request'[x] = request[x]
  BY <1>1
<1>3. r.step = "delete" => r.id # 0
  BY DEF PoolInv, ProxiesTyped
<1>4. RequestsTyped'
  BY <1>1, <1>2, <1>3 DEF PoolInv, RequestsTyped
<1>5. DeletionsKnow'
  BY <1>2 DEF PoolInv, DeletionsKnow, BoundToProxy
<1> QED
  BY <1>4, <1>5 DEF PoolInv, ProxiesTyped, BindingKeepsItsProxy

\* Only the credential's turn is over.
TurnOver(a, c) ==
    /\ DOMAIN request' = ProxyAdmins /\ request' \in [ProxyAdmins -> ProxyRequests]
    /\ \A x \in ProxyAdmins :
           /\ request'[x].step = request[x].step /\ request'[x].id = request[x].id
           /\ request'[x].todo = IF x = a THEN request[x].todo \ {c} ELSE request[x].todo

LEMMA TurnIsOver ==
    ASSUME PoolInv, NEW a \in ProxyAdmins, NEW c \in PoolCreds,
           request' = [request EXCEPT ![a].todo = @ \ {c}]
    PROVE  TurnOver(a, c)
BY DEF PoolInv, RequestsTyped, TurnOver, ProxyRequests

\* A binding to what is there, or to nothing, is right, and known to no deletion.
LEMMA BoundRight ==
    ASSUME PoolInv, NEW a \in ProxyAdmins, NEW c \in PoolCreds, NEW id \in Nat, NEW entry \in Nat,
           SetProxyId(c, id, entry), TurnOver(a, c), UNCHANGED <<proxies, proxiesAdded>>
    PROVE  PoolInv'
<1>1. /\ boundTo' = [boundTo EXCEPT ![c] = id] /\ meant' = [meant EXCEPT ![c] = entry]
      /\ boundTo \in [PoolCreds -> Nat] /\ meant \in [PoolCreds -> Nat]
  BY DEF SetProxyId, PoolInv, RequestsTyped
<1>2. \A x \in PoolCreds \ {c} :
          boundTo'[x] = boundTo[x] /\ meant'[x] = meant[x] /\ (x \in missed' <=> x \in missed)
  BY <1>1 DEF SetProxyId
<1>3. boundTo'[c] = id /\ meant'[c] = entry
  BY <1>1
<1>4. RequestsTyped'
  BY <1>1 DEF PoolInv, RequestsTyped, TurnOver
<1>5. DeletionsKnow'
  <2> SUFFICES ASSUME NEW x \in ProxyAdmins, NEW d \in PoolCreds, request'[x].step = "delete",
                      boundTo'[d] = request'[x].id, d \notin missed'
               PROVE  d \in request'[x].todo
    BY DEF DeletionsKnow
  <2>1. request[x].step = "delete" /\ request[x].id = request'[x].id /\ request[x].id # 0
    BY DEF TurnOver, PoolInv, RequestsTyped
  <2>2. CASE d # c
    <3>1. d \notin missed /\ boundTo[d] = request[x].id
      BY <1>2, <2>1, <2>2
    <3>2. d \in request[x].todo
      BY <2>1, <3>1 DEF PoolInv, DeletionsKnow
    <3> QED
      BY <2>2, <3>2 DEF TurnOver
  <2>3. CASE d = c
    BY <1>3, <2>1, <2>3 DEF SetProxyId
  <2> QED
    BY <2>2, <2>3
<1>6. BindingKeepsItsProxy'
  BY <1>2, <1>3 DEF PoolInv, BindingKeepsItsProxy, SetProxyId
<1> QED
  BY <1>4, <1>5, <1>6 DEF PoolInv, ProxiesTyped

LEMMA UnbindKeeps ==
    ASSUME PoolInv, NEW a \in ProxyAdmins, NEW c \in PoolCreds, UnbindOne(a, c)
    PROVE  PoolInv'
<1>1. TurnOver(a, c) /\ UNCHANGED <<proxies, proxiesAdded>>
  BY TurnIsOver DEF UnbindOne
<1>2. CASE SetProxyId(c, 0, 0)
  BY <1>1, <1>2, BoundRight
<1>3. CASE missed' = missed \cup {c} /\ UNCHANGED <<boundTo, meant>>
  <2>1. RequestsTyped'
    BY <1>1, <1>3 DEF PoolInv, RequestsTyped, TurnOver
  <2>2. DeletionsKnow'
    <3> SUFFICES ASSUME NEW x \in ProxyAdmins, NEW d \in PoolCreds, request'[x].step = "delete",
                        boundTo'[d] = request'[x].id, d \notin missed'
                 PROVE  d \in request'[x].todo
      BY DEF DeletionsKnow
    <3>1. request[x].step = "delete" /\ boundTo[d] = request[x].id /\ d \notin missed /\ d # c
      BY <1>1, <1>3 DEF TurnOver
    <3>2. d \in request[x].todo
      BY <3>1 DEF PoolInv, DeletionsKnow
    <3> QED
      BY <1>1, <3>1, <3>2 DEF TurnOver
  <2>3. BindingKeepsItsProxy'
    BY <1>1, <1>3 DEF PoolInv, BindingKeepsItsProxy
  <2> QED
    BY <1>1, <2>1, <2>2, <2>3 DEF PoolInv, ProxiesTyped
<1> QED
  BY <1>2, <1>3 DEF UnbindOne

LEMMA BindKeeps ==
    ASSUME PoolInv, NEW a \in ProxyAdmins, NEW c \in PoolCreds, BindOne(a, c)
    PROVE  PoolInv'
<1>1. TurnOver(a, c) /\ UNCHANGED <<proxies, proxiesAdded>>
  BY TurnIsOver DEF BindOne
<1>2. ASSUME NEW id \in DOMAIN request[a].list, SetProxyId(c, id, request[a].list[id])
      PROVE  PoolInv'
  <2>1. request[a].list \in Lists
    BY DEF PoolInv, RequestsTyped, ProxyRequests
  <2>2. id \in Nat /\ request[a].list[id] \in Nat
    BY <2>1 DEF Lists
  <2> QED
    BY <1>1, <1>2, <2>2, BoundRight
<1>3. CASE UNCHANGED <<boundTo, meant, missed>>
  BY <1>1, <1>3
     DEF BindOne, PoolInv, ProxiesTyped, RequestsTyped, DeletionsKnow, BindingKeepsItsProxy, TurnOver
<1> QED
  BY <1>2, <1>3 DEF BindOne

LEMMA BeginKeeps ==
    ASSUME PoolInv, NEW a \in ProxyAdmins,
           \/ BindBegins(a)
           \/ \E id \in DOMAIN proxies :
                  \/ TestBegins(a, id)
                  \/ /\ DeleteBegins(a, id)
                     /\ UNCHANGED <<proxies, proxiesAdded, boundTo, meant, missed>>
    PROVE  PoolInv'
<1>1. ProxiesTyped /\ DOMAIN proxies \subseteq Nat /\ <<>> \in Lists
  <2>1. <<>> \in [{} -> Nat]
    OBVIOUS
  <2>2. <<>> \in Lists
    BY <2>1 DEF Lists
  <2> QED
    BY <2>2 DEF PoolInv, ProxiesTyped
<1>2. ASSUME NEW todo \in SUBSET PoolCreds, NEW ids \in SUBSET DOMAIN proxies,
             Starts(a, [step |-> "bind", id |-> 0, todo |-> todo, list |-> EntriesOf(ids)]),
             UNCHANGED <<proxies, proxiesAdded, boundTo, meant, missed>>
      PROVE  PoolInv'
  <2>1. [step |-> "bind", id |-> 0, todo |-> todo, list |-> EntriesOf(ids)] \in ProxyRequests
    BY <1>1, ListOfEntries DEF ProxyRequests
  <2> QED
    BY <1>2, <2>1, RequestBegins
<1>3. CASE BindBegins(a)
  BY <1>2, <1>3 DEF BindBegins, BoundToProxy
<1>4. ASSUME NEW id \in DOMAIN proxies, TestBegins(a, id) PROVE PoolInv'
  <2>1. PICK r : r = [NoRequest EXCEPT !.step = "test", !.id = id]
    OBVIOUS
  <2>2. r \in ProxyRequests /\ r.step = "test"
    BY <1>1, <2>1, NoRequestTyped DEF ProxyRequests
  <2> QED
    BY <1>4, <2>1, <2>2, RequestBegins DEF TestBegins
<1>5. ASSUME NEW id \in DOMAIN proxies, DeleteBegins(a, id),
             UNCHANGED <<proxies, proxiesAdded, boundTo, meant, missed>>
      PROVE  PoolInv'
  <2>1. PICK r : r = [NoRequest EXCEPT !.step = "delete", !.id = id, !.todo = BoundToProxy(id)]
    OBVIOUS
  <2>2. BoundToProxy(id) \in SUBSET PoolCreds
    BY DEF BoundToProxy
  <2>3. r \in ProxyRequests /\ r.id = id /\ r.todo = BoundToProxy(id)
    BY <1>1, <2>1, <2>2, NoRequestTyped DEF ProxyRequests
  <2> QED
    BY <1>5, <2>1, <2>3, RequestBegins DEF DeleteBegins
<1> QED
  BY <1>3, <1>4, <1>5

LEMMA BindEndKeeps == ASSUME PoolInv, NEW a \in ProxyAdmins, BindEnds(a) PROVE PoolInv'
<1>1. Ends(a) /\ UNCHANGED <<proxies, proxiesAdded, boundTo, meant, missed>>
  BY DEF BindEnds
<1>2. /\ RequestsTyped' /\ request'[a].step = "none"
      /\ \A x \in ProxyAdmins \ {a} : request'[x] = request[x]
  BY <1>1, RequestEnds DEF PoolInv, NoRequest
<1> QED
  BY <1>1, <1>2 DEF PoolInv, ProxiesTyped, DeletionsKnow, BindingKeepsItsProxy

-----------------------------------------------------------------------------
\* Whatever administrators and requests do to the proxies at once: what a deletion does
\* not know of was bound while it was under way.
THEOREM PoolCorrect == ProxyPoolInit /\ [][ProxyPoolNext]_proxyPoolVars => []PoolInv
<1>1. ProxyPoolInit => PoolInv
  BY PoolInitially
<1>2. PoolInv /\ UNCHANGED proxyPoolVars => PoolInv'
  BY DEF PoolInv, ProxiesTyped, RequestsTyped, DeletionsKnow, BindingKeepsItsProxy, proxyPoolVars
<1>3. PoolInv /\ [ProxyPoolNext]_proxyPoolVars => PoolInv'
  BY <1>2, AddKeeps, UpdateProxyKeeps, RecordKeeps, DeleteEndKeeps, UnbindKeeps, BindKeeps, BeginKeeps, BindEndKeeps
     DEF ProxyPoolNext
<1> QED
  BY <1>1, <1>3, PTL

\* A credential keeps the proxy it was given, though ids are given again, unless it was
\* bound while a deletion was under way, or after it, or could not be unbound.
THEOREM BindingsKeepTheirProxy ==
    ProxyPoolInit /\ [][ProxyPoolNext]_proxyPoolVars => []BindingKeepsItsProxy
<1>1. PoolInv => BindingKeepsItsProxy
  BY DEF PoolInv
<1> QED
  BY <1>1, PoolCorrect, PTL

-----------------------------------------------------------------------------
(***************************************************************************)
(* PromptCacheTracker, for any fingerprints and lifetimes: the file        *)
(* against the map, across saves, changes of the lifetime and crashes.     *)
(***************************************************************************)
\* Entries live at most for their TTL.
WellKept(es) ==
    /\ es \in [DOMAIN es -> [ttl : Nat, expires : Nat]]
    /\ \A fp \in DOMAIN es : es[fp].expires <= cacheNow + es[fp].ttl

CacheTyped ==
    /\ cacheNow \in Nat /\ CacheTtls \subseteq Nat
    /\ WellKept(prefixes) /\ WellKept(cacheFile) /\ WellKept(writing.entries)

\* A start would read from es what the tracker has, none of it for longer.
WouldRestore(es) ==
    /\ \A fp \in DOMAIN es : es[fp].expires > cacheNow =>
           fp \in DOMAIN prefixes /\ es[fp].expires <= prefixes[fp].expires
    /\ \A fp \in DOMAIN prefixes : prefixes[fp].expires > cacheNow =>
           /\ fp \in DOMAIN es /\ es[fp].ttl = prefixes[fp].ttl
           /\ es[fp].expires <= prefixes[fp].expires

CacheInv ==
    /\ CacheTyped
    /\ ~dirty /\ writing.busy => WouldRestore(writing.entries)
    /\ ~dirty /\ ~writing.busy /\ ~cacheUnsaved => WouldRestore(cacheFile)

-----------------------------------------------------------------------------
LEMMA LiveOnes ==
    ASSUME NEW es
    PROVE  /\ \A fp : fp \in DOMAIN Live(es) <=> fp \in DOMAIN es /\ es[fp].expires > cacheNow
           /\ \A fp \in DOMAIN Live(es) : Live(es)[fp] = es[fp]
BY DEF Live

LEMMA CacheInitially == CacheInit => CacheInv
BY CacheAssumption
   DEF CacheInit, CacheInv, CacheTyped, WellKept, WouldRestore, NoEntries, NoWrite

\* Time goes on, and less is live.
LEMMA TickKeeps == CacheInv /\ CacheTick => CacheInv'
<1> SUFFICES ASSUME CacheInv, CacheTick PROVE CacheInv'
  OBVIOUS
<1>1. /\ cacheNow' = cacheNow + 1 /\ cacheNow \in Nat
      /\ UNCHANGED <<prefixes, dirty, writing, cacheFile, cacheUnsaved>>
  BY DEF CacheTick, CacheInv, CacheTyped
<1>2. ASSUME NEW es, WellKept(es), es' = es PROVE WellKept(es)'
  BY <1>1, <1>2 DEF WellKept
<1>3. CacheTyped'
  BY <1>1 DEF CacheInv, CacheTyped, WellKept
<1>4. ASSUME WouldRestore(writing.entries) PROVE WouldRestore(writing.entries)'
  BY <1>1, <1>4 DEF WouldRestore, CacheInv, CacheTyped, WellKept
<1>5. ASSUME WouldRestore(cacheFile) PROVE WouldRestore(cacheFile)'
  BY <1>1, <1>5 DEF WouldRestore, CacheInv, CacheTyped, WellKept
<1> QED
  BY <1>1, <1>3, <1>4, <1>5 DEF CacheInv

\* Expired prefixes go, and live ones may live longer.
Prolonged ==
    /\ DOMAIN prefixes' = DOMAIN Live(prefixes)
    /\ prefixes' \in [DOMAIN prefixes' -> [ttl : Nat, expires : Nat]]
    /\ \A fp \in DOMAIN prefixes' :
           /\ prefixes'[fp].ttl = prefixes[fp].ttl
           /\ prefixes[fp].expires <= prefixes'[fp].expires
           /\ prefixes'[fp].expires <= cacheNow + prefixes[fp].ttl

LEMMA ProlongedRestores ==
    ASSUME CacheTyped, Prolonged, UNCHANGED cacheNow, NEW es, WellKept(es), WouldRestore(es)
    PROVE  /\ \A fp \in DOMAIN es : es[fp].expires > cacheNow =>
                  fp \in DOMAIN prefixes' /\ es[fp].expires <= prefixes'[fp].expires
           /\ \A fp \in DOMAIN prefixes' : prefixes'[fp].expires > cacheNow =>
                  /\ fp \in DOMAIN es /\ es[fp].ttl = prefixes'[fp].ttl
                  /\ es[fp].expires <= prefixes'[fp].expires
BY LiveOnes DEF CacheTyped, Prolonged, WellKept, WouldRestore

LEMMA LiveIsProlonged ==
    ASSUME CacheTyped, prefixes' = Live(prefixes), UNCHANGED cacheNow PROVE Prolonged
<1>1. prefixes' \in [DOMAIN prefixes' -> [ttl : Nat, expires : Nat]]
  BY DEF CacheTyped, WellKept, Live
<1>2. \A fp \in DOMAIN prefixes' : fp \in DOMAIN prefixes /\ prefixes'[fp] = prefixes[fp]
  BY LiveOnes
<1> QED
  BY <1>1, <1>2 DEF CacheTyped, Prolonged, WellKept

LEMMA ComputeKeeps == ASSUME CacheInv, NEW r \in CacheRequests, Compute(r) PROVE CacheInv'
<1>1. UNCHANGED <<cacheNow, dirty, writing, cacheFile, cacheUnsaved>> /\ CacheTyped
  BY DEF Compute, CacheInv
<1>2. Prolonged
  <2>1. CASE prefixes' = Live(prefixes)
    BY <1>1, <2>1, LiveIsProlonged
  <2>2. ASSUME NEW fp \in DOMAIN Live(prefixes),
               prefixes' = [Live(prefixes) EXCEPT ![fp].expires = cacheNow + Live(prefixes)[fp].ttl]
        PROVE  Prolonged
    <3>1. Live(prefixes) \in [DOMAIN Live(prefixes) -> [ttl : Nat, expires : Nat]]
      BY <1>1, LiveOnes DEF CacheTyped, WellKept, Live
    <3>2. cacheNow + Live(prefixes)[fp].ttl \in Nat
      BY <1>1, <3>1 DEF CacheTyped
    <3> QED
      BY <1>1, <2>2, <3>1, <3>2, LiveOnes DEF CacheTyped, WellKept, Prolonged
  <2> QED
    BY <2>1, <2>2 DEF Compute
<1>3. CacheTyped'
  BY <1>1, <1>2 DEF CacheTyped, WellKept, Prolonged
<1>4. WouldRestore(writing.entries) => WouldRestore(writing.entries)'
  BY <1>1, <1>2, ProlongedRestores DEF CacheTyped, WouldRestore
<1>5. WouldRestore(cacheFile) => WouldRestore(cacheFile)'
  BY <1>1, <1>2, ProlongedRestores DEF CacheTyped, WouldRestore
<1> QED
  BY <1>1, <1>3, <1>4, <1>5 DEF CacheInv

LEMMA UpdateKeeps ==
    ASSUME CacheInv, NEW r \in CacheRequests, NEW fps \in SUBSET Fingerprints, NEW ttl \in CacheTtls,
           Update(r, fps, ttl)
    PROVE  CacheInv'
<1>1. UNCHANGED <<cacheNow, writing, cacheFile, cacheUnsaved>> /\ CacheTyped /\ ttl \in Nat
  BY CacheAssumption DEF Update, CacheInv
<1>2. CASE fps = {}
  <2>1. prefixes' = Live(prefixes) /\ (dirty' <=> dirty)
    <3>1. {} \cup DOMAIN Live(prefixes) = {f \in DOMAIN prefixes : prefixes[f].expires > cacheNow}
      BY DEF Live
    <3>2. prefixes' = [fp \in {f \in DOMAIN prefixes : prefixes[f].expires > cacheNow} |-> prefixes[fp]]
      BY <1>2, <3>1 DEF Update
    <3> QED
      BY <1>2, <3>2 DEF Update, Live
  <2>2. Prolonged
    BY <1>1, <2>1, LiveIsProlonged
  <2>3. CacheTyped'
    BY <1>1, <2>2 DEF CacheTyped, WellKept, Prolonged
  <2>4. WouldRestore(writing.entries) => WouldRestore(writing.entries)'
    BY <1>1, <2>2, ProlongedRestores DEF CacheTyped, WouldRestore
  <2>5. WouldRestore(cacheFile) => WouldRestore(cacheFile)'
    BY <1>1, <2>2, ProlongedRestores DEF CacheTyped, WouldRestore
  <2> QED
    BY <1>1, <2>1, <2>3, <2>4, <2>5 DEF CacheInv
<1>3. CASE fps # {}
  <2>1. dirty'
    BY <1>3 DEF Update
  <2>2. WellKept(prefixes)'
    BY <1>1, LiveOnes DEF CacheTyped, WellKept, Update
  <2>3. CacheTyped'
    BY <1>1, <2>2 DEF CacheTyped, WellKept
  <2> QED
    BY <2>1, <2>3 DEF CacheInv
<1> QED
  BY <1>2, <1>3

LEMMA FlushBeginKeeps == CacheInv /\ FlushBegins => CacheInv'
<1> SUFFICES ASSUME CacheInv, FlushBegins PROVE CacheInv'
  OBVIOUS
<1>1. /\ prefixes' = Live(prefixes) /\ writing'.busy /\ writing'.entries = prefixes'
      /\ UNCHANGED <<cacheNow, cacheFile>> /\ CacheTyped
  BY DEF FlushBegins, CacheInv
<1>2. Prolonged
  BY <1>1, LiveIsProlonged
<1>3. CacheTyped'
  BY <1>1, <1>2 DEF CacheTyped, WellKept, Prolonged
<1>4. WouldRestore(writing.entries)'
  BY <1>1, <1>3 DEF WouldRestore, CacheTyped, WellKept
<1> QED
  BY <1>1, <1>3, <1>4 DEF CacheInv

LEMMA FlushEndKeeps == CacheInv /\ FlushEnds => CacheInv'
<1> SUFFICES ASSUME CacheInv, FlushEnds PROVE CacheInv'
  OBVIOUS
<1>1. /\ UNCHANGED <<cacheNow, prefixes, dirty>> /\ CacheTyped /\ writing' = NoWrite /\ writing.busy
      /\ \/ cacheFile' = writing.entries
         \/ cacheFile' \in {cacheFile, NoEntries} /\ cacheUnsaved'
  BY DEF FlushEnds, CacheInv
<1>2. WellKept(NoEntries)' /\ WellKept(writing.entries)' /\ ~writing'.busy
  BY <1>1 DEF WellKept, NoEntries, NoWrite
<1>3. WellKept(cacheFile)'
  BY <1>1, <1>2 DEF WellKept, CacheTyped, NoEntries
<1>4. CacheTyped'
  BY <1>1, <1>2, <1>3 DEF CacheTyped, WellKept
<1>5. cacheFile' = writing.entries /\ WouldRestore(writing.entries) => WouldRestore(cacheFile)'
  BY <1>1 DEF WouldRestore
<1> QED
  BY <1>1, <1>2, <1>4, <1>5 DEF CacheInv

\* A tracker that has read the file has what is in it.
LEMMA ReadKeeps ==
    ASSUME CacheTyped, WellKept(cacheFile'), prefixes' = Live(cacheFile'), UNCHANGED cacheNow,
           WellKept(writing'.entries), ~writing'.busy
    PROVE  CacheInv'
<1>1. /\ \A fp : fp \in DOMAIN prefixes' <=> fp \in DOMAIN cacheFile' /\ cacheFile'[fp].expires > cacheNow
      /\ \A fp \in DOMAIN prefixes' : prefixes'[fp] = cacheFile'[fp]
  BY LiveOnes
<1>2. CacheTyped'
  BY <1>1 DEF CacheTyped, WellKept, Live
<1>3. WouldRestore(cacheFile)'
  BY <1>1, <1>2 DEF WouldRestore, CacheTyped, WellKept
<1> QED
  BY <1>2, <1>3 DEF CacheInv

LEMMA ChangeTtlKeeps == CacheInv /\ ChangeTtl => CacheInv'
<1> SUFFICES ASSUME CacheInv, ChangeTtl PROVE CacheInv'
  OBVIOUS
<1>1. WellKept(NoEntries) /\ WellKept(Live(prefixes))
  BY DEF WellKept, NoEntries, CacheInv, CacheTyped, Live
<1>2. cacheFile' \in {Live(prefixes), cacheFile, NoEntries}
  BY DEF ChangeTtl
<1>3. WellKept(cacheFile') /\ CacheTyped
  BY <1>1, <1>2 DEF CacheInv, CacheTyped
<1> QED
  BY <1>3, ReadKeeps DEF ChangeTtl, CacheTyped

LEMMA CrashKeeps == CacheInv /\ CacheCrash => CacheInv'
<1> SUFFICES ASSUME CacheInv, CacheCrash PROVE CacheInv'
  OBVIOUS
<1>1. WellKept(NoEntries) /\ WellKept(writing'.entries) /\ ~writing'.busy
  BY DEF WellKept, NoEntries, CacheCrash, NoWrite
<1>2. WellKept(cacheFile') /\ CacheTyped
  BY <1>1 DEF CacheInv, CacheTyped, CacheCrash
<1> QED
  BY <1>1, <1>2, ReadKeeps DEF CacheCrash

-----------------------------------------------------------------------------
\* Whatever requests record and look up while a save is under way, the lifetime changes or
\* the program crashes: no entry lives longer than its own lifetime, and as long as nothing
\* is marked for saving, what is being written or was written restores what is in memory.
THEOREM CacheCorrect == CacheInit /\ [][CacheNext]_cacheVars => []CacheInv
<1>1. CacheInv /\ UNCHANGED <<cacheNow, prefixes, dirty, writing, cacheFile, cacheUnsaved>> => CacheInv'
  BY DEF CacheInv, CacheTyped, WellKept, WouldRestore
<1>2. ASSUME CacheInv, NEW r \in CacheRequests, SnapshotTracker(r) \/ Forget(r) PROVE CacheInv'
  BY <1>1, <1>2 DEF SnapshotTracker, Forget
<1>3. CacheInv /\ [CacheNext]_cacheVars => CacheInv'
  BY <1>1, <1>2, TickKeeps, ComputeKeeps, UpdateKeeps, FlushBeginKeeps, FlushEndKeeps, ChangeTtlKeeps,
     CrashKeeps DEF CacheNext, cacheVars
<1> QED
  BY <1>3, CacheInitially, PTL

\* A tracker without unsaved changes and without a write under way would come back from its
\* file with the prefixes it has, and with no other (flush and load of the tracker).
THEOREM CleanIsSaved == CacheInit /\ [][CacheNext]_cacheVars => []CleanMeansSaved
<1>1. CacheInv => CleanMeansSaved
  BY LiveOnes DEF CacheInv, WouldRestore, CleanMeansSaved
<1> QED
  BY <1>1, CacheCorrect, PTL

-----------------------------------------------------------------------------
(***************************************************************************)
(* CredentialStore, for any number of actors whose changes do not overlap, *)
(* of credentials, secrets and priorities.                                 *)
(***************************************************************************)
\* No two changes are under way at once.
OneChange == \A a, b \in Actors : op[a] # Idle /\ op[b] # Idle => a = b

\* What is saved of an entry stands for it.
Stands(s, e) ==
    /\ s.id = e.id /\ s.secret = e.secret /\ s.prio = e.prio /\ s.region = e.region
    /\ e.reason = "manual" => s.disabled

\* A file that a restart would restore these entries from.
Restores(F, S) ==
    /\ Len(F) = Len(S)
    /\ \A i \in DOMAIN S : \E j \in DOMAIN F : Stands(F[j], S[i])

Files == {F \in Seq(Saved) : Loads(F)}

UniqueIds == \A i, j \in DOMAIN entries : entries[i].id = entries[j].id => i = j

Changes == {c \in UNION {[D -> Secrets \cup Priorities \cup Regions \cup Reasons] :
                          D \in SUBSET {"secret", "prio", "region", "reason"}} :
               /\ "secret" \in DOMAIN c => c.secret \in Secrets
               /\ "prio" \in DOMAIN c => c.prio \in Priorities
               /\ "region" \in DOMAIN c => c.region \in Regions
               /\ "reason" \in DOMAIN c => c.reason \in Reasons}

\* The file has what memory has, unless a change of memory failed to be saved.
Current == ~unsaved => Restores(file, entries)

\* What a change has still to do to memory, and what the file will be then.
ToDo(x, F) ==
    \/ x.next = "apply" /\ Known(x.id) /\ x.new \in Changes /\ Restores(F, With(entries, x.id, x.new))
    \/ x.next = "push" /\ x.new \in Entry /\ ~Known(x.new.id) /\ Restores(F, Append(entries, x.new))

UnderWay(x) ==
    \/ x.kind = "validate" /\ x.secret \in Secrets /\ Current
    \/ x.kind = "save"
    \/ x.kind = "write" /\ x.snap \in Files /\ x.next = "end" /\ Restores(x.snap, entries)
    \/ x.kind = "write" /\ x.snap \in Files /\ Current /\ ToDo(x, x.snap)
    \/ x.kind \in {"apply", "push"} /\ ToDo([next |-> x.kind, id |-> x.id, new |-> x.new], file)

StoreInv ==
    /\ entries \in Seq(Entry) /\ UniqueIds /\ file \in Files
    /\ op = [a \in Actors |-> op[a]]
    /\ \A a \in Actors : \A x \in {op[a]} : x # Idle => UnderWay(x)
    /\ Quiet => Current

LEMMA LeastOf ==
    ASSUME NEW S, S \subseteq Nat, S # {}
    PROVE  \E m \in S : \A n \in S : m <= n
<1>1. PICK m \in S : \A n \in S : <<n, m>> \notin OpToRel(<, Nat)
  BY NatLessThanWellFounded, WFMin
<1>2. \A n \in S : ~(n < m)
  BY <1>1 DEF OpToRel
<1> QED
  BY <1>2

LEMMA Located ==
    ASSUME entries \in Seq(Entry), UniqueIds, NEW id, Known(id)
    PROVE  /\ PositionOf(id) \in DOMAIN entries /\ Find(id) = entries[PositionOf(id)]
           /\ \A i \in DOMAIN entries : entries[i].id = id <=> i = PositionOf(id)
<1>1. Positions(id) # {} /\ Positions(id) \subseteq DOMAIN entries /\ Positions(id) \subseteq Nat
  BY DEF Known, Positions
<1>2. PositionOf(id) \in Positions(id)
  BY <1>1, LeastOf DEF PositionOf
<1> QED
  BY <1>2 DEF Positions, Find, UniqueIds

LEMMA NextIdFresh ==
    ASSUME entries \in Seq(Entry)
    PROVE  NextId \in Nat /\ ~Known(NextId)
<1> DEFINE Above == {m \in 0 .. MaxId : \A i \in DOMAIN entries : entries[i].id <= m}
<1>0. MaxId \in Nat /\ \A i \in DOMAIN entries : entries[i].id \in 1 .. MaxId
  <2>1. \A i \in DOMAIN entries : entries[i] \in Entry
    OBVIOUS
  <2> QED
    BY <2>1, StoreAssumption DEF Entry, Ids
<1>1. Above \subseteq Nat /\ MaxId \in Above
  BY <1>0
<1>2. PICK m \in Above : \A n \in Above : m <= n
  BY <1>1, LeastOf
<1>3. m = 0 \/ Known(m)
  <2>1. SUFFICES ASSUME m # 0, ~Known(m) PROVE FALSE
    OBVIOUS
  <2>2. \A i \in DOMAIN entries : entries[i].id <= m - 1
    BY <1>0, <2>1 DEF Known, Positions
  <2>3. m - 1 \in Above
    BY <1>0, <2>1, <2>2
  <2> QED
    BY <1>2, <2>3
<1> DEFINE IsTop(n) == /\ \A i \in DOMAIN entries : entries[i].id <= n
                       /\ n = 0 \/ Known(n)
           top == CHOOSE n \in 0 .. MaxId : IsTop(n)
<1>4. top \in 0 .. MaxId /\ IsTop(top)
  BY <1>2, <1>3
<1>5. NextId = 1 + top
  BY DEF NextId
<1> HIDE DEF top
<1>6. ~Known(1 + top)
  BY <1>0, <1>4 DEF Known, Positions
<1> QED
  BY <1>0, <1>4, <1>5, <1>6

-----------------------------------------------------------------------------
\* Changes, field by field.
LEMMA EntryChanged ==
    ASSUME NEW e \in Entry, NEW c \in Changes
    PROVE  /\ Changed(e, c) \in Entry
           /\ Changed(e, c).id = e.id
           /\ Changed(e, c).secret = IF "secret" \in DOMAIN c THEN c.secret ELSE e.secret
           /\ Changed(e, c).prio = IF "prio" \in DOMAIN c THEN c.prio ELSE e.prio
           /\ Changed(e, c).region = IF "region" \in DOMAIN c THEN c.region ELSE e.region
           /\ Changed(e, c).reason = IF "reason" \in DOMAIN c THEN c.reason ELSE e.reason
<1>1. DOMAIN e = {"id", "secret", "prio", "region", "reason"}
  BY DEF Entry
<1>2. "id" \notin DOMAIN c
  BY DEF Changes
<1> DEFINE d == Changed(e, c)
<1>3. d = [f \in {"id", "secret", "prio", "region", "reason"} |->
              IF f \in DOMAIN c THEN c[f] ELSE e[f]]
  BY <1>1 DEF Changed
<1> HIDE DEF d
<1>4. /\ d.id = e.id
      /\ d.secret = IF "secret" \in DOMAIN c THEN c.secret ELSE e.secret
      /\ d.prio = IF "prio" \in DOMAIN c THEN c.prio ELSE e.prio
      /\ d.region = IF "region" \in DOMAIN c THEN c.region ELSE e.region
      /\ d.reason = IF "reason" \in DOMAIN c THEN c.reason ELSE e.reason
  BY <1>2, <1>3
<1>5. d.id \in Ids /\ d.secret \in Secrets /\ d.prio \in Priorities /\ d.region \in Regions
      /\ d.reason \in Reasons
  BY <1>4 DEF Entry, Changes
<1>6. d = [id |-> d.id, secret |-> d.secret, prio |-> d.prio, region |-> d.region, reason |-> d.reason]
  BY <1>3
<1>7. d \in Entry
  BY <1>5, <1>6 DEF Entry
<1> QED
  BY <1>4, <1>7 DEF d

LEMMA SavedChanged ==
    ASSUME NEW s \in Saved, NEW c, "id" \notin DOMAIN c
    PROVE  LET t == Changed(s, c)
           IN  /\ t = [id |-> t.id, secret |-> t.secret, prio |-> t.prio, region |-> t.region,
                       disabled |-> t.disabled]
               /\ t.id = s.id
               /\ t.secret = IF "secret" \in DOMAIN c THEN c.secret ELSE s.secret
               /\ t.prio = IF "prio" \in DOMAIN c THEN c.prio ELSE s.prio
               /\ t.region = IF "region" \in DOMAIN c THEN c.region ELSE s.region
               /\ t.disabled = IF "disabled" \in DOMAIN c THEN c.disabled ELSE s.disabled
<1>1. DOMAIN s = {"id", "secret", "prio", "region", "disabled"}
  BY DEF Saved
<1> DEFINE d == Changed(s, c)
<1>3. d = [f \in {"id", "secret", "prio", "region", "disabled"} |->
              IF f \in DOMAIN c THEN c[f] ELSE s[f]]
  BY <1>1 DEF Changed
<1> HIDE DEF d
<1>4. /\ d.id = s.id
      /\ d.secret = IF "secret" \in DOMAIN c THEN c.secret ELSE s.secret
      /\ d.prio = IF "prio" \in DOMAIN c THEN c.prio ELSE s.prio
      /\ d.region = IF "region" \in DOMAIN c THEN c.region ELSE s.region
      /\ d.disabled = IF "disabled" \in DOMAIN c THEN c.disabled ELSE s.disabled
  BY <1>3
<1>6. d = [id |-> d.id, secret |-> d.secret, prio |-> d.prio, region |-> d.region, disabled |-> d.disabled]
  BY <1>3
<1> QED
  BY <1>4, <1>6 DEF d

-----------------------------------------------------------------------------
\* A file that follows the entries one by one.
LEMMA OneByOne ==
    ASSUME entries \in Seq(Entry), UniqueIds, NEW F, NEW S,
           DOMAIN F = DOMAIN entries, DOMAIN S = DOMAIN entries,
           F = [i \in DOMAIN F |-> F[i]], S = [i \in DOMAIN S |-> S[i]],
           \A i \in DOMAIN entries : F[i] \in Saved /\ Stands(F[i], S[i]) /\ S[i].id = entries[i].id
    PROVE  F \in Files /\ Restores(F, S)
<1>1. PICK n \in Nat : DOMAIN entries = 1 .. n
  OBVIOUS
<1>2. F \in Seq(Saved)
  BY <1>1
<1>3. Loads(F)
  BY DEF Loads, UniqueIds, Stands
<1>4. Len(F) = n /\ Len(S) = n
  BY <1>1
<1>5. \A i \in DOMAIN S : \E j \in DOMAIN F : Stands(F[j], S[i])
  OBVIOUS
<1> QED
  BY <1>2, <1>3, <1>4, <1>5 DEF Files, Restores

\* The two snapshots, entry by entry.
LEMMA Snapshots ==
    ASSUME entries \in Seq(Entry), NEW S \in {Snapshot(entries), ManualSnapshot(entries)}
    PROVE  /\ S = [i \in DOMAIN entries |-> S[i]]
           /\ \A i \in DOMAIN entries : S[i] \in Saved /\ Stands(S[i], entries[i])
<1>1. \A i \in DOMAIN entries : entries[i] \in Entry
  OBVIOUS
<1>2. ASSUME NEW e \in Entry, NEW d, d = TRUE \/ d = FALSE, e.reason = "manual" => d = TRUE
      PROVE  Save(e, d) \in Saved /\ Stands(Save(e, d), e)
  BY <1>2 DEF Entry, Saved, Save, Stands
<1>3. CASE S = Snapshot(entries)
  <2>1. S = [i \in DOMAIN entries |-> Save(entries[i], entries[i].reason \in {"manual", "banned"})]
    BY <1>3 DEF Snapshot
  <2>2. ASSUME NEW i \in DOMAIN entries PROVE S[i] \in Saved /\ Stands(S[i], entries[i])
    <3> DEFINE d == entries[i].reason \in {"manual", "banned"}
    <3>1. (d = TRUE \/ d = FALSE) /\ (entries[i].reason = "manual" => d = TRUE)
      OBVIOUS
    <3>2. S[i] = Save(entries[i], d)
      BY <2>1
    <3> HIDE DEF d
    <3> QED
      BY <1>1, <1>2, <3>1, <3>2
  <2> QED
    BY <2>1, <2>2
<1>4. CASE S = ManualSnapshot(entries)
  <2>1. S = [i \in DOMAIN entries |-> Save(entries[i], entries[i].reason = "manual")]
    BY <1>4 DEF ManualSnapshot
  <2>2. ASSUME NEW i \in DOMAIN entries PROVE S[i] \in Saved /\ Stands(S[i], entries[i])
    <3> DEFINE d == entries[i].reason = "manual"
    <3>1. (d = TRUE \/ d = FALSE) /\ (entries[i].reason = "manual" => d = TRUE)
      OBVIOUS
    <3>2. S[i] = Save(entries[i], d)
      BY <2>1
    <3> HIDE DEF d
    <3> QED
      BY <1>1, <1>2, <3>1, <3>2
  <2> QED
    BY <2>1, <2>2
<1> QED
  BY <1>3, <1>4

\* Memory with one change.
LEMMA Memory ==
    ASSUME entries \in Seq(Entry), NEW id, NEW c \in Changes
    PROVE  LET S == With(entries, id, c)
           IN  /\ S \in Seq(Entry) /\ DOMAIN S = DOMAIN entries /\ Len(S) = Len(entries)
               /\ S = [i \in DOMAIN S |-> S[i]]
               /\ \A i \in DOMAIN entries :
                      /\ S[i] = IF i = PositionOf(id) THEN Changed(entries[i], c) ELSE entries[i]
                      /\ S[i].id = entries[i].id
<1> DEFINE S == With(entries, id, c)
<1>1. PICK n \in Nat : DOMAIN entries = 1 .. n /\ n = Len(entries)
  OBVIOUS
<1>2. S = [i \in 1 .. n |-> IF i = PositionOf(id) THEN Changed(entries[i], c) ELSE entries[i]]
  BY <1>1 DEF With
<1> HIDE DEF S
<1>3. \A i \in 1 .. n : S[i] = IF i = PositionOf(id) THEN Changed(entries[i], c) ELSE entries[i]
  BY <1>2
<1>4. \A i \in 1 .. n : entries[i] \in Entry
  BY <1>1
<1>5. \A i \in 1 .. n : S[i] \in Entry /\ S[i].id = entries[i].id
  BY <1>3, <1>4, EntryChanged
<1>6. S \in [1 .. n -> Entry]
  BY <1>2, <1>5
<1>7. S \in Seq(Entry) /\ DOMAIN S = 1 .. n /\ Len(S) = n
  BY <1>6
<1>8. S = [i \in DOMAIN S |-> S[i]]
  BY <1>2
<1> QED
  BY <1>1, <1>3, <1>5, <1>7, <1>8 DEF S

\* What is written and what is changed later are the same.
SameChange(cs, ce, e) ==
    /\ "id" \notin DOMAIN cs
    /\ "secret" \in DOMAIN cs <=> "secret" \in DOMAIN ce
    /\ "prio" \in DOMAIN cs <=> "prio" \in DOMAIN ce
    /\ "region" \in DOMAIN cs <=> "region" \in DOMAIN ce
    /\ "secret" \in DOMAIN cs => cs.secret = ce.secret
    /\ "prio" \in DOMAIN cs => cs.prio = ce.prio
    /\ "region" \in DOMAIN cs => cs.region = ce.region
    /\ "reason" \in DOMAIN ce => "disabled" \in DOMAIN cs
    /\ "disabled" \in DOMAIN cs =>
           /\ cs.disabled \in BOOLEAN
           /\ (IF "reason" \in DOMAIN ce THEN ce.reason ELSE e.reason) = "manual" => cs.disabled

LEMMA ChangedAlike ==
    ASSUME NEW e \in Entry, NEW s \in Saved, Stands(s, e), NEW ce \in Changes, NEW cs,
           SameChange(cs, ce, e)
    PROVE  Changed(s, cs) \in Saved /\ Stands(Changed(s, cs), Changed(e, ce))
<1> DEFINE t == Changed(s, cs)
           d == Changed(e, ce)
<1>1. /\ d \in Entry /\ d.id = e.id
      /\ d.secret = IF "secret" \in DOMAIN ce THEN ce.secret ELSE e.secret
      /\ d.prio = IF "prio" \in DOMAIN ce THEN ce.prio ELSE e.prio
      /\ d.region = IF "region" \in DOMAIN ce THEN ce.region ELSE e.region
      /\ d.reason = IF "reason" \in DOMAIN ce THEN ce.reason ELSE e.reason
  BY EntryChanged
<1>2. /\ t = [id |-> t.id, secret |-> t.secret, prio |-> t.prio, region |-> t.region,
              disabled |-> t.disabled]
      /\ t.id = s.id
      /\ t.secret = IF "secret" \in DOMAIN cs THEN cs.secret ELSE s.secret
      /\ t.prio = IF "prio" \in DOMAIN cs THEN cs.prio ELSE s.prio
      /\ t.region = IF "region" \in DOMAIN cs THEN cs.region ELSE s.region
      /\ t.disabled = IF "disabled" \in DOMAIN cs THEN cs.disabled ELSE s.disabled
  BY SavedChanged DEF SameChange
<1> HIDE DEF t, d
<1>3. t.id = d.id /\ t.secret = d.secret /\ t.prio = d.prio /\ t.region = d.region
  BY <1>1, <1>2 DEF SameChange, Stands
<1>4. d.reason = "manual" => t.disabled
  BY <1>1, <1>2 DEF SameChange, Stands
<1>5. t.disabled \in BOOLEAN
  BY <1>2 DEF SameChange, Saved
<1>6. t \in Saved
  BY <1>1, <1>2, <1>3, <1>5 DEF Entry, Saved
<1> QED
  BY <1>3, <1>4, <1>6 DEF Stands, t, d

\* A snapshot with a change is what memory will be after it.
LEMMA SnapshotChanged ==
    ASSUME entries \in Seq(Entry), UniqueIds, NEW id, Known(id),
           NEW S \in {Snapshot(entries), ManualSnapshot(entries)},
           NEW ce \in Changes, NEW cs, SameChange(cs, ce, Find(id))
    PROVE  With(S, id, cs) \in Files /\ Restores(With(S, id, cs), With(entries, id, ce))
<1> DEFINE F == With(S, id, cs)
           E == With(entries, id, ce)
<1>1. /\ S = [i \in DOMAIN entries |-> S[i]]
      /\ \A i \in DOMAIN entries : S[i] \in Saved /\ Stands(S[i], entries[i])
  BY Snapshots
<1>2. /\ DOMAIN E = DOMAIN entries /\ E = [i \in DOMAIN E |-> E[i]]
      /\ \A i \in DOMAIN entries :
             /\ E[i] = IF i = PositionOf(id) THEN Changed(entries[i], ce) ELSE entries[i]
             /\ E[i].id = entries[i].id
  BY Memory
<1>3. DOMAIN S = DOMAIN entries
  BY <1>1
<1>4. F = [i \in DOMAIN entries |-> IF i = PositionOf(id) THEN Changed(S[i], cs) ELSE S[i]]
  BY <1>3 DEF With
<1> HIDE DEF F, E
<1>5. DOMAIN F = DOMAIN entries /\ F = [i \in DOMAIN F |-> F[i]]
  BY <1>4
<1>6. ASSUME NEW i \in DOMAIN entries
      PROVE  F[i] \in Saved /\ Stands(F[i], E[i])
  <2>0. entries[i] \in Entry
    OBVIOUS
  <2>1. CASE i = PositionOf(id)
    <3>1. entries[i] = Find(id)
      BY <2>1, Located
    <3>2. Changed(S[i], cs) \in Saved /\ Stands(Changed(S[i], cs), Changed(entries[i], ce))
      BY <1>1, <2>0, <3>1, ChangedAlike
    <3> QED
      BY <1>2, <1>4, <2>1, <3>2
  <2>2. CASE i # PositionOf(id)
    BY <1>1, <1>2, <1>4, <2>2
  <2> QED
    BY <2>1, <2>2
<1>7. F \in Files /\ Restores(F, E)
  BY <1>2, <1>5, <1>6, OneByOne
<1> QED
  BY <1>7 DEF F, E

-----------------------------------------------------------------------------
\* A step of one actor, while the others have nothing under way.
LEMMA OneMoves ==
    ASSUME StoreInv, OneChange, OneChange', NEW a \in Actors, NEW x,
           op' = [op EXCEPT ![a] = x], op[a] # Idle \/ x # Idle,
           entries' \in Seq(Entry), UniqueIds', file' \in Files',
           x = Idle => Current', x # Idle => UnderWay(x)'
    PROVE  StoreInv'
<1>1. op = [b \in Actors |-> op[b]]
  BY DEF StoreInv
<1>2. op' = [b \in Actors |-> op'[b]] /\ op'[a] = x /\ \A b \in Actors \ {a} : op'[b] = op[b]
  BY <1>1
<1>3. \A b \in Actors \ {a} : op'[b] = Idle
  <2>1. CASE op[a] # Idle
    BY <1>2, <2>1 DEF OneChange
  <2>2. CASE x # Idle
    BY <1>2, <2>2 DEF OneChange, Idle
  <2> QED
    BY <2>1, <2>2
<1>4. ASSUME NEW b \in Actors, NEW y \in {op'[b]}, y # Idle PROVE UnderWay(y)'
  <2>1. b = a /\ y = x
    BY <1>2, <1>3, <1>4
  <2> QED
    BY <1>4, <2>1
<1>5. Quiet' => Current'
  BY <1>2 DEF Quiet, Idle
<1> QED
  BY <1>2, <1>4, <1>5 DEF StoreInv, Idle

LEMMA CurrentAtFirst ==
    ASSUME StoreInv, OneChange', NEW a \in Actors, NEW x,
           op' = [op EXCEPT ![a] = x], op[a] = Idle, x # Idle
    PROVE  Current
<1>1. op = [b \in Actors |-> op[b]]
  BY DEF StoreInv
<1>2. op'[a] = x /\ \A b \in Actors \ {a} : op'[b] = op[b]
  BY <1>1
<1>3. Quiet
  BY <1>2 DEF OneChange, Idle, Quiet
<1> QED
  BY <1>3 DEF StoreInv

\* Where memory and the file stay, so does what a change has still to do.
LEMMA StaysUnderWay ==
    ASSUME NEW x, UnderWay(x), UNCHANGED <<entries, file, unsaved>>
    PROVE  UnderWay(x)'
<1>1. \A i : Known(i)' <=> Known(i)
  BY DEF Known, Positions
<1>2. \A i, c : With(entries, i, c)' = With(entries, i, c)
  BY DEF With, PositionOf, Positions
<1>3. Current' <=> Current
  BY DEF Current
<1>4. \A y, F : ToDo(y, F)' <=> ToDo(y, F)
  BY <1>1, <1>2 DEF ToDo
<1>5. \A y : ToDo(y, file)' <=> ToDo(y, file)
  BY <1>4
<1> QED
  BY <1>3, <1>4, <1>5 DEF UnderWay

LEMMA ApplyBegins ==
    ASSUME StoreInv, OneChange, OneChange', NEW a \in Actors, NEW id, Known(id),
           NEW c \in Changes, NEW snap \in Files, Restores(snap, With(entries, id, c)),
           WriteThenApply(a, id, c, snap)
    PROVE  StoreInv'
<1> DEFINE x == [kind |-> "write", next |-> "apply", id |-> id, new |-> c, snap |-> snap]
<1>1. op[a] = Idle /\ op' = [op EXCEPT ![a] = x] /\ UNCHANGED <<entries, file, unsaved>>
  BY DEF WriteThenApply
<1>2. x # Idle
  BY DEF Idle
<1>3. Current
  BY <1>1, <1>2, CurrentAtFirst
<1>4. UnderWay(x)
  BY <1>3 DEF UnderWay, ToDo
<1> HIDE DEF x
<1>5. UnderWay(x)'
  BY <1>1, <1>4, StaysUnderWay
<1>6. entries' \in Seq(Entry) /\ UniqueIds' /\ file' \in Files'
  BY <1>1 DEF StoreInv, UniqueIds, Files, Loads
<1> QED
  BY <1>1, <1>2, <1>5, <1>6, OneMoves

\* Memory with one entry more.
LEMMA OneMore ==
    ASSUME entries \in Seq(Entry), UniqueIds, NEW new \in Entry, ~Known(new.id)
    PROVE  LET F == Append(Snapshot(entries), Save(new, new.reason = "manual"))
           IN  F \in Files /\ Restores(F, Append(entries, new))
<1> DEFINE S == Snapshot(entries)
           d == Save(new, new.reason = "manual")
           F == Append(S, d)
           E == Append(entries, new)
<1>1. PICK n \in Nat : DOMAIN entries = 1 .. n /\ n = Len(entries)
  OBVIOUS
<1>2. S = [i \in 1 .. n |-> S[i]] /\ \A i \in 1 .. n : S[i] \in Saved /\ Stands(S[i], entries[i])
  BY <1>1, Snapshots
<1>3. d \in Saved /\ Stands(d, new)
  <2> DEFINE b == new.reason = "manual"
  <2>1. b \in BOOLEAN /\ d = Save(new, b)
    OBVIOUS
  <2>2. new.reason = "manual" => b
    OBVIOUS
  <2> HIDE DEF b
  <2>3. Save(new, b) \in Saved /\ Stands(Save(new, b), new)
    BY <2>1, <2>2 DEF Save, Saved, Entry, Stands
  <2> QED
    BY <2>1, <2>3
<1> HIDE DEF S, d
<1>4. S \in Seq(Saved) /\ Len(S) = n
  BY <1>2
<1>5. /\ F \in Seq(Saved) /\ Len(F) = n + 1 /\ DOMAIN F = 1 .. n + 1
      /\ \A i \in 1 .. n : F[i] = S[i]
      /\ F[n + 1] = d
  BY <1>3, <1>4
<1>6. /\ Len(E) = n + 1 /\ DOMAIN E = 1 .. n + 1
      /\ \A i \in 1 .. n : E[i] = entries[i]
      /\ E[n + 1] = new
  BY <1>1
<1> HIDE DEF F, E
<1>7. \A i \in 1 .. n + 1 : Stands(F[i], E[i])
  <2> TAKE i \in 1 .. n + 1
  <2>1. i \in 1 .. n \/ i = n + 1
    BY <1>1
  <2> QED
    BY <1>2, <1>3, <1>5, <1>6, <2>1
<1>8. \A i, j \in 1 .. n + 1 : F[i].id = F[j].id => i = j
  <2> TAKE i, j \in 1 .. n + 1
  <2>1. \A k \in 1 .. n : F[k].id = entries[k].id /\ entries[k].id # new.id
    BY <1>1, <1>2, <1>5 DEF Stands, Known, Positions
  <2>2. F[n + 1].id = new.id
    BY <1>3, <1>5 DEF Stands
  <2>3. (i \in 1 .. n \/ i = n + 1) /\ (j \in 1 .. n \/ j = n + 1)
    BY <1>1
  <2> QED
    BY <1>1, <2>1, <2>2, <2>3 DEF UniqueIds
<1>9. F \in Files /\ Restores(F, E)
  BY <1>5, <1>6, <1>7, <1>8 DEF Files, Loads, Restores
<1> QED
  BY <1>9 DEF F, E, S, d

LEMMA PushBegins ==
    ASSUME StoreInv, OneChange, OneChange', NEW a \in Actors, NEW new \in Entry, ~Known(new.id),
           NEW x, x = [kind |-> "write", next |-> "push", id |-> new.id, new |-> new,
                       snap |-> Append(Snapshot(entries), Save(new, new.reason = "manual"))],
           Current, op' = [op EXCEPT ![a] = x], UNCHANGED <<entries, file, unsaved>>
    PROVE  StoreInv'
<1>1. x # Idle
  BY DEF Idle
<1>2. x.snap \in Files /\ Restores(x.snap, Append(entries, x.new)) /\ x.new = new
      /\ x.kind = "write" /\ x.next = "push"
  BY OneMore DEF StoreInv
<1>3. UnderWay(x)
  BY <1>2 DEF UnderWay, ToDo
<1>4. UnderWay(x)'
  BY <1>3, StaysUnderWay
<1>5. entries' \in Seq(Entry) /\ UniqueIds' /\ file' \in Files'
  BY DEF StoreInv, UniqueIds, Files, Loads
<1> QED
  BY <1>1, <1>4, <1>5, OneMoves

LEMMA NewTyped ==
    ASSUME NEW id \in Ids, NEW s \in Secrets, NEW d \in BOOLEAN
    PROVE  New(id, s, d) \in Entry /\ New(id, s, d).id = id
<1>1. (CHOOSE r \in Regions : TRUE) \in Regions
  BY StoreAssumption
<1>2. ReasonOf(d) \in Reasons
  BY DEF ReasonOf, Reasons
<1> QED
  BY <1>1, <1>2, StoreAssumption DEF New, Entry

\* An insertion begins, and one goes on after its validation.
LEMMA Inserts ==
    ASSUME StoreInv, OneChange, OneChange', NEW a \in Actors,
           NEW id, NEW s \in Secrets, NEW d \in BOOLEAN, ~Known(id),
           WriteThenPush(a, New(id, s, d)), op[a] = Idle \/ op[a].kind = "validate"
    PROVE  StoreInv'
<1> DEFINE new == New(id, s, d)
<1>0. new.id = id
  BY DEF New
<1>1. new \in Entry
  BY <1>0, NewTyped DEF WriteThenPush
<1>2. PICK x : x = [kind |-> "write", next |-> "push", id |-> new.id, new |-> new,
                    snap |-> Append(Snapshot(entries), Save(new, new.reason = "manual"))]
  OBVIOUS
<1>3. op' = [op EXCEPT ![a] = x] /\ UNCHANGED <<entries, file, unsaved>>
  BY <1>2 DEF WriteThenPush
<1>4. x # Idle
  BY <1>2 DEF Idle
<1>5. Current
  <2>1. CASE op[a] = Idle
    BY <1>3, <1>4, <2>1, CurrentAtFirst
  <2>2. CASE op[a].kind = "validate"
    <3>1. op[a] # Idle
      BY <2>2 DEF Idle
    <3>2. UnderWay(op[a])
      BY <3>1 DEF StoreInv
    <3> QED
      BY <2>2, <3>2 DEF UnderWay
  <2> QED
    BY <2>1, <2>2
<1> HIDE DEF new
<1> QED
  BY <1>0, <1>1, <1>2, <1>3, <1>5, PushBegins DEF new

\* Changes that are made before they are saved.
LEMMA MadeFirst ==
    ASSUME StoreInv, OneChange, OneChange', NEW a \in Actors, NEW S \in Seq(Entry),
           \A i, j \in DOMAIN S : S[i].id = S[j].id => i = j, ChangeThenSave(a, S)
    PROVE  StoreInv'
<1>1. entries' = S /\ op' = [op EXCEPT ![a] = [kind |-> "save"]] /\ UNCHANGED <<file, unsaved>>
  BY DEF ChangeThenSave
<1>2. [kind |-> "save"] # Idle
  BY DEF Idle
<1>3. UnderWay([kind |-> "save"])'
  BY DEF UnderWay
<1>4. entries' \in Seq(Entry) /\ UniqueIds' /\ file' \in Files'
  BY <1>1 DEF StoreInv, UniqueIds, Files, Loads
<1> QED
  BY <1>1, <1>2, <1>3, <1>4, OneMoves

LEMMA ChangesMade ==
    ASSUME StoreInv, OneChange, OneChange', NEW a \in Actors, NEW id, NEW c \in Changes,
           ChangeThenSave(a, With(entries, id, c))
    PROVE  StoreInv'
<1> DEFINE S == With(entries, id, c)
<1>1. S \in Seq(Entry) /\ DOMAIN S = DOMAIN entries /\ \A i \in DOMAIN entries : S[i].id = entries[i].id
  BY Memory DEF StoreInv
<1>2. \A i, j \in DOMAIN S : S[i].id = S[j].id => i = j
  BY <1>1 DEF StoreInv, UniqueIds
<1> HIDE DEF S
<1> QED
  BY <1>1, <1>2, MadeFirst DEF S

LEMMA ListTyped ==
    ASSUME NEW n \in Nat, NEW T, NEW S \in [1 .. n -> T]
    PROVE  S \in Seq(T) /\ DOMAIN S = 1 .. n /\ Len(S) = n
  OBVIOUS

LEMMA DeleteKeeps ==
    ASSUME StoreInv, OneChange, OneChange', NEW a \in Actors, NEW id, DeleteCredential(a, id)
    PROVE  StoreInv'
<1> DEFINE kept == DOMAIN entries \ Positions(id)
<1>1. PICK places \in [1 .. Cardinality(kept) -> kept] :
          /\ \A i, j \in DOMAIN places : i < j => places[i] < places[j]
          /\ ChangeThenSave(a, [i \in DOMAIN places |-> entries[places[i]]])
  BY DEF DeleteCredential
<1>2. IsFiniteSet(kept)
  <2>1. PICK n \in Nat : DOMAIN entries = 1 .. n
    BY DEF StoreInv
  <2>2. IsFiniteSet(1 .. n)
    BY <2>1, FS_Interval
  <2> QED
    BY <2>1, <2>2, FS_Subset
<1>3. PICK n \in Nat : n = Cardinality(kept)
  BY <1>2, FS_CardinalityType
<1> HIDE DEF kept
<1> DEFINE S == [i \in DOMAIN places |-> entries[places[i]]]
<1>4. DOMAIN places = 1 .. n /\ \A i \in 1 .. n : places[i] \in DOMAIN entries
  BY <1>1, <1>3 DEF kept
<1>5. \A k \in DOMAIN entries : entries[k] \in Entry /\ k \in Int
  BY DEF StoreInv
<1>6. S \in Seq(Entry) /\ DOMAIN S = 1 .. n
  <2>1. S = [i \in 1 .. n |-> entries[places[i]]]
    BY <1>4
  <2>2. \A i \in 1 .. n : entries[places[i]] \in Entry
    BY <1>4, <1>5
  <2> HIDE DEF S
  <2>3. S \in [1 .. n -> Entry]
    BY <2>1, <2>2
  <2> QED
    BY <2>3, ListTyped
<1>7. \A i, j \in 1 .. n : S[i].id = S[j].id => i = j
  <2> SUFFICES ASSUME NEW i \in 1 .. n, NEW j \in 1 .. n, S[i].id = S[j].id PROVE i = j
    OBVIOUS
  <2>1. places[i] = places[j]
    BY <1>4 DEF StoreInv, UniqueIds
  <2>2. places[i] \in Int
    BY <1>4, <1>5
  <2>3. ~(places[i] < places[j]) /\ ~(places[j] < places[i])
    BY <2>1, <2>2
  <2>4. ~(i < j) /\ ~(j < i)
    BY <1>1, <1>4, <2>3
  <2> QED
    BY <1>3, <2>4
<1> HIDE DEF S
<1> QED
  BY <1>1, <1>6, <1>7, MadeFirst DEF S

-----------------------------------------------------------------------------
\* Changes that are saved before they are made.
LEMMA SetsReason ==
    ASSUME NEW r \in Reasons PROVE [reason |-> r] \in Changes
  BY DEF Changes

LEMMA SetsPrio ==
    ASSUME NEW p \in Priorities PROVE [prio |-> p] \in Changes
  BY DEF Changes

LEMMA SetsRegion ==
    ASSUME NEW r \in Regions PROVE [region |-> r] \in Changes
  BY DEF Changes

LEMMA SetsClone ==
    ASSUME NEW e, e.secret \in Secrets, e.prio \in Priorities, e.region \in Regions
    PROVE  Clone(e) \in Changes
  BY DEF Changes, Clone

LEMMA SetsAll ==
    ASSUME NEW s \in Secrets, NEW p \in Priorities, NEW r \in Regions, NEW why \in Reasons
    PROVE  [secret |-> s, prio |-> p, region |-> r, reason |-> why] \in Changes
  BY DEF Changes

LEMMA EntryOf ==
    ASSUME entries \in Seq(Entry), NEW i \in DOMAIN entries
    PROVE  LET e == entries[i]
           IN  /\ e \in Entry /\ e.id \in Ids /\ e.secret \in Secrets /\ e.prio \in Priorities
               /\ e.region \in Regions /\ e.reason \in Reasons
<1>1. entries[i] \in Entry
  OBVIOUS
<1> QED
  BY <1>1 DEF Entry

LEMMA SetDisabledKeeps ==
    ASSUME StoreInv, OneChange, OneChange', NEW a \in Actors, NEW id, NEW d \in BOOLEAN,
           SetDisabled(a, id, d)
    PROVE  StoreInv'
<1> DEFINE c == [reason |-> ReasonOf(d)]
           s == [disabled |-> d]
<1>1. Known(id) /\ WriteThenApply(a, id, c, With(ManualSnapshot(entries), id, s))
  BY DEF SetDisabled
<1>2. c \in Changes
  BY SetsReason DEF ReasonOf, Reasons
<1>3. SameChange(s, c, Find(id))
  BY DEF SameChange, ReasonOf
<1> HIDE DEF c, s
<1>4. /\ With(ManualSnapshot(entries), id, s) \in Files
      /\ Restores(With(ManualSnapshot(entries), id, s), With(entries, id, c))
  BY <1>1, <1>2, <1>3, SnapshotChanged DEF StoreInv
<1> QED
  BY <1>1, <1>2, <1>4, ApplyBegins

LEMMA SetPriorityKeeps ==
    ASSUME StoreInv, OneChange, OneChange', NEW a \in Actors, NEW id, NEW p \in Priorities,
           SetPriority(a, id, p)
    PROVE  StoreInv'
<1> DEFINE c == [prio |-> p]
<1>1. Known(id) /\ WriteThenApply(a, id, c, With(ManualSnapshot(entries), id, c))
  BY DEF SetPriority
<1>2. c \in Changes
  BY SetsPrio
<1>3. SameChange(c, c, Find(id))
  BY DEF SameChange
<1> HIDE DEF c
<1>4. /\ With(ManualSnapshot(entries), id, c) \in Files
      /\ Restores(With(ManualSnapshot(entries), id, c), With(entries, id, c))
  BY <1>1, <1>2, <1>3, SnapshotChanged DEF StoreInv
<1> QED
  BY <1>1, <1>2, <1>4, ApplyBegins

LEMMA ReplaceKeeps ==
    ASSUME StoreInv, OneChange, OneChange', NEW a \in Actors, NEW id, NEW secret \in Secrets,
           NEW d \in BOOLEAN, ReplaceImported(a, id, secret, d)
    PROVE  StoreInv'
<1> DEFINE e == Find(id)
           c == [secret |-> secret, prio |-> e.prio, region |-> e.region, reason |-> ReasonOf(d)]
           s == [secret |-> secret, prio |-> e.prio, region |-> e.region, disabled |-> d]
<1>1. Known(id) /\ WriteThenApply(a, id, c, With(ManualSnapshot(entries), id, s))
  BY DEF ReplaceImported
<1>2. e.prio \in Priorities /\ e.region \in Regions
  BY <1>1, Located, EntryOf DEF StoreInv
<1>3. c \in Changes
  BY <1>2, SetsAll DEF ReasonOf, Reasons
<1>4. SameChange(s, c, e)
  BY DEF SameChange, ReasonOf
<1> HIDE DEF c, s
<1>5. /\ With(ManualSnapshot(entries), id, s) \in Files
      /\ Restores(With(ManualSnapshot(entries), id, s), With(entries, id, c))
  BY <1>1, <1>3, <1>4, SnapshotChanged DEF StoreInv
<1> QED
  BY <1>1, <1>3, <1>5, ApplyBegins

LEMMA MergeKeeps ==
    ASSUME StoreInv, OneChange, OneChange', NEW a \in Actors, NEW id, MergeImported(a, id)
    PROVE  StoreInv'
<1> DEFINE e == Find(id)
           c == Clone(e)
           F == ManualSnapshot(entries)
           E == With(entries, id, c)
<1>0. Known(id) /\ WriteThenApply(a, id, c, F)
  BY DEF MergeImported
<1>1. PositionOf(id) \in DOMAIN entries /\ e = entries[PositionOf(id)]
  BY <1>0, Located DEF StoreInv
<1>2. e \in Entry /\ c \in Changes
  BY <1>1, EntryOf, SetsClone DEF StoreInv
<1>3. /\ DOMAIN c = {"secret", "prio", "region"}
      /\ c.secret = e.secret /\ c.prio = e.prio /\ c.region = e.region
  BY DEF Clone
<1>4. /\ DOMAIN E = DOMAIN entries /\ E = [i \in DOMAIN E |-> E[i]]
      /\ \A i \in DOMAIN entries :
             /\ E[i] = IF i = PositionOf(id) THEN Changed(entries[i], c) ELSE entries[i]
             /\ E[i].id = entries[i].id
  BY <1>2, Memory DEF StoreInv
<1>5. F = [i \in DOMAIN entries |-> F[i]] /\ \A i \in DOMAIN entries : F[i] \in Saved /\ Stands(F[i], entries[i])
  BY Snapshots DEF StoreInv
<1> HIDE DEF c, F, E
<1>6. ASSUME NEW i \in DOMAIN entries PROVE Stands(F[i], E[i])
  <2>1. CASE i # PositionOf(id)
    BY <1>4, <1>5, <2>1
  <2>2. CASE i = PositionOf(id)
    <3>1. E[i] = Changed(e, c)
      BY <1>1, <1>4, <2>2
    <3>2. E[i].id = e.id /\ E[i].secret = e.secret /\ E[i].prio = e.prio /\ E[i].region = e.region
          /\ E[i].reason = e.reason
      BY <1>2, <1>3, <3>1, EntryChanged
    <3>3. Stands(F[i], e)
      BY <1>1, <1>5, <2>2
    <3> QED
      BY <3>2, <3>3 DEF Stands
  <2> QED
    BY <2>1, <2>2
<1>7. F \in Files /\ Restores(F, E)
  BY <1>4, <1>5, <1>6, OneByOne DEF StoreInv
<1> QED
  BY <1>0, <1>2, <1>7, ApplyBegins DEF E

LEMMA UpdateSocialKeeps ==
    ASSUME StoreInv, OneChange, OneChange', NEW a \in Actors, NEW secret \in Secrets,
           UpdateSocial(a, secret)
    PROVE  StoreInv'
<1> DEFINE same == SameAccount(secret)
           k == CHOOSE i \in same : \A j \in same : i <= j
           e == entries[k]
           c == Clone([e EXCEPT !.secret = secret])
           s == [secret |-> secret, prio |-> e.prio, region |-> e.region, disabled |-> e.reason = "manual"]
<1>1. same # {} /\ WriteThenApply(a, e.id, c, With(Snapshot(entries), e.id, s))
  BY DEF UpdateSocial
<1>2. k \in DOMAIN entries
  <2>1. same \subseteq Nat /\ same \subseteq DOMAIN entries
    BY DEF SameAccount, StoreInv
  <2> QED
    BY <1>1, <2>1, LeastOf
<1> HIDE DEF k
<1>3. e \in Entry /\ e.prio \in Priorities /\ e.region \in Regions
  BY <1>2, EntryOf DEF StoreInv
<1>4. c = [secret |-> secret, prio |-> e.prio, region |-> e.region]
  BY <1>3 DEF Clone, Entry
<1>5. c \in Changes
  BY <1>3, <1>4, SetsClone DEF Clone
<1>6. Known(e.id)
  BY <1>2 DEF Known, Positions
<1>7. Find(e.id) = e
  BY <1>2, <1>6, Located DEF StoreInv
<1>8. SameChange(s, c, e)
  <2> DEFINE d == e.reason = "manual"
  <2>1. (d = TRUE \/ d = FALSE) /\ (e.reason = "manual" => d)
    OBVIOUS
  <2>2. s = [secret |-> secret, prio |-> e.prio, region |-> e.region, disabled |-> d]
    OBVIOUS
  <2> HIDE DEF d, s, c
  <2> QED
    BY <1>4, <2>1, <2>2 DEF SameChange
<1> HIDE DEF c, s
<1>9. /\ With(Snapshot(entries), e.id, s) \in Files
      /\ Restores(With(Snapshot(entries), e.id, s), With(entries, e.id, c))
  BY <1>5, <1>6, <1>7, <1>8, SnapshotChanged DEF StoreInv
<1> QED
  BY <1>1, <1>5, <1>6, <1>9, ApplyBegins

LEMMA AddImportedKeeps ==
    ASSUME StoreInv, OneChange, OneChange', NEW a \in Actors, NEW id \in Ids, NEW secret \in Secrets,
           NEW d \in BOOLEAN, AddImported(a, id, secret, d)
    PROVE  StoreInv'
<1> DEFINE i == IF Known(id) THEN NextId ELSE id
<1>1. ~Known(i)
  BY NextIdFresh DEF StoreInv
<1>2. op[a] = Idle /\ WriteThenPush(a, New(i, secret, d))
  BY DEF AddImported
<1> HIDE DEF i
<1> QED
  BY <1>1, <1>2, Inserts

LEMMA InsertSocialKeeps ==
    ASSUME StoreInv, OneChange, OneChange', NEW a \in Actors, NEW secret \in Secrets,
           InsertSocial(a, secret)
    PROVE  StoreInv'
<1>1. op[a] = Idle /\ WriteThenPush(a, New(NextId, secret, FALSE)) /\ ~Known(NextId)
  BY NextIdFresh DEF InsertSocial, StoreInv
<1> QED
  BY <1>1, Inserts

LEMMA AddCredentialKeeps ==
    ASSUME StoreInv, OneChange, OneChange', NEW a \in Actors, NEW secret \in Secrets,
           AddCredential(a, secret)
    PROVE  StoreInv'
<1> DEFINE x == [kind |-> "validate", secret |-> secret]
<1>1. op[a] = Idle /\ op' = [op EXCEPT ![a] = x] /\ UNCHANGED <<entries, file, unsaved>>
  BY DEF AddCredential
<1>2. x # Idle
  BY DEF Idle
<1>3. UnderWay(x)
  BY <1>1, <1>2, CurrentAtFirst DEF UnderWay
<1> HIDE DEF x
<1>4. UnderWay(x)'
  BY <1>1, <1>3, StaysUnderWay
<1>5. entries' \in Seq(Entry) /\ UniqueIds' /\ file' \in Files'
  BY <1>1 DEF StoreInv, UniqueIds, Files, Loads
<1> QED
  BY <1>1, <1>2, <1>4, <1>5, OneMoves

LEMMA ValidationFailsKeeps ==
    ASSUME StoreInv, OneChange, OneChange', NEW a \in Actors, ValidationFails(a)
    PROVE  StoreInv'
<1>1. op[a].kind = "validate" /\ op' = [op EXCEPT ![a] = Idle] /\ UNCHANGED <<entries, file, unsaved>>
  BY DEF ValidationFails, End
<1>2. op[a] # Idle
  BY <1>1 DEF Idle
<1>3. Current
  BY <1>1, <1>2 DEF StoreInv, UnderWay
<1>4. Current'
  BY <1>1, <1>3 DEF Current
<1>5. entries' \in Seq(Entry) /\ UniqueIds' /\ file' \in Files'
  BY <1>1 DEF StoreInv, UniqueIds, Files, Loads
<1> QED
  BY <1>1, <1>2, <1>4, <1>5, OneMoves

LEMMA PickIdKeeps ==
    ASSUME StoreInv, OneChange, OneChange', NEW a \in Actors, PickId(a)
    PROVE  StoreInv'
<1>1. op[a].kind = "validate" /\ WriteThenPush(a, New(NextId, op[a].secret, FALSE))
  BY DEF PickId
<1>2. op[a] # Idle
  BY <1>1 DEF Idle
<1>3. op[a].secret \in Secrets
  BY <1>1, <1>2 DEF StoreInv, UnderWay
<1>4. ~Known(NextId)
  BY NextIdFresh DEF StoreInv
<1> QED
  BY <1>1, <1>3, <1>4, Inserts

LEMMA PersistKeeps ==
    ASSUME StoreInv, OneChange, OneChange', NEW a \in Actors, Persist(a)
    PROVE  StoreInv'
<1>1. PICK F : F = Snapshot(entries)
  OBVIOUS
<1>2. PICK x : x = [kind |-> "write", next |-> "end", snap |-> F]
  OBVIOUS
<1>3. op[a].kind = "save" /\ op' = [op EXCEPT ![a] = x] /\ UNCHANGED <<entries, file, unsaved>>
  BY <1>1, <1>2 DEF Persist
<1>4. op[a] # Idle /\ x # Idle
  BY <1>2, <1>3 DEF Idle
<1>5. F = [i \in DOMAIN entries |-> F[i]] /\ \A i \in DOMAIN entries : F[i] \in Saved /\ Stands(F[i], entries[i])
  BY <1>1, Snapshots DEF StoreInv
<1>6. entries = [i \in DOMAIN entries |-> entries[i]]
  BY DEF StoreInv
<1>7. F \in Files /\ Restores(F, entries)
  BY <1>5, <1>6, OneByOne DEF StoreInv
<1>8. UnderWay(x)
  BY <1>2, <1>7 DEF UnderWay
<1>9. UnderWay(x)'
  BY <1>3, <1>8, StaysUnderWay
<1>10. entries' \in Seq(Entry) /\ UniqueIds' /\ file' \in Files'
  BY <1>3 DEF StoreInv, UniqueIds, Files, Loads
<1> QED
  BY <1>3, <1>4, <1>9, <1>10, OneMoves

LEMMA WriteFileKeeps ==
    ASSUME StoreInv, OneChange, OneChange', NEW a \in Actors, WriteFile(a)
    PROVE  StoreInv'
<1>1. PICK x : x = op[a]
  OBVIOUS
<1>2. /\ x.kind = "write" /\ file' = x.snap /\ unsaved' = FALSE /\ UNCHANGED entries
      /\ IF x.next = "end" THEN op' = [op EXCEPT ![a] = Idle]
         ELSE op' = [op EXCEPT ![a] = [kind |-> x.next, id |-> x.id, new |-> x.new]]
  BY <1>1 DEF WriteFile, End
<1>3. x # Idle /\ op[a] # Idle
  BY <1>1, <1>2 DEF Idle
<1>4. UnderWay(x)
  BY <1>1, <1>3 DEF StoreInv
<1>5. x.snap \in Files /\ ((x.next = "end" /\ Restores(x.snap, entries)) \/ ToDo(x, x.snap))
  BY <1>2, <1>4 DEF UnderWay
<1>6. entries' \in Seq(Entry) /\ UniqueIds' /\ file' \in Files'
  BY <1>2, <1>5 DEF StoreInv, UniqueIds, Files, Loads
<1>7. CASE x.next = "end"
  <2>1. Restores(x.snap, entries)
    BY <1>5, <1>7 DEF ToDo
  <2>2. Current'
    BY <1>2, <2>1 DEF Current
  <2> QED
    BY <1>2, <1>3, <1>6, <1>7, <2>2, OneMoves
<1>8. CASE x.next # "end"
  <2>1. PICK y : y = [kind |-> x.next, id |-> x.id, new |-> x.new]
    OBVIOUS
  <2>2. ToDo(x, x.snap) /\ x.next \in {"apply", "push"}
    BY <1>5, <1>8 DEF ToDo
  <2>3. y # Idle
    BY <2>1, <2>2 DEF Idle
  <2>4. PICK z : z = [next |-> y.kind, id |-> y.id, new |-> y.new]
    OBVIOUS
  <2>5. z.next = x.next /\ z.id = x.id /\ z.new = x.new
    BY <2>1, <2>4
  <2>6. ToDo(z, x.snap)
    BY <2>2, <2>5 DEF ToDo
  <2>7. ToDo(z, x.snap)'
    BY <1>2, <2>6 DEF ToDo, Known, Positions, With, PositionOf
  <2>8. ToDo(z, file)'
    BY <1>2, <2>7
  <2>9. UnderWay(y)'
    BY <2>1, <2>2, <2>4, <2>8 DEF UnderWay
  <2> QED
    BY <1>2, <1>3, <1>6, <1>8, <2>1, <2>3, <2>9, OneMoves
<1> QED
  BY <1>7, <1>8

LEMMA WriteFailsKeeps ==
    ASSUME StoreInv, OneChange, OneChange', NEW a \in Actors, WriteFails(a)
    PROVE  StoreInv'
<1>1. PICK x : x = op[a]
  OBVIOUS
<1>2. /\ x.kind = "write" /\ unsaved' = (unsaved \/ x.next = "end")
      /\ op' = [op EXCEPT ![a] = Idle] /\ UNCHANGED <<entries, file>>
  BY <1>1 DEF WriteFails, End
<1>3. x # Idle /\ op[a] # Idle
  BY <1>1, <1>2 DEF Idle
<1>4. UnderWay(x)
  BY <1>1, <1>3 DEF StoreInv
<1>5. x.next = "end" \/ Current
  BY <1>2, <1>4 DEF UnderWay
<1>6. Current'
  BY <1>2, <1>5 DEF Current
<1>7. entries' \in Seq(Entry) /\ UniqueIds' /\ file' \in Files'
  BY <1>2 DEF StoreInv, UniqueIds, Files, Loads
<1> QED
  BY <1>2, <1>3, <1>6, <1>7, OneMoves

LEMMA ApplyKeepsStore ==
    ASSUME StoreInv, OneChange, OneChange', NEW a \in Actors, Apply(a)
    PROVE  StoreInv'
<1>1. PICK x : x = op[a]
  OBVIOUS
<1>2. /\ x.kind = "apply" /\ op' = [op EXCEPT ![a] = Idle] /\ UNCHANGED <<file, unsaved>>
      /\ entries' = IF Known(x.id) THEN With(entries, x.id, x.new) ELSE entries
  BY <1>1 DEF Apply, End
<1>3. x # Idle /\ op[a] # Idle
  BY <1>1, <1>2 DEF Idle
<1>4. UnderWay(x)
  BY <1>1, <1>3 DEF StoreInv
<1>5. ToDo([next |-> x.kind, id |-> x.id, new |-> x.new], file)
  BY <1>2, <1>4 DEF UnderWay
<1>6. Known(x.id) /\ x.new \in Changes /\ Restores(file, With(entries, x.id, x.new))
  BY <1>2, <1>5 DEF ToDo
<1>7. entries' = With(entries, x.id, x.new)
  BY <1>2, <1>6
<1>8. /\ entries' \in Seq(Entry) /\ DOMAIN entries' = DOMAIN entries
      /\ \A i \in DOMAIN entries : entries'[i].id = entries[i].id
  BY <1>6, <1>7, Memory DEF StoreInv
<1>9. UniqueIds' /\ file' \in Files'
  BY <1>2, <1>8 DEF StoreInv, UniqueIds, Files, Loads
<1>10. Current'
  BY <1>2, <1>6, <1>7 DEF Current
<1> QED
  BY <1>2, <1>3, <1>8, <1>9, <1>10, OneMoves

LEMMA PushKeepsStore ==
    ASSUME StoreInv, OneChange, OneChange', NEW a \in Actors, Push(a)
    PROVE  StoreInv'
<1>1. PICK x : x = op[a]
  OBVIOUS
<1>2. /\ x.kind = "push" /\ op' = [op EXCEPT ![a] = Idle] /\ UNCHANGED <<file, unsaved>>
      /\ entries' = Append(entries, x.new)
  BY <1>1 DEF Push, End
<1>3. x # Idle /\ op[a] # Idle
  BY <1>1, <1>2 DEF Idle
<1>4. UnderWay(x)
  BY <1>1, <1>3 DEF StoreInv
<1>5. ToDo([next |-> x.kind, id |-> x.id, new |-> x.new], file)
  BY <1>2, <1>4 DEF UnderWay
<1>6. x.new \in Entry /\ ~Known(x.new.id) /\ Restores(file, Append(entries, x.new))
  BY <1>2, <1>5 DEF ToDo
<1>7. PICK n \in Nat : DOMAIN entries = 1 .. n /\ n = Len(entries) /\ entries \in Seq(Entry)
  BY DEF StoreInv
<1>8. /\ entries' \in Seq(Entry) /\ DOMAIN entries' = 1 .. n + 1
      /\ \A i \in 1 .. n : entries'[i] = entries[i]
      /\ entries'[n + 1] = x.new
  BY <1>2, <1>6, <1>7
<1>9. UniqueIds'
  <2>1. ASSUME NEW i \in 1 .. n + 1, NEW j \in 1 .. n + 1, entries'[i].id = entries'[j].id PROVE i = j
    <3>1. \A k \in 1 .. n : entries'[k].id = entries[k].id /\ entries[k].id # x.new.id
      BY <1>6, <1>7, <1>8 DEF Known, Positions
    <3>2. (i \in 1 .. n \/ i = n + 1) /\ (j \in 1 .. n \/ j = n + 1)
      BY <1>7
    <3> QED
      BY <1>7, <1>8, <2>1, <3>1, <3>2 DEF StoreInv, UniqueIds
  <2> QED
    BY <1>8, <2>1 DEF UniqueIds
<1>10. file' \in Files'
  BY <1>2 DEF StoreInv, Files, Loads
<1>11. Current'
  BY <1>2, <1>6 DEF Current
<1> QED
  BY <1>2, <1>3, <1>8, <1>9, <1>10, <1>11, OneMoves

-----------------------------------------------------------------------------
\* Reasons that change without a save.
Milder(T, S) ==
    /\ DOMAIN T = DOMAIN S /\ Len(T) = Len(S)
    /\ \A i \in DOMAIN S :
           /\ T[i].id = S[i].id /\ T[i].secret = S[i].secret /\ T[i].prio = S[i].prio
           /\ T[i].region = S[i].region
           /\ T[i].reason = "manual" => S[i].reason = "manual"

LEMMA MilderIsRestored ==
    ASSUME NEW F, NEW S, NEW T, Milder(T, S), Restores(F, S)
    PROVE  Restores(F, T)
  BY DEF Milder, Restores, Stands

LEMMA MilderKeeps ==
    ASSUME StoreInv, NEW id, Known(id), NEW r \in Reasons \ {"manual"},
           entries' = With(entries, id, [reason |-> r]), UNCHANGED <<file, op, unsaved>>
    PROVE  StoreInv'
<1> DEFINE c == [reason |-> r]
           E == With(entries, id, c)
<1>1. c \in Changes /\ DOMAIN c = {"reason"} /\ c.reason = r
  BY SetsReason
<1>2. /\ E \in Seq(Entry) /\ DOMAIN E = DOMAIN entries /\ Len(E) = Len(entries)
      /\ E = [i \in DOMAIN E |-> E[i]]
      /\ \A i \in DOMAIN entries :
             /\ E[i] = IF i = PositionOf(id) THEN Changed(entries[i], c) ELSE entries[i]
             /\ E[i].id = entries[i].id
  BY <1>1, Memory DEF StoreInv
<1>3. entries' = E
  OBVIOUS
<1> HIDE DEF c, E
<1>4. \A i \in DOMAIN entries : entries[i] \in Entry
  BY DEF StoreInv
<1>5. \A i \in DOMAIN entries :
          /\ E[i].secret = entries[i].secret /\ E[i].prio = entries[i].prio
          /\ E[i].region = entries[i].region
          /\ E[i].reason = "manual" => entries[i].reason = "manual"
  <2> TAKE i \in DOMAIN entries
  <2>1. CASE i # PositionOf(id)
    BY <1>2, <2>1
  <2>2. CASE i = PositionOf(id)
    <3>1. E[i] = Changed(entries[i], c)
      BY <1>2, <2>2
    <3> QED
      BY <1>1, <1>4, <3>1, EntryChanged
  <2> QED
    BY <2>1, <2>2
<1>6. Milder(E, entries)
  BY <1>2, <1>5 DEF Milder
<1>7. entries' \in Seq(Entry) /\ UniqueIds' /\ file' \in Files' /\ op' = op
  <2>1. UniqueIds'
    BY <1>2, <1>3 DEF StoreInv, UniqueIds
  <2>2. file' \in Files'
    BY DEF StoreInv, Files, Loads
  <2> QED
    BY <1>2, <1>3, <2>1, <2>2
<1>8. \A i : Known(i)' <=> Known(i)
  BY <1>2, <1>3 DEF Known, Positions
<1>9. \A i : PositionOf(i)' = PositionOf(i)
  <2>1. \A i : Positions(i)' = Positions(i)
    BY <1>2, <1>3 DEF Positions
  <2> QED
    BY <2>1 DEF PositionOf
<1>10. ASSUME NEW i, NEW d \in Changes PROVE Milder(With(entries, i, d)', With(entries, i, d))
  <2> DEFINE S == With(entries, i, d)
             T == With(E, i, d)
  <2>1. With(entries, i, d)' = T
    BY <1>3, <1>9 DEF With
  <2>2. /\ DOMAIN S = DOMAIN entries /\ Len(S) = Len(entries)
        /\ \A k \in DOMAIN entries :
               S[k] = IF k = PositionOf(i) THEN Changed(entries[k], d) ELSE entries[k]
    BY Memory DEF StoreInv
  <2>3. PICK n \in Nat : DOMAIN entries = 1 .. n /\ n = Len(entries)
    BY DEF StoreInv
  <2>4. T = [k \in 1 .. n |-> IF k = PositionOf(i) THEN Changed(E[k], d) ELSE E[k]]
    BY <1>2, <2>3 DEF With
  <2> HIDE DEF S, T
  <2>5. DOMAIN T = DOMAIN entries /\ Len(T) = Len(entries)
    BY <2>3, <2>4
  <2>6. ASSUME NEW k \in DOMAIN entries
        PROVE  /\ T[k].id = S[k].id /\ T[k].secret = S[k].secret /\ T[k].prio = S[k].prio
               /\ T[k].region = S[k].region
               /\ T[k].reason = "manual" => S[k].reason = "manual"
    <3>1. E[k] \in Entry
      BY <1>2
    <3>2. CASE k # PositionOf(i)
      BY <1>2, <1>5, <2>2, <2>3, <2>4, <3>2
    <3>3. CASE k = PositionOf(i)
      <4>1. S[k] = Changed(entries[k], d) /\ T[k] = Changed(E[k], d)
        BY <2>2, <2>3, <2>4, <3>3
      <4> QED
        BY <1>2, <1>4, <1>5, <3>1, <4>1, EntryChanged
    <3> QED
      BY <3>2, <3>3
  <2>7. Milder(T, S)
    BY <2>2, <2>5, <2>6 DEF Milder
  <2> QED
    BY <2>1, <2>7 DEF S
<1>11. ASSUME NEW new PROVE Milder(Append(entries', new), Append(entries, new))
  <2>1. PICK n \in Nat : DOMAIN entries = 1 .. n /\ n = Len(entries) /\ entries \in Seq(Entry)
    BY DEF StoreInv
  <2>2. E \in Seq(Entry) /\ Len(E) = n /\ DOMAIN E = 1 .. n
    BY <1>2, <2>1
  <2>3. /\ DOMAIN Append(E, new) = 1 .. n + 1 /\ Len(Append(E, new)) = n + 1
        /\ Append(E, new)[n + 1] = new /\ \A i \in 1 .. n : Append(E, new)[i] = E[i]
    BY <2>2
  <2>4. /\ DOMAIN Append(entries, new) = 1 .. n + 1 /\ Len(Append(entries, new)) = n + 1
        /\ Append(entries, new)[n + 1] = new /\ \A i \in 1 .. n : Append(entries, new)[i] = entries[i]
    BY <2>1
  <2>5. ASSUME NEW i \in 1 .. n + 1
        PROVE  LET t == Append(E, new)[i]
                   s == Append(entries, new)[i]
               IN  /\ t.id = s.id /\ t.secret = s.secret /\ t.prio = s.prio /\ t.region = s.region
                   /\ t.reason = "manual" => s.reason = "manual"
    <3>1. i \in 1 .. n \/ i = n + 1
      BY <2>1
    <3> QED
      BY <1>2, <1>5, <2>1, <2>3, <2>4, <3>1
  <2>6. Milder(Append(E, new), Append(entries, new))
    BY <2>3, <2>4, <2>5 DEF Milder
  <2> QED
    BY <1>3, <2>6
<1>12. Current => Current'
  BY <1>3, <1>6, MilderIsRestored DEF Current
<1>13. \A y, F : ToDo(y, F) => ToDo(y, F)'
  <2> TAKE y, F
  <2> SUFFICES ASSUME ToDo(y, F) PROVE ToDo(y, F)'
    OBVIOUS
  <2>1. CASE y.next = "apply" /\ Known(y.id) /\ y.new \in Changes /\ Restores(F, With(entries, y.id, y.new))
    <3>1. Restores(F, With(entries, y.id, y.new)')
      BY <1>10, <2>1, MilderIsRestored
    <3> QED
      BY <1>8, <2>1, <3>1 DEF ToDo
  <2>2. CASE y.next = "push" /\ y.new \in Entry /\ ~Known(y.new.id) /\ Restores(F, Append(entries, y.new))
    <3>1. Restores(F, Append(entries', y.new))
      BY <1>11, <2>2, MilderIsRestored
    <3> QED
      BY <1>8, <2>2, <3>1 DEF ToDo
  <2> QED
    BY <2>1, <2>2 DEF ToDo
<1>14. \A y : ToDo(y, file) => ToDo(y, file)'
  BY <1>13
<1>15. \A x : UnderWay(x) => UnderWay(x)'
  <2> TAKE x
  <2>1. Restores(x.snap, entries) => Restores(x.snap, entries')
    BY <1>3, <1>6, MilderIsRestored
  <2> QED
    BY <1>12, <1>13, <1>14, <2>1 DEF UnderWay
<1>16. Quiet' => Current'
  BY <1>7, <1>12 DEF StoreInv, Quiet
<1> QED
  BY <1>7, <1>15, <1>16 DEF StoreInv

LEMMA RestartKeeps == StoreInv /\ Restart => StoreInv'
<1> SUFFICES ASSUME StoreInv, Restart PROVE StoreInv'
  OBVIOUS
<1>1. PICK places \in [DOMAIN file -> DOMAIN file] :
          /\ \A i, j \in DOMAIN file : i < j => Before(places[i], places[j])
          /\ entries' = [i \in DOMAIN file |-> Loaded(file[places[i]])]
  BY DEF Restart
<1>2. op' = [a \in Actors |-> Idle] /\ UNCHANGED file
  BY DEF Restart
<1>3. file \in Seq(Saved) /\ Loads(file)
  BY DEF StoreInv, Files
<1>4. PICK n \in Nat : DOMAIN file = 1 .. n /\ n = Len(file)
  BY <1>3
<1>5. \A i \in 1 .. n : file[i] \in Saved /\ file[i].prio \in Nat /\ places[i] \in 1 .. n
  <2>1. \A i \in 1 .. n : file[i] \in Saved
    BY <1>3, <1>4
  <2> QED
    BY <1>1, <1>4, <2>1, StoreAssumption DEF Saved
<1>6. \A s \in Saved : Loaded(s) \in Entry /\ Stands(s, Loaded(s))
  BY DEF Saved, Entry, Loaded, Stands, ReasonOf, Reasons
<1>7. entries' \in [1 .. n -> Entry]
  BY <1>1, <1>4, <1>5, <1>6
<1>8. entries' \in Seq(Entry) /\ DOMAIN entries' = 1 .. n /\ Len(entries') = n
  BY <1>7, ListTyped
<1>9. \A i \in 1 .. n : Stands(file[places[i]], entries'[i])
  BY <1>1, <1>4, <1>5, <1>6
<1>10. UniqueIds'
  <2> SUFFICES ASSUME NEW i \in 1 .. n, NEW j \in 1 .. n, entries'[i].id = entries'[j].id PROVE i = j
    BY <1>8 DEF UniqueIds
  <2>1. places[i] = places[j]
    BY <1>3, <1>4, <1>5, <1>9 DEF Loads, Stands
  <2>2. ~Before(places[i], places[j]) /\ ~Before(places[j], places[i])
    BY <1>5, <2>1 DEF Before
  <2>3. ~(i < j) /\ ~(j < i)
    BY <1>1, <1>4, <2>2
  <2> QED
    BY <1>4, <2>3
<1>11. Restores(file, entries)'
  BY <1>2, <1>4, <1>5, <1>8, <1>9 DEF Restores
<1>12. Current' /\ file' \in Files'
  BY <1>2, <1>11 DEF Current, StoreInv, Files, Loads
<1> QED
  BY <1>2, <1>8, <1>10, <1>12 DEF StoreInv

LEMMA StoreAtFirst == StoreInit => StoreInv
<1> SUFFICES ASSUME StoreInit PROVE StoreInv
  OBVIOUS
<1>1. entries = <<>> /\ file = <<>> /\ op = [a \in Actors |-> Idle]
  BY DEF StoreInit
<1>2. entries \in Seq(Entry) /\ UniqueIds /\ file \in Files /\ Current
  BY <1>1 DEF UniqueIds, Files, Loads, Current, Restores
<1> QED
  BY <1>1, <1>2 DEF StoreInv

LEMMA StoreStays == StoreInv /\ UNCHANGED storeVars => StoreInv'
<1> SUFFICES ASSUME StoreInv, UNCHANGED storeVars PROVE StoreInv'
  OBVIOUS
<1>1. UNCHANGED <<entries, file, op, unsaved>>
  BY DEF storeVars
<1>2. \A a \in Actors : \A x \in {op'[a]} : x # Idle => UnderWay(x)'
  BY <1>1, StaysUnderWay DEF StoreInv
<1>3. Quiet' => Current'
  BY <1>1 DEF StoreInv, Quiet, Current
<1> QED
  BY <1>1, <1>2, <1>3 DEF StoreInv, UniqueIds, Files, Loads

LEMMA ActorKeeps ==
    ASSUME StoreInv, OneChange, OneChange', NEW a \in Actors, ActorStep(a)
    PROVE  StoreInv'
<1>1. ASSUME NEW id \in Ids, NEW d \in BOOLEAN, SetDisabled(a, id, d) PROVE StoreInv'
  BY <1>1, SetDisabledKeeps
<1>2. ASSUME NEW id \in Ids, NEW p \in Priorities, SetPriority(a, id, p) PROVE StoreInv'
  BY <1>2, SetPriorityKeeps
<1>3. ASSUME NEW id \in Ids, NEW s \in Secrets, NEW d \in BOOLEAN, ReplaceImported(a, id, s, d)
      PROVE  StoreInv'
  BY <1>3, ReplaceKeeps
<1>4. ASSUME NEW id \in Ids, MergeImported(a, id) PROVE StoreInv'
  BY <1>4, MergeKeeps
<1>5. ASSUME NEW s \in Social, UpdateSocial(a, s) \/ InsertSocial(a, s) PROVE StoreInv'
  BY <1>5, UpdateSocialKeeps, InsertSocialKeeps, StoreAssumption
<1>6. ASSUME NEW id \in Ids, NEW s \in Secrets, NEW d \in BOOLEAN, AddImported(a, id, s, d)
      PROVE  StoreInv'
  BY <1>6, AddImportedKeeps
<1>7. ASSUME NEW s \in Secrets, AddCredential(a, s) PROVE StoreInv'
  BY <1>7, AddCredentialKeeps
<1>8. ASSUME NEW id \in Ids, DeleteCredential(a, id) PROVE StoreInv'
  BY <1>8, DeleteKeeps
<1>9. ASSUME NEW id \in Ids, Enable(a, id) \/ MarkBanned(a, id) PROVE StoreInv'
  <2>1. PICK r \in Reasons : ChangeThenSave(a, With(entries, id, [reason |-> r]))
    BY <1>9 DEF Enable, MarkBanned, Reasons
  <2> QED
    BY <2>1, SetsReason, ChangesMade
<1>10. ASSUME NEW id \in Ids, NEW r \in Regions, SetRegion(a, id, r) PROVE StoreInv'
  BY <1>10, SetsRegion, ChangesMade DEF SetRegion
<1> QED
  BY <1>1, <1>2, <1>3, <1>4, <1>5, <1>6, <1>7, <1>8, <1>9, <1>10, ValidationFailsKeeps, PickIdKeeps,
     PersistKeeps, WriteFileKeeps, WriteFailsKeeps, ApplyKeepsStore, PushKeepsStore DEF ActorStep

\* Whatever the changes, their failures and the restarts, as long as no two changes are
\* under way at once.
THEOREM StoreCorrect == StoreSpec /\ []OneChange => []StoreInv
<1>1. StoreInit => StoreInv
  BY StoreAtFirst
<1>2. StoreInv /\ OneChange /\ OneChange' /\ [StoreNext]_storeVars => StoreInv'
  <2> SUFFICES ASSUME StoreInv, OneChange, OneChange', [StoreNext]_storeVars PROVE StoreInv'
    OBVIOUS
  <2>1. ASSUME NEW a \in Actors, ActorStep(a) PROVE StoreInv'
    BY <2>1, ActorKeeps
  <2>2. ASSUME NEW id \in Ids, DisableForNow(id) \/ Recover(id) PROVE StoreInv'
    <3>1. PICK r \in Reasons \ {"manual"} : entries' = With(entries, id, [reason |-> r])
      BY <2>2 DEF DisableForNow, Recover, Reasons
    <3>2. Known(id) /\ UNCHANGED <<file, op, unsaved>>
      BY <2>2 DEF DisableForNow, Recover
    <3> QED
      BY <3>1, <3>2, MilderKeeps
  <2>3. CASE Restart
    BY <2>3, RestartKeeps
  <2>4. CASE UNCHANGED storeVars
    BY <2>4, StoreStays
  <2> QED
    BY <2>1, <2>2, <2>3, <2>4 DEF StoreNext
<1> QED
  BY <1>1, <1>2, PTL DEF StoreSpec

LEMMA StoreInvRestores == StoreInv => RestartRestores
<1> SUFFICES ASSUME StoreInv PROVE RestartRestores
  OBVIOUS
<1>1. Loads(file)
  BY DEF StoreInv, Files
<1>2. ASSUME Quiet, ~unsaved PROVE Restores(file, entries)
  BY <1>2 DEF StoreInv, Current
<1> DEFINE saved(e) == {j \in DOMAIN file : file[j].id = e.id /\ Clone(file[j]) = Clone(e)}
<1>3. ASSUME Restores(file, entries), NEW i \in DOMAIN entries
      PROVE  /\ saved(entries[i]) # {}
             /\ entries[i].reason = "manual" => \A j \in saved(entries[i]) : file[j].disabled
  <2>1. PICK j \in DOMAIN file : Stands(file[j], entries[i])
    BY <1>3 DEF Restores
  <2>2. j \in saved(entries[i])
    BY <2>1 DEF Stands, Clone
  <2>3. \A k \in saved(entries[i]) : k = j
    BY <1>1, <2>1 DEF Stands, Loads
  <2> QED
    BY <2>1, <2>2, <2>3 DEF Stands
<1> QED
  BY <1>1, <1>2, <1>3 DEF RestartRestores, Restores

\* RestartRestores, for any actors whose changes do not overlap: wherever the process dies
\* the file can be loaded, and when all is quiet a restart brings back what memory has.
THEOREM ARestartRestores == StoreSpec /\ []OneChange => []RestartRestores
  BY StoreCorrect, StoreInvRestores, PTL

-----------------------------------------------------------------------------
(***************************************************************************)
(* CandidateRanking, for any credentials, ranks and weights.  First a set  *)
(* of numbers in ascending order.                                          *)
(***************************************************************************)

Ascends(s, S) ==
    s \in [1 .. Cardinality(S) -> S] /\ \A i, j \in DOMAIN s : i < j => s[i] < s[j]

\* Every finite set of numbers can be put in order: the least comes before what is left.
LEMMA OneSmaller ==
    ASSUME NEW S, S \subseteq Nat, IsFiniteSet(S), S # {}, NEW m \in S, \A x \in S : m <= x,
           NEW s, Ascends(s, S \ {m})
    PROVE  \E t : Ascends(t, S)
<1>1. PICK n \in Nat : n = Cardinality(S)
  BY FS_CardinalityType
<1>2. n # 0 /\ Cardinality(S \ {m}) = n - 1
  BY <1>1, FS_RemoveElement, FS_EmptySet
<1>3. s \in [1 .. n - 1 -> S \ {m}]
  BY <1>2 DEF Ascends
<1>4. PICK t : t = [i \in 1 .. n |-> IF i = 1 THEN m ELSE s[i - 1]]
  OBVIOUS
<1>5. ASSUME NEW i \in 1 .. n, i # 1
      PROVE  i - 1 \in 1 .. n - 1 /\ t[i] = s[i - 1] /\ s[i - 1] \in S /\ s[i - 1] > m
  <2>1. i - 1 \in 1 .. n - 1
    BY <1>5
  <2>2. s[i - 1] \in S \ {m}
    BY <1>3, <2>1
  <2>3. t[i] = s[i - 1]
    BY <1>4, <1>5
  <2>4. s[i - 1] \in Nat /\ m \in Nat /\ s[i - 1] # m /\ m <= s[i - 1]
    BY <2>2
  <2>5. s[i - 1] > m
    BY <2>4
  <2> QED
    BY <2>2, <2>1, <2>3, <2>5
<1>6. t \in [1 .. n -> S]
  <2>1. \A i \in 1 .. n : t[i] \in S
    BY <1>4, <1>5
  <2> QED
    BY <1>4, <2>1
<1>7. ASSUME NEW i \in 1 .. n, NEW j \in 1 .. n, i < j PROVE t[i] < t[j]
  <2>1. j # 1
    BY <1>7
  <2>2. j - 1 \in 1 .. n - 1 /\ t[j] = s[j - 1] /\ s[j - 1] > m
    BY <1>5, <2>1
  <2>3. CASE i = 1
    <3>1. t[i] = m
      BY <1>4, <2>3
    <3>2. m \in Nat /\ s[j - 1] \in Nat
      BY <1>5, <2>1
    <3> QED
      BY <2>2, <3>1, <3>2
  <2>4. CASE i # 1
    <3>1. i - 1 \in 1 .. n - 1 /\ t[i] = s[i - 1]
      BY <1>5, <2>4
    <3>2. i - 1 < j - 1
      BY <1>7
    <3>3. \A a, b \in 1 .. n - 1 : a < b => s[a] < s[b]
      BY <1>2, <1>3 DEF Ascends
    <3>4. s[i - 1] < s[j - 1]
      BY <2>2, <3>1, <3>2, <3>3
    <3> QED
      BY <2>2, <3>1, <3>4
  <2> QED
    BY <2>3, <2>4
<1>8. DOMAIN t = 1 .. n
  BY <1>4
<1> QED
  BY <1>1, <1>6, <1>7, <1>8 DEF Ascends

\* Sets of n numbers of which one cannot be put in order.
Unordered(n) ==
    \E S : S \subseteq Nat /\ IsFiniteSet(S) /\ Cardinality(S) = n /\ \A s : ~Ascends(s, S)

LEMMA CanBeOrdered ==
    ASSUME NEW S, S \subseteq Nat, IsFiniteSet(S)
    PROVE  \E s : Ascends(s, S)
<1> DEFINE Bad == {n \in Nat : Unordered(n)}
<1>1. Bad = {}
  <2> SUFFICES ASSUME Bad # {} PROVE FALSE
    OBVIOUS
  <2>1. Bad \subseteq Nat
    OBVIOUS
  <2>2. PICK n \in Bad : \A k \in Bad : n <= k
    <3> HIDE DEF Bad
    <3> QED
      BY <2>1, LeastOf
  <2>3. n \in Nat /\ Unordered(n)
    OBVIOUS
  <2>4. PICK T : T \subseteq Nat /\ IsFiniteSet(T) /\ Cardinality(T) = n /\ \A s : ~Ascends(s, T)
    BY <2>3 DEF Unordered
  <2>5. T # {}
    <3> SUFFICES ASSUME T = {} PROVE FALSE
      OBVIOUS
    <3>1. Cardinality(T) = 0
      BY FS_EmptySet
    <3>2. PICK s : s = [i \in 1 .. 0 |-> 0]
      OBVIOUS
    <3>3. 1 .. Cardinality(T) = {} /\ \A i : i \notin 1 .. 0
      BY <3>1
    <3>4. s \in [1 .. Cardinality(T) -> T] /\ DOMAIN s = {}
      BY <3>1, <3>2, <3>3
    <3>5. Ascends(s, T)
      BY <3>4 DEF Ascends
    <3> QED
      BY <2>4, <3>5
  <2>6. PICK m \in T : \A x \in T : m <= x
    BY <2>4, <2>5, LeastOf
  <2>7. /\ IsFiniteSet(T \ {m}) /\ Cardinality(T \ {m}) = n - 1
        /\ n - 1 \in Nat /\ T \ {m} \subseteq Nat
    <3>1. n # 0
      BY <2>4, <2>5, FS_EmptySet
    <3> QED
      BY <2>3, <2>4, <3>1, FS_RemoveElement
  <2>8. ~Unordered(n - 1)
    <3>1. ~(n <= n - 1)
      BY <2>3
    <3>2. n - 1 \notin Bad
      <4> HIDE DEF Bad
      <4> QED
        BY <2>2, <3>1
    <3> QED
      BY <2>7, <3>2
  <2>9. PICK s : Ascends(s, T \ {m})
    BY <2>7, <2>8 DEF Unordered
  <2> QED
    BY <2>4, <2>5, <2>6, <2>9, OneSmaller
<1>2. Cardinality(S) \in Nat
  BY FS_CardinalityType
<1>3. ~Unordered(Cardinality(S))
  BY <1>1, <1>2
<1> QED
  BY <1>3 DEF Unordered

LEMMA UpTo == ASSUME NEW n \in Nat PROVE IsFiniteSet(1 .. n) /\ Cardinality(1 .. n) = n
<1>1. 0 \in Int /\ 1 \in Int /\ n \in Int /\ (1 > n => n = 0) /\ n - 1 + 1 = n
  OBVIOUS
<1> QED
  BY <1>1, FS_Interval

\* What Ascending gives: each member once, the least first.
InOrder(s, S) ==
    /\ Cardinality(S) \in Nat /\ s \in [1 .. Cardinality(S) -> S]
    /\ \A i, j \in 1 .. Cardinality(S) : i < j => s[i] < s[j]
    /\ \A i, j \in 1 .. Cardinality(S) : s[i] = s[j] => i = j
    /\ \A x \in S : \E i \in 1 .. Cardinality(S) : s[i] = x

LEMMA AscendingIs ==
    ASSUME NEW S, S \subseteq Nat, IsFiniteSet(S)
    PROVE  InOrder(Ascending(S), S)
<1>1. PICK n \in Nat : n = Cardinality(S)
  BY FS_CardinalityType
<1>2. PICK s : s = Ascending(S)
  OBVIOUS
<1>3. Ascends(s, S)
  <2>1. \E t \in [1 .. Cardinality(S) -> S] : \A i, j \in DOMAIN t : i < j => t[i] < t[j]
    BY CanBeOrdered DEF Ascends
  <2> QED
    BY <1>2, <2>1, Zenon DEF Ascends, Ascending
<1>4. s \in [1 .. n -> S] /\ \A i, j \in 1 .. n : i < j => s[i] < s[j]
  BY <1>1, <1>3 DEF Ascends
<1>5. ASSUME NEW i \in 1 .. n, NEW j \in 1 .. n, s[i] = s[j] PROVE i = j
  <2>1. s[i] \in Nat /\ s[j] \in Nat
    BY <1>4
  <2>2. ~(s[i] < s[j]) /\ ~(s[j] < s[i])
    BY <1>5, <2>1
  <2>3. ~(i < j) /\ ~(j < i)
    BY <1>4, <2>2
  <2> QED
    BY <2>3
<1>6. s \in Injection(1 .. n, S)
  BY <1>4, <1>5, Fun_IsInj
<1>7. IsFiniteSet(1 .. n) /\ Cardinality(1 .. n) = n
  BY UpTo
<1>8. s \in Surjection(1 .. n, S)
  BY <1>1, <1>6, <1>7, FS_Injection
<1>9. \A x \in S : \E i \in 1 .. n : s[i] = x
  BY <1>8, Fun_SurjectionProperties
<1> QED
  BY <1>1, <1>2, <1>4, <1>5, <1>9 DEF InOrder

-----------------------------------------------------------------------------
(* Sequences that are put one behind the other. *)

\* g starts with x, and makes the k-th step from k - 1 to k.
TakesTurns(g, n, x, steps) == g[0] = x /\ \A k \in 1 .. n : g[k] = steps[k][g[k - 1]]

Turning(S, n, x, steps) == \E g \in [0 .. n -> S] : TakesTurns(g, n, x, steps)

LEMMA TurnByTurn ==
    ASSUME NEW S, NEW x \in S, NEW steps \in [Nat -> [S -> S]], NEW n \in Nat
    PROVE  Turning(S, n, x, steps)
<1> DEFINE Beyond == {m \in Nat : ~Turning(S, m, x, steps)}
<1> SUFFICES ASSUME Beyond # {} PROVE FALSE
  OBVIOUS
<1>1. PICK m \in Beyond : \A i \in Beyond : m <= i
  BY LeastOf
<1>2. m # 0
  <2> SUFFICES ASSUME m = 0 PROVE FALSE
    OBVIOUS
  <2>1. PICK g : g = [k \in 0 .. m |-> x]
    OBVIOUS
  <2>2. g \in [0 .. m -> S] /\ TakesTurns(g, m, x, steps)
    BY <2>1 DEF TakesTurns
  <2> QED
    BY <1>1, <2>2 DEF Turning
<1>3. m - 1 \in Nat /\ m - 1 \notin Beyond
  BY <1>1, <1>2
<1>4. PICK g \in [0 .. m - 1 -> S] : TakesTurns(g, m - 1, x, steps)
  BY <1>3 DEF Turning
<1>5. PICK h : h = [k \in 0 .. m |-> IF k = m THEN steps[m][g[m - 1]] ELSE g[k]]
  OBVIOUS
<1>6. h \in [0 .. m -> S]
  <2>1. \A k \in 0 .. m : k = m \/ k \in 0 .. m - 1
    BY <1>1
  <2>2. g[m - 1] \in S /\ steps[m] \in [S -> S]
    BY <1>3
  <2> QED
    BY <1>5, <2>1, <2>2
<1>7. TakesTurns(h, m, x, steps)
  <2>1. h[0] = x
    BY <1>1, <1>2, <1>4, <1>5 DEF TakesTurns
  <2>2. ASSUME NEW k \in 1 .. m PROVE h[k] = steps[k][h[k - 1]]
    <3>1. h[k - 1] = g[k - 1]
      BY <1>1, <1>5
    <3>2. CASE k = m
      BY <1>5, <3>1, <3>2
    <3>3. CASE k # m
      <4>1. k \in 1 .. m - 1
        BY <1>1, <3>3
      <4>2. h[k] = g[k]
        BY <1>1, <1>5, <3>3
      <4> QED
        BY <1>4, <3>1, <4>1, <4>2 DEF TakesTurns
    <3> QED
      BY <3>2, <3>3
  <2> QED
    BY <2>1, <2>2 DEF TakesTurns
<1> QED
  BY <1>1, <1>6, <1>7 DEF Turning


\* g[i] is the first i of the parts, one behind the other.
Lays(g, T, parts) ==
    /\ g \in [0 .. Len(parts) -> Seq(T)] /\ g[0] = <<>>
    /\ \A i \in 1 .. Len(parts) : g[i] = g[i - 1] \o parts[i]

LEMMA FlattenLays ==
    ASSUME NEW T, NEW parts \in Seq(Seq(T))
    PROVE  \E g : Lays(g, T, parts) /\ FlattenSeq(parts) = g[Len(parts)]
<1>1. PICK n \in Nat : n = Len(parts)
  OBVIOUS
<1>2. \A i \in 1 .. n : parts[i] \in Seq(T)
  BY <1>1
<1>3. CASE n = 0
  <2>1. parts = <<>>
    BY <1>1, <1>3, EmptySeq
  <2>2. FlattenSeq(parts) = parts
    BY <1>1, <1>3 DEF FlattenSeq
  <2>3. PICK g : g = [i \in 0 .. n |-> <<>>]
    OBVIOUS
  <2>4. 0 \in 0 .. n /\ \A i : i \notin 1 .. n
    BY <1>3
  <2>5. g \in [0 .. n -> Seq(T)] /\ g[0] = <<>>
    BY <2>3, <2>4
  <2>6. Lays(g, T, parts)
    BY <1>1, <2>4, <2>5 DEF Lays
  <2> QED
    BY <1>1, <1>3, <2>1, <2>2, <2>5, <2>6
<1>4. CASE n # 0
  <2> DEFINE Computes(f) == f = [i \in 1 .. n |-> IF i = 1 THEN parts[i] ELSE f[i - 1] \o parts[i]]
  <2>1. PICK steps :
            steps = [k \in Nat |-> [s \in Seq(T) |->
                                        s \o (IF k \in 1 .. n THEN parts[k] ELSE <<>>)]]
    OBVIOUS
  <2>2. steps \in [Nat -> [Seq(T) -> Seq(T)]]
    BY <1>2, <2>1
  <2>3. <<>> \in Seq(T)
    OBVIOUS
  <2>4. PICK g \in [0 .. n -> Seq(T)] : TakesTurns(g, n, <<>>, steps)
    BY <2>2, <2>3, TurnByTurn DEF Turning
  <2>5. ASSUME NEW i \in 1 .. n
        PROVE  i - 1 \in 0 .. n /\ g[i - 1] \in Seq(T) /\ g[i] = g[i - 1] \o parts[i]
    <3>1. i \in Nat /\ i - 1 \in 0 .. n /\ g[i - 1] \in Seq(T)
      OBVIOUS
    <3> QED
      BY <2>1, <2>4, <3>1 DEF TakesTurns
  <2>6. \E f : Computes(f)
    <3>1. PICK f : f = [i \in 1 .. n |-> g[i]]
      OBVIOUS
    <3>2. ASSUME NEW i \in 1 .. n
          PROVE  f[i] = IF i = 1 THEN parts[i] ELSE f[i - 1] \o parts[i]
      <4>1. CASE i = 1
        <5>1. g[i - 1] = <<>>
          BY <2>4, <4>1 DEF TakesTurns
        <5>2. <<>> \o parts[i] = parts[i]
          BY <1>2, ConcatEmptySeq
        <5> QED
          BY <2>5, <3>1, <4>1, <5>1, <5>2
      <4>2. CASE i # 1
        <5>1. i - 1 \in 1 .. n
          BY <4>2
        <5> QED
          BY <2>5, <3>1, <4>2, <5>1
      <4> QED
        BY <4>1, <4>2
    <3>3. Computes(f)
      BY <3>1, <3>2
    <3> QED
      BY <3>3
  <2>7. PICK f : f = CHOOSE h : Computes(h)
    OBVIOUS
  <2>8. Computes(f)
    BY <2>6, <2>7
  <2>9. FlattenSeq(parts) = f[n]
    BY <1>1, <1>4, <2>7 DEF FlattenSeq
  <2>10. \A i \in 1 .. n : f[i] = IF i = 1 THEN parts[i] ELSE f[i - 1] \o parts[i]
    BY <2>8
  <2> HIDE DEF Computes
  <2> DEFINE Bad == {i \in 1 .. n : f[i] # g[i]}
  <2>11. Bad = {}
    <3> SUFFICES ASSUME Bad # {} PROVE FALSE
      OBVIOUS
    <3>0. Bad \subseteq Nat
      OBVIOUS
    <3>1. PICK i \in Bad : \A j \in Bad : i <= j
      <4> HIDE DEF Bad
      <4> QED
        BY <3>0, LeastOf
    <3>2. CASE i = 1
      <4>1. f[i] = parts[i]
        BY <2>10, <3>2
      <4>2. g[i - 1] = <<>>
        BY <2>4, <3>2 DEF TakesTurns
      <4>3. <<>> \o parts[i] = parts[i]
        BY <1>2, ConcatEmptySeq
      <4> QED
        BY <2>5, <4>1, <4>2, <4>3
    <3>3. CASE i # 1
      <4>1. i - 1 \in 1 .. n /\ ~(i <= i - 1)
        BY <3>3
      <4>2. i - 1 \notin Bad
        <5> HIDE DEF Bad
        <5> QED
          BY <3>1, <4>1
      <4>3. f[i - 1] = g[i - 1]
        BY <4>1, <4>2
      <4> QED
        BY <2>5, <2>10, <3>3, <4>3
    <3> QED
      BY <3>2, <3>3
  <2>12. FlattenSeq(parts) = g[n]
    <3>1. n \in 1 .. n
      BY <1>4
    <3> QED
      BY <2>9, <2>11, <3>1
  <2>13. g[0] = <<>>
    BY <2>4 DEF TakesTurns
  <2>14. Lays(g, T, parts)
    BY <1>1, <2>5, <2>13 DEF Lays
  <2> QED
    BY <1>1, <2>12, <2>14
<1> QED
  BY <1>3, <1>4

\* Where the parts are: m[i] of it is the first i of them.
LaidOut(F, T, parts, m) ==
    /\ F \in Seq(T)
    /\ m \in [0 .. Len(parts) -> Nat] /\ m[0] = 0 /\ m[Len(parts)] = Len(F)
    /\ \A i \in 1 .. Len(parts), j \in Nat \ {0} : j <= Len(parts[i]) =>
           m[i - 1] + j \in 1 .. Len(F) /\ F[m[i - 1] + j] = parts[i][j]
    /\ \A i \in 1 .. Len(parts) : m[i] = m[i - 1] + Len(parts[i])
    /\ \A k \in 1 .. Len(F) : \E i \in 1 .. Len(parts), j \in Nat \ {0} :
           j <= Len(parts[i]) /\ k = m[i - 1] + j
    /\ \A h, i \in 0 .. Len(parts) : h <= i => m[h] <= m[i]

LaidTo(g, parts, i) ==
    /\ \A h \in 1 .. i, j \in Nat \ {0} : j <= Len(parts[h]) =>
           Len(g[h - 1]) + j \in 1 .. Len(g[i]) /\ g[i][Len(g[h - 1]) + j] = parts[h][j]
    /\ \A k \in 1 .. Len(g[i]) : \E h \in 1 .. i, j \in Nat \ {0} :
           j <= Len(parts[h]) /\ k = Len(g[h - 1]) + j
    /\ \A h \in 0 .. i : Len(g[h]) <= Len(g[i])

LEMMA OnePartMore ==
    ASSUME NEW T, NEW parts \in Seq(Seq(T)), NEW g, Lays(g, T, parts),
           NEW i \in 1 .. Len(parts), LaidTo(g, parts, i - 1)
    PROVE  LaidTo(g, parts, i)
<1>1. PICK a, b, c : a = g[i - 1] /\ b = parts[i] /\ c = g[i]
  OBVIOUS
<1>2. i \in Nat /\ i - 1 \in 0 .. Len(parts)
  OBVIOUS
<1>3. a \in Seq(T) /\ b \in Seq(T) /\ c = a \o b
  <2>1. parts[i] \in Seq(T)
    OBVIOUS
  <2>2. g[i - 1] \in Seq(T)
    BY <1>2 DEF Lays
  <2>3. g[i] = g[i - 1] \o parts[i]
    BY DEF Lays
  <2> QED
    BY <1>1, <2>1, <2>2, <2>3
<1>4. PICK l \in Nat, k \in Nat : l = Len(a) /\ k = Len(b)
  BY <1>3
<1>5. /\ Len(c) = l + k
      /\ \A x \in 1 .. l : c[x] = a[x]
      /\ \A x \in 1 .. k : c[l + x] = b[x]
  <2>1. Len(c) = l + k /\ \A x \in 1 .. l + k : c[x] = IF x <= l THEN a[x] ELSE b[x - l]
    BY <1>3, <1>4, ConcatProperties
  <2>2. \A x \in 1 .. l : x \in 1 .. l + k /\ x <= l
    OBVIOUS
  <2>3. \A x \in 1 .. k : l + x \in 1 .. l + k /\ ~(l + x <= l) /\ l + x - l = x
    OBVIOUS
  <2> QED
    BY <2>1, <2>2, <2>3
<1>6. ASSUME NEW h \in 1 .. i, NEW j \in Nat \ {0}, j <= Len(parts[h])
      PROVE  Len(g[h - 1]) + j \in 1 .. Len(g[i]) /\ g[i][Len(g[h - 1]) + j] = parts[h][j]
  <2>1. CASE h = i
    <3>1. j \in 1 .. k
      BY <1>1, <1>4, <1>6, <2>1
    <3>2. l + j \in 1 .. l + k
      BY <3>1
    <3> QED
      BY <1>1, <1>4, <1>5, <2>1, <3>1, <3>2
  <2>2. CASE h # i
    <3>1. h \in 1 .. i - 1
      BY <2>2
    <3>2. PICK x : x = Len(g[h - 1]) + j
      OBVIOUS
    <3>3. x \in 1 .. l /\ a[x] = parts[h][j]
      BY <1>1, <1>4, <1>6, <3>1, <3>2 DEF LaidTo
    <3>4. x \in 1 .. l + k
      BY <3>3
    <3> QED
      BY <1>1, <1>5, <3>2, <3>3, <3>4
  <2> QED
    BY <2>1, <2>2
<1>7. ASSUME NEW x \in 1 .. Len(g[i])
      PROVE  \E h \in 1 .. i, j \in Nat \ {0} : j <= Len(parts[h]) /\ x = Len(g[h - 1]) + j
  <2>1. x \in 1 .. l + k
    BY <1>1, <1>5
  <2>2. CASE x <= l
    <3>1. x \in 1 .. Len(g[i - 1])
      BY <1>1, <1>4, <2>1, <2>2
    <3>2. PICK h \in 1 .. i - 1, j \in Nat \ {0} : j <= Len(parts[h]) /\ x = Len(g[h - 1]) + j
      BY <3>1 DEF LaidTo
    <3>3. h \in 1 .. i
      OBVIOUS
    <3> QED
      BY <3>2, <3>3
  <2>3. CASE ~(x <= l)
    <3>1. PICK j : j = x - l
      OBVIOUS
    <3>2. j \in Nat \ {0} /\ j <= k /\ x = l + j
      BY <2>1, <2>3, <3>1
    <3>3. i \in 1 .. i
      BY <1>2
    <3> QED
      BY <1>1, <1>4, <3>2, <3>3
  <2> QED
    BY <2>2, <2>3
<1>8. ASSUME NEW h \in 0 .. i PROVE Len(g[h]) <= Len(g[i])
  <2>1. CASE h = i
    <3>1. Len(g[i]) = l + k /\ l + k <= l + k
      BY <1>1, <1>5
    <3> QED
      BY <2>1, <3>1
  <2>2. CASE h # i
    <3>1. h \in 0 .. i - 1 /\ h \in 0 .. Len(parts)
      BY <2>2
    <3>2. g[h] \in Seq(T)
      BY <3>1 DEF Lays
    <3>3. Len(g[h]) \in Nat /\ Len(g[h]) <= l
      BY <1>1, <1>4, <3>1, <3>2 DEF LaidTo
    <3>4. l <= l + k
      OBVIOUS
    <3> QED
      BY <1>1, <1>5, <3>3, <3>4
  <2> QED
    BY <2>1, <2>2
<1> QED
  BY <1>6, <1>7, <1>8 DEF LaidTo

LEMMA FlattenIs ==
    ASSUME NEW T, NEW parts \in Seq(Seq(T))
    PROVE  \E m : LaidOut(FlattenSeq(parts), T, parts, m)
<1>1. PICK n \in Nat : n = Len(parts)
  OBVIOUS
<1>2. PICK g : Lays(g, T, parts) /\ FlattenSeq(parts) = g[n]
  BY <1>1, FlattenLays
<1> DEFINE Bad == {i \in 0 .. n : ~LaidTo(g, parts, i)}
<1>3. Bad = {}
  <2> SUFFICES ASSUME Bad # {} PROVE FALSE
    OBVIOUS
  <2>0. Bad \subseteq Nat
    OBVIOUS
  <2>1. PICK i \in Bad : \A j \in Bad : i <= j
    <3> HIDE DEF Bad
    <3> QED
      BY <2>0, LeastOf
  <2>2. CASE i = 0
    <3>1. Len(g[0]) = 0 /\ \A x : x \notin 1 .. 0
      BY <1>2 DEF Lays
    <3>2. \A h \in 0 .. 0 : h = 0
      OBVIOUS
    <3>3. LaidTo(g, parts, 0)
      BY <3>1, <3>2 DEF LaidTo
    <3> QED
      BY <2>2, <3>3
  <2>3. CASE i # 0
    <3>1. i \in 1 .. n /\ i - 1 \in 0 .. n /\ ~(i <= i - 1)
      BY <2>3
    <3>2. i - 1 \notin Bad
      <4> HIDE DEF Bad
      <4> QED
        BY <2>1, <3>1
    <3>3. LaidTo(g, parts, i - 1)
      BY <3>1, <3>2
    <3>4. LaidTo(g, parts, i)
      BY <1>1, <1>2, <3>1, <3>3, OnePartMore
    <3> QED
      BY <3>4
  <2> QED
    BY <2>2, <2>3
<1>4. \A i \in 0 .. n : LaidTo(g, parts, i)
  BY <1>3
<1> HIDE DEF Bad
<1>5. n \in 0 .. n
  OBVIOUS
<1>6. PICK m : m = [i \in 0 .. n |-> Len(g[i])]
  OBVIOUS
<1>7. \A i \in 0 .. n : g[i] \in Seq(T)
  BY <1>1, <1>2 DEF Lays
<1>8. m \in [0 .. n -> Nat] /\ \A i \in 0 .. n : m[i] = Len(g[i])
  BY <1>6, <1>7
<1>9. PICK F : F = FlattenSeq(parts)
  OBVIOUS
<1>10. F = g[n] /\ F \in Seq(T) /\ m[n] = Len(F)
  BY <1>2, <1>5, <1>7, <1>8, <1>9
<1>11. \A i \in 1 .. n : i \in 0 .. n /\ i - 1 \in 0 .. n
  OBVIOUS
<1>12. LaidTo(g, parts, n)
  BY <1>4, <1>5
<1>13. \A i \in 1 .. n, j \in Nat \ {0} : j <= Len(parts[i]) =>
           m[i - 1] + j \in 1 .. Len(F) /\ F[m[i - 1] + j] = parts[i][j]
  <2>1. \A i \in 1 .. n, j \in Nat \ {0} : j <= Len(parts[i]) =>
           Len(g[i - 1]) + j \in 1 .. Len(F) /\ F[Len(g[i - 1]) + j] = parts[i][j]
    BY <1>10, <1>12, Zenon DEF LaidTo
  <2> QED
    BY <1>8, <1>11, <2>1
<1>14. \A k \in 1 .. Len(F) : \E i \in 1 .. n, j \in Nat \ {0} :
           j <= Len(parts[i]) /\ k = m[i - 1] + j
  <2>1. ASSUME NEW k \in 1 .. Len(F)
        PROVE  \E i \in 1 .. n, j \in Nat \ {0} : j <= Len(parts[i]) /\ k = m[i - 1] + j
    <3>1. k \in 1 .. Len(g[n])
      BY <1>10
    <3>2. PICK i \in 1 .. n, j \in Nat \ {0} : j <= Len(parts[i]) /\ k = Len(g[i - 1]) + j
      BY <1>12, <3>1 DEF LaidTo
    <3>3. m[i - 1] = Len(g[i - 1])
      BY <1>8, <1>11
    <3> QED
      BY <3>2, <3>3
  <2> QED
    BY <2>1
<1>15. ASSUME NEW i \in 1 .. n PROVE m[i] = m[i - 1] + Len(parts[i])
  <2>0. parts[i] \in Seq(T) /\ g[i - 1] \in Seq(T)
    BY <1>1, <1>7, <1>11
  <2>1. g[i] = g[i - 1] \o parts[i]
    BY <1>1, <1>2 DEF Lays
  <2>2. Len(g[i]) = Len(g[i - 1]) + Len(parts[i])
    BY <2>0, <2>1, ConcatProperties
  <2> QED
    BY <1>8, <1>11, <2>2
<1>16. \A h, i \in 0 .. n : h <= i => m[h] <= m[i]
  <2>1. ASSUME NEW h \in 0 .. n, NEW i \in 0 .. n, h <= i PROVE m[h] <= m[i]
    <3>1. h \in 0 .. i
      BY <2>1
    <3>2. Len(g[h]) <= Len(g[i])
      BY <1>4, <3>1 DEF LaidTo
    <3> QED
      BY <1>8, <3>2
  <2> QED
    BY <2>1
<1>18. m[0] = 0
  <2>1. 0 \in 0 .. n /\ g[0] = <<>>
    BY <1>2 DEF Lays
  <2> QED
    BY <1>8, <2>1
<1>17. LaidOut(F, T, parts, m)
  BY <1>1, <1>18, <1>8, <1>10, <1>13, <1>14, <1>15, <1>16, Zenon DEF LaidOut
<1> QED
  BY <1>9, <1>17

-----------------------------------------------------------------------------
(* Numbers that go round. *)

LEMMA Remainder == \A l \in Nat \ {0}, y \in Nat, q \in Nat : y < l => (q * l + y) % l = y
  OBVIOUS

LEMMA RemainderIs == \A x \in Nat, l \in Nat \ {0} : x % l \in 0 .. l - 1
  OBVIOUS

LEMMA Within == \A l \in Nat \ {0}, y \in Nat : y < l => y % l = y /\ (y + l) % l = y
  OBVIOUS

-----------------------------------------------------------------------------
(* The candidates of one rank, as often as they weigh. *)

LEMMA WeightIsPositive ==
    ASSUME weight \in [Ranked -> Nat], NEW c \in Ranked PROVE EffectiveWeight(c) \in Nat \ {0}
<1>1. PICK w \in Nat : w = weight[c]
  OBVIOUS
<1>2. PICK x : x = Max({w, 1})
  OBVIOUS
<1>3. \E y \in {w, 1} : \A z \in {w, 1} : y >= z
  <2>1. CASE w >= 1
    BY <2>1
  <2>2. CASE ~(w >= 1)
    BY <2>2
  <2> QED
    BY <2>1, <2>2
<1>4. x \in {w, 1} /\ \A z \in {w, 1} : x >= z
  BY <1>2, <1>3 DEF Max
<1>5. x \in Nat \ {0}
  BY <1>4
<1> QED
  BY <1>1, <1>2, <1>5 DEF EffectiveWeight

\* all has each of the ids as often as it weighs.
Shares(all, ids) ==
    /\ all \in Seq(ids) /\ Len(all) \in Nat \ {0}
    /\ Len(all) = WeightOf(ids)
    /\ \A c \in ids : \E k \in 1 .. Len(all) : all[k] = c
    /\ \A c \in ids : Cardinality({k \in 1 .. Len(all) : all[k] = c}) = EffectiveWeight(c)

\* Every place of all belongs to one of the ids, w[c] places in a row to c: to the i-th of
\* them, s[i], those behind m[i - 1].
Places(all, ids, s, n, w, m) ==
    /\ n \in Nat /\ w \in [ids -> Nat \ {0}] /\ m \in [0 .. n -> Nat] /\ s \in [1 .. n -> ids]
    /\ \A i, j \in 1 .. n : s[i] = s[j] => i = j
    /\ \A c \in ids : \E i \in 1 .. n : s[i] = c
    /\ all \in Seq(ids)
    /\ \A i \in 1 .. n, j \in Nat \ {0} : j <= w[s[i]] =>
           m[i - 1] + j \in 1 .. Len(all) /\ all[m[i - 1] + j] = s[i]
    /\ \A k \in 1 .. Len(all) : \E i \in 1 .. n, j \in Nat \ {0} :
           j <= w[s[i]] /\ k = m[i - 1] + j

LEMMA WeightedPlaces ==
    ASSUME weight \in [Ranked -> Nat], NEW ids \in SUBSET Ranked, ids # {},
           NEW w, w = [c \in ids |-> EffectiveWeight(c)]
    PROVE  \E s, n, m : Places(Weighted(ids), ids, s, n, w, m)
<1>1. ids \subseteq Nat /\ IsFiniteSet(ids)
  BY RankingAssumption, FS_Subset
<1>2. PICK s : s = Ascending(ids)
  OBVIOUS
<1>3. PICK n \in Nat : n = Cardinality(ids)
  BY <1>1, FS_CardinalityType
<1>4. /\ s \in [1 .. n -> ids]
      /\ \A i, j \in 1 .. n : s[i] = s[j] => i = j
      /\ \A c \in ids : \E i \in 1 .. n : s[i] = c
  <2>1. InOrder(s, ids)
    BY <1>1, <1>2, AscendingIs
  <2> QED
    BY <1>3, <2>1 DEF InOrder
<1>5. w \in [ids -> Nat \ {0}]
  <2>1. \A c \in ids : EffectiveWeight(c) \in Nat \ {0}
    BY WeightIsPositive
  <2> QED
    BY <2>1
<1>6. PICK parts : parts = [i \in 1 .. n |-> [j \in 1 .. w[s[i]] |-> s[i]]]
  OBVIOUS
<1>7. \A i \in 1 .. n : /\ parts[i] \in Seq(ids) /\ Len(parts[i]) = w[s[i]]
                        /\ \A j \in 1 .. w[s[i]] : parts[i][j] = s[i]
  <2>1. ASSUME NEW i \in 1 .. n
        PROVE  /\ parts[i] \in Seq(ids) /\ Len(parts[i]) = w[s[i]]
               /\ \A j \in 1 .. w[s[i]] : parts[i][j] = s[i]
    <3>1. PICK c \in ids, u \in Nat : c = s[i] /\ u = w[c]
      BY <1>4, <1>5
    <3>2. PICK part : part = [j \in 1 .. u |-> c]
      OBVIOUS
    <3>3. part \in Seq(ids) /\ Len(part) = u /\ \A j \in 1 .. u : part[j] = c
      BY <3>2
    <3>4. parts[i] = part
      BY <1>6, <3>1, <3>2
    <3> QED
      BY <3>1, <3>3, <3>4
  <2> QED
    BY <2>1
<1>8. parts \in Seq(Seq(ids)) /\ Len(parts) = n
  <2>1. PICK T : T = Seq(ids)
    OBVIOUS
  <2>2. \A i \in 1 .. n : parts[i] \in T
    BY <1>7, <2>1
  <2>3. parts \in [1 .. n -> T]
    BY <1>6, <2>2
  <2>4. parts \in Seq(T) /\ Len(parts) = n
    BY <2>3
  <2> QED
    BY <2>1, <2>4
<1>9. Weighted(ids) = FlattenSeq(parts)
  <2>1. DOMAIN s = 1 .. n
    BY <1>4
  <2>2. parts = [i \in DOMAIN s |-> [j \in 1 .. EffectiveWeight(s[i]) |-> s[i]]]
    <3>1. \A i \in 1 .. n : w[s[i]] = EffectiveWeight(s[i])
      BY <1>4
    <3> QED
      BY <1>6, <2>1, <3>1
  <2> QED
    BY <1>2, <2>2 DEF Weighted
<1>10. PICK all : all = FlattenSeq(parts)
  OBVIOUS
<1>11. PICK m : LaidOut(all, ids, parts, m)
  BY <1>8, <1>10, FlattenIs
<1>12. m \in [0 .. n -> Nat] /\ all \in Seq(ids)
  BY <1>8, <1>11 DEF LaidOut
<1>13. ASSUME NEW i \in 1 .. n, NEW j \in Nat \ {0}, j <= w[s[i]]
       PROVE  m[i - 1] + j \in 1 .. Len(all) /\ all[m[i - 1] + j] = s[i]
  <2>1. j <= Len(parts[i]) /\ parts[i][j] = s[i]
    <3>1. s[i] \in ids /\ w[s[i]] \in Nat
      BY <1>4, <1>5
    <3>2. j \in 1 .. w[s[i]]
      BY <1>13, <3>1
    <3> QED
      BY <1>7, <1>13, <3>2
  <2>2. \A h \in 1 .. n, l \in Nat \ {0} : l <= Len(parts[h]) =>
           m[h - 1] + l \in 1 .. Len(all) /\ all[m[h - 1] + l] = parts[h][l]
    BY <1>8, <1>11, Zenon DEF LaidOut
  <2> QED
    BY <2>1, <2>2, Zenon
<1>14. ASSUME NEW k \in 1 .. Len(all)
       PROVE  \E i \in 1 .. n, j \in Nat \ {0} : j <= w[s[i]] /\ k = m[i - 1] + j
  <2>1. PICK i \in 1 .. n, j \in Nat \ {0} : j <= Len(parts[i]) /\ k = m[i - 1] + j
    BY <1>8, <1>11 DEF LaidOut
  <2> QED
    BY <1>7, <2>1
<1>15. Places(all, ids, s, n, w, m)
  BY <1>4, <1>5, <1>12, <1>13, <1>14, Zenon DEF Places
<1> QED
  BY <1>9, <1>10, <1>15

\* What they weigh together: one place for each unit.
LEMMA PlacesWeigh ==
    ASSUME NEW ids, NEW all, NEW s, NEW n, NEW m,
           NEW w, w = [c \in ids |-> EffectiveWeight(c)], Places(all, ids, s, n, w, m)
    PROVE  Len(all) = WeightOf(ids)
<1>1. PICK L \in Nat : L = Len(all)
  BY DEF Places
<1>2. PICK tickets : tickets = UNION {{c} \X (1 .. EffectiveWeight(c)) : c \in ids}
  OBVIOUS
<1>3. ASSUME NEW t \in tickets
      PROVE  \E c \in ids, j \in Nat \ {0} : j <= w[c] /\ t = <<c, j>>
  <2>1. PICK c \in ids : t \in {c} \X (1 .. EffectiveWeight(c))
    BY <1>2
  <2>2. w[c] = EffectiveWeight(c)
    OBVIOUS
  <2>3. t \in {c} \X (1 .. w[c])
    BY <2>1, <2>2
  <2>4. PICK j \in 1 .. w[c] : t = <<c, j>>
    BY <2>3
  <2>5. w[c] \in Nat \ {0}
    BY DEF Places
  <2>6. j \in Nat \ {0} /\ j <= w[c]
    BY <2>5
  <2> QED
    BY <2>4, <2>6
<1>4. ASSUME NEW c \in ids, NEW j \in Nat \ {0}, j <= w[c] PROVE <<c, j>> \in tickets
  <2>0. w[c] \in Nat \ {0}
    BY DEF Places
  <2>1. <<c, j>> \in {c} \X (1 .. w[c])
    BY <1>4, <2>0
  <2>2. w[c] = EffectiveWeight(c)
    OBVIOUS
  <2>3. <<c, j>> \in {c} \X (1 .. EffectiveWeight(c))
    BY <2>1, <2>2
  <2> QED
    BY <1>2, <2>3
<1>5. \A c \in ids : w[c] \in Nat \ {0}
  BY DEF Places
<1>6. PICK place \in [ids -> 1 .. n] : \A c \in ids : s[place[c]] = c
  <2>1. \A c \in ids : \E i \in 1 .. n : s[i] = c
    BY DEF Places
  <2>2. PICK p : p = [c \in ids |-> CHOOSE i \in 1 .. n : s[i] = c]
    OBVIOUS
  <2>3. \A c \in ids : p[c] \in 1 .. n /\ s[p[c]] = c
    BY <2>1, <2>2
  <2> QED
    BY <2>2, <2>3
<1>7. ASSUME NEW c \in ids, NEW j \in Nat \ {0}, j <= w[c]
      PROVE  m[place[c] - 1] + j \in 1 .. L /\ all[m[place[c] - 1] + j] = c
  <2>1. PICK i \in 1 .. n : i = place[c] /\ s[i] = c
    BY <1>6
  <2>2. j \in Nat \ {0} /\ j <= w[s[i]]
    BY <1>7, <2>1
  <2>3. m[i - 1] + j \in 1 .. L /\ all[m[i - 1] + j] = s[i]
    BY <1>1, <2>2 DEF Places
  <2> QED
    BY <2>1, <2>3
<1>8. PICK h : h = [t \in tickets |-> m[place[t[1]] - 1] + t[2]]
  OBVIOUS
<1>9. ASSUME NEW c \in ids, NEW j \in Nat \ {0}, j <= w[c] PROVE h[<<c, j>>] = m[place[c] - 1] + j
  <2>1. PICK t : t = <<c, j>>
    OBVIOUS
  <2>2. t \in tickets /\ t[1] = c /\ t[2] = j
    BY <1>4, <1>9, <2>1
  <2>3. h[t] = m[place[c] - 1] + j
    BY <1>8, <2>2
  <2> QED
    BY <2>1, <2>3
<1>10. h \in [tickets -> 1 .. L]
  <2>1. ASSUME NEW t \in tickets PROVE h[t] \in 1 .. L
    <3>1. PICK c \in ids, j \in Nat \ {0} : j <= w[c] /\ t = <<c, j>>
      BY <1>3
    <3> QED
      BY <1>7, <1>9, <3>1
  <2> QED
    BY <1>8, <2>1
<1>11. ASSUME NEW t \in tickets, NEW u \in tickets, h[t] = h[u] PROVE t = u
  <2>1. PICK c \in ids, j \in Nat \ {0} : j <= w[c] /\ t = <<c, j>>
    BY <1>3
  <2>2. PICK d \in ids, k \in Nat \ {0} : k <= w[d] /\ u = <<d, k>>
    BY <1>3
  <2>3. PICK x, y : x = m[place[c] - 1] + j /\ y = m[place[d] - 1] + k
    OBVIOUS
  <2>4. x = y
    BY <1>9, <1>11, <2>1, <2>2, <2>3
  <2>5. all[x] = c /\ all[y] = d
    BY <1>7, <2>1, <2>2, <2>3
  <2>6. c = d
    BY <2>4, <2>5
  <2>7. PICK z \in Nat : z = m[place[c] - 1]
    <3>1. place[c] \in 1 .. n
      BY <1>6
    <3>2. n \in Nat /\ m \in [0 .. n -> Nat]
      BY DEF Places
    <3>3. place[c] - 1 \in 0 .. n
      BY <3>1, <3>2
    <3> QED
      BY <3>2, <3>3
  <2>8. j \in Nat /\ k \in Nat
    OBVIOUS
  <2>9. j = k
    BY <2>3, <2>4, <2>6, <2>7, <2>8
  <2> QED
    BY <2>1, <2>2, <2>6, <2>9
<1>12. ASSUME NEW k \in 1 .. L PROVE \E t \in tickets : h[t] = k
  <2>1. PICK i \in 1 .. n, j \in Nat \ {0} : j <= w[s[i]] /\ k = m[i - 1] + j
    BY <1>1 DEF Places
  <2>2. PICK c \in ids : c = s[i]
    BY DEF Places
  <2>3. place[c] = i
    <3>1. s[place[c]] = s[i] /\ place[c] \in 1 .. n
      BY <1>6, <2>2
    <3> QED
      BY <3>1 DEF Places
  <2>4. j <= w[c]
    BY <2>1, <2>2
  <2>5. h[<<c, j>>] = k
    BY <1>9, <2>1, <2>3, <2>4
  <2> QED
    BY <1>4, <2>4, <2>5
<1>13. h \in Bijection(tickets, 1 .. L)
  BY <1>10, <1>11, <1>12, Fun_IsBij
<1>14. ExistsBijection(1 .. L, tickets)
  <2>1. Inverse(h, tickets, 1 .. L) \in Bijection(1 .. L, tickets)
    BY <1>13, Fun_BijInverse
  <2> QED
    BY <2>1 DEF ExistsBijection
<1>15. IsFiniteSet(1 .. L) /\ Cardinality(1 .. L) = L
  BY <1>1, UpTo
<1>16. Cardinality(tickets) = L
  BY <1>14, <1>15, FS_Bijection
<1> QED
  BY <1>1, <1>2, <1>16 DEF WeightOf

LEMMA WeightedShares ==
    ASSUME weight \in [Ranked -> Nat], NEW ids \in SUBSET Ranked, ids # {}
    PROVE  Shares(Weighted(ids), ids)
<1>1. PICK w : w = [c \in ids |-> EffectiveWeight(c)]
  OBVIOUS
<1>2. PICK all : all = Weighted(ids)
  OBVIOUS
<1>3. PICK s, n, m : Places(all, ids, s, n, w, m)
  BY <1>1, <1>2, WeightedPlaces
<1>4. Len(all) = WeightOf(ids)
  BY <1>1, <1>3, PlacesWeigh
<1>5. all \in Seq(ids) /\ \A c \in ids : w[c] \in Nat \ {0} /\ w[c] = EffectiveWeight(c)
  <2>1. all \in Seq(ids) /\ w \in [ids -> Nat \ {0}]
    BY <1>3 DEF Places
  <2> QED
    BY <1>1, <2>1
<1>6. PICK L \in Nat : L = Len(all)
  BY <1>5
<1>7. ASSUME NEW c \in ids
      PROVE  /\ \E k \in 1 .. L : all[k] = c
             /\ Cardinality({k \in 1 .. L : all[k] = c}) = w[c]
  <2>1. PICK i \in 1 .. n : s[i] = c
    BY <1>3 DEF Places
  <2>2. PICK b \in Nat : b = m[i - 1]
    <3>1. n \in Nat /\ m \in [0 .. n -> Nat] /\ i - 1 \in 0 .. n
      BY <1>3 DEF Places
    <3> QED
      BY <3>1
  <2>3. PICK v \in Nat \ {0} : v = w[c]
    BY <1>5
  <2>4. \A j \in 1 .. v : b + j \in 1 .. L /\ all[b + j] = c
    <3>1. \A j \in Nat \ {0} : j <= w[s[i]] => m[i - 1] + j \in 1 .. L /\ all[m[i - 1] + j] = s[i]
      BY <1>3, <1>6 DEF Places
    <3> QED
      BY <2>1, <2>2, <2>3, <3>1
  <2>5. ASSUME NEW k \in 1 .. L, all[k] = c PROVE \E j \in 1 .. v : k = b + j
    <3>1. PICK h \in 1 .. n, j \in Nat \ {0} : j <= w[s[h]] /\ k = m[h - 1] + j
      BY <1>3, <1>6 DEF Places
    <3>2. all[m[h - 1] + j] = s[h]
      BY <1>3, <3>1 DEF Places
    <3>3. s[h] = s[i]
      BY <2>1, <2>5, <3>1, <3>2
    <3>4. h = i
      BY <1>3, <3>3 DEF Places
    <3> QED
      BY <2>1, <2>2, <2>3, <3>1, <3>4
  <2>6. {k \in 1 .. L : all[k] = c} = b + 1 .. b + v
    <3>1. ASSUME NEW k \in 1 .. L, all[k] = c PROVE k \in b + 1 .. b + v
      BY <2>5, <3>1
    <3>2. ASSUME NEW k \in b + 1 .. b + v PROVE k \in 1 .. L /\ all[k] = c
      <4>1. k - b \in 1 .. v /\ b + (k - b) = k
        OBVIOUS
      <4> QED
        BY <2>4, <4>1
    <3> QED
      BY <3>1, <3>2
  <2>7. Cardinality(b + 1 .. b + v) = v
    <3>1. b + 1 \in Int /\ b + v \in Int /\ ~(b + 1 > b + v) /\ b + v - (b + 1) + 1 = v
      OBVIOUS
    <3> QED
      BY <3>1, FS_Interval
  <2>8. 1 \in 1 .. v
    OBVIOUS
  <2> QED
    BY <2>3, <2>4, <2>6, <2>7, <2>8
<1>8. L # 0
  <2>1. PICK c \in ids : TRUE
    OBVIOUS
  <2>2. PICK k \in 1 .. L : all[k] = c
    BY <1>7
  <2> QED
    OBVIOUS
<1>9. \A c \in ids : \E k \in 1 .. Len(all) : all[k] = c
  BY <1>6, <1>7
<1>10. \A c \in ids : Cardinality({k \in 1 .. Len(all) : all[k] = c}) = EffectiveWeight(c)
  BY <1>5, <1>6, <1>7, Zenon
<1>11. Len(all) \in Nat \ {0}
  BY <1>6, <1>8
<1>12. Shares(all, ids)
  BY <1>4, <1>5, <1>9, <1>10, <1>11, Zenon DEF Shares
<1> QED
  BY <1>2, <1>12

-----------------------------------------------------------------------------
(* They are gone round, from the place the counter says. *)

\* seen has them all, and starts with the place of all that the counter says.
Turned(seen, all, ids) ==
    /\ seen \in [1 .. Len(all) -> ids]
    /\ seen[1] = all[(selection_rr % Len(all)) + 1]
    /\ \A c \in ids : \E k \in 1 .. Len(all) : seen[k] = c

LEMMA RotateIs ==
    ASSUME NEW ids, Shares(Weighted(ids), ids), selection_rr \in Nat
    PROVE  Turned(Rotate(ids), Weighted(ids), ids)
<1>1. PICK all : all = Weighted(ids)
  OBVIOUS
<1>2. PICK L \in Nat \ {0} : L = Len(all)
  BY <1>1 DEF Shares
<1>3. PICK start \in 0 .. L - 1 : start = selection_rr % L
  BY RemainderIs
<1>4. start \in Nat /\ start < L
  OBVIOUS
<1>5. PICK seen : seen = [k \in 1 .. L |-> all[((start + k - 1) % L) + 1]]
  OBVIOUS
<1>6. Rotate(ids) = seen
  BY <1>1, <1>2, <1>3, <1>5 DEF Rotate
<1>7. ASSUME NEW k \in 1 .. L PROVE seen[k] \in ids
  <2>1. PICK x \in Nat : x = start + k - 1
    BY <1>4
  <2>2. x % L \in 0 .. L - 1
    BY RemainderIs
  <2>3. PICK y \in 1 .. L : y = (x % L) + 1
    BY <2>2
  <2>4. all[y] \in ids
    BY <1>1, <1>2 DEF Shares
  <2> QED
    BY <1>5, <2>1, <2>3, <2>4
<1>8. seen \in [1 .. L -> ids]
  BY <1>5, <1>7
<1>9. seen[1] = all[start + 1]
  <2>1. start + 1 - 1 = start /\ start % L = start /\ 1 \in 1 .. L
    BY <1>4, Within
  <2> QED
    BY <1>5, <2>1
<1>10. ASSUME NEW c \in ids PROVE \E k \in 1 .. L : seen[k] = c
  <2>1. PICK x \in 1 .. L : all[x] = c
    BY <1>1, <1>2 DEF Shares
  <2>2. PICK y \in Nat : y = x - 1 /\ y < L
    OBVIOUS
  <2>3. y % L = y /\ (y + L) % L = y
    BY <2>2, Within
  <2>4. CASE start <= y
    <3>1. PICK k \in 1 .. L : k = y - start + 1
      BY <1>4, <2>2, <2>4
    <3>2. start + k - 1 = y
      BY <1>4, <3>1
    <3>3. seen[k] = all[y + 1]
      BY <1>5, <2>3, <3>2
    <3> QED
      BY <2>1, <2>2, <3>3
  <2>5. CASE ~(start <= y)
    <3>1. PICK k \in 1 .. L : k = y + L - start + 1
      BY <1>4, <2>2, <2>5
    <3>2. start + k - 1 = y + L
      BY <1>4, <3>1
    <3>3. seen[k] = all[y + 1]
      BY <1>5, <2>3, <3>2
    <3> QED
      BY <2>1, <2>2, <3>3
  <2> QED
    BY <2>4, <2>5
<1>11. Turned(seen, all, ids)
  BY <1>2, <1>3, <1>8, <1>9, <1>10 DEF Turned
<1> QED
  BY <1>1, <1>6, <1>11

\* Each of the ids is in seg, once.
EachOnce(seg, ids) ==
    /\ seg \in Seq(ids)
    /\ \A i, j \in 1 .. Len(seg) : seg[i] = seg[j] => i = j
    /\ \A c \in ids : \E i \in 1 .. Len(seg) : seg[i] = c

LEMMA SegmentIs ==
    ASSUME NEW ids, NEW all, NEW seen, seen = Rotate(ids), Turned(seen, all, ids),
           Len(all) \in Nat \ {0}
    PROVE  EachOnce(Segment(ids), ids) /\ Len(Segment(ids)) # 0 /\ Segment(ids)[1] = seen[1]
<1>1. PICK L \in Nat \ {0} : L = Len(all)
  OBVIOUS
<1>2. seen \in [1 .. L -> ids] /\ DOMAIN seen = 1 .. L
  BY <1>1 DEF Turned
<1>3. PICK F : F = {k \in DOMAIN seen : \A j \in 1 .. k - 1 : seen[j] # seen[k]}
  OBVIOUS
<1>4. F \in SUBSET (1 .. L) /\ F \subseteq Nat
  BY <1>2, <1>3
<1>5. IsFiniteSet(F)
  <2>1. IsFiniteSet(1 .. L)
    BY UpTo
  <2> QED
    BY <1>4, <2>1, FS_Subset
<1>6. PICK first : first = Ascending(F)
  OBVIOUS
<1>7. PICK n \in Nat : n = Cardinality(F)
  BY <1>5, FS_CardinalityType
<1>8. /\ first \in [1 .. n -> F]
      /\ \A i, j \in 1 .. n : i < j => first[i] < first[j]
      /\ \A i, j \in 1 .. n : first[i] = first[j] => i = j
      /\ \A k \in F : \E i \in 1 .. n : first[i] = k
  <2>1. InOrder(first, F)
    BY <1>4, <1>5, <1>6, AscendingIs
  <2> QED
    BY <1>7, <2>1 DEF InOrder
<1>9. PICK seg : seg = [i \in 1 .. n |-> seen[first[i]]]
  OBVIOUS
<1>10. Segment(ids) = seg
  <2>1. DOMAIN first = 1 .. n
    BY <1>8
  <2> QED
    BY <1>3, <1>6, <1>9, <2>1 DEF Segment
<1>11. seg \in Seq(ids) /\ Len(seg) = n
  <2>1. \A i \in 1 .. n : seen[first[i]] \in ids
    BY <1>2, <1>4, <1>8
  <2>2. seg \in [1 .. n -> ids]
    BY <1>9, <2>1
  <2> QED
    BY <2>2
<1>12. ASSUME NEW i \in 1 .. n, NEW j \in 1 .. n, seg[i] = seg[j] PROVE i = j
  <2>1. PICK a \in F, b \in F : a = first[i] /\ b = first[j]
    BY <1>8
  <2>2. seen[a] = seen[b]
    BY <1>9, <1>12, <2>1
  <2>3. a \in Nat \ {0} /\ b \in Nat \ {0}
    BY <1>4
  <2>4. ~(a < b)
    <3> SUFFICES ASSUME a < b PROVE FALSE
      OBVIOUS
    <3>1. a \in 1 .. b - 1
      BY <2>3
    <3> QED
      BY <1>3, <2>2, <3>1
  <2>5. ~(b < a)
    <3> SUFFICES ASSUME b < a PROVE FALSE
      OBVIOUS
    <3>1. b \in 1 .. a - 1
      BY <2>3
    <3> QED
      BY <1>3, <2>2, <3>1
  <2>6. a = b
    BY <2>3, <2>4, <2>5
  <2> QED
    BY <1>8, <2>1, <2>6
<1>13. ASSUME NEW c \in ids PROVE \E i \in 1 .. n : seg[i] = c
  <2>1. PICK K : K = {k \in 1 .. L : seen[k] = c}
    OBVIOUS
  <2>2. K \subseteq Nat /\ K # {}
    BY <1>1, <2>1 DEF Turned
  <2>3. PICK k \in K : \A j \in K : k <= j
    BY <2>2, LeastOf
  <2>4. k \in 1 .. L /\ seen[k] = c
    BY <2>1
  <2>5. ASSUME NEW j \in 1 .. k - 1 PROVE seen[j] # seen[k]
    <3>1. j \in 1 .. L /\ ~(k <= j)
      BY <2>4
    <3> QED
      BY <2>1, <2>3, <2>4, <3>1
  <2>6. k \in F
    BY <1>2, <1>3, <2>4, <2>5
  <2>7. PICK i \in 1 .. n : first[i] = k
    BY <1>8, <2>6
  <2> QED
    BY <1>9, <2>4, <2>7
<1>14. 1 \in F
  <2>1. 1 \in 1 .. L /\ \A j : j \notin 1 .. 1 - 1
    OBVIOUS
  <2> QED
    BY <1>2, <1>3, <2>1
<1>15. n # 0 /\ first[1] = 1
  <2>1. PICK i \in 1 .. n : first[i] = 1
    BY <1>8, <1>14
  <2>2. 1 \in 1 .. n /\ n # 0
    <3>1. i \in Nat /\ 1 <= i /\ i <= n
      BY <2>1
    <3>2. 1 <= n
      BY <3>1
    <3> QED
      BY <3>2
  <2>3. first[1] \in Nat \ {0}
    <3>1. first[1] \in F
      BY <1>8, <2>2
    <3>2. \A k \in F : k \in 1 .. L
      BY <1>4
    <3>3. PICK k \in 1 .. L : k = first[1]
      BY <3>1, <3>2
    <3> QED
      BY <3>3
  <2>4. ~(1 < i)
    <3>1. PICK a \in Nat \ {0} : a = first[1]
      BY <2>3
    <3>2. ~(a < 1)
      BY <3>1
    <3>3. 1 < i => first[1] < first[i]
      BY <1>8, <2>2
    <3>4. 1 < i => a < 1
      BY <2>1, <3>1, <3>3
    <3> QED
      BY <3>2, <3>4
  <2>5. i = 1
    BY <2>1, <2>4
  <2> QED
    BY <2>1, <2>2, <2>5
<1>16. seg[1] = seen[1]
  <2>1. 1 \in 1 .. n
    BY <1>15
  <2> QED
    BY <1>9, <1>15, <2>1
<1>17. EachOnce(seg, ids)
  BY <1>11, <1>12, <1>13 DEF EachOnce
<1> QED
  BY <1>10, <1>11, <1>15, <1>16, <1>17

-----------------------------------------------------------------------------
(* The ranks, one after the other. *)

RankTyped ==
    /\ eligible \in SUBSET Ranked /\ eligible # {}
    /\ rank \in [Ranked -> Nat] /\ weight \in [Ranked -> Nat] /\ selection_rr \in Nat

LEMMA CandidatesAre == RankTyped => Candidates \in SUBSET Ranked /\ Candidates # {}
  BY DEF RankTyped, Candidates

\* Who comes first: whom the counter says, of the best.
FirstOf(all) == all[(selection_rr % Len(all)) + 1]

\* What is left of EachOnceByRank when the answer is o.
ByRank(o) ==
    /\ ToSet(o) = Candidates /\ Len(o) = Cardinality(Candidates)
    /\ \A i, j \in DOMAIN o : i < j => rank[o[i]] <= rank[o[j]]

LEMMA OfRankIs ==
    ASSUME RankTyped, NEW r, OfRank(r) # {}
    PROVE  /\ Shares(Weighted(OfRank(r)), OfRank(r))
           /\ EachOnce(Segment(OfRank(r)), OfRank(r)) /\ Len(Segment(OfRank(r))) # 0
           /\ Segment(OfRank(r))[1] = FirstOf(Weighted(OfRank(r)))
<1>1. PICK ids : ids = OfRank(r)
  OBVIOUS
<1>2. ids \in SUBSET Ranked /\ ids # {}
  BY <1>1, CandidatesAre DEF OfRank
<1>3. weight \in [Ranked -> Nat] /\ selection_rr \in Nat
  BY DEF RankTyped
<1>4. PICK all : all = Weighted(ids)
  OBVIOUS
<1>5. Shares(Weighted(ids), ids)
  BY <1>2, <1>3, WeightedShares
<1>6. PICK seen : seen = Rotate(ids)
  OBVIOUS
<1>7. Turned(seen, all, ids)
  BY <1>3, <1>4, <1>5, <1>6, RotateIs
<1>8. Len(all) \in Nat \ {0}
  BY <1>4, <1>5 DEF Shares
<1>9. EachOnce(Segment(ids), ids) /\ Len(Segment(ids)) # 0 /\ Segment(ids)[1] = seen[1]
  BY <1>6, <1>7, <1>8, SegmentIs
<1>10. seen[1] = FirstOf(all)
  BY <1>7 DEF Turned, FirstOf
<1> QED
  BY <1>1, <1>4, <1>5, <1>9, <1>10

\* The ranks there are, the best first: those of the i-th are the i-th part.
RanksIn(ranks, n, parts) ==
    /\ n \in Nat \ {0} /\ ranks \in [1 .. n -> Nat]
    /\ \A i, j \in 1 .. n : i < j => ranks[i] < ranks[j]
    /\ \A i \in 1 .. n : OfRank(ranks[i]) # {}
    /\ \A c \in Candidates : \E i \in 1 .. n : rank[c] = ranks[i]
    /\ parts = [i \in 1 .. n |-> Segment(OfRank(ranks[i]))]

LEMMA RanksAre ==
    ASSUME RankTyped
    PROVE  \E ranks, n, parts : RanksIn(ranks, n, parts) /\ RankCandidates = FlattenSeq(parts)
<1>1. PICK R : R = {rank[c] : c \in Candidates}
  OBVIOUS
<1>2. Candidates \in SUBSET Ranked /\ Candidates # {}
  BY CandidatesAre
<1>3. \A c \in Candidates : rank[c] \in Nat
  BY <1>2 DEF RankTyped
<1>4. R \subseteq Nat /\ R # {}
  BY <1>1, <1>2, <1>3
<1>5. IsFiniteSet(R)
  <2>1. IsFiniteSet(Candidates)
    BY <1>2, RankingAssumption, FS_Subset
  <2>2. PICK f : f = [c \in Candidates |-> rank[c]]
    OBVIOUS
  <2>3. f \in [Candidates -> R] /\ \A r \in R : \E c \in Candidates : f[c] = r
    BY <1>1, <2>2
  <2>4. f \in Surjection(Candidates, R)
    BY <2>3, Fun_IsSurj
  <2> QED
    BY <2>1, <2>4, FS_Surjection
<1>6. PICK ranks : ranks = Ascending(R)
  OBVIOUS
<1>7. PICK n \in Nat : n = Cardinality(R)
  BY <1>5, FS_CardinalityType
<1>8. n # 0
  BY <1>4, <1>5, <1>7, FS_EmptySet
<1>9. /\ ranks \in [1 .. n -> R]
      /\ \A i, j \in 1 .. n : i < j => ranks[i] < ranks[j]
      /\ \A r \in R : \E i \in 1 .. n : ranks[i] = r
  <2>1. InOrder(ranks, R)
    BY <1>4, <1>5, <1>6, AscendingIs
  <2> QED
    BY <1>7, <2>1 DEF InOrder
<1>10. ranks \in [1 .. n -> Nat]
  BY <1>4, <1>9
<1>11. ASSUME NEW i \in 1 .. n PROVE OfRank(ranks[i]) # {}
  <2>1. PICK c \in Candidates : rank[c] = ranks[i]
    BY <1>1, <1>9
  <2> QED
    BY <2>1 DEF OfRank
<1>12. \A c \in Candidates : \E i \in 1 .. n : rank[c] = ranks[i]
  BY <1>1, <1>9
<1>13. PICK parts : parts = [i \in 1 .. n |-> Segment(OfRank(ranks[i]))]
  OBVIOUS
<1>14. RankCandidates = FlattenSeq(parts)
  <2>1. DOMAIN ranks = 1 .. n
    BY <1>9
  <2> QED
    BY <1>1, <1>6, <1>13, <2>1 DEF RankCandidates
<1>15. RanksIn(ranks, n, parts)
  BY <1>8, <1>9, <1>10, <1>11, <1>12, <1>13 DEF RanksIn
<1> QED
  BY <1>14, <1>15

LEMMA BestAre ==
    ASSUME RankTyped, NEW ranks, NEW n, NEW parts, RanksIn(ranks, n, parts)
    PROVE  OfRank(ranks[1]) = Best
<1>1. PICK r \in Nat : r = ranks[1]
  BY DEF RanksIn
<1>2. Candidates \in SUBSET Ranked
  BY CandidatesAre
<1>3. ASSUME NEW d \in Candidates PROVE rank[d] \in Nat /\ r <= rank[d]
  <2>1. PICK i \in 1 .. n : rank[d] = ranks[i]
    BY DEF RanksIn
  <2>2. i = 1 \/ 1 < i
    BY DEF RanksIn
  <2>3. 1 \in 1 .. n /\ ranks[i] \in Nat
    BY DEF RanksIn
  <2>4. 1 < i => ranks[1] < ranks[i]
    BY <2>3 DEF RanksIn
  <2> QED
    BY <1>1, <2>1, <2>2, <2>3, <2>4
<1>4. PICK b \in Candidates : rank[b] = r
  <2>1. 1 \in 1 .. n
    BY DEF RanksIn
  <2>2. OfRank(ranks[1]) # {}
    BY <2>1 DEF RanksIn
  <2> QED
    BY <1>1, <2>2 DEF OfRank
<1>5. ASSUME NEW c \in Candidates PROVE rank[c] = r <=> \A d \in Candidates : rank[c] <= rank[d]
  <2>1. ASSUME \A d \in Candidates : rank[c] <= rank[d] PROVE rank[c] = r
    <3>1. rank[c] <= r
      BY <1>4, <2>1
    <3> QED
      BY <1>3, <3>1
  <2> QED
    BY <1>3, <2>1
<1> QED
  BY <1>1, <1>5 DEF OfRank, Best

LEMMA RankingIs ==
    ASSUME RankTyped, NEW o, o = RankCandidates
    PROVE  /\ o \in Seq(Candidates) /\ Len(o) # 0 /\ ByRank(o)
           /\ Shares(Weighted(Best), Best) /\ o[1] = FirstOf(Weighted(Best))
<1>1. PICK ranks, n, parts : RanksIn(ranks, n, parts) /\ o = FlattenSeq(parts)
  BY RanksAre
<1>2. n \in Nat \ {0} /\ \A i \in 1 .. n : ranks[i] \in Nat /\ OfRank(ranks[i]) # {}
  BY <1>1 DEF RanksIn
<1>3. ASSUME NEW i \in 1 .. n
      PROVE  /\ parts[i] = Segment(OfRank(ranks[i]))
             /\ EachOnce(parts[i], OfRank(ranks[i])) /\ Len(parts[i]) # 0
             /\ parts[i] \in Seq(Candidates)
  <2>1. parts[i] = Segment(OfRank(ranks[i]))
    BY <1>1 DEF RanksIn
  <2>2. EachOnce(parts[i], OfRank(ranks[i])) /\ Len(parts[i]) # 0
    BY <1>2, <2>1, OfRankIs
  <2>3. parts[i] \in Seq(OfRank(ranks[i])) /\ OfRank(ranks[i]) \subseteq Candidates
    BY <2>2 DEF EachOnce, OfRank
  <2>4. parts[i] \in Seq(Candidates)
    BY <2>3
  <2> QED
    BY <2>1, <2>2, <2>4
<1>4. parts \in Seq(Seq(Candidates)) /\ Len(parts) = n
  <2>1. PICK T : T = Seq(Candidates)
    OBVIOUS
  <2>2. \A i \in 1 .. n : parts[i] \in T
    BY <1>3, <2>1
  <2>3. parts = [i \in 1 .. n |-> Segment(OfRank(ranks[i]))]
    BY <1>1 DEF RanksIn
  <2>4. parts \in [1 .. n -> T]
    BY <2>2, <2>3
  <2>5. parts \in Seq(T) /\ Len(parts) = n
    BY <1>2, <2>4
  <2> QED
    BY <2>1, <2>5
<1>5. PICK m : LaidOut(o, Candidates, parts, m)
  BY <1>1, <1>4, FlattenIs
<1>6. o \in Seq(Candidates) /\ m \in [0 .. n -> Nat] /\ m[0] = 0
  BY <1>4, <1>5 DEF LaidOut
<1>7. PICK L \in Nat : L = Len(o)
  BY <1>6
<1>8. ASSUME NEW i \in 1 .. n, NEW j \in Nat \ {0}, j <= Len(parts[i])
      PROVE  /\ m[i - 1] + j \in 1 .. L /\ o[m[i - 1] + j] = parts[i][j]
             /\ parts[i][j] \in Candidates /\ rank[parts[i][j]] = ranks[i]
             /\ m[i - 1] + j <= m[i] /\ m[i - 1] < m[i - 1] + j
  <2>1. m[i - 1] + j \in 1 .. L /\ o[m[i - 1] + j] = parts[i][j]
    BY <1>4, <1>5, <1>7, <1>8 DEF LaidOut
  <2>2. parts[i] \in Seq(OfRank(ranks[i]))
    BY <1>3 DEF EachOnce
  <2>3. j \in 1 .. Len(parts[i])
    BY <1>8, <2>2
  <2>4. parts[i][j] \in OfRank(ranks[i])
    BY <2>2, <2>3
  <2>5. m[i] = m[i - 1] + Len(parts[i])
    BY <1>4, <1>5 DEF LaidOut
  <2>6. m[i - 1] \in Nat /\ Len(parts[i]) \in Nat
    <3>1. i - 1 \in 0 .. n
      BY <1>2
    <3> QED
      BY <1>6, <2>2, <3>1
  <2>7. m[i - 1] + j <= m[i] /\ m[i - 1] < m[i - 1] + j
    BY <1>8, <2>5, <2>6
  <2> QED
    BY <2>1, <2>4, <2>7 DEF OfRank
<1>9. ASSUME NEW k \in 1 .. L
      PROVE  \E i \in 1 .. n, j \in Nat \ {0} : j <= Len(parts[i]) /\ k = m[i - 1] + j
  BY <1>4, <1>5, <1>7, <1>9 DEF LaidOut
<1>10. ASSUME NEW h \in 0 .. n, NEW i \in 0 .. n, h <= i PROVE m[h] <= m[i]
  BY <1>4, <1>5, <1>10 DEF LaidOut
<1>11. ASSUME NEW k \in 1 .. L, NEW l \in 1 .. L, k < l PROVE rank[o[k]] <= rank[o[l]]
  <2>1. PICK i \in 1 .. n, a \in Nat \ {0} : a <= Len(parts[i]) /\ k = m[i - 1] + a
    BY <1>9
  <2>2. PICK j \in 1 .. n, b \in Nat \ {0} : b <= Len(parts[j]) /\ l = m[j - 1] + b
    BY <1>9
  <2>3. rank[o[k]] = ranks[i] /\ m[i - 1] < k
    <3>1. /\ o[m[i - 1] + a] = parts[i][a] /\ rank[parts[i][a]] = ranks[i]
          /\ m[i - 1] < m[i - 1] + a
      BY <1>8, <2>1
    <3> QED
      BY <2>1, <3>1
  <2>4. rank[o[l]] = ranks[j] /\ l <= m[j]
    <3>1. /\ o[m[j - 1] + b] = parts[j][b] /\ rank[parts[j][b]] = ranks[j]
          /\ m[j - 1] + b <= m[j]
      BY <1>8, <2>2
    <3> QED
      BY <2>2, <3>1
  <2>5. ~(j < i)
    <3> SUFFICES ASSUME j < i PROVE FALSE
      OBVIOUS
    <3>1. j \in 0 .. n /\ i - 1 \in 0 .. n /\ j <= i - 1
      BY <1>2
    <3>2. m[j] <= m[i - 1]
      BY <1>10, <3>1
    <3>3. m[j] \in Nat /\ m[i - 1] \in Nat
      BY <1>6, <3>1
    <3> QED
      BY <1>11, <2>3, <2>4, <3>2, <3>3
  <2>6. i = j \/ i < j
    BY <2>5
  <2>7. i < j => ranks[i] < ranks[j]
    BY <1>1 DEF RanksIn
  <2>8. ranks[i] \in Nat /\ ranks[j] \in Nat
    BY <1>2
  <2> QED
    BY <2>3, <2>4, <2>6, <2>7, <2>8
<1>12. ASSUME NEW k \in 1 .. L, NEW l \in 1 .. L, o[k] = o[l] PROVE k = l
  <2>1. PICK i \in 1 .. n, a \in Nat \ {0} : a <= Len(parts[i]) /\ k = m[i - 1] + a
    BY <1>9
  <2>2. PICK j \in 1 .. n, b \in Nat \ {0} : b <= Len(parts[j]) /\ l = m[j - 1] + b
    BY <1>9
  <2>3. o[k] = parts[i][a] /\ rank[o[k]] = ranks[i]
    <3>1. o[m[i - 1] + a] = parts[i][a] /\ rank[parts[i][a]] = ranks[i]
      BY <1>8, <2>1
    <3> QED
      BY <2>1, <3>1
  <2>4. o[l] = parts[j][b] /\ rank[o[l]] = ranks[j]
    <3>1. o[m[j - 1] + b] = parts[j][b] /\ rank[parts[j][b]] = ranks[j]
      BY <1>8, <2>2
    <3> QED
      BY <2>2, <3>1
  <2>5. ranks[i] = ranks[j] /\ ranks[i] \in Nat
    BY <1>2, <1>12, <2>3, <2>4
  <2>6. ~(i < j) /\ ~(j < i)
    <3>1. (i < j => ranks[i] < ranks[j]) /\ (j < i => ranks[j] < ranks[i])
      BY <1>1 DEF RanksIn
    <3> QED
      BY <2>5, <3>1
  <2>7. i = j
    BY <2>6
  <2>8. EachOnce(parts[i], OfRank(ranks[i]))
    BY <1>3
  <2>9. a \in 1 .. Len(parts[i]) /\ b \in 1 .. Len(parts[i])
    <3>1. Len(parts[i]) \in Nat
      BY <2>8 DEF EachOnce
    <3> QED
      BY <2>1, <2>2, <2>7, <3>1
  <2>10. parts[i][a] = parts[i][b]
    BY <1>12, <2>3, <2>4, <2>7
  <2>11. a = b
    BY <2>8, <2>9, <2>10 DEF EachOnce
  <2> QED
    BY <2>1, <2>2, <2>7, <2>11
<1>13. ASSUME NEW c \in Candidates PROVE \E k \in 1 .. L : o[k] = c
  <2>1. PICK i \in 1 .. n : rank[c] = ranks[i]
    BY <1>1 DEF RanksIn
  <2>2. c \in OfRank(ranks[i])
    BY <2>1 DEF OfRank
  <2>3. PICK j \in 1 .. Len(parts[i]) : parts[i][j] = c
    BY <1>3, <2>2 DEF EachOnce
  <2>4. Len(parts[i]) \in Nat
    BY <1>3
  <2>5. j \in Nat \ {0} /\ j <= Len(parts[i])
    BY <2>4
  <2> QED
    BY <1>8, <2>3, <2>5
<1>14. Len(o) = Cardinality(Candidates)
  <2>1. o \in [1 .. L -> Candidates]
    BY <1>6, <1>7
  <2>2. o \in Bijection(1 .. L, Candidates)
    BY <1>12, <1>13, <2>1, Fun_IsBij
  <2>3. ExistsBijection(1 .. L, Candidates)
    BY <2>2 DEF ExistsBijection
  <2>4. IsFiniteSet(1 .. L) /\ Cardinality(1 .. L) = L
    BY UpTo
  <2> QED
    BY <1>7, <2>3, <2>4, FS_Bijection
<1>15. DOMAIN o = 1 .. L
  BY <1>6, <1>7
<1>16. ToSet(o) = Candidates
  <2>1. \A k \in 1 .. L : o[k] \in Candidates
    BY <1>6, <1>7
  <2> QED
    BY <1>13, <1>15, <2>1 DEF ToSet
<1>17. ByRank(o)
  BY <1>11, <1>14, <1>15, <1>16 DEF ByRank
<1>18. L # 0 /\ o[1] = parts[1][1]
  <2>1. 1 \in 1 .. n /\ 1 - 1 = 0 /\ 1 \in Nat \ {0}
    BY <1>2
  <2>2. Len(parts[1]) \in Nat /\ Len(parts[1]) # 0
    BY <1>3, <2>1
  <2>3. 1 <= Len(parts[1])
    BY <2>2
  <2>4. m[1 - 1] + 1 \in 1 .. L /\ o[m[1 - 1] + 1] = parts[1][1]
    BY <1>8, <2>1, <2>3
  <2>5. m[1 - 1] + 1 = 1
    BY <1>6, <2>1
  <2> QED
    BY <2>4, <2>5
<1>19. Shares(Weighted(Best), Best) /\ parts[1][1] = FirstOf(Weighted(Best))
  <2>1. 1 \in 1 .. n
    BY <1>2
  <2>2. OfRank(ranks[1]) = Best
    BY <1>1, BestAre
  <2>3. parts[1] = Segment(OfRank(ranks[1])) /\ OfRank(ranks[1]) # {}
    BY <1>2, <1>3, <2>1
  <2> QED
    BY <2>2, <2>3, OfRankIs
<1> QED
  BY <1>6, <1>7, <1>17, <1>18, <1>19

-----------------------------------------------------------------------------
(* How often each has come first. *)

\* How often c is among the first r of all.
Count(all, c, r) == Cardinality({k \in 1 .. r : all[k] = c})

\* The counter has gone round q times, and r places further.
Rounds(all, q, r) ==
    /\ q \in Nat /\ r \in Nat /\ r < Len(all)
    /\ selection_rr = q * Len(all) + r
    /\ \A c \in Best : firsts[c] = q * EffectiveWeight(c) + Count(all, c, r)

RankInv ==
    /\ RankTyped
    /\ firsts \in [Ranked -> Nat]
    /\ order # <<>> => ByRank(order)
    /\ \A c \in Ranked \ Best : firsts[c] = 0
    /\ \E q, r : Rounds(Weighted(Best), q, r)

LEMMA CountOneMore ==
    ASSUME NEW all, NEW c, NEW r \in Nat
    PROVE  /\ Count(all, c, 0) = 0
           /\ Count(all, c, r) \in Nat
           /\ Count(all, c, r + 1) = Count(all, c, r) + (IF all[r + 1] = c THEN 1 ELSE 0)
<1>1. PICK S : S = {k \in 1 .. r : all[k] = c}
  OBVIOUS
<1>2. IsFiniteSet(S) /\ Cardinality(S) \in Nat
  <2>1. IsFiniteSet(1 .. r) /\ S \in SUBSET (1 .. r)
    BY <1>1, UpTo
  <2> QED
    BY <2>1, FS_Subset, FS_CardinalityType
<1>3. Count(all, c, r) = Cardinality(S)
  BY <1>1 DEF Count
<1>4. Count(all, c, 0) = 0
  <2>1. {k \in 1 .. 0 : all[k] = c} = {}
    OBVIOUS
  <2> QED
    BY <2>1, FS_EmptySet DEF Count
<1>5. r + 1 \notin S /\ \A k : k \in 1 .. r + 1 <=> (k \in 1 .. r \/ k = r + 1)
  BY <1>1
<1>6. CASE all[r + 1] = c
  <2>1. {k \in 1 .. r + 1 : all[k] = c} = S \cup {r + 1}
    BY <1>1, <1>5, <1>6
  <2>2. Cardinality(S \cup {r + 1}) = Cardinality(S) + 1
    BY <1>2, <1>5, FS_AddElement
  <2> QED
    BY <1>2, <1>3, <1>4, <1>6, <2>1, <2>2 DEF Count
<1>7. CASE all[r + 1] # c
  <2>1. {k \in 1 .. r + 1 : all[k] = c} = S
    BY <1>1, <1>5, <1>7
  <2>2. Count(all, c, r + 1) = Cardinality(S)
    BY <2>1 DEF Count
  <2> QED
    BY <1>2, <1>3, <1>4, <1>7, <2>2
<1> QED
  BY <1>6, <1>7

LEMMA BestShare ==
    ASSUME RankTyped
    PROVE  /\ Best \in SUBSET Ranked
           /\ Shares(Weighted(Best), Best)
           /\ \A c \in Best : EffectiveWeight(c) \in Nat \ {0}
<1>1. Best \in SUBSET Ranked
  BY CandidatesAre DEF Best
<1>2. Shares(Weighted(Best), Best)
  <2>1. PICK o : o = RankCandidates
    OBVIOUS
  <2> QED
    BY <2>1, RankingIs
<1>3. \A c \in Best : EffectiveWeight(c) \in Nat \ {0}
  BY <1>1, WeightIsPositive DEF RankTyped
<1> QED
  BY <1>1, <1>2, <1>3

LEMMA RankStarts == RankingInit => RankInv
<1> SUFFICES ASSUME RankingInit PROVE RankInv
  OBVIOUS
<1>1. RankTyped
  BY RankingAssumption DEF RankingInit, RankTyped
<1>2. firsts = [c \in Ranked |-> 0] /\ order = <<>> /\ selection_rr = 0
  BY DEF RankingInit
<1>3. Best \in SUBSET Ranked /\ Shares(Weighted(Best), Best)
      /\ \A c \in Best : EffectiveWeight(c) \in Nat \ {0}
  BY <1>1, BestShare
<1>4. PICK all : all = Weighted(Best)
  OBVIOUS
<1>5. Len(all) \in Nat \ {0}
  BY <1>3, <1>4 DEF Shares
<1>6. \A c \in Best : firsts[c] = 0 * EffectiveWeight(c) + Count(all, c, 0)
  <2>1. ASSUME NEW c \in Best PROVE firsts[c] = 0 * EffectiveWeight(c) + Count(all, c, 0)
    <3>1. Count(all, c, 0) = 0
      BY CountOneMore
    <3> QED
      BY <1>2, <1>3, <3>1
  <2> QED
    BY <2>1
<1>7. Rounds(all, 0, 0)
  BY <1>2, <1>5, <1>6 DEF Rounds
<1>8. firsts \in [Ranked -> Nat] /\ \A c \in Ranked \ Best : firsts[c] = 0
  BY <1>2
<1> QED
  BY <1>1, <1>2, <1>4, <1>7, <1>8 DEF RankInv

LEMMA RankGoesOn == RankInv /\ [RankingNext]_rankingVars => RankInv'
<1> SUFFICES ASSUME RankInv, [RankingNext]_rankingVars PROVE RankInv'
  OBVIOUS
<1>1. CASE UNCHANGED rankingVars
  <2>1. /\ eligible' = eligible /\ limited' = limited /\ rank' = rank /\ weight' = weight
        /\ selection_rr' = selection_rr /\ order' = order /\ firsts' = firsts
    BY <1>1 DEF rankingVars
  <2>2. RankTyped' = RankTyped
    BY <2>1 DEF RankTyped
  <2>3. Candidates' = Candidates /\ Best' = Best
    BY <2>1 DEF Candidates, Best
  <2>4. \A c : EffectiveWeight(c)' = EffectiveWeight(c)
    BY <2>1 DEF EffectiveWeight
  <2>5. Weighted(Best)' = Weighted(Best)
    BY <2>1, <2>3 DEF Weighted, EffectiveWeight
  <2>6. (order # <<>> => ByRank(order))'
    BY <2>1, <2>3 DEF ByRank, RankInv
  <2>7. PICK q, r : Rounds(Weighted(Best), q, r)
    BY DEF RankInv
  <2>8. Rounds(Weighted(Best), q, r)'
    BY <2>1, <2>3, <2>4, <2>5, <2>7 DEF Rounds
  <2>9. (\E a, b : Rounds(Weighted(Best), a, b))'
    BY <2>8
  <2> QED
    BY <2>1, <2>2, <2>3, <2>6, <2>9 DEF RankInv
<1>2. CASE Request
  <2>1. /\ eligible' = eligible /\ limited' = limited /\ rank' = rank /\ weight' = weight
        /\ selection_rr' = selection_rr + 1
    BY <1>2 DEF Request
  <2>2. RankTyped /\ firsts \in [Ranked -> Nat] /\ \A c \in Ranked \ Best : firsts[c] = 0
    BY DEF RankInv
  <2>3. RankTyped'
    BY <2>1, <2>2 DEF RankTyped
  <2>4. Candidates' = Candidates /\ Best' = Best
    BY <2>1 DEF Candidates, Best
  <2>5. \A c : EffectiveWeight(c)' = EffectiveWeight(c)
    BY <2>1 DEF EffectiveWeight
  <2>6. PICK all : all = Weighted(Best)
    OBVIOUS
  <2>7. Weighted(Best)' = all
    BY <2>1, <2>4, <2>6 DEF Weighted, EffectiveWeight
  <2>8. PICK o : o = RankCandidates
    OBVIOUS
  <2>9. order' = o /\ firsts' = [firsts EXCEPT ![o[1]] = @ + 1]
    BY <1>2, <2>8 DEF Request
  <2>10. /\ ByRank(o) /\ Shares(all, Best) /\ o[1] = FirstOf(all)
    BY <2>2, <2>6, <2>8, RankingIs
  <2>11. ByRank(o)'
    BY <2>1, <2>4, <2>10 DEF ByRank
  <2>12. PICK q \in Nat, r \in Nat : Rounds(all, q, r)
    BY <2>6 DEF RankInv, Rounds
  <2>13. PICK W \in Nat \ {0} : W = Len(all)
    BY <2>10 DEF Shares
  <2>14. r < W /\ selection_rr = q * W + r
    BY <2>12, <2>13 DEF Rounds
  <2>15. selection_rr % W = r
    BY <2>14, Remainder
  <2>16. PICK best : best = o[1]
    OBVIOUS
  <2>17. best = all[r + 1]
    BY <2>10, <2>13, <2>15, <2>16 DEF FirstOf
  <2>18. Best \in SUBSET Ranked /\ \A c \in Best : EffectiveWeight(c) \in Nat \ {0}
    BY <2>2, BestShare
  <2>19. best \in Best
    <3>1. r + 1 \in 1 .. W
      BY <2>14
    <3> QED
      BY <2>10, <2>13, <2>17, <3>1 DEF Shares
  <2>20. firsts' = [firsts EXCEPT ![best] = @ + 1]
    BY <2>9, <2>16
  <2>21. firsts' \in [Ranked -> Nat]
    BY <2>2, <2>18, <2>19, <2>20
  <2>22. \A c \in Ranked \ Best : firsts'[c] = 0
    BY <2>2, <2>19, <2>20
  <2>23. ASSUME NEW c \in Best
         PROVE  firsts'[c] = q * EffectiveWeight(c) + Count(all, c, r + 1)
    <3>1. firsts[c] = q * EffectiveWeight(c) + Count(all, c, r)
      BY <2>12 DEF Rounds
    <3>2. PICK v \in Nat : v = q * EffectiveWeight(c)
      BY <2>18
    <3>3. PICK u \in Nat : u = Count(all, c, r)
      BY CountOneMore
    <3>4. Count(all, c, r + 1) = u + (IF best = c THEN 1 ELSE 0)
      BY <2>17, <3>3, CountOneMore
    <3>5. firsts'[c] = firsts[c] + (IF best = c THEN 1 ELSE 0) /\ firsts[c] = v + u
      BY <2>2, <2>18, <2>20, <3>1, <3>2, <3>3
    <3> QED
      BY <3>2, <3>4, <3>5
  <2>24. \E a, b : Rounds(all, a, b)'
    <3>1. CASE r + 1 < W
      <4>1. selection_rr + 1 = q * W + (r + 1)
        BY <2>14
      <4>2. Rounds(all, q, r + 1)'
        BY <2>1, <2>4, <2>5, <2>13, <2>23, <3>1, <4>1 DEF Rounds
      <4> QED
        BY <4>2
    <3>2. CASE ~(r + 1 < W)
      <4>1. r + 1 = W
        BY <2>14, <3>2
      <4>2. selection_rr + 1 = (q + 1) * W + 0
        BY <2>14, <4>1
      <4>3. ASSUME NEW c \in Best
            PROVE  firsts'[c] = (q + 1) * EffectiveWeight(c) + Count(all, c, 0)
        <5>1. Count(all, c, W) = EffectiveWeight(c)
          BY <2>10, <2>13 DEF Shares, Count
        <5>2. firsts'[c] = q * EffectiveWeight(c) + EffectiveWeight(c)
          BY <2>23, <4>1, <5>1
        <5>3. PICK w \in Nat : w = EffectiveWeight(c)
          BY <2>18
        <5>4. Count(all, c, 0) = 0
          BY CountOneMore
        <5>5. q * w + w = (q + 1) * w + 0
          OBVIOUS
        <5> QED
          BY <5>2, <5>3, <5>4, <5>5
      <4>4. Rounds(all, q + 1, 0)'
        BY <2>1, <2>4, <2>5, <2>13, <4>2, <4>3 DEF Rounds
      <4> QED
        BY <4>4
    <3> QED
      BY <3>1, <3>2
  <2> QED
    BY <2>3, <2>4, <2>7, <2>9, <2>11, <2>21, <2>22, <2>24 DEF RankInv
<1> QED
  BY <1>1, <1>2 DEF RankingNext

LEMMA RankInvShares == RankInv => SharedByWeight
<1> SUFFICES ASSUME RankInv PROVE SharedByWeight
  OBVIOUS
<1>1. EachOnceByRank
  BY DEF RankInv, ByRank, EachOnceByRank
<1>2. \A c \in Ranked \ Best : firsts[c] = 0
  BY DEF RankInv
<1>3. ASSUME selection_rr % WeightOf(Best) = 0, NEW c \in Best
      PROVE  firsts[c] * WeightOf(Best) = selection_rr * EffectiveWeight(c)
  <2>1. RankTyped
    BY DEF RankInv
  <2>2. PICK all : all = Weighted(Best)
    OBVIOUS
  <2>3. Shares(all, Best) /\ EffectiveWeight(c) \in Nat \ {0}
    BY <2>1, <2>2, BestShare
  <2>4. PICK W \in Nat \ {0} : W = Len(all) /\ W = WeightOf(Best)
    BY <2>3 DEF Shares
  <2>5. PICK q \in Nat, r \in Nat : Rounds(all, q, r)
    BY <2>2 DEF RankInv, Rounds
  <2>6. r < W /\ selection_rr = q * W + r /\ firsts[c] = q * EffectiveWeight(c) + Count(all, c, r)
    BY <2>4, <2>5 DEF Rounds
  <2>7. r = 0
    <3>1. selection_rr % W = r
      BY <2>6, Remainder
    <3> QED
      BY <1>3, <2>4, <3>1
  <2>8. PICK w \in Nat : w = EffectiveWeight(c)
    BY <2>3
  <2>9. Count(all, c, r) = 0
    BY <2>7, CountOneMore
  <2>10. firsts[c] = q * w /\ selection_rr = q * W
    BY <2>6, <2>7, <2>8, <2>9
  <2>11. (q * w) * W = (q * W) * w
    OBVIOUS
  <2> QED
    BY <2>4, <2>8, <2>10, <2>11
<1> QED
  BY <1>1, <1>2, <1>3 DEF SharedByWeight

\* SharedByWeight, for any credentials, ranks and weights and any number of requests: every
\* candidate is tried, once, by rank, and the best come first as often as they weigh.
THEOREM LoadIsSharedByWeight == RankingSpec => []SharedByWeight
<1>1. RankingSpec => []RankInv
  BY RankStarts, RankGoesOn, PTL DEF RankingSpec
<1> QED
  BY <1>1, RankInvShares, PTL

=============================================================================
