----------------------------- MODULE TokenRefresh -----------------------------
(***************************************************************************)
(* Renewing the tokens of one credential (kiro/token_manager.rs):           *)
(* try_ensure_token for requests, get_usage_limits_for and                  *)
(* get_credentials_and_token for the rest, refresh_token_for_credential in  *)
(* the background, force_refresh_token_for, and resolve_profile_arn_for.    *)
(*                                                                          *)
(* A refresh sends the refresh token of a copy of the credential, and       *)
(* writes the whole copy back with the tokens it got.  The upstream may     *)
(* answer with a new refresh token, which ends the old one: refresh tokens  *)
(* are numbered in the order they are issued.  The lock is per credential,  *)
(* so one credential is enough.                                             *)
(***************************************************************************)
EXTENDS Integers

CONSTANTS
    Tasks,                  \* requests, administrators, the background task
    Kinds,                  \* which of the callers exist
    MaxToken,               \* bound on the refresh tokens issued
    NoTask                  \* the lock is free

CallerKinds == {"ensure", "usage", "background", "reprobe", "force", "resolve"}

ASSUME RefreshAssumption ==
    /\ NoTask \notin Tasks
    /\ Kinds \subseteq CallerKinds
    /\ MaxToken \in Nat

VARIABLES
    cred,                   \* the credential in entries
    invalid,                \* disabled for an invalid refresh token
    lock,                   \* refresh_locks: who holds it
    live,                   \* the refresh token the upstream accepts
    pc, kind, copy,         \* the tasks; copy is their clone of the credential
    answer,                 \* what the upstream answered to a task
    lost,                   \* history: an answer with a new token never arrived
    unlocked                \* history: a refresh began without the lock

taskVars == <<pc, kind, copy, answer>>
refreshVars == <<cred, invalid, lock, live, taskVars, lost, unlocked>>

RefreshPC == {"idle", "lock", "exchange", "receive", "report", "lookup", "bare"}
Ages == {"fresh", "soon", "expired"}
TokenIds == 0 .. MaxToken
Tokens == [token : TokenIds, age : Ages, arn : BOOLEAN]
NoAnswer == [ok |-> FALSE, token |-> 0, why |-> "none"]
Answers == [ok : BOOLEAN, token : TokenIds, why : {"none", "network", "invalid_grant"}]

Move(t, label) == pc' = [pc EXCEPT ![t] = label]

\* is_token_expired or is_token_expiring_soon
NeedsRefresh(c) == c.age # "fresh"

\* The callers that look again when they have the lock.
DoubleChecks(t) == kind[t] \in {"ensure", "usage", "resolve"}

NoCopy == [token |-> 0, age |-> "expired", arn |-> FALSE]

\* The call returns to its caller.
Done(t) ==
    /\ Move(t, "idle")
    /\ kind' = [kind EXCEPT ![t] = "ensure"]
    /\ copy' = [copy EXCEPT ![t] = NoCopy]
    /\ answer' = [answer EXCEPT ![t] = NoAnswer]

\* The call goes on at label with c for its copy.
Continue(t, label, c) ==
    /\ Move(t, label)
    /\ copy' = [copy EXCEPT ![t] = c]
    /\ answer' = [answer EXCEPT ![t] = NoAnswer]
    /\ UNCHANGED kind

RefreshInit ==
    /\ cred = [token |-> 0, age |-> "fresh", arn |-> FALSE]
    /\ invalid = FALSE
    /\ lock = NoTask
    /\ live = 0
    /\ pc = [t \in Tasks |-> "idle"]
    /\ kind = [t \in Tasks |-> "ensure"]
    /\ copy = [t \in Tasks |-> NoCopy]
    /\ answer = [t \in Tasks |-> NoAnswer]
    /\ lost = FALSE /\ unlocked = FALSE

-----------------------------------------------------------------------------
\* The copy before the lock; with a token that is good for a while most callers
\* have what they need.  A disabled credential gets no requests; the background
\* task refreshes it as a reprobe.
StartRefresh(t, k) ==
    /\ pc[t] = "idle"
    /\ k \in {"ensure", "background"} => ~invalid
    /\ k = "reprobe" => invalid
    /\ k = "resolve" => ~cred.arn
    /\ k \in {"ensure", "usage"} => NeedsRefresh(cred)
    /\ kind' = [kind EXCEPT ![t] = k]
    /\ copy' = [copy EXCEPT ![t] = cred]
    /\ Move(t, IF k = "resolve" /\ ~NeedsRefresh(cred) THEN "lookup" ELSE "lock")
    /\ UNCHANGED <<cred, invalid, lock, live, answer, lost, unlocked>>

\* Fault: nobody looks at the credential again once the lock is taken.
TakeLockBlindly(t) ==
    /\ pc[t] = "lock" /\ lock = NoTask
    /\ lock' = t
    /\ Continue(t, "exchange", copy[t])
    /\ UNCHANGED <<cred, invalid, live, lost, unlocked>>

\* Lock, and for those that check twice the copy again; if another task has
\* refreshed meanwhile there is nothing left to do.
TakeLock(t) ==
    /\ pc[t] = "lock" /\ lock = NoTask
    /\ IF ~DoubleChecks(t)
         THEN lock' = t /\ Continue(t, "exchange", copy[t])
         ELSE IF NeedsRefresh(cred)
         THEN lock' = t /\ Continue(t, "exchange", cred)
         ELSE /\ UNCHANGED lock
              /\ IF kind[t] = "resolve" THEN Continue(t, "lookup", cred) ELSE Done(t)
    /\ UNCHANGED <<cred, invalid, live, lost, unlocked>>

\* refresh_token, as the upstream sees it.
Exchange(t) ==
    /\ pc[t] \in {"exchange", "bare"}
    /\ \/ /\ copy[t].token = live
          /\ \/ UNCHANGED live
             \/ live' = live + 1 /\ live' \in TokenIds
          /\ answer' = [answer EXCEPT ![t] = [ok |-> TRUE, token |-> live', why |-> "none"]]
       \/ /\ \/ copy[t].token # live /\ answer' = [answer EXCEPT ![t].why = "invalid_grant"]
             \/ answer' = [answer EXCEPT ![t].why = "network"]
          /\ UNCHANGED live
    /\ Move(t, "receive")
    /\ UNCHANGED <<cred, invalid, lock, kind, copy, lost, unlocked>>

Release(t) == lock' = IF lock = t THEN NoTask ELSE lock

\* The answer does not arrive, or the client of a request goes away while it
\* waits for it and the future is dropped.
LoseAnswer(t) ==
    /\ pc[t] = "receive"
    /\ lost' = (lost \/ (answer[t].ok /\ answer[t].token # copy[t].token))
    /\ Release(t) /\ Done(t)
    /\ UNCHANGED <<cred, invalid, live, unlocked>>

\* Tokens: the copy goes back whole, with the new ones, and with a profile ARN if
\* the answer has one.  A reprobe enables the credential.
StoreTokens(t) ==
    /\ pc[t] = "receive" /\ lock = t /\ answer[t].ok
    /\ \E arn \in {copy[t].arn, TRUE} :
           cred' = [token |-> answer[t].token, age |-> "fresh", arn |-> arn]
    /\ invalid' = IF kind[t] = "reprobe" THEN FALSE ELSE invalid
    /\ Release(t)
    /\ IF kind[t] = "resolve" THEN Continue(t, "lookup", cred') ELSE Done(t)
    /\ UNCHANGED <<live, lost, unlocked>>

\* An error: a request whose token has expired reports it, all others give up or
\* use the token they have.
RefreshFails(t) ==
    /\ pc[t] = "receive" /\ lock = t /\ ~answer[t].ok
    /\ Release(t)
    /\ IF /\ kind[t] = "ensure" /\ copy[t].age = "expired"
          /\ answer[t].why = "invalid_grant"
         THEN Continue(t, "report", copy[t]) ELSE Done(t)
    /\ UNCHANGED <<cred, invalid, live, lost, unlocked>>

\* report_refresh_token_invalid
ReportInvalid(t) ==
    /\ pc[t] = "report"
    /\ invalid' = TRUE
    /\ Done(t)
    /\ UNCHANGED <<cred, lock, live, lost, unlocked>>

-----------------------------------------------------------------------------
(* resolve_profile_arn_for, once it has an access token. *)

\* ListAvailableProfiles tells the ARN ...
LookupArn(t) ==
    /\ pc[t] = "lookup"
    /\ cred' = [cred EXCEPT !.arn = TRUE]
    /\ Done(t)
    /\ UNCHANGED <<invalid, lock, live, lost, unlocked>>

\* ... or a refresh has to, without the lock ...
LookupFails(t) ==
    /\ pc[t] = "lookup"
    /\ Continue(t, "bare", copy[t])
    /\ unlocked' = TRUE
    /\ UNCHANGED <<cred, invalid, lock, live, lost>>

\* ... whose tokens are stored only if they come with an ARN.
FinishBareRefresh(t) ==
    /\ pc[t] = "receive" /\ lock # t
    /\ \/ /\ answer[t].ok
          /\ cred' = [token |-> answer[t].token, age |-> "fresh", arn |-> TRUE]
       \/ UNCHANGED cred
    /\ Done(t)
    /\ UNCHANGED <<invalid, lock, live, lost, unlocked>>

Older(c) == [c EXCEPT !.age = IF c.age = "fresh" THEN "soon" ELSE "expired"]

\* Time: every token gets older at once.
Age ==
    /\ cred' = Older(cred)
    /\ copy' = [t \in Tasks |-> Older(copy[t])]
    /\ UNCHANGED <<invalid, lock, live, pc, kind, answer, lost, unlocked>>

TaskStep(t) ==
    \/ \E k \in Kinds : StartRefresh(t, k)
    \/ TakeLock(t) \/ Exchange(t) \/ LoseAnswer(t)
    \/ StoreTokens(t) \/ RefreshFails(t) \/ ReportInvalid(t)
    \/ LookupArn(t) \/ LookupFails(t) \/ FinishBareRefresh(t)

RefreshNext == Age \/ \E t \in Tasks : TaskStep(t)

RefreshSpec == RefreshInit /\ [][RefreshNext]_refreshVars

-----------------------------------------------------------------------------
\* Types; and who has the lock is in the middle of a refresh: however a refresh
\* ends, it gives the lock back.
RefreshTypeOK ==
    /\ cred \in Tokens /\ invalid \in BOOLEAN /\ lost \in BOOLEAN /\ unlocked \in BOOLEAN
    /\ lock \in Tasks \cup {NoTask}
    /\ live \in TokenIds
    /\ pc \in [Tasks -> RefreshPC] /\ kind \in [Tasks -> CallerKinds]
    /\ copy \in [Tasks -> Tokens] /\ answer \in [Tasks -> Answers]
    /\ \A t \in Tasks : lock = t => pc[t] \in {"exchange", "receive"}

AnswerUnderWay == \E t \in Tasks : pc[t] = "receive"

\* As long as every answer arrives and every refresh is under the lock, no credential is
\* declared invalid, and the refresh token in memory is the one the upstream accepts
\* whenever no answer is on its way: copies from before the lock are sent, but they
\* cannot replace what another task stored.
RefreshTokenKept ==
    ~lost /\ ~unlocked => ~invalid /\ (~AnswerUnderWay => cred.token = live)

=============================================================================
