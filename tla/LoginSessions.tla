---------------------------- MODULE LoginSessions ----------------------------
(***************************************************************************)
(* Adding a credential by signing in (admin/service.rs, kiro/auth): social  *)
(* login with a pasted callback ("manual") or with the helper program       *)
(* ("helper"), IAM Identity Center and Builder ID with a device code        *)
(* ("idc", "builder"), IAM SSO with an authorization code ("iam"), and the  *)
(* hosted sign-in of Kiro ("kiro"), whose callbacks a server task collects. *)
(*                                                                          *)
(* A session sits in the map of its flow until somebody removes it.  The    *)
(* handlers look it up, let go of the map, talk to the upstream and come    *)
(* back, so polls and completions of one session overlap.  Sessions do not  *)
(* touch each other: one is enough.                                         *)
(***************************************************************************)
EXTENDS FiniteSets

CONSTANTS
    Flows,                  \* the kinds of login that are started
    Handlers                \* the requests that work on the session at a time

LoginFlows == {"manual", "helper", "idc", "builder", "iam", "kiro"}

ASSUME LoginAssumption == Flows \subseteq LoginFlows /\ IsFiniteSet(Handlers)

VARIABLES
    flow,                   \* of the session, "none" before the start
    open,                   \* the session is in its map
    timeUp,                 \* expires_at has passed
    result, completing,     \* helper_result, helper_completing
    grant,                  \* what the user gave the upstream: a code or a device code
    server, channel,        \* the callback server of kiro, and its oneshot channel
    lpc, token,             \* of each handler; token: it got tokens from the upstream
    added, refused,         \* history: a credential was added; was refused
    dropped                 \* history: tokens went away with the client's handler

sessionVars == <<flow, open, timeUp, result, completing>>
kiroVars == <<server, channel>>
handlerVars == <<lpc, token>>
historyVars == <<added, refused, dropped>>
loginVars == <<sessionVars, kiroVars, handlerVars, historyVars, grant>>

LoginPC == {"idle", "claim", "poll", "exchange", "enrich", "write", "answered", "add",
            "callback", "capture", "expire", "report"}

Goto(t, label) == lpc' = [lpc EXCEPT ![t] = label]
Return(t) == Goto(t, "idle") /\ token' = [token EXCEPT ![t] = FALSE]

\* The handler goes on at label; nothing else changes.
Step(t, label) ==
    /\ Goto(t, label)
    /\ UNCHANGED <<sessionVars, kiroVars, historyVars, grant, token>>

LoginInit ==
    /\ flow = "none" /\ open = FALSE /\ timeUp = FALSE
    /\ result = "none" /\ completing = FALSE
    /\ grant = "pending"
    /\ server = "off" /\ channel = "empty"
    /\ lpc = [t \in Handlers |-> "idle"] /\ token = [t \in Handlers |-> FALSE]
    /\ added = FALSE /\ refused = FALSE /\ dropped = FALSE

-----------------------------------------------------------------------------
(* The start of a session. *)

Started(f) ==
    /\ flow = "none" /\ f \in Flows
    /\ flow' = f /\ open' = TRUE
    /\ UNCHANGED <<timeUp, result, completing, channel, handlerVars, historyVars, grant>>

StartSocial == \E f \in {"manual", "helper"} : Started(f) /\ UNCHANGED server
StartIdc == Started("idc") /\ UNCHANGED server
StartBuilderId == Started("builder") /\ UNCHANGED server
StartIamSso == Started("iam") /\ UNCHANGED server
StartKiroSso == Started("kiro") /\ server' = "leg1"

\* The user signs in (in any browser, at any time).
SignIn ==
    /\ flow # "none" /\ grant = "pending"
    /\ grant' = "granted"
    /\ UNCHANGED <<sessionVars, kiroVars, handlerVars, historyVars>>

Expire ==
    /\ flow # "none" /\ ~timeUp
    /\ timeUp' = TRUE
    /\ UNCHANGED <<flow, open, result, completing, kiroVars, handlerVars, historyVars, grant>>

\* What the handlers do with a session that is over: expired, cancelled, or with
\* an answer for the poll.
RemoveSession(t) ==
    /\ lpc[t] \in {"expire", "report"}
    /\ open' = FALSE
    /\ Return(t)
    /\ UNCHANGED <<flow, timeUp, result, completing, kiroVars, historyVars, grant>>

\* The handler has tokens, the session is gone; add_credential tells the rest.
TakeTokens(t) ==
    /\ token' = [token EXCEPT ![t] = TRUE]
    /\ Goto(t, "add")

\* The upstream gives tokens once for what the user granted.
Redeem(t, label) ==
    /\ grant = "granted"
    /\ grant' = "spent"
    /\ token' = [token EXCEPT ![t] = TRUE]
    /\ Goto(t, label)
    /\ UNCHANGED <<sessionVars, kiroVars, historyVars>>

-----------------------------------------------------------------------------
(* Social login. *)

\* A poll only reports; what the helper brought is taken out of the session here
\* and the session is removed later.
PollSocial(t) ==
    /\ flow \in {"manual", "helper"} /\ open /\ lpc[t] = "idle"
    /\ IF result # "none"
         THEN result' = "none" /\ Goto(t, "report")
         ELSE timeUp /\ ~completing /\ Goto(t, "expire") /\ UNCHANGED result
    /\ UNCHANGED <<flow, open, timeUp, completing, kiroVars, historyVars, grant, token>>

\* The pasted callback: the checks ...
CompleteManual(t) ==
    /\ flow = "manual" /\ open /\ lpc[t] = "idle"
    /\ Step(t, IF timeUp THEN "expire" ELSE "claim")

\* ... and the removal of the session, which only one handler can do.
ClaimManual(t) ==
    /\ lpc[t] = "claim"
    /\ IF open THEN Goto(t, "exchange") /\ UNCHANGED token ELSE Return(t)
    /\ open' = FALSE
    /\ UNCHANGED <<flow, timeUp, result, completing, kiroVars, historyVars, grant>>

\* exchange_code_for_token
ExchangeSocialCode(t) ==
    /\ flow = "manual" /\ lpc[t] = "exchange"
    /\ \/ Redeem(t, "enrich")
       \/ Step(t, "idle")

\* The helper brings tokens; while they are looked at nobody else may, and the
\* session does not expire.
CompleteHelper(t) ==
    /\ flow = "helper" /\ open /\ lpc[t] = "idle"
    /\ ~completing /\ result = "none" /\ ~timeUp
    /\ completing' = TRUE
    /\ Goto(t, "enrich") /\ token' = [token EXCEPT ![t] = TRUE]
    /\ UNCHANGED <<flow, open, timeUp, result, kiroVars, historyVars, grant>>

\* enrich_social_login_credential asks the upstream who it is, and a banned or
\* unknown credential is not added ...
EnrichSocial(t) ==
    /\ lpc[t] = "enrich"
    /\ \/ added' = TRUE /\ token' = [token EXCEPT ![t] = (flow = "helper")] /\ UNCHANGED refused
       \/ refused' = TRUE /\ token' = [token EXCEPT ![t] = FALSE] /\ UNCHANGED added
    /\ Goto(t, IF flow = "helper" THEN "write" ELSE "idle")
    /\ UNCHANGED <<sessionVars, kiroVars, grant, dropped>>

\* ... and the result goes into the helper's session, if it is still there.
WriteHelperResult(t) ==
    /\ lpc[t] = "write"
    /\ IF open THEN completing' = FALSE /\ result' = IF token[t] THEN "ok" ELSE "failed"
               ELSE UNCHANGED <<completing, result>>
    /\ Return(t)
    /\ UNCHANGED <<flow, open, timeUp, kiroVars, historyVars, grant>>

-----------------------------------------------------------------------------
(* Device codes. *)

PollDevice(t, f) ==
    /\ flow = f /\ open /\ lpc[t] = "idle"
    /\ Step(t, IF timeUp THEN "expire" ELSE "poll")

\* poll_token: pending and slow_down leave everything as it is, an error ends the
\* session (whatever the other polls of it do).
PollToken(t) ==
    /\ lpc[t] = "poll"
    /\ \/ Redeem(t, "answered")
       \/ grant = "pending" /\ Step(t, "idle")
       \/ Step(t, "answered")

\* Fault: tokens count only if the session is still there.
HandleTokenIfOpen(t, f) ==
    /\ flow = f /\ lpc[t] = "answered"
    /\ open' = FALSE
    /\ IF token[t] /\ open THEN TakeTokens(t) ELSE Return(t)
    /\ UNCHANGED <<flow, timeUp, result, completing, kiroVars, historyVars, grant>>

\* The answer removes the session; tokens are added even if another poll did.
HandleToken(t, f) ==
    /\ flow = f /\ lpc[t] = "answered"
    /\ open' = FALSE
    /\ IF token[t] THEN TakeTokens(t) ELSE Return(t)
    /\ UNCHANGED <<flow, timeUp, result, completing, kiroVars, historyVars, grant>>

PollIdc(t) == PollDevice(t, "idc") \/ HandleToken(t, "idc")
PollBuilderId(t) == PollDevice(t, "builder") \/ HandleToken(t, "builder")

-----------------------------------------------------------------------------
(* IAM SSO: the session stays until the code has been exchanged. *)

CompleteIamSso(t) ==
    \/ /\ flow = "iam" /\ open /\ lpc[t] = "idle"
       /\ Step(t, IF timeUp THEN "expire" ELSE "exchange")
    \/ HandleToken(t, "iam")

ExchangeIamCode(t) ==
    /\ flow = "iam" /\ lpc[t] = "exchange"
    /\ \/ Redeem(t, "answered")
       \/ Step(t, "idle")

-----------------------------------------------------------------------------
(* Kiro's hosted sign-in. *)

\* complete_kiro_sso_login_callback hands a callback to the server ...
SubmitKiroCallback(t) ==
    /\ flow = "kiro" /\ open /\ lpc[t] = "idle"
    /\ Step(t, IF timeUp THEN "expire" ELSE "callback")

\* ... which waits for a second leg after a descriptor of an external IdP, sends a
\* code to the channel, or fails; the last two end it.
HandleCallback(t) ==
    /\ lpc[t] = "callback"
    /\ \/ server = "leg1" /\ server' = "leg2" /\ UNCHANGED channel
       \/ UNCHANGED kiroVars
       \/ server \in {"leg1", "leg2"} /\ server' = "ended" /\ channel' = "closed"
       \/ server \in {"leg1", "leg2"} /\ grant = "granted" /\ server' = "ended" /\ channel' = "sent"
    /\ Return(t)
    /\ UNCHANGED <<sessionVars, historyVars, grant>>

\* The server also ends when the session is gone, and at its own deadline, which
\* is a moment before the session's.
EndCallbackServer ==
    /\ server \in {"leg1", "leg2"}
    /\ server' = "ended" /\ channel' = "closed"
    /\ UNCHANGED <<sessionVars, handlerVars, historyVars, grant>>

CancelKiroSso ==
    /\ flow = "kiro" /\ open
    /\ open' = FALSE
    /\ UNCHANGED <<flow, timeUp, result, completing, kiroVars, handlerVars, historyVars, grant>>

\* A oneshot channel whose value was taken looks closed.
PollKiroSso(t) ==
    /\ flow = "kiro" /\ open /\ lpc[t] = "idle"
    /\ \/ (timeUp \/ channel \in {"closed", "taken"}) /\ Goto(t, "expire") /\ UNCHANGED channel
       \/ ~timeUp /\ channel = "sent" /\ channel' = "taken" /\ Goto(t, "capture")
    /\ UNCHANGED <<sessionVars, server, historyVars, grant, token>>

\* complete_kiro_sso_login takes the session away and exchanges the code.
CompleteKiroSso(t) ==
    \/ /\ lpc[t] = "capture"
       /\ open' = FALSE
       /\ IF open THEN Goto(t, "exchange") /\ UNCHANGED token ELSE Return(t)
       /\ UNCHANGED <<flow, timeUp, result, completing, kiroVars, historyVars, grant>>
    \/ /\ flow = "kiro" /\ lpc[t] = "exchange"
       /\ Redeem(t, "add") \/ Step(t, "idle")

-----------------------------------------------------------------------------
\* add_credential, for all but social logins.
AddSignedIn(t) ==
    /\ lpc[t] = "add"
    /\ \/ added' = TRUE /\ UNCHANGED refused
       \/ refused' = TRUE /\ UNCHANGED added
    /\ Return(t)
    /\ UNCHANGED <<sessionVars, kiroVars, grant, dropped>>

\* The client of a handler that waits for the upstream goes away, and the handler's
\* future is dropped there, with the tokens that are on their way to it.
ClientGone(t) ==
    /\ lpc[t] \in {"poll", "answered", "exchange", "enrich", "add"}
    /\ dropped' = (dropped \/ token[t])
    /\ Return(t)
    /\ UNCHANGED <<sessionVars, kiroVars, grant, added, refused>>

HandlerStep(t) ==
    \/ RemoveSession(t) \/ ClientGone(t) \/ AddSignedIn(t)
    \/ PollSocial(t) \/ CompleteManual(t) \/ ClaimManual(t) \/ ExchangeSocialCode(t)
    \/ CompleteHelper(t) \/ EnrichSocial(t) \/ WriteHelperResult(t)
    \/ PollIdc(t) \/ PollBuilderId(t) \/ PollToken(t)
    \/ CompleteIamSso(t) \/ ExchangeIamCode(t)
    \/ SubmitKiroCallback(t) \/ HandleCallback(t) \/ PollKiroSso(t) \/ CompleteKiroSso(t)

LoginNext ==
    \/ StartSocial \/ StartIdc \/ StartBuilderId \/ StartIamSso \/ StartKiroSso
    \/ SignIn \/ Expire \/ EndCallbackServer \/ CancelKiroSso
    \/ \E t \in Handlers : HandlerStep(t)

LoginSpec == LoginInit /\ [][LoginNext]_loginVars

-----------------------------------------------------------------------------
LoginTypeOK ==
    /\ flow \in LoginFlows \cup {"none"}
    /\ open \in BOOLEAN /\ timeUp \in BOOLEAN /\ completing \in BOOLEAN
    /\ result \in {"none", "ok", "failed"}
    /\ grant \in {"pending", "granted", "spent"}
    /\ server \in {"off", "leg1", "leg2", "ended"}
    /\ channel \in {"empty", "sent", "taken", "closed"}
    /\ lpc \in [Handlers -> LoginPC] /\ token \in [Handlers -> BOOLEAN]
    /\ added \in BOOLEAN /\ refused \in BOOLEAN /\ dropped \in BOOLEAN

\* What the user granted is used, and used once.  One handler at a time completes a
\* login whose tokens nobody else counts: the pasted callback, the answer of the helper
\* and the captured code, however often they are sent.  And once the upstream has given
\* tokens they are with a handler, or a credential was added or refused, unless the
\* client that would have got them went away: another poll's error, an expiry or a
\* cancellation does not change that.
GrantUsedOnce ==
    /\ flow \in {"manual", "helper", "kiro"} =>
           \A t, u \in Handlers :
               {lpc[t], lpc[u]} \subseteq {"exchange", "enrich", "write"} => t = u
    /\ grant = "spent" => added \/ refused \/ dropped \/ \E t \in Handlers : token[t]

=============================================================================
