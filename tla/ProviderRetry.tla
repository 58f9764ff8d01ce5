---------------------------- MODULE ProviderRetry ----------------------------
(***************************************************************************)
(* One call of KiroProvider (kiro/provider.rs): the loop over attempts of   *)
(* call_api_with_retry ("api", a conversation) and of call_mcp_with_retry   *)
(* ("mcp", a tool such as WebSearch), try_single_endpoint and the fallback  *)
(* to other endpoints, what is reported to the token manager, and what the  *)
(* handlers tell the client when the call fails.                            *)
(*                                                                          *)
(* Which credential an attempt gets is the token manager's choice among     *)
(* those the call does not exclude; that acquiring one may fail stands for  *)
(* everything else that keeps credentials away.  An answer of the upstream  *)
(* is one of a few kinds.  Waiting between attempts is left out.            *)
(***************************************************************************)
EXTENDS Integers, FiniteSets, Sequences

CONSTANTS
    Creds,
    Alternatives,           \* number of endpoints to fall back to
    PoolProxies             \* that a credential can be rebound to

ASSUME ProviderAssumption ==
    /\ IsFiniteSet(Creds) /\ Creds # {}
    /\ Alternatives \in Nat
    /\ IsFiniteSet(PoolProxies) /\ "direct" \notin PoolProxies

VARIABLES
    call,                   \* "none" before the start
    stage, attempt, ctx,    \* where the loop is; ctx is the credential of the attempt
    endpoint,               \* 0, or the alternative that is tried
    lastError,
    excluded, refreshed,    \* excluded_credentials, force_refreshed
    proxyOf, unsupported,   \* proxy_id; unsupported_model_cache of this model
    failures,               \* history: report_failure of each credential
    authMarked,             \* history: mark_authentication_failed
    foundTooLong,           \* history: so the upstream said of the request, the last time
    refusals, refreshFailed \* history: 401/403 on the main endpoint; failed refreshes

loopVars == <<stage, attempt, ctx, endpoint, lastError>>
setVars == <<excluded, refreshed>>
proxyVars == <<proxyOf, unsupported>>
reportVars == <<failures, authMarked, foundTooLong, refusals, refreshFailed>>
providerVars == <<call, loopVars, setVars, proxyVars, reportVars>>

\* min(credentials * MAX_RETRIES_PER_CREDENTIAL, MAX_TOTAL_RETRIES)
MaxRetries == IF Cardinality(Creds) < 3 THEN 3 * Cardinality(Creds) ELSE 9

\* credential_failure_action of the errors of try_single_endpoint that are fatal.
SuspendedOrLimited == {"suspended", "profile"}
GenericErrors == {"quota", "exhausted", "overage", "breaker", "client"}
FatalErrors == SuspendedOrLimited \cup GenericErrors \cup {"auth"}
TransientErrors == {"network", "limited", "server", "fault", "toolong", "improper", "model", "rebind"}

\* acquire_context_excluding found no credential that is enabled, has a token and is not
\* excluded, or waited too long for a permit.
AcquireErrors == {"disabled", "busy"}

Blank == [c \in Creds |-> 0]
Plus(counter, c) == [counter EXCEPT ![c] = @ + 1]

ProviderInit ==
    /\ call = "none" /\ stage = "start" /\ attempt = 0
    /\ ctx \in Creds /\ endpoint = 0 /\ lastError = "none"
    /\ excluded = {} /\ refreshed = {}
    /\ proxyOf \in [Creds -> PoolProxies \cup {"direct"}]
    /\ unsupported = {}
    /\ failures = Blank /\ authMarked = {} /\ foundTooLong = FALSE /\ refusals = Blank /\ refreshFailed = {}

\* continue
NextAttempt ==
    /\ attempt' = attempt + 1
    /\ stage' = IF attempt' = MaxRetries THEN "failed" ELSE "acquire"
    /\ endpoint' = 0
    /\ UNCHANGED ctx

StartCall ==
    /\ call = "none"
    /\ call' \in {"api", "mcp"}
    /\ stage' = "acquire"
    /\ UNCHANGED <<attempt, ctx, endpoint, lastError, setVars, proxyVars, reportVars>>

-----------------------------------------------------------------------------
\* acquire_context_for_route_excluding, acquire_context_for_session
AcquireFails ==
    /\ stage = "acquire"
    /\ NextAttempt
    /\ lastError' \in AcquireErrors
    /\ UNCHANGED <<call, setVars, proxyVars, reportVars>>

Acquire(c) ==
    /\ stage = "acquire" /\ c \notin excluded
    /\ ctx' = c
    /\ stage' = "send"
    /\ UNCHANGED <<call, attempt, endpoint, lastError, setVars, proxyVars, reportVars>>

\* endpoint_for does not know the credential's endpoint.
EndpointUnknown ==
    /\ stage = "send" /\ endpoint = 0
    /\ NextAttempt
    /\ lastError' = "endpoint"
    /\ failures' = Plus(failures, ctx)
    /\ excluded' = IF call = "api" THEN excluded \cup {ctx} ELSE excluded
    /\ UNCHANGED <<call, refreshed, proxyVars, authMarked, foundTooLong, refusals, refreshFailed>>

Answered ==
    /\ stage = "send"
    /\ stage' = "ok"
    /\ UNCHANGED <<call, attempt, ctx, endpoint, lastError, setVars, proxyVars, reportVars>>

-----------------------------------------------------------------------------
(* call_api_with_retry *)

ApiSends == call = "api" /\ stage = "send"

\* Fault: the credential is not excluded after a failure that is reported.
FatalErrorKept(e) ==
    /\ ApiSends /\ endpoint = 0 /\ e \in FatalErrors \ {"auth"}
    /\ lastError' = e
    /\ failures' = IF e \in GenericErrors THEN Plus(failures, ctx) ELSE failures
    /\ NextAttempt
    /\ foundTooLong' = FALSE
    /\ UNCHANGED <<call, setVars, proxyVars, authMarked, refusals, refreshFailed>>

\* A fatal error of the main endpoint other than 401/403: suspended, rate limited,
\* or a failure, reported, and the credential is out of this call.
FatalError(e) ==
    /\ ApiSends /\ endpoint = 0 /\ e \in FatalErrors \ {"auth"}
    /\ lastError' = e
    /\ excluded' = excluded \cup {ctx}
    /\ failures' = IF e \in GenericErrors THEN Plus(failures, ctx) ELSE failures
    /\ NextAttempt
    /\ foundTooLong' = FALSE
    /\ UNCHANGED <<call, refreshed, proxyVars, authMarked, refusals, refreshFailed>>

MarkAuthenticationFailed ==
    /\ authMarked' = authMarked \cup {ctx}
    /\ excluded' = excluded \cup {ctx}

\* 401/403: force_refresh_token_for once for each credential, and another attempt
\* if that works.
AuthError ==
    /\ ApiSends /\ endpoint = 0
    /\ lastError' = "auth"
    /\ refusals' = Plus(refusals, ctx)
    /\ refreshed' = refreshed \cup {ctx}
    /\ \/ ctx \notin refreshed /\ UNCHANGED <<excluded, authMarked, refreshFailed>>
       \/ ctx \notin refreshed /\ refreshFailed' = refreshFailed \cup {ctx} /\ MarkAuthenticationFailed
       \/ ctx \in refreshed /\ MarkAuthenticationFailed /\ UNCHANGED refreshFailed
    /\ NextAttempt
    /\ foundTooLong' = FALSE
    /\ UNCHANGED <<call, proxyVars, failures>>

\* After the last endpoint that is tried: another attempt with the credential if
\* the model was refused, or without it.
GiveUpEndpoints(e) ==
    /\ lastError' = e
    /\ excluded' = IF e = "model" /\ attempt + 1 < MaxRetries THEN excluded ELSE excluded \cup {ctx}
    /\ NextAttempt

\* A transient error: the next endpoint, if there is one and fallback is on.  The
\* refused model is remembered, though there is no proxy to change to ("model") or
\* the change cannot be saved ("rebind").
TransientError(e) ==
    /\ ApiSends /\ e \in TransientErrors
    /\ unsupported' = IF e \in {"model", "rebind"}
                        THEN unsupported \cup {<<ctx, proxyOf[ctx]>>} ELSE unsupported
    /\ \/ /\ endpoint < Alternatives
          /\ endpoint' = endpoint + 1 /\ lastError' = e
          /\ UNCHANGED <<stage, attempt, ctx, excluded>>
       \/ /\ endpoint \in {0, Alternatives}
          /\ GiveUpEndpoints(e)
    /\ foundTooLong' = (e = "toolong")
    /\ UNCHANGED <<call, refreshed, proxyOf, failures, authMarked, refusals, refreshFailed>>

\* choose_replacement_proxy: which of them depends on their regions and their load.
choose_replacement_proxy(c) ==
    {p \in PoolProxies \ {proxyOf[c]} : <<c, p>> \notin unsupported}

\* INVALID_MODEL_ID: mark_unsupported_model_combo, and if choose_replacement_proxy
\* has one the credential is bound to it and tried again.
Rebind(p) ==
    /\ ApiSends /\ p \in choose_replacement_proxy(ctx)
    /\ unsupported' = unsupported \cup {<<ctx, proxyOf[ctx]>>}
    /\ proxyOf' = [proxyOf EXCEPT ![ctx] = p]
    /\ IF endpoint = 0 THEN NextAttempt /\ lastError' = "model" /\ UNCHANGED excluded
                       ELSE GiveUpEndpoints("model")
    /\ foundTooLong' = FALSE
    /\ UNCHANGED <<call, refreshed, failures, authMarked, refusals, refreshFailed>>

\* A fatal error of an alternative ends the fallback, and is forgotten.
AlternativeFatal ==
    /\ ApiSends /\ endpoint > 0
    /\ GiveUpEndpoints(lastError)
    /\ foundTooLong' = FALSE
    /\ UNCHANGED <<call, refreshed, proxyVars, failures, authMarked, refusals, refreshFailed>>

-----------------------------------------------------------------------------
(* call_mcp_with_retry: nothing is excluded. *)

McpSends == call = "mcp" /\ stage = "send"

\* Network errors, 408, 429, 5xx, a used up quota while others are left.
McpRetries ==
    /\ McpSends
    /\ lastError' \in {"network", "limited", "server", "quota"}
    /\ NextAttempt
    /\ UNCHANGED <<call, setVars, proxyVars, reportVars>>

\* 400 and other client errors, the breaker, no credential left.
McpBails ==
    /\ McpSends
    /\ stage' = "failed"
    /\ lastError' \in {"client", "breaker", "quota"}
    /\ UNCHANGED <<call, attempt, ctx, endpoint, setVars, proxyVars, reportVars>>

\* 401/403, of a token the upstream calls invalid or otherwise.
McpAuthError ==
    /\ McpSends
    /\ lastError' = "auth"
    /\ refusals' = Plus(refusals, ctx)
    /\ \/ /\ ctx \notin refreshed /\ refreshed' = refreshed \cup {ctx}
          /\ UNCHANGED <<failures, refreshFailed>> /\ NextAttempt
       \/ /\ \/ /\ ctx \notin refreshed /\ refreshed' = refreshed \cup {ctx}
                /\ refreshFailed' = refreshFailed \cup {ctx}
             \/ UNCHANGED <<refreshed, refreshFailed>>
          /\ failures' = Plus(failures, ctx)
          /\ \/ NextAttempt
             \/ stage' = "failed" /\ UNCHANGED <<attempt, ctx, endpoint>>
    /\ UNCHANGED <<call, excluded, proxyVars, authMarked, foundTooLong>>

\* What the two loops have in common.
Attempts ==
    \/ AcquireFails \/ EndpointUnknown \/ Answered
    \/ \E c \in Creds : Acquire(c)

call_mcp_with_retry == call = "mcp" /\ (Attempts \/ McpRetries \/ McpBails \/ McpAuthError)

call_api_with_retry ==
    /\ call = "api"
    /\ \/ Attempts \/ AuthError \/ AlternativeFatal
       \/ \E e \in FatalErrors : FatalError(e)
       \/ \E e \in TransientErrors : TransientError(e)
       \/ \E p \in PoolProxies : Rebind(p)

ProviderNext == StartCall \/ call_mcp_with_retry \/ call_api_with_retry

ProviderSpec == ProviderInit /\ [][ProviderNext]_providerVars

-----------------------------------------------------------------------------
(* What a handler tells the client of the error a call ends with *)

\* The classes whose words are found in the text of the error.  The upstream's answer
\* for a model that is unavailable has those of a request that is improperly formed.
WordsOf(e) ==
    CASE e = "toolong"             -> {"InputTooLong"}
      [] e = "improper"            -> {"ImproperlyFormed"}
      [] e = "breaker"             -> {"ImproperlyFormed", "TransientUpstream"}
      [] e = "busy"                -> {"QueueTimeout"}
      [] e = "exhausted"           -> {"QuotaExhausted"}
      [] e = "network"             -> {"TransientNetwork", "TransientUpstream"}
      [] e \in {"limited", "server"} -> {"TransientUpstream"}
      [] OTHER                     -> {}

\* The order in which the handlers look for them.
ProviderErrorClass ==
    <<"InputTooLong", "ImproperlyFormed", "NoCredentials", "QueueTimeout", "QuotaExhausted",
      "TransientNetwork", "TransientUpstream">>

classify_provider_error(e) ==
    LET found == SelectSeq(ProviderErrorClass, LAMBDA class : class \in WordsOf(e))
    IN  IF found = <<>> THEN "Unclassified" ELSE Head(found)

Tells(status, type) == [status |-> status, type |-> type]

map_kiro_provider_error_to_response(e) ==
    LET class == classify_provider_error(e)
    IN  CASE class \in {"InputTooLong", "ImproperlyFormed"} -> Tells(400, "invalid_request_error")
          [] class = "NoCredentials" -> Tells(503, "service_unavailable")
          [] class = "QueueTimeout" -> Tells(429, "overloaded_error")
          [] class \in {"QuotaExhausted", "TransientUpstream"} -> Tells(429, "rate_limit_error")
          [] OTHER -> Tells(502, "api_error")

\* The OpenAI handlers call it a limit that no permit was free.
map_provider_error(e) ==
    LET told == map_kiro_provider_error_to_response(e)
    IN  IF told.type = "overloaded_error" THEN Tells(429, "rate_limit_error") ELSE told

\* A conversation has failed.
Failed == call = "api" /\ stage = "failed"

-----------------------------------------------------------------------------
ProviderTypeOK ==
    /\ call \in {"none", "api", "mcp"}
    /\ stage \in {"start", "acquire", "send", "ok", "failed"}
    /\ attempt \in 0 .. MaxRetries /\ endpoint \in 0 .. Alternatives
    /\ ctx \in Creds
    /\ excluded \subseteq Creds /\ refreshed \subseteq Creds
    /\ proxyOf \in [Creds -> PoolProxies \cup {"direct"}]
    /\ unsupported \subseteq Creds \X (PoolProxies \cup {"direct"})

\* One conversation counts at most one failure against a credential, whatever its
\* attempts, its endpoints and its rebinding come to: no single request can use up
\* the failures a credential has.
\* And one is declared unauthenticated only if its tokens could not be renewed, or if
\* they were refused again once they were.
FailureCountedOnce ==
    /\ call = "api" => \A c \in Creds : failures[c] <= 1
    /\ \A c \in authMarked : c \in refreshFailed \/ refusals[c] >= 2

\* handlers.rs:411 says that what the upstream finds too long is kept in the error, and
\* that the client is not told to try again, as it is by a 5xx.  The credential is
\* excluded, and when all are, the error of the next attempt replaces the upstream's.
TooLongIsTold ==
    Failed /\ foundTooLong =>
        \A told \in {map_kiro_provider_error_to_response(lastError), map_provider_error(lastError)} :
            told.status < 500

=============================================================================
