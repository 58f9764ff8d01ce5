# TLA+ models of xkiro.rs

xkiro.rs is a gateway. It takes requests in the Anthropic and OpenAI formats,
sends them to the Kiro upstream with one of a pool of credentials, and translates
the answer back. Three kinds of state are worth checking: the pool of credentials
(`kiro/token_manager.rs`), which every request, the administrator's API and
background tasks change at once, without a lock that spans their steps; what a
single request carries through retries, permits and accounts; and the
translations, of requests with histories that have gaps and of streams that may be
cut anywhere and stop at any time.

All paths are relative to `src/src/`; "TM" is `kiro/token_manager.rs`. A line
number without a path belongs to the file the section is about. `PROJECT.json`
lists the components, the hazards with their lines, the definition-to-line map,
the runs, the findings and the theorems.

## Inventory

| Component (where) | State | Operations | What makes it hard | What makes it correct |
|---|---|---|---|---|
| Credential health (TM) | per credential: disabled, reason, two failure counters, reprobe date, backoff; globally a recovery date and a count of unavailable models | reports of requests, self-healing, `check_and_recover`, reprobes, administrator's enable, disable, reset | each report is a critical section of its own; outcomes arrive when the entry has changed | counters, reasons and dates agree; what is disabled for a passing cause comes back, what is not does not |
| Call admission (TM) | semaphores of credentials, proxies and the program; permits of each call | `acquire_context*`, waits with `select_all`, timeouts, drop | up to three permits per call, taken in turn; cancellation at every await | permits are conserved, nobody waits with what others need, a call has all its permits |
| Concurrency limits (TM, `admin/service.rs`) | limits in the configuration, overrides, semaphores | `update_global_config`, `set_credential_concurrency` | number and semaphore change under different locks; an update may fail in the middle | permits in circulation match the limits |
| Token refresh (TM) | tokens, a refresh lock per credential | `try_ensure_token`, `get_usage_limits_for`, `refresh_token_for_credential`, `force_refresh_token_for`, `resolve_profile_arn_for` | copies taken before a lock, written back after it; lost answers | the token the upstream accepts is kept, nobody is declared invalid by a race |
| Credential store (TM, `common/io.rs`) | the file, the entries | add, delete, edit, disable, reset, ban, load | file and memory change one after the other; crashes, failed writes | a restart brings back what was acknowledged |
| Import and export (`admin/service.rs`) | the same | three import modes, merge, replacement, backup, snapshot | records are compared with the credentials there were at the start | no secret twice; a backup restores |
| Ranking and affinity (TM, `kiro/affinity.rs`) | round-robin counter, bindings with a time to live | rank, bind, touch, evict, remove | bindings outlive the state they were made in | load follows the weights; a credential that was taken out, and whose bindings were removed, gets no session back |
| Proxy pool (`kiro/proxy_manager.rs`, `admin/service.rs`) | proxies, health, cooldown, bindings | add, edit, delete, bind, assign, test | ids are given again | a binding means the proxy it was given |
| Provider retries (`kiro/provider.rs`) | attempt, exclusions, tried endpoints and proxies | `call_api_with_retry`, `call_mcp_with_retry`, fallbacks | which status is counted against whom | one conversation counts a credential's failure once |
| Background refresh (`kiro/background_refresh.rs`) | task, batches | periodic check, reprobe, stop | outcomes come late | part of health and refresh |
| Balances (TM, `admin/service.rs`) | the runtime copy, the shown copy, its file | query, periodic round, metering, renewal, load | two copies, two locks, a file outside of both | the exhausted are disabled, and no others; the file follows |
| Login flows (`admin/service.rs`, `kiro/auth/`) | sessions of six kinds | start, poll, complete, callback, expire, cancel | polls and completions of one session overlap | a grant is used, and used once |
| Event stream decoder (`kiro/parser/`) | buffer, state, error count | feed, decode, recover | damaged frames, limits | a damaged frame costs nothing but itself |
| Anthropic stream (`anthropic/stream.rs`) | content blocks, text that may begin a tag, source of thinking, pending tool call | one method per event, end, error | tags and calls cut by chunks, two sources of thinking | well-formed blocks; nothing lost, repeated or reordered |
| Message handlers (`anthropic/handlers.rs`, `openai/handlers.rs`, `anthropic/websearch.rs`) | permit, account, what was asked | preparation, streams, whole answers, searches | clients that leave, upstreams that break off, settings that change | accounted for once, released once; sent as asked |
| OpenAI streams (`openai/stream.rs`) | chunks, items, text held back | as the Anthropic stream | the same | the same |
| Request conversion (`anthropic/converter.rs`, `openai/converter.rs`, budget in `anthropic/handlers.rs`) | none | history, tools, names, truncation | gaps and doubles in histories | the upstream accepts it and it says what the user said |
| Prompt cache (`anthropic/cache_tracker.rs`, `anthropic/middleware.rs`) | fingerprints with expiry, dirty mark, file | compute, update, flush, load, change of TTL | writes overlap with changes | clean means saved; read is what was sent |
| Responses store (`openai/responses_store.rs`) | files that refer to their predecessor | save, load, expand | expiry in the middle of a chain | history without a gap |
| API keys (`admin/service.rs`, `anthropic/middleware.rs`) | keys, usage, file | create, edit, delete, count | saves race, a file that is overwritten | limits hold, the file follows |
| Configuration (`admin/service.rs`, TM) | configuration, file, copies on the request path | update handlers | copies follow one by one | copies agree with the configuration |
| Models and regions (`kiro/models.rs`, `kiro/region.rs`, `kiro/api_region_repair.rs`) | three copies of the lists; the credentials file offline | fetch, merge, repair | pages and regions fail separately | lists are whole; the repair loses nothing |
| Endpoints and fingerprints; start and token estimates; admin HTTP layer and user interface | none of their own, or set once at start | | | not modelled |

How they interact. A handler prepares and converts the request and asks the
provider; each attempt asks call admission for a context; admission asks health
(`check_and_recover`, `disabled`), ranking and affinity which credentials to try,
takes permits, and has the token refreshed; the provider calls the upstream, maybe
through another endpoint or proxy, and reports the outcome to health; the handler
feeds the upstream's bytes through the decoder into one of the streams, which owns
the permits until the upstream's body ends, and accounts for the request (API keys,
balances, prompt cache, responses store). `AdminService` and the background tasks
call the same methods of `MultiTokenManager` with no lock held in between.

## Modules

One module per component; names of actions and operators are those of the code
where the code has a name for the step.

**Credentials in and out of service.** `CredentialHealth` has one function per
field of `CredentialEntry` that some guard reads, and one action per critical
section on `entries`. A request goes through `recover`, `rank`, `token`, `call`
and reports what happened; a background refresh is queued, runs, and applies its
outcome, each in a section of its own. Instants are "none", "pending" or "due".
`StickyDisable` adds a history variable, the credentials an administrator has
switched off, which no action reads.

**Permits.** `AcquireContext` is `acquire_context_excluding` for all three callers:
any usable credential, the one a session is bound to, a fixed one. Every
`try_acquire`, `await` and `drop` is a step. Tokio's semaphore is external: waiters
queue, and a permit that comes back is *granted* to the first of them, who learns
of it when it is polled; `select_all` is a request in several queues. Timeouts and
clients that leave are possible at every wait. `CallAdmission` is the promise: a
call enters only while its credential, its proxy and the program are below their
limits; `AdmissionSpec` is the refinement, with a call that has its context as
"running". `ConcurrencyLimits` changes the limits meanwhile: requests of
administrators from their snapshot over the change of the number to that of the
semaphore, tasks that take permits away, replaced semaphores, refused updates.

**Keeping credentials.** `CredentialStore`: operations that save before they
change memory and those that save after, as separate steps with a crash possible
between any two. `CredentialImport`: the three modes, merge, replacement, backup
and snapshot over it. `TokenRefresh`: one credential, any number of tasks of six
kinds, refresh tokens numbered in the order they are issued. `LoginSessions`: one
session of any of six flows, and any number of handlers that work on it.
A snapshot names a credential by its account elsewhere, if it has one, which is read
back as an id or as none. `ApiRegionRepair` with `Regions`: the offline command, and the program's own rules
where a request goes. `ModelLists`: fetching, and the three copies.

**Choosing credentials.** `CandidateRanking` (eligibility and ranks are given, the
counter moves), `Affinity` (one map; credentials are taken out, and their bindings
removed in a step of its own or, on four paths, not at all), `ProxyPool` (the ids of
deleted proxies are given again).

**A request.** `ProviderRetry` is one call of the provider, "api" or "mcp".
`RequestPreparation`, `RequestConversion` (with the cutting to the limit of the body),
`ToolNames` and `OpenAiConversion` are what it becomes before: pure translations, driven
by messages that are appended one by one, so that every short history is reached.
`MessageLifecycle` is the handler around it: four entrances, streamed, buffered and
whole, from permit to account.

**Answers.** `EventStreamDecoder` (bytes known by frame and place),
`SseStream` (the methods of `StreamContext` as operators on a context),
`ChatStream`, `ResponsesStream`, `NonStreamAnswer`, `WebSearch`. A text is a
sequence of tokens which the upstream may cut at any place: plain text, halves of
a tag, a call in brackets. `normalize_chunk` is taken at its result, the new text.
The input of a call comes in parts, of which only the last completes an object, or as a
whole object that replaces what came before; a whole answer tells an input that does not
parse as `{}`. The result of a search has a form of its own in the stream and in the
whole answer (`StreamedResult`, `WholeResult`).

**Accounts and settings.** `PromptCacheTracker` (the store and its file),
`PromptCacheProfile` (the numbers a client is told), `ResponsesStore`, `ApiKeys`,
`Balances`, `ConfigUpdates`.

**Small instances.** `MCAcquireContext` and `MCSseStream` give constants.
`MCCredentialPool`, `MCGateway` and `MCAdmin` run several modules side by side. The
modules in one of them share no state, so the initial state picks the part that
moves and the others stay where they start: the states are the sum of the parts',
not their product. `StickyDisable`, `CredentialHealth`, `ProviderRetry` and
`ConfigUpdates` are also run on their own.

## Runs

| Run | Instance | Shows |
|---|---|---|
| `health_safety` | 2 credentials, one an API key; 1 request; limits 2 | a credential in service is below its limits; only an administrator releases a sticky disable |
| `health_liveness` | 1 credential, 2 requests, limits 2 | an outage has a date and an end; an authentication failure heals |
| `health_sticky` | 1 credential, 1 request | violation: a manual disable is not sticky |
| `acquire_permits` | 3 requests, 2 credentials, one behind a proxy; 1 permit of each; 1 attempt | permits are conserved, waits are clean, calls are covered; admission is implemented |
| `acquire_liveness` | 3 requests in every mode, 1 credential with 2 permits, 1 global permit, 2 attempts | a wait ends without timeouts |
| `sse_stream` | streams of 4 events, 8 texts, 2 tools, 2 ids and none | the stream is well formed and complete |
| `sse_text_behind_tool` | 4 events, 4 texts | violation: text behind the call that came after it |
| `pool` | 7 parts: the store with a crash between any two steps (1 actor, 3 secrets of 2 accounts, 2 ids); 2 refreshing tasks of 6 kinds; 3 handlers of one login; 3 ranked credentials with weights 0, 2, 3; 2 keys and 2 credentials with room for 1 binding, 1 remover; 2 proxies, 2 credentials, 2 administrators; 2 prefixes, 2 requests | what is kept and chosen survives crashes, races and ids that are given again |
| `gateway` | 13 parts: 2 credentials, 2 proxies and 1 alternative endpoint; histories of 4 messages, cut to 5 limits; streams of 4 events; 4 frames of 3 bytes; 4 stored responses; 2 messages and 1 permit; requests of every kind with 1 change of settings; 4 chat messages or items; whole answers of 3 events; 3 prompts; 2 searches; 3 names | what a request passes on its way, and back |
| `error_masked` | 1 credential, no alternative | violation: "too long" is told as a failure of the gateway |
| `admin` | 7 parts: 1 administrator and limits to 3; 1 balance under an administrator, a round and calls; 3 imports of 3 packages of one or two records, with a GitHub address and accounts elsewhere, one of them another credential's id; 2 administrators with 2 updates of 2 fields; 2 clients, 1 administrator and 2 keys; 3 lists of 2 credentials; 2 repairs | what administrators change while requests run |
| `config_rejected_update` | 1 administrator, 2 updates | violation: a refused update leaves something behind |

Bounds, and why they are enough. The failure limits of 3 in the code are 2, which
keeps a state between zero and the limit; the breaker's threshold of 2 is the
code's. Two requests are enough for a check to be stale when it is acted on; three
on two credentials with one permit each make every wait happen, for a credential,
for the global permit, for either of two credentials at once, and behind somebody
who times out. Limits up to 3 leave room to grow and to shrink by more than one
while permits are in use. Two tasks are enough to refresh with a copy the other has
made old, three handlers for one to leave while two race for a session. Weights 0,
2 and 3 have a common period that is longer than a list. One entry in the affinity
map makes every second binding evict. Two proxies are added, so an id is given
again. Four events or messages allow each kind behind each other kind and a
cut between any two; a frame of three bytes has a prelude and data, each of
which can be damaged. One key of two that is renamed is enough for a
refused name to wait beside a file that is behind. `MaxToken`, `MaxRequests`, `MaxStoreTime`, `MaxCacheTime`,
`MaxProfileTime`, `MaxImports` (two imports or additions at once or one after the other), `Editable` (the keys whose name and flag are changed, one of
the two), `MaxUpdates`, `MaxKeys`, `MaxLists`, `MaxRepairs`,
`MaxFrames`, `MaxChunks`, `MaxUses` and the like cap counters that would grow for
ever; they are guards of the actions that count.

The runs in which a stream, a login or a list of updates ends (`sse_*`, `pool`, `gateway`,
`admin`, `error_masked`, `config_rejected_update`) do not check for deadlock; the
health and permit runs do.

Symmetry is used where no liveness is checked: the requests of `acquire_permits`,
the tasks and the first two secrets of `pool`, credentials and proxies of `gateway`,
the administrators of `admin` that change settings. Parts of a run that share no state
share model values: the proxies of `gateway` are the clients, requests and tool names
of other parts, the administrators of `admin` the clients with keys.

Fairness. `health_liveness`: the clock moves, requests that can run do and clients
keep coming, and the background task, a periodic interval
(`kiro/background_refresh.rs`), queues and runs refreshes. The one strong
assumption is on the upstream: a refresh that is tried again and again succeeds in
the end; without it no credential could come back. `acquire_liveness`: a future
that can run is polled, and calls end. Neither timeouts, clients that leave, errors
nor administrators are ever relied on.

## Properties

Each is stated with its code in a comment where it is defined. In short:

- *Health*: `EnabledBelowLimits`, `OnlyAdminReleasesSticky`, `DisabledHasWayBack`,
  `DisabledComesBack`. The second does not say that the reason stays:
  `health_sticky` shows how it is replaced first. The last says what the code does with
  an authentication failure, and a comment says the opposite (below).
- *Permits*: `PermitsConserved`, `NoHoldAndWait`, `CallIsCovered`, `AdmissionSpec`,
  `WaitEnds`; `LimitsMatchConfig`.
- *Keeping*: `RestartRestores`, `RefreshTokenKept`, `GrantUsedOnce`,
  `ImportIsFaithful`, `ListsAreWhole`, `RepairIsSafe`.
- *Choosing*: `SharedByWeight`, `TakenOutStaysOut`, `BindingKeepsItsProxy`.
- *Requests*: `FailureCountedOnce`, `PreparedAsAsked`, `NothingUsersSayIsLost`,
  `TruncationIsSafe`, `NamesComeBack`, `TurnsKept`, `AccountedAndReleased`.
- *Answers*: `DamagedDataSkipped`, `EventsWellFormed`, `TextComplete`,
  `ToolUseDelivered`, `ChatTextInOrder`, `ItemsWellFormed`, `AnswerTellsAll`,
  `SearchTold`.
- *Accounts and settings*: `CleanMeansSaved`, `ReadWhatWasSent`, `HistoryComplete`,
  `KeysKeptAndCounted`, `BalancesAgree`, `CopiesFollowConfig`.

Where the code keeps less than one would like, the property says what it keeps and
names the exception (an answer that was lost, a refresh around the lock, a writer
that overlapped another), mostly with a history variable that no action reads; the
exceptions are listed below among the divergences and the things to know.

## Proofs

Eight modules hold the theorems; each extends the modules it is about, and a
theorem holds for every value of the constants that satisfies the assumptions
named in those modules, which the runs evaluate too. The assumptions are weak:
limits and lifetimes are natural numbers, sets that are counted are finite,
values that mean "none" are not values, what an instance enumerates (answers,
lists, requests, messages, files) has the form the code gives it. Three say more: the
global semaphore is that of no credential or proxy (`AcquireAssumption`,
`LimitsAssumption`), `Unknown` is not a table of balances (`BalanceAssumption`), and at
least two turns stay of a history that is cut, the code's constant is four
(`BudgetAssumption`): were it one, the tool use that the last message answers could be
dropped for want of a user's turn before it.
Two theorems have a hypothesis on the behaviour, `NoOverlap` and `OneChange`:
administrators whose requests do not overlap. Both are said below.

None of the properties is inductive as it stands. What each needs beside it, and
why:

**`CredentialHealthProofs`**: `HealthCorrect`, and from it `EnabledIsBelowLimits`,
`OutageKeepsDeadline`, `AuthDisabledStaysScheduled`, `DisabledKeepsWayBack`;
`TypeCorrect`; `StickyNeedsAdmin`, an action property. Self-healing and the end of
an outage reset the call failures only, so "enabled is below the limits" needs that
who is disabled for a healable reason has no refresh failures to its limit
(`HealableRefreshCount`); that needs that flags and reasons agree
(`ReasonIffDisabled`), so that such a credential was in service when it got the
reason.

**`AcquireContextProofs`**: `CoveredCorrect` says what a request holds at each point
of an acquisition, neither less nor more; a request changes nobody's permits but
its own (`MovesAreEnough`), so each step is a short calculation. From it
`CallsAreCovered` and `WaitersHoldNothing`. `PermitsCorrect` is about the
semaphores: free permits, permits on their way to a waiter and permits held add up
to the limit; a request is in line once and only for what it has not got; a line is
empty while permits are free. `TakeKeeps`, `EnqueueKeeps` and `ReturnKeeps` say what the
three operations of a semaphore do to that, and every step of an acquisition is one
of them (`StepsAreSemSteps`). From it `AcquireTypeCorrect` and `NoPermitIsLost`, and
the refinement `CallsAreAdmitted`: a call that begins has the permits the invariant
says, others hold at most the rest, so there was room for it in the abstract
admission; every other step is a stutter or an end.

**`SseStreamProofs`**: `StreamCorrect`. Two things are kept in step, what has been
sent and what the state manager believes: a block the manager has as open was
started and not stopped, one it has as closed was stopped, an index above
`next_block_index` was never used, deltas fit the type they were started with (`Running`). Of
each of its operators one lemma says what it *leads* to (`Leads`): what was sent
stays, what comes behind it is in order, and nothing but the fields named changes. The
methods of `StreamContext` are chains of those (`LeadsOn`). From it
`EventsAreWellFormed` and, with the calls that have been received beside those
that were sent or are pending, `ToolUseIsDelivered`. The blocks that are open at the
end are closed in any order: the code walks a `HashMap`.

**`CredentialPoolProofs`**, the store: `StoreCorrect` is about a file and a memory that
change one after the other. Whatever is under way knows what is left to do (write a
snapshot, apply, push), and doing it to what memory has now gives what the file has
or will have; when nothing is under way the file restores memory, unless a change of
memory failed to be saved. From it `ARestartRestores`. Both are
proved of `StoreSpec /\ []OneChange`: two savers that overlap may write their
snapshots in the other order, as said below. Where the code looks for the first
entry with an id or the next free one, the proofs use that the numbers are well
ordered (`LeastOf`).

Tokens: `RefreshCorrect` has two halves, of the lock (who exchanges a token
holds it, except the bare refresh) and of the token (unless an answer was lost or a
refresh went around the lock, what is in memory, or was just received by the holder,
is what the upstream accepts). From it `TheTokenIsKept` and `RefreshTypeCorrect`.
`LoginCorrect` says for each flow by what a handler has a login to itself, the
removed session, the mark in it or the captured callback, and that no other has
it; from it `GrantIsUsedOnce`.

Routing: `AffinityCorrect` (the map is within its limit; a binding to a
credential that was taken out waits for whoever removes it, is one that nobody removes, or
was made by a request ranked before), from it `TakenOutStayOut`; `PoolCorrect` (a deletion under way knows every credential bound
to its proxy, but those bound meanwhile), from it `BindingsKeepTheirProxy`;
`CacheCorrect` (without a mark, what is being written, or else the file, restores
what is in memory), from it `CleanIsSaved`. `LoadIsSharedByWeight` is of the ranking:
the invariant counts how often each of the best came first as so many whole rounds, in
each of which it had as many turns as it weighs, and its places in the round that has
begun (`Rounds`). That the list of turns has each of them as often as it weighs is
`WeightedShares`, that taking each where it comes first loses none and begins where the
counter says `SegmentIs`; both rest on what putting lists one behind the other gives
(`FlattenIs`, along the well-ordering, as `TurnByTurn`), and on that a finite set of
numbers can be put in order (`CanBeOrdered`).

**`RequestProofs`**: `MessagesInOrder` (what is written down about a request, and
whether it holds its permit, for each place in its handler), from it
`EachIsAccountedAndReleased`; `ProviderCorrect` (the loop goes on only below its limit, a
conversation excludes whom it has reported, refusals are counted before refreshes
are tried), from it `FailuresAreCountedOnce`; `NamesCorrect`, whose invariant says that
what was remembered for a name sent is a name the client has used.
`PreparationCorrect` follows a request through the steps of its preparation: at each
of them the payload is what was asked but for what the steps so far change, and the
settings that were read are those of that step; from it `RequestsArePreparedAsAsked`.
`DecoderCorrect` is about bytes: as long as nothing has come that the decoder cannot
get over, its buffer starts where a frame starts and has what has come since, and what was
delivered are the frames before it whose checksums are right; from it `DamageIsSkipped`, for frames of any length and
limits of any size. `HistoryCorrect` says that a response somebody has gone on from
was stored before what came of it, is there until it expires, and has a smaller number;
so behind the first response that does not load everything has expired. From it
`HistoriesAreComplete`. The chain is a recursive function; `StepByStep` shows that
there is one, from the well-ordering of the numbers. `SearchesAreTold` follows a client
through the events of an answer, chunk by chunk: `AssembledIs` says that what it has in
the end is what the last of its steps left, `ChunksJoin` that chunks of any size, put
together, are the text. The blocks a client has then are those of the whole answer, but for
the result of the search, of which `ToldIsTold` compares the sites.

**`ConversionProofs`**: nothing moves in this module but the list of messages, so what
is invariant is only that they are messages; the work is in what is made of them.
`BuildInv` follows the loop of `build_history`: every user's message so far is heard in a
turn or waits to be merged, an assistant's turn comes after a user's, the turns of the
system prompt come first (`HistoryIsBuilt`). Cleaning keeps that, and leaves tool uses
in the last turn only and there only with their results (`SanitizedIsTidy`); leaving out
hollow and repeated turns loses nothing that was said (`KeptInv`, turn by turn, `KeptIs`).
So what is sent is `Sendable`, and from that `UsersAreHeardOut`. Of the cutting,
`KeepFromIs` says where the loop from the last turn backwards stops, `TailBegins` that
dropping assistants' turns after it does not touch the use that has to be answered,
`FewStay` that where it still does not fit no more turns can go, and
`FittedIs` what the request then is. From it `WhatIsCutIsSafe`, for any limit.
The operators that go through a list are recursive functions here; `TurnByTurn` shows
that each exists, and a lemma of its own what it keeps, both from the
well-ordering of the numbers.

**`AdminProofs`**: `LimitsCorrect` and `PermitsFollowTheConfiguration` are proved of
`Spec /\ []NoOverlap`, administrators whose requests do not overlap: at each step of
an update every semaphore follows the limit before it or the one after it. Without
the hypothesis they are false, as said below. `KeysCorrect` (ids are those given out;
when nobody is writing and no write failed, the file is what memory is, but for the names
that refused updates have given since the last write, which `OnlyTheName` puts aside; what
a restart would read is as bounded as what is in memory), from it `KeysAreKeptAndCounted`.
`ConfigCorrect`: a setting is *entangled* when two updates have written it at once, or
one was refused after writing it. Of every other at most one update at a time is the
writer (`OneWriter`); the file has what the configuration has (`FileHasConfig`); what an
update has written, and read again, is what is there (`HasWritten`); a copy differs only if an update that is under way will set
it (`CopyFollows`). From it `CopiesDoFollow`. Which effects a handler has is a table
(`HandlersReach`): whatever setting a handler may write, it sets all its copies.
`RepairCorrect` says of the offline command what its way back needs at each place, and
that a file that is not damaged differs from the one before in regions only; from it
`RepairsAreSafe`. `ListsCorrect`: what a request for models has got is a beginning of
what the upstream lists, which the upstream does not change between two pages; and
what the gateway has merged are the models told up to then, each once
(`MergesOne` is the step, one model more). From it `KeptListsAreWhole`.

**`BalancesProofs`**: `BalancesCorrect` has three parts: each task has what its next
step needs; a round under way still has to ask for, or has disabled, whatever was
exhausted when it began (`FindInv`); while nothing is in doubt at most one task has
a file to write, and it writes what is shown (`WritersInv`). From it
`BalancesDoAgree`. In the same module `ReadCorrect`, of the prompt cache: each entry
stands for a prefix that was sent, no longer ago than the entry lives, and each
prefix that was marked lately has an entry that lives at least as long as the shorter
TTL from then. An update may replace an entry by one that lives shorter, and a hit
prolongs one; `EntriesAfter` says what both leave, `ComputeTells` what is told out of a
store. From it `ReadsAreWhatWasSent`. The tokens up to a block are a recursive sum:
`LoopsEnd` shows that there is such a function, `Onwards` that what holds of no block,
and of one more whenever it holds before, holds of all of them.
Last in it `ImportCorrect`, of imports, backups and snapshots: every credential and
every record that passed the checks is `Proper` (normalising it again changes nothing,
it is acceptable and has its material), but for those a merge filled up;
no secret is there twice, nor waits in an import under way to be there twice
(`SecretsInv`); of a restoration, each record done has taken its place or was counted
invalid and changed nothing, and what is not yet done is as before (`RestoreInv`, for
records that each name an id of their own); and of a snapshot restored into an empty pool,
whatever ids its records name, that each record done is there with its kind (`BackInv`).
The lemmas it turns on are `NormalizedOnce`, `SnapshotSaysOrRefuses` and
`RestoreDecides`, which says what becomes of a record in each case. From it
`ImportsAreFaithful`.

Only model-checked:

- `DisabledComesBack` and `WaitEnds`: liveness rests on fairness and `ENABLED`, which
  the prover does not handle.
- Properties of folds over texts, messages or events: `TextComplete`,
  `TurnsKept`, `AnswerTellsAll` and, in modules with `RECURSIVE` operators, `ChatTextInOrder` and
  `ItemsWellFormed`. What a fold computes for every input takes an
  induction over data, which the prover's library states with an operator as
  parameter, and no back end here instantiates that. Along the naturals the
  well-ordering stands in for it (`LeastOf`, `StepByStep` in `RequestProofs`, `Onwards` in
  `BalancesProofs`, `TurnByTurn` in `ConversionProofs` and `CredentialPoolProofs`), for loops that are written as
  recursive functions; these folds are not yet.

## Where the code and its comments differ

With a run (`findings` in `PROJECT.json` quotes the lines):

1. `health_sticky`: a manual disable is called sticky (TM:774); the report of a call in
   flight replaces its reason (TM:2369), and the reprobe enables the credential.
2. `sse_text_behind_tool`: text that was held back is sent before a tool call
   (`anthropic/stream.rs:1079`); after a reasoning block it is sent behind it (1084).
3. `error_masked`: an input that is too long is to be told as such
   (`anthropic/handlers.rs:411`); the attempt after the refusal finds no credential and
   its error is told instead (`kiro/provider.rs:631`).
4. `config_rejected_update`: a closure that fails leaves nothing half changed
   (TM:1396); it assigns to the live configuration, field by field.

Without a run, things to know when the code is changed. They are not modelled as
defects; where a model has them, a property names them as its exception.

*Credentials.* An authentication failure is said not to be recovered automatically ("如
invalid_grant，不会被自动恢复", TM:2399); `mark_credential_banned`, which that method calls,
schedules a reprobe for it ("登记首次自愈重探", TM:2384-2387), and the reprobe enables the
credential when its token can be refreshed. `DisabledComesBack` says what the code does
and holds, against the first comment and with the second. Quota disables are said to have a way back (TM:774); only an
administrator enables them (TM:3199). Self-healing logs that all credentials are
disabled (TM:2140) but runs whenever no candidate is left, for instance because of the
model asked for (TM:2116). A request that read an older recovery date may end an outage
early (TM:2278, 2327). A credential may be disabled while a request waits for its permit
(TM:2192). The setters write only manual disables, so a banned credential comes back
enabled after a restart although `set_disabled` says otherwise (TM:3537), and every
disable loads as manual. Two savers may write their snapshots in the other order; two
additions at once may get one id (TM:4779, 4935); a renewed credential that is written
back whole undoes an edit made meanwhile.

*Tokens and logins.* The bare refresh works outside the lock (TM:4345), against TM:2706
and 2646. An answer without `expires_in` is dropped before it is stored (TM:2770), and so
is one whose client went away. A second poll of a hosted login may see the session
closed and remove it; a session nobody polls is never swept; a credential that cannot
be added after its session was removed is lost.

*Choosing.* Bindings of a credential that is taken out are removed after the lock is let go
of (TM:2392, 3014, 3292, 3583); four paths leave them in the map: `report_failure` at the
limit (TM:3176), `report_quota_exhausted` (3220), `mark_insufficient_balance` (2427) and
`disable_all_credentials` (2297). A request that comes by one then removes it when it looks
(TM:1908). TM:1798 says that a binding is removed when its credential has no permit;
the code keeps it (TM:1958). A stale check may remove a fresh binding. Ids of proxies
are the largest plus one, so a second deletion under way may hit a new proxy;
results of tests are recorded for whatever has the id; usability, semaphore and address
are read one after the other (TM:3879). With every candidate rate limited, they are
candidates again.

*Provider.* Rebinding to another proxy starts a credential's attempts anew (889);
`INVALID_MODEL_ID` may spend all nine attempts on one credential, where 597 says
three; a tool call excludes nobody and may count several failures; waits between
attempts hold the permits; faults of the client or the proxy are blamed on the
credential (838); 402 counts as a failure as well. `is_no_credentials_error`
(`anthropic/handlers.rs:427`) looks for a text that nothing produces.

*Permits and limits.* Two updates of the limits that overlap each apply a difference to
a value that was right for one of them, which the comment on `old` (TM:5797) says is
avoided; the branch called unreachable (TM:5835) is reached after a refused update.

*Requests.* Results of tools that come beside a text and belong to no call of the last
turn are lost; extra results are attached (`anthropic/converter.rs:536`). Names that
are sent alike are told as the one that came last. An assistant's array without text is
told as its JSON; images by address are dropped; images move behind the text. After the
mapping of a model, thinking is not looked at again; the settings are read twice.
Descriptions and errors are cut by bytes (`anthropic/converter.rs:1207`,
`kiro/provider.rs:942`).

*Answers.* The decoder says that it skips a damaged frame (`kiro/parser/decoder.rs:246`);
fed at once it drops the frames behind it (395), and a damaged length is waited for
before its checksum is looked at. Reasoning that comes after text is dropped
(`anthropic/stream.rs:728`); a call inside an open tag begins its block while the
thinking block is open (1033); calls of one name without ids get one generated id
(1152); a thinking block that the end stops behind its tag is not signed (1006, 1251).
A buffered answer ends as if complete when the upstream breaks off
(`anthropic/handlers.rs:2771`). A whole answer may split one call in two when pieces
interleave, and takes calls in brackets inside thinking for calls; the OpenAI form of
it drops text when there are calls. A failed search is told as one without results; a
streamed search response is never stored (`openai/handlers.rs:2424`).

Calls of one tool without ids share an id, also when the first has been finished: the second,
or a piece that comes after a stop, is told in a response's stream as deltas of an item that
is done, and as a second end of it (`openai/stream.rs:133`, 146, 1166-1251); an exception of
`ItemsWellFormed`. A whole answer tells an input that does not parse as `{}`
(`anthropic/handlers.rs:281`). The streamed `web_search_tool_result` has a `page_age` and no
`tool_use_id`, as `anthropic/websearch.rs:493` says of the official API; the whole one has
`page_age` null (739) and a `tool_use_id` (782).

*Accounts.* An update of a key assigns its name before it finds that its value collides, and
returns without saving (`admin/service.rs:7360-7373`): what was refused is in memory, until
a restart, or in the file with the next write. The prompt cache is marked clean before it is written; requests that hold the
tracker of before a change of TTL are lost; a creation may be told for prefixes too
short to be kept. Keys are written over, not replaced: a crash leaves an empty list,
which adopts the key of the configuration; deleting the last key does the same; a
failed request is not counted. A batch query says it does not write the balance cache
(`admin/service.rs:2089`) and does (2178); balances of deleted credentials stay, and
an id that is given again inherits them; `restore_balance_cache` (TM:2494) is never
called.

*Settings, models, regions.* Overlapping updates of one setting may leave a copy that
differs from the configuration; a preset may be deleted while it is being chosen.
`kiro/models.rs:7` says pages are turned until the token is empty; the loop stops only
when there is none. A list fetched for one provider replaces the whole list for
routing; an empty list routes everything. A second repair is said to report no changes
(README.md:287 of the repository); with a check of names it reports, and rewrites, a
credential whose profile's own region does not resolve, without effect, every time.
The repair looks a region up in another order than `kiro/models.rs`.

*Import.* A credential disabled automatically comes back disabled by hand from a backup;
a snapshot tells the account elsewhere of a credential in place of its id
(`admin/service.rs:3631-3636`), which an import reads as no id, or, if it is a number, as
the id of another credential, which a restoration then replaces; it leaves out what API keys, enterprise and external credentials need, and
enables what was disabled; an API key whose user names its tenant is taken for external,
and a snapshot of it restores nothing; two records of one user replace the same credential; the
dry run does not foresee duplicates.

## Plan

Done: the modules and runs above; the theorems above.

Left, in this order:

1. `ItemsWellFormed` and `ChatTextInOrder`: the loops over a buffer as functions over its
   tokens instead of `RECURSIVE` operators, and then the invariants of the streams as in
   `SseStreamProofs`.
2. `TextComplete`: what was sent, what is held back and what was received, of each of the
   operators that `SseStreamProofs` has a lemma of.
3. The batches of `background_refresh.rs` and their stop; the statistics; the chat answer
   that is not streamed.

## Not modelled

Endpoints, headers and fingerprints, token estimates, start and arguments, the admin
HTTP layer, the user interface: formatting, or wiring without a state that the
properties depend on. Of the modelled parts the notes of `PROJECT.json` name what is
left out: the contents of images and schemas, statistics and `last_error`, the wording
of messages, waits between attempts, the batches of the administrator.
