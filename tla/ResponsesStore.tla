---------------------------- MODULE ResponsesStore ----------------------------
(***************************************************************************)
(* Stored responses and the conversations they chain into                   *)
(* (openai/responses_store.rs, post_responses and                           *)
(* persist_response_if_needed in openai/handlers.rs).                       *)
(*                                                                          *)
(* A response names the one before it.  It is written when its stream has   *)
(* come to its end, and read with all those before it when a client goes on *)
(* from it.  A response is known by its number; what was said is its number *)
(* again.                                                                   *)
(***************************************************************************)
EXTENDS Integers, Sequences

CONSTANTS
    StoreClients,
    ResponsesTtl,           \* RESPONSES_DEFAULT_TTL
    HistoryDepth,           \* MAX_RESPONSES_HISTORY_DEPTH
    MaxResponses, MaxStoreTime  \* bounds on responses and on time

ASSUME StoreAssumption ==
    /\ ResponsesTtl \in Nat /\ HistoryDepth \in Nat
    /\ MaxResponses \in Nat /\ MaxStoreTime \in Nat

VARIABLES
    storeNow,
    storeFiles,             \* responses a file is there of
    previous,               \* previous_response_id of every response, 0 for none
    storedAt,
    answering               \* the response each client waits for, 0 for none

responsesVars == <<storeNow, storeFiles, previous, storedAt, answering>>

ResponsesInit ==
    /\ storeNow = 0 /\ storeFiles = {} /\ previous = <<>> /\ storedAt = <<>>
    /\ answering = [r \in StoreClients |-> 0]

Expired(id) == storeNow - storedAt[id] > ResponsesTtl
Loads(id) == id \in storeFiles /\ ~Expired(id)

\* The n-th response before id, 0 if there are not so many. A response goes on from an
\* earlier one, so none comes twice (visited).
Before(id) ==
    LET back[n \in Nat] ==
            IF n = 0 THEN id ELSE IF back[n - 1] = 0 THEN 0 ELSE previous[back[n - 1]]
    IN  back

\* How many responses before id are read: up to the first that does not load.
Reach(id, depth) ==
    CHOOSE n \in 0 .. depth :
        /\ \A k \in 1 .. n : Loads(Before(id)[k])
        /\ n < depth => ~Loads(Before(id)[n + 1])

OldestFirst(id, n) == [i \in 1 .. n + 1 |-> Before(id)[n + 1 - i]]

\* Fault: the limit counts the response itself.
CollectShorter(id) == OldestFirst(id, Reach(id, HistoryDepth - 1))

\* collect_ancestor_chain
CollectAncestors(id) == OldestFirst(id, Reach(id, HistoryDepth))

\* The response that was tried last and did not load: one that has expired is removed.
TriedLast(id) == {Before(id)[n] : n \in {Len(CollectAncestors(id))} \cap 1 .. HistoryDepth}

-----------------------------------------------------------------------------
StoreTick ==
    /\ storeNow < MaxStoreTime /\ storeNow' = storeNow + 1
    /\ UNCHANGED <<storeFiles, previous, storedAt, answering>>

\* A client starts a conversation or goes on from a response that loads: the conversation
\* is put together now, and the response gets its id.
PostResponse(r, from) ==
    /\ answering[r] = 0 /\ Len(previous) < MaxResponses
    /\ from = 0 \/ Loads(from)
    /\ previous' = Append(previous, from)
    /\ storedAt' = Append(storedAt, 0)
    /\ answering' = [answering EXCEPT ![r] = Len(previous')]
    /\ storeFiles' = IF from = 0 THEN storeFiles ELSE storeFiles \ TriedLast(from)
    /\ UNCHANGED storeNow

\* A request for one that does not load is refused; one that has expired is removed.
PostNotFound(from) ==
    /\ from \in storeFiles /\ Expired(from)
    /\ storeFiles' = storeFiles \ {from}
    /\ UNCHANGED <<storeNow, previous, storedAt, answering>>

\* save_response: through a temporary file, whole or not at all.
SaveResponse(id) ==
    /\ storeFiles' = storeFiles \cup {id}
    /\ storedAt' = [storedAt EXCEPT ![id] = storeNow]

\* The stream ends: the response is stored, or it is not (store: false, a failed write,
\* an upstream error, a client that has gone).
EndOfAnswer(r) ==
    /\ answering[r] # 0
    /\ SaveResponse(answering[r]) \/ UNCHANGED <<storeFiles, storedAt>>
    /\ answering' = [answering EXCEPT ![r] = 0]
    /\ UNCHANGED <<storeNow, previous>>

ResponsesNext ==
    \/ StoreTick
    \/ \E r \in StoreClients :
           \/ \E from \in {0} \cup storeFiles : PostResponse(r, from)
           \/ EndOfAnswer(r)
    \/ \E from \in storeFiles : PostNotFound(from)

ResponsesSpec == ResponsesInit /\ [][ResponsesNext]_responsesVars

-----------------------------------------------------------------------------
\* A client that goes on from a response is given what was said before, in order and
\* without a gap: all of it that has not expired, up to the limit.
HistoryComplete ==
    \A id \in {i \in storeFiles : Loads(i)} :
        LET given == CollectAncestors(id)
            length == Len(given)
        IN  /\ length \in 1 .. HistoryDepth + 1
            /\ \A i \in 1 .. length :
                   given[i] = Before(id)[length - i] /\ given[i] # 0 /\ ~Expired(given[i])
            /\ length <= HistoryDepth =>
                   \A n \in length .. Len(previous) : Before(id)[n] = 0 \/ Expired(Before(id)[n])

=============================================================================
