--------------------------- MODULE RequestProofs ----------------------------
(***************************************************************************)
(* Proofs about the request path: what a handler holds and writes down     *)
(* (MessageLifecycle), what the retry loop counts (ProviderRetry), the     *)
(* names a tool goes by (ToolNames), how a request is prepared             *)
(* (RequestPreparation), which frames of the answer get through            *)
(* (EventStreamDecoder), what a conversation is continued from             *)
(* (ResponsesStore) and how a search is told (WebSearch).  The seven share *)
(* no state; each theorem is about the specification of its own module.    *)
(***************************************************************************)
EXTENDS MessageLifecycle, ProviderRetry, ToolNames, RequestPreparation,
        EventStreamDecoder, ResponsesStore, WebSearch, FiniteSetTheorems,
        SequenceTheorems, WellFoundedInduction, TLAPS

-----------------------------------------------------------------------------
(***************************************************************************)
(* MessageLifecycle, for any number of requests, of permits and of chunks: *)
(* what a request holds and what is written down about it, on each of the  *)
(* handlers' paths and wherever one breaks off.                            *)
(***************************************************************************)
Handlers == {"post_messages", "post_messages_cc", "post_chat_completions", "post_responses"}
Bodies == Seq(Chunks \cup Ends)

Ledgers == [usage : Nat, failures : Nat, credits : Nat, documents : Nat]

\* A request with this message (m), with or without a metering event seen, holding a permit
\* or not, and with this ledger (l), is as it should be.
InOrder(m, metered, holds, l) ==
    /\ m \in [handler : Handlers, stream : BOOLEAN, stored : BOOLEAN, at : At]
    /\ m.stored => m.handler = "post_responses"
    /\ metered \in BOOLEAN
    /\ l \in Ledgers
    /\ l.usage + l.failures <= 1 /\ l.credits <= 1 /\ l.documents <= l.usage
    /\ m.at = "refused" => l.failures = 1
    /\ m.at = "aborted" /\ m.stream => l.failures = 1 /\ l.credits = One(metered)
    /\ m.at = "complete" => l.credits = One(metered)
    /\ m.at = "complete" /\ ~(m.handler = "post_messages_cc" /\ m.stream) =>
           l.usage = 1 /\ l.documents = One(m.stored)
    /\ m.at \notin Over => l = NoLedger
    /\ holds <=> m.at = "reading"

Shapes ==
    /\ DOMAIN message = Messages /\ message = [r \in Messages |-> message[r]]
    /\ metering \in [Messages -> BOOLEAN]
    /\ ledger \in [Messages -> Ledgers]
    /\ permits \subseteq Messages
    /\ body \in [Messages -> Bodies]
    /\ sent \in [Messages -> 0 .. MaxChunks]
    /\ room \in [Messages -> BOOLEAN]

MessageInv ==
    Shapes /\ \A r \in Messages : InOrder(message[r], metering[r], r \in permits, ledger[r])

\* A step of one request leaves the others alone.
OthersAlone(r) == \A x \in Messages \ {r} :
    /\ message'[x] = message[x] /\ metering'[x] = metering[x]
    /\ (x \in permits' <=> x \in permits) /\ ledger'[x] = ledger[x]

LEMMA OneMoves ==
    ASSUME MessageInv, NEW r \in Messages, Shapes', OthersAlone(r),
           InOrder(message'[r], metering'[r], r \in permits', ledger'[r])
    PROVE  MessageInv'
<1> SUFFICES ASSUME NEW x \in Messages
             PROVE  InOrder(message[x], metering[x], x \in permits, ledger[x])'
  BY DEF MessageInv
<1>1. CASE x = r
  BY <1>1 DEF InOrder
<1>2. CASE x # r
  BY <1>2 DEF OthersAlone, MessageInv, InOrder
<1> QED
  BY <1>1, <1>2

LEMMA PostedAre ==
    ASSUME NEW m \in Posted
    PROVE  /\ m \in [handler : Handlers, stream : BOOLEAN, stored : BOOLEAN, at : At]
           /\ m.stored => m.handler = "post_responses"
           /\ m.at = "asking"
<1>1. ASSUME NEW h \in Handlers, NEW stream \in BOOLEAN, NEW stored \in BOOLEAN,
             stored => h = "post_responses", m = Asks(h, stream, stored)
      PROVE  /\ m \in [handler : Handlers, stream : BOOLEAN, stored : BOOLEAN, at : At]
             /\ m.stored => m.handler = "post_responses"
             /\ m.at = "asking"
  BY <1>1 DEF Asks, At
<1>2. CASE m \in post_messages
  BY <1>1, <1>2 DEF post_messages, Handlers
<1>3. CASE m \in post_messages_cc
  BY <1>1, <1>3 DEF post_messages_cc, Handlers
<1>4. CASE m \in post_chat_completions
  BY <1>1, <1>4 DEF post_chat_completions, Handlers
<1>5. CASE m \in post_responses
  <2>1. PICK stream \in BOOLEAN, stored \in BOOLEAN : m = Asks("post_responses", stream, stored)
    BY <1>5 DEF post_responses
  <2> QED
    BY <1>1, <2>1 DEF Handlers
<1> QED
  BY <1>2, <1>3, <1>4, <1>5 DEF Posted

LEMMA MessageInitially == MessageInit => MessageInv
<1> SUFFICES ASSUME MessageInit PROVE MessageInv
  OBVIOUS
<1>1. Shapes
  BY MessageAssumption
     DEF MessageInit, Shapes, Ledgers, NoLedger, Bodies
<1>2. ASSUME NEW r \in Messages
      PROVE  InOrder(message[r], metering[r], r \in permits, ledger[r])
  <2>1. message[r] \in Posted /\ metering[r] = FALSE /\ ledger[r] = NoLedger /\ r \notin permits
    BY DEF MessageInit
  <2>2. NoLedger \in Ledgers /\ NoLedger.usage + NoLedger.failures <= 1
        /\ NoLedger.credits <= 1 /\ NoLedger.documents <= NoLedger.usage
    BY DEF NoLedger, Ledgers
  <2> QED
    BY <2>1, <2>2, PostedAre DEF InOrder, Over
<1> QED
  BY <1>1, <1>2 DEF MessageInv

-----------------------------------------------------------------------------
(* The ways a step changes a request. *)

\* Only the body, what was sent, or the room changes; or a metering event is seen while
\* the answer is read.
LEMMA Flowing ==
    ASSUME MessageInv, NEW r \in Messages, UNCHANGED <<message, permits, ledger>>,
           \A x \in Messages \ {r} : metering'[x] = metering[x],
           metering' \in [Messages -> BOOLEAN],
           Reading(r) \/ metering' = metering,
           body' \in [Messages -> Bodies], sent' \in [Messages -> 0 .. MaxChunks],
           room' \in [Messages -> BOOLEAN]
    PROVE  MessageInv'
<1>1. Shapes'
  BY DEF MessageInv, Shapes
<1>2. OthersAlone(r)
  BY DEF OthersAlone
<1>3. InOrder(message[r], metering[r], r \in permits, ledger[r]) /\ metering'[r] \in BOOLEAN
  BY DEF MessageInv
<1>4. InOrder(message'[r], metering'[r], r \in permits', ledger'[r])
  <2>1. CASE metering' = metering
    BY <1>3, <2>1
  <2>2. CASE message[r].at = "reading"
    BY <1>3, <2>2 DEF InOrder, Over
  <2> QED
    BY <2>1, <2>2 DEF Reading
<1> QED
  BY <1>1, <1>2, <1>4, OneMoves

\* A request goes to at, and has or gives back its permit.
LEMMA Going ==
    ASSUME MessageInv, NEW r \in Messages, NEW at \in At, Moves(r, at),
           UNCHANGED <<metering, sent, room>>, body' \in [Messages -> Bodies],
           permits' \in {permits \cup {r}, permits \ {r}}, r \in permits' <=> at = "reading",
           NEW l \in Ledgers, ledger' = [ledger EXCEPT ![r] = l],
           InOrder([message[r] EXCEPT !.at = at], metering[r], at = "reading", l)
    PROVE  MessageInv'
<1>1. /\ Shapes /\ DOMAIN message = Messages
      /\ message' = [message EXCEPT ![r].at = at]
  BY DEF MessageInv, Shapes, Moves
<1>2. Shapes'
  BY <1>1 DEF Shapes
<1>3. OthersAlone(r)
  BY <1>1 DEF OthersAlone, Shapes
<1>4. message'[r] = [message[r] EXCEPT !.at = at] /\ ledger'[r] = l
  BY <1>1 DEF Shapes
<1>5. InOrder(message'[r], metering'[r], r \in permits', ledger'[r])
  BY <1>4
<1> QED
  BY <1>2, <1>3, <1>5, OneMoves

\* The end of an answer: what is written down is right for the way it ended.
LEMMA Closing ==
    ASSUME MessageInv, NEW r \in Messages, Reading(r), NEW at \in {"complete", "aborted"},
           NEW usage \in {0, 1}, NEW failed \in {0, 1}, NEW credits \in {0, 1},
           NEW documents \in {0, 1},
           Close(r, at, usage, failed, credits, documents),
           usage + failed <= 1, documents <= usage,
           at = "aborted" /\ message[r].stream => failed = 1 /\ credits = One(metering[r]),
           at = "complete" => credits = One(metering[r]),
           at = "complete" /\ ~Buffered(r) => usage = 1 /\ documents = One(message[r].stored)
    PROVE  MessageInv'
<1> DEFINE l == [usage |-> usage, failures |-> failed, credits |-> credits,
                 documents |-> documents]
<1>1. InOrder(message[r], metering[r], r \in permits, ledger[r]) /\ ledger[r] = NoLedger
  BY DEF MessageInv, InOrder, Reading, Over
<1>2. l \in Ledgers
  BY DEF Ledgers
<1>3. ledger' = [ledger EXCEPT ![r] = l]
  <2>1. Recorded(NoLedger, usage, failed, credits, documents) = l
    BY DEF Recorded, NoLedger
  <2> QED
    BY <1>1, <2>1 DEF Close
<1>4. InOrder([message[r] EXCEPT !.at = at], metering[r], at = "reading", l)
  BY <1>1, <1>2 DEF InOrder, Buffered, Is, At, Over
<1>5. body' \in [Messages -> Bodies]
  BY DEF Close, MessageInv, Shapes, Bodies
<1>6. /\ permits' = permits \ {r} /\ Moves(r, at) /\ at \in At
      /\ UNCHANGED <<metering, sent, room>>
  BY DEF Close, At, Over
<1> QED
  BY <1>2, <1>3, <1>4, <1>5, <1>6, Going

-----------------------------------------------------------------------------
(* Each action. *)

LEMMA Rejecting == ASSUME MessageInv, NEW r \in Messages, RejectMessage(r) PROVE MessageInv'
<1>1. InOrder(message[r], metering[r], r \in permits, ledger[r])
  BY DEF MessageInv
<1>2. ledger[r] = NoLedger /\ NoLedger \in Ledgers /\ r \notin permits
  BY <1>1 DEF RejectMessage, InOrder, Over, NoLedger, Ledgers
<1>3. InOrder([message[r] EXCEPT !.at = "rejected"], metering[r], FALSE, NoLedger)
  BY <1>1, <1>2 DEF InOrder, NoLedger, At, Over
<1>4. /\ ledger' = [ledger EXCEPT ![r] = NoLedger]
      /\ permits' = permits \ {r} /\ Moves(r, "rejected") /\ "rejected" \in At
      /\ UNCHANGED <<metering, sent, room>> /\ body' \in [Messages -> Bodies]
  BY <1>2 DEF RejectMessage, MessageInv, Shapes, At, Over
<1> QED
  BY <1>2, <1>3, <1>4, Going

LEMMA Failing == ASSUME MessageInv, NEW r \in Messages, ProviderFails(r) PROVE MessageInv'
<1> DEFINE l == Recorded(NoLedger, 0, 1, 0, 0)
<1>1. InOrder(message[r], metering[r], r \in permits, ledger[r])
  BY DEF MessageInv
<1>2. ledger[r] = NoLedger /\ r \notin permits
  BY <1>1 DEF ProviderFails, InOrder, Over
<1>3. l = [usage |-> 0, failures |-> 1, credits |-> 0, documents |-> 0]
  BY DEF Recorded, NoLedger
<1> HIDE DEF l
<1>4. l \in Ledgers /\ InOrder([message[r] EXCEPT !.at = "refused"], metering[r], FALSE, l)
  BY <1>1, <1>3 DEF InOrder, At, Over, Ledgers
<1>5. /\ ledger' = [ledger EXCEPT ![r] = l] /\ permits' = permits
      /\ Moves(r, "refused") /\ UNCHANGED <<body, metering, sent, room>>
  BY <1>2 DEF ProviderFails, l
<1>6. permits' = permits \ {r} /\ "refused" \in At /\ body' \in [Messages -> Bodies]
  BY <1>2, <1>5 DEF MessageInv, Shapes, At, Over
<1> QED
  BY <1>4, <1>5, <1>6, Going

LEMMA Answering == ASSUME MessageInv, NEW r \in Messages, ProviderAnswers(r) PROVE MessageInv'
<1>1. InOrder(message[r], metering[r], r \in permits, ledger[r])
  BY DEF MessageInv
<1>2. ledger[r] = NoLedger /\ NoLedger \in Ledgers
  BY <1>1 DEF ProviderAnswers, InOrder, Over, NoLedger, Ledgers
<1>3. InOrder([message[r] EXCEPT !.at = "reading"], metering[r], TRUE, NoLedger)
  BY <1>1, <1>2 DEF InOrder, NoLedger, At, Over
<1>4. /\ ledger' = [ledger EXCEPT ![r] = NoLedger]
      /\ permits' = permits \cup {r} /\ Moves(r, "reading") /\ "reading" \in At
      /\ UNCHANGED <<metering, sent, room>> /\ body' \in [Messages -> Bodies]
  BY <1>2 DEF ProviderAnswers, MessageInv, Shapes, At
<1> QED
  BY <1>2, <1>3, <1>4, Going

LEMMA Leaving == ASSUME MessageInv, NEW r \in Messages, ClientGoes(r) PROVE MessageInv'
<1>1. InOrder(message[r], metering[r], r \in permits, ledger[r])
  BY DEF MessageInv
<1>2. ledger[r] = NoLedger /\ NoLedger \in Ledgers
  BY <1>1 DEF ClientGoes, InOrder, Over, NoLedger, Ledgers
<1>3. InOrder([message[r] EXCEPT !.at = "gone"], metering[r], FALSE, NoLedger)
  BY <1>1, <1>2 DEF InOrder, NoLedger, At, Over
<1>4. /\ ledger' = [ledger EXCEPT ![r] = NoLedger]
      /\ permits' = permits \ {r} /\ Moves(r, "gone") /\ "gone" \in At
      /\ UNCHANGED <<metering, sent, room>> /\ body' \in [Messages -> Bodies]
  BY <1>2 DEF ClientGoes, MessageInv, Shapes, At, Over
<1> QED
  BY <1>2, <1>3, <1>4, Going

LEMMA Sending ==
    ASSUME MessageInv, NEW r \in Messages,
           \/ \E chunk \in Chunks : UpstreamSends(r, chunk)
           \/ \E how \in Ends : UpstreamEnds(r, how)
    PROVE  MessageInv'
<1>1. PICK piece \in Chunks \cup Ends :
          /\ body' = [body EXCEPT ![r] = Append(@, piece)]
          /\ sent' = sent \/ (sent[r] < MaxChunks /\ sent' = [sent EXCEPT ![r] = @ + 1])
          /\ UNCHANGED <<message, metering, room, permits, ledger>>
  BY DEF UpstreamSends, UpstreamEnds
<1>2. Shapes
  BY DEF MessageInv
<1>3. body' \in [Messages -> Bodies]
  BY <1>1, <1>2 DEF Shapes, Bodies
<1>4. sent' \in [Messages -> 0 .. MaxChunks]
  BY <1>1, <1>2, MessageAssumption DEF Shapes
<1>5. room' \in [Messages -> BOOLEAN] /\ metering' \in [Messages -> BOOLEAN]
  BY <1>1, <1>2 DEF Shapes
<1> QED
  BY <1>1, <1>3, <1>4, <1>5, Flowing

LEMMA Gathering ==
    ASSUME MessageInv, NEW r \in Messages, ReadChunk(r) \/ Ping(r) \/ ClientReads(r)
    PROVE  MessageInv'
<1>1. Shapes
  BY DEF MessageInv
<1>2. UNCHANGED <<message, permits, ledger, sent>>
  BY DEF ReadChunk, Ping, ClientReads
<1>3. body' \in [Messages -> Bodies]
  <2>1. CASE ReadChunk(r)
    <3>1. body[r] \in Seq(Chunks \cup Ends) /\ body[r] # <<>>
      BY <1>1, <2>1 DEF Shapes, Bodies, ReadChunk
    <3>2. Tail(body[r]) \in Bodies
      BY <3>1 DEF Bodies
    <3> QED
      BY <1>1, <2>1, <3>2 DEF ReadChunk, Shapes
  <2>2. CASE Ping(r) \/ ClientReads(r)
    BY <1>1, <2>2 DEF Ping, ClientReads, Shapes
  <2> QED
    BY <2>1, <2>2
<1>4. room' \in [Messages -> BOOLEAN]
  BY <1>1 DEF ReadChunk, Ping, ClientReads, Shapes, Whole, Buffered, Is
<1>5. /\ metering' \in [Messages -> BOOLEAN] /\ (Reading(r) \/ metering' = metering)
      /\ \A x \in Messages \ {r} : metering'[x] = metering[x]
  BY <1>1 DEF ReadChunk, Ping, ClientReads, Shapes, Polled
<1>6. sent' \in [Messages -> 0 .. MaxChunks]
  BY <1>1, <1>2 DEF Shapes
<1> QED
  BY <1>2, <1>3, <1>4, <1>5, <1>6, Flowing

LEMMA EndOfPassedOn ==
    ASSUME MessageInv, NEW r \in Messages,
           create_sse_stream(r) \/ create_chat_sse_stream(r) \/ create_responses_sse_stream(r)
    PROVE  MessageInv'
<1>1. Reading(r) /\ message[r].stream /\ ~Buffered(r)
  BY DEF create_sse_stream, create_chat_sse_stream, create_responses_sse_stream, PassedOn,
         Sees, Polled, Is, Buffered
<1>2. /\ InOrder(message[r], metering[r], r \in permits, ledger[r])
      /\ One(metering[r]) \in {0, 1} /\ One(message[r].stored) \in {0, 1}
  BY DEF MessageInv, One
<1>3. ~message[r].stored => One(message[r].stored) = 0
  BY DEF One
<1>4. CASE create_sse_stream(r) \/ create_chat_sse_stream(r)
  <2>1. One(message[r].stored) = 0
    BY <1>2, <1>3, <1>4 DEF InOrder, create_sse_stream, create_chat_sse_stream, Is
  <2>2. CASE Close(r, "complete", 1, 0, One(metering[r]), 0)
    BY <1>1, <1>2, <2>1, <2>2, Closing
  <2>3. CASE Close(r, "aborted", 0, 1, One(metering[r]), 0)
    BY <1>1, <1>2, <2>3, Closing
  <2> QED
    BY <1>4, <2>2, <2>3 DEF create_sse_stream, create_chat_sse_stream, PassedOn
<1>5. CASE Close(r, "complete", 1, 0, One(metering[r]), One(message[r].stored))
  BY <1>1, <1>2, <1>5, Closing
<1>6. CASE Close(r, "aborted", 0, 1, One(metering[r]), 0)
  BY <1>1, <1>2, <1>6, Closing
<1> QED
  BY <1>4, <1>5, <1>6 DEF create_responses_sse_stream

LEMMA EndOfBuffered ==
    ASSUME MessageInv, NEW r \in Messages, create_buffered_sse_stream(r)
    PROVE  MessageInv'
<1>1. Reading(r) /\ Buffered(r) /\ One(metering[r]) \in {0, 1}
  BY DEF create_buffered_sse_stream, Sees, Polled, One
<1>2. CASE Close(r, "complete", 1, 0, One(metering[r]), 0)
  BY <1>1, <1>2, Closing
<1>3. CASE Close(r, "complete", 0, 0, One(metering[r]), 0)
  BY <1>1, <1>3, Closing
<1> QED
  BY <1>2, <1>3 DEF create_buffered_sse_stream

LEMMA EndOfWhole ==
    ASSUME MessageInv, NEW r \in Messages,
           \/ handle_non_stream_request(r) \/ handle_chat_non_stream(r)
           \/ handle_responses_non_stream(r)
    PROVE  MessageInv'
<1>1. Reading(r) /\ ~message[r].stream /\ ~Buffered(r)
  BY DEF handle_non_stream_request, handle_chat_non_stream, handle_responses_non_stream,
         AnsweredWhole, BrokenUncounted, Sees, Polled, Is, Buffered
<1>2. /\ InOrder(message[r], metering[r], r \in permits, ledger[r])
      /\ One(metering[r]) \in {0, 1} /\ One(message[r].stored) \in {0, 1}
  BY DEF MessageInv, One
<1>3. CASE Close(r, "aborted", 0, 0, 0, 0)
  BY <1>1, <1>3, Closing
<1>4. CASE Close(r, "complete", 1, 0, One(metering[r]), One(message[r].stored))
  BY <1>1, <1>2, <1>4, Closing
<1>5. CASE (handle_non_stream_request(r) \/ handle_chat_non_stream(r)) /\ AnsweredWhole(r, 0)
  <2>1. One(message[r].stored) = 0
    BY <1>2, <1>5 DEF InOrder, One, handle_non_stream_request, handle_chat_non_stream, Is
  <2> QED
    BY <1>4, <1>5, <2>1 DEF AnsweredWhole
<1> QED
  BY <1>3, <1>4, <1>5
     DEF handle_non_stream_request, handle_chat_non_stream, handle_responses_non_stream,
         AnsweredWhole, BrokenUncounted

-----------------------------------------------------------------------------
LEMMA NothingMoves == MessageInv /\ UNCHANGED messageVars => MessageInv'
BY DEF MessageInv, messageVars, Shapes, InOrder

LEMMA MessagesMove == MessageInv /\ [MessageNext]_messageVars => MessageInv'
<1> SUFFICES ASSUME MessageInv, MessageNext PROVE MessageInv'
  BY NothingMoves
<1>1. PICK r \in Messages :
          \/ RejectMessage(r)
          \/ handle_stream_request(r) \/ handle_stream_request_buffered(r)
          \/ handle_chat_stream(r) \/ handle_responses_stream(r) \/ HandlesWhole(r)
          \/ \E chunk \in Chunks : UpstreamSends(r, chunk)
          \/ \E how \in Ends : UpstreamEnds(r, how)
          \/ ClientReads(r) \/ ClientGoes(r)
          \/ MessageStep(r) \/ Ping(r)
  BY DEF MessageNext
<1>2. CASE RejectMessage(r)
  BY <1>2, Rejecting
<1>3. CASE CallsProvider(r)
  BY <1>3, Failing, Answering DEF CallsProvider
<1>4. CASE (\E chunk \in Chunks : UpstreamSends(r, chunk)) \/ \E how \in Ends : UpstreamEnds(r, how)
  BY <1>4, Sending
<1>5. CASE ClientGoes(r)
  BY <1>5, Leaving
<1>6. CASE ReadChunk(r) \/ Ping(r) \/ ClientReads(r)
  BY <1>6, Gathering
<1>7. CASE MessageStep(r)
  BY <1>6, <1>7, EndOfPassedOn, EndOfBuffered, EndOfWhole DEF MessageStep
<1> QED
  BY <1>1, <1>2, <1>3, <1>4, <1>5, <1>6, <1>7
     DEF handle_stream_request, handle_stream_request_buffered, handle_chat_stream,
         handle_responses_stream, HandlesWhole

\* Whatever the upstream sends and whenever the client goes, each request's permit and
\* ledger are those its place in the handler calls for.
THEOREM MessagesInOrder == MessageSpec => []MessageInv
<1>1. MessageInit => MessageInv
  BY MessageInitially
<1>2. MessageInv /\ [MessageNext]_messageVars => MessageInv'
  BY MessagesMove
<1> QED
  BY <1>1, <1>2, PTL DEF MessageSpec

LEMMA InOrderIsAccounted == MessageInv => AccountedAndReleased
<1> SUFFICES ASSUME MessageInv PROVE AccountedAndReleased
  OBVIOUS
<1>1. PermitsFollowTheBody
  BY DEF PermitsFollowTheBody, MessageInv, Shapes, InOrder, Reading
<1>2. ASSUME NEW r \in Messages
      PROVE  InOrder(message[r], metering[r], r \in permits, ledger[r])
  BY DEF MessageInv
<1>3. AccountedOnce
  BY <1>2 DEF AccountedOnce, InOrder, Whole, Buffered, Is
<1> QED
  BY <1>1, <1>3 DEF AccountedAndReleased

\* On all paths of the four handlers, streamed, buffered and whole, a request that is over
\* is written down at most once, with what the upstream charged, and has given back its
\* permit, wherever it broke off.
THEOREM EachIsAccountedAndReleased == MessageSpec => []AccountedAndReleased
BY MessagesInOrder, InOrderIsAccounted, PTL

-----------------------------------------------------------------------------
(***************************************************************************)
(* ProviderRetry, for any credentials, endpoints and proxies: what one     *)
(* call counts against a credential and when it declares one               *)
(* unauthenticated.                                                        *)
(***************************************************************************)
Trying == stage \in {"acquire", "send"}

\* The loop goes on only below its limit.
LoopInv == (Trying => attempt < MaxRetries) /\ (call = "none" => stage = "start" /\ attempt = 0)

\* A conversation does not come back to a credential it has reported.
CountInv ==
    /\ failures \in [Creds -> Nat]
    /\ call = "none" => \A c \in Creds : failures[c] = 0
    /\ call = "api" /\ stage = "send" => ctx \notin excluded
    /\ call = "api" => \A c \in Creds : failures[c] <= 1 /\ (failures[c] = 1 => c \in excluded)

\* What was refused before a credential is declared unauthenticated.
AuthInv ==
    /\ refusals \in [Creds -> Nat] /\ authMarked \subseteq Creds
    /\ \A c \in refreshed : refusals[c] >= 1
    /\ \A c \in authMarked : c \in refreshFailed \/ refusals[c] >= 2

ProviderInv == ProviderTypeOK /\ LoopInv /\ CountInv /\ AuthInv

LEMMA SomeRetries == MaxRetries \in Nat \ {0}
<1>1. Cardinality(Creds) \in Nat \ {0}
  BY ProviderAssumption, FS_EmptySet, FS_CardinalityType
<1> QED
  BY <1>1 DEF MaxRetries

LEMMA ProviderInitially == ProviderInit => ProviderInv
<1> SUFFICES ASSUME ProviderInit PROVE ProviderInv
  OBVIOUS
<1>1. ProviderTypeOK
  BY SomeRetries, ProviderAssumption DEF ProviderInit, ProviderTypeOK
<1>2. LoopInv /\ CountInv /\ AuthInv
  BY DEF ProviderInit, Blank, LoopInv, CountInv, AuthInv, Trying
<1> QED
  BY <1>1, <1>2 DEF ProviderInv

LEMMA Counted ==
    ASSUME NEW counter \in [Creds -> Nat], NEW c \in Creds
    PROVE  /\ Plus(counter, c) \in [Creds -> Nat]
           /\ Plus(counter, c)[c] = counter[c] + 1
           /\ \A x \in Creds \ {c} : Plus(counter, c)[x] = counter[x]
BY DEF Plus

\* What the loop does at the end of an attempt.
LEMMA Continues ==
    ASSUME ProviderInv, Trying, NextAttempt
    PROVE  /\ attempt' \in 0 .. MaxRetries /\ stage' \in {"acquire", "failed"}
           /\ endpoint' = 0 /\ ctx' = ctx /\ (Trying' => attempt' < MaxRetries)
BY SomeRetries DEF ProviderInv, LoopInv, ProviderTypeOK, NextAttempt, Trying

LEMMA ProviderTyped == ASSUME ProviderInv, ProviderNext PROVE ProviderTypeOK'
<1> USE ProviderAssumption, SomeRetries DEF ProviderTypeOK, LoopInv, Trying, ApiSends, McpSends, loopVars, setVars, proxyVars, reportVars
<1>1. ProviderTypeOK /\ LoopInv
  BY DEF ProviderInv
<1>2. CASE StartCall
  BY <1>1, <1>2, Continues, Counted DEF StartCall
<1>3. CASE AcquireFails
  BY <1>1, <1>3, Continues, Counted DEF AcquireFails
<1>4. CASE Answered
  BY <1>1, <1>4, Continues, Counted DEF Answered
<1>5. CASE \E c \in Creds : Acquire(c)
  BY <1>1, <1>5, Continues, Counted DEF Acquire
<1>6. CASE EndpointUnknown
  BY <1>1, <1>6, Continues, Counted DEF EndpointUnknown
<1>7. CASE AuthError
  BY <1>1, <1>7, Continues, Counted DEF AuthError, MarkAuthenticationFailed
<1>8. CASE AlternativeFatal
  BY <1>1, <1>8, Continues, Counted DEF AlternativeFatal, GiveUpEndpoints
<1>9. CASE \E e \in FatalErrors : FatalError(e)
  BY <1>1, <1>9, Continues, Counted DEF FatalError
<1>10. CASE \E e \in TransientErrors : TransientError(e)
  BY <1>1, <1>10, Continues, Counted DEF TransientError, GiveUpEndpoints
<1>11. CASE \E p \in PoolProxies : Rebind(p)
  BY <1>1, <1>11, Continues, Counted DEF Rebind, GiveUpEndpoints, choose_replacement_proxy
<1>12. CASE McpRetries
  BY <1>1, <1>12, Continues, Counted DEF McpRetries
<1>13. CASE McpBails
  BY <1>1, <1>13, Continues, Counted DEF McpBails
<1>14. CASE McpAuthError
  BY <1>1, <1>14, Continues, Counted DEF McpAuthError
<1> QED
  BY <1>2, <1>3, <1>4, <1>5, <1>6, <1>7, <1>8, <1>9, <1>10, <1>11, <1>12, <1>13, <1>14
     DEF ProviderNext, call_api_with_retry, call_mcp_with_retry, Attempts

LEMMA LoopKept == ASSUME ProviderInv, ProviderNext PROVE LoopInv'
<1> USE ProviderAssumption, SomeRetries DEF LoopInv, Trying, ApiSends, McpSends, loopVars, setVars, proxyVars, reportVars
<1>1. LoopInv
  BY DEF ProviderInv
<1>2. CASE StartCall
  BY <1>1, <1>2, Continues, Counted DEF StartCall
<1>3. CASE AcquireFails
  BY <1>1, <1>3, Continues, Counted DEF AcquireFails
<1>4. CASE Answered
  BY <1>1, <1>4, Continues, Counted DEF Answered
<1>5. CASE \E c \in Creds : Acquire(c)
  BY <1>1, <1>5, Continues, Counted DEF Acquire
<1>6. CASE EndpointUnknown
  BY <1>1, <1>6, Continues, Counted DEF EndpointUnknown
<1>7. CASE AuthError
  BY <1>1, <1>7, Continues, Counted DEF AuthError, MarkAuthenticationFailed
<1>8. CASE AlternativeFatal
  BY <1>1, <1>8, Continues, Counted DEF AlternativeFatal, GiveUpEndpoints
<1>9. CASE \E e \in FatalErrors : FatalError(e)
  BY <1>1, <1>9, Continues, Counted DEF FatalError
<1>10. CASE \E e \in TransientErrors : TransientError(e)
  BY <1>1, <1>10, Continues, Counted DEF TransientError, GiveUpEndpoints
<1>11. CASE \E p \in PoolProxies : Rebind(p)
  BY <1>1, <1>11, Continues, Counted DEF Rebind, GiveUpEndpoints, choose_replacement_proxy
<1>12. CASE McpRetries
  BY <1>1, <1>12, Continues, Counted DEF McpRetries
<1>13. CASE McpBails
  BY <1>1, <1>13, Continues, Counted DEF McpBails
<1>14. CASE McpAuthError
  BY <1>1, <1>14, Continues, Counted DEF McpAuthError
<1> QED
  BY <1>2, <1>3, <1>4, <1>5, <1>6, <1>7, <1>8, <1>9, <1>10, <1>11, <1>12, <1>13, <1>14
     DEF ProviderNext, call_api_with_retry, call_mcp_with_retry, Attempts

LEMMA CountKept == ASSUME ProviderInv, ProviderNext PROVE CountInv'
<1> USE ProviderAssumption, SomeRetries DEF ProviderTypeOK, LoopInv, CountInv, Trying, ApiSends, McpSends, loopVars, setVars, proxyVars, reportVars
<1>1. ProviderTypeOK /\ LoopInv /\ CountInv
  BY DEF ProviderInv
<1>2. CASE StartCall
  BY <1>1, <1>2, Continues, Counted DEF StartCall
<1>3. CASE AcquireFails
  BY <1>1, <1>3, Continues, Counted DEF AcquireFails
<1>4. CASE Answered
  BY <1>1, <1>4, Continues, Counted DEF Answered
<1>5. CASE \E c \in Creds : Acquire(c)
  BY <1>1, <1>5, Continues, Counted DEF Acquire
<1>6. CASE EndpointUnknown
  <2>1. /\ ctx \in Creds /\ failures' = Plus(failures, ctx) /\ call' = call /\ stage' # "send"
        /\ call = "api" => excluded' = excluded \cup {ctx}
    BY <1>1, <1>6, Continues DEF EndpointUnknown
  <2>2. call # "none"
    BY <1>1, <1>6 DEF EndpointUnknown
  <2>3. call = "api" => failures[ctx] = 0
    BY <1>1, <1>6 DEF EndpointUnknown
  <2> QED
    BY <1>1, <2>1, <2>2, <2>3, Counted
<1>7. CASE AuthError
  BY <1>1, <1>7, Continues, Counted DEF AuthError, MarkAuthenticationFailed
<1>8. CASE AlternativeFatal
  BY <1>1, <1>8, Continues, Counted DEF AlternativeFatal, GiveUpEndpoints
<1>9. CASE \E e \in FatalErrors : FatalError(e)
  BY <1>1, <1>9, Continues, Counted DEF FatalError
<1>10. CASE \E e \in TransientErrors : TransientError(e)
  BY <1>1, <1>10, Continues, Counted DEF TransientError, GiveUpEndpoints
<1>11. CASE \E p \in PoolProxies : Rebind(p)
  BY <1>1, <1>11, Continues, Counted DEF Rebind, GiveUpEndpoints, choose_replacement_proxy
<1>12. CASE McpRetries
  BY <1>1, <1>12, Continues, Counted DEF McpRetries
<1>13. CASE McpBails
  BY <1>1, <1>13, Continues, Counted DEF McpBails
<1>14. CASE McpAuthError
  BY <1>1, <1>14, Continues, Counted DEF McpAuthError
<1> QED
  BY <1>2, <1>3, <1>4, <1>5, <1>6, <1>7, <1>8, <1>9, <1>10, <1>11, <1>12, <1>13, <1>14
     DEF ProviderNext, call_api_with_retry, call_mcp_with_retry, Attempts

LEMMA AuthKept == ASSUME ProviderInv, ProviderNext PROVE AuthInv'
<1> USE ProviderAssumption, SomeRetries DEF ProviderTypeOK, LoopInv, AuthInv, Trying, ApiSends, McpSends, loopVars, setVars, proxyVars, reportVars
<1>1. ProviderTypeOK /\ LoopInv /\ AuthInv
  BY DEF ProviderInv
<1>2. CASE StartCall
  BY <1>1, <1>2, Continues, Counted DEF StartCall
<1>3. CASE AcquireFails
  BY <1>1, <1>3, Continues, Counted DEF AcquireFails
<1>4. CASE Answered
  BY <1>1, <1>4, Continues, Counted DEF Answered
<1>5. CASE \E c \in Creds : Acquire(c)
  BY <1>1, <1>5, Continues, Counted DEF Acquire
<1>6. CASE EndpointUnknown
  BY <1>1, <1>6, Continues, Counted DEF EndpointUnknown
<1>7. CASE AuthError
  BY <1>1, <1>7, Continues, Counted, SMTT(30) DEF AuthError, MarkAuthenticationFailed
<1>8. CASE AlternativeFatal
  BY <1>1, <1>8, Continues, Counted DEF AlternativeFatal, GiveUpEndpoints
<1>9. CASE \E e \in FatalErrors : FatalError(e)
  BY <1>1, <1>9, Continues, Counted DEF FatalError
<1>10. CASE \E e \in TransientErrors : TransientError(e)
  BY <1>1, <1>10, Continues, Counted DEF TransientError, GiveUpEndpoints
<1>11. CASE \E p \in PoolProxies : Rebind(p)
  BY <1>1, <1>11, Continues, Counted DEF Rebind, GiveUpEndpoints, choose_replacement_proxy
<1>12. CASE McpRetries
  BY <1>1, <1>12, Continues, Counted DEF McpRetries
<1>13. CASE McpBails
  BY <1>1, <1>13, Continues, Counted DEF McpBails
<1>14. CASE McpAuthError
  <2>1. /\ ctx \in Creds /\ refusals' = Plus(refusals, ctx) /\ authMarked' = authMarked
        /\ refreshed' \in {refreshed, refreshed \cup {ctx}} /\ refreshFailed \subseteq refreshFailed'
    BY <1>1, <1>14 DEF McpAuthError
  <2> QED
    BY <1>1, <2>1, Counted
<1> QED
  BY <1>2, <1>3, <1>4, <1>5, <1>6, <1>7, <1>8, <1>9, <1>10, <1>11, <1>12, <1>13, <1>14
     DEF ProviderNext, call_api_with_retry, call_mcp_with_retry, Attempts

LEMMA ProviderRests == ProviderInv /\ UNCHANGED providerVars => ProviderInv'
BY DEF ProviderInv, ProviderTypeOK, LoopInv, CountInv, AuthInv, Trying, providerVars,
       loopVars, setVars, proxyVars, reportVars

\* Whatever the upstream answers, a call ends within its attempts, and a conversation
\* excludes what it has reported.
THEOREM ProviderCorrect == ProviderSpec => []ProviderInv
<1>1. ProviderInit => ProviderInv
  BY ProviderInitially
<1>2. ProviderInv /\ [ProviderNext]_providerVars => ProviderInv'
  BY ProviderTyped, LoopKept, CountKept, AuthKept, ProviderRests DEF ProviderInv
<1> QED
  BY <1>1, <1>2, PTL DEF ProviderSpec

\* For any number of credentials, endpoints and proxies: one conversation counts at most
\* one failure against each credential, and declares none unauthenticated whose tokens
\* were neither refused twice nor impossible to renew.
THEOREM FailuresAreCountedOnce == ProviderSpec => []FailureCountedOnce
<1>1. ProviderInv => FailureCountedOnce
  BY DEF ProviderInv, CountInv, AuthInv, FailureCountedOnce
<1> QED
  BY <1>1, ProviderCorrect, PTL

-----------------------------------------------------------------------------
(***************************************************************************)
(* ToolNames, for every set of names and every limit: what a tool is       *)
(* called in the answer is a name its client has used for it.  How a name  *)
(* is changed plays no part in it, only that it is always changed in the   *)
(* same way.                                                               *)
(***************************************************************************)
\* What is remembered are names the client has used, each under what it is sent as; and
\* every name that is sent as something else is looked up.
NamesRemembered ==
    /\ \A s \in DOMAIN tool_name_map : tool_name_map[s] \in named /\ SentAs(tool_name_map[s]) = s
    /\ \A n \in named : SentAs(n) # n => SentAs(n) \in DOMAIN tool_name_map

LEMMA RememberedAtFirst == ToolNamesInit => NamesRemembered
  BY DEF ToolNamesInit, NamesRemembered

\* One more name is mapped.
LEMMA RememberedWithOneMore ==
    ASSUME NamesRemembered, NEW n, map_tool_name(n), named' = named \cup {n},
           UNCHANGED preserve_tool_names
    PROVE  NamesRemembered'
<1> DEFINE wire == SentAs(n)
<1>1. CASE wire # n
  <2>1. tool_name_map' = [s \in DOMAIN tool_name_map \cup {wire} |->
                             IF s = wire THEN n ELSE tool_name_map[s]]
    BY <1>1 DEF map_tool_name
  <2> HIDE DEF wire
  <2>2. DOMAIN tool_name_map' = DOMAIN tool_name_map \cup {wire}
    BY <2>1
  <2>3. ASSUME NEW s \in DOMAIN tool_name_map'
        PROVE  tool_name_map'[s] \in named' /\ SentAs(tool_name_map'[s]) = s
    <3>1. CASE s = wire
      BY <2>1, <2>2, <3>1 DEF wire
    <3>2. CASE s # wire
      <4>1. s \in DOMAIN tool_name_map /\ tool_name_map'[s] = tool_name_map[s]
        BY <2>1, <2>2, <3>2
      <4> QED
        BY <4>1 DEF NamesRemembered
    <3> QED
      BY <3>1, <3>2
  <2>4. ASSUME NEW m \in named', SentAs(m) # m PROVE SentAs(m) \in DOMAIN tool_name_map'
    BY <2>2, <2>4 DEF NamesRemembered, wire
  <2> QED
    BY <2>3, <2>4 DEF NamesRemembered, SentAs
<1>2. CASE wire = n
  <2>1. tool_name_map' = tool_name_map
    BY <1>2 DEF map_tool_name
  <2> QED
    BY <2>1, <1>2 DEF NamesRemembered, SentAs
<1> QED
  BY <1>1, <1>2

LEMMA RememberedStep == NamesRemembered /\ [ToolNamesNext]_toolNamesVars => NamesRemembered'
<1> SUFFICES ASSUME NamesRemembered, [ToolNamesNext]_toolNamesVars PROVE NamesRemembered'
  OBVIOUS
<1>1. CASE ToolNamesNext
  BY <1>1, RememberedWithOneMore
     DEF ToolNamesNext, convert_tools, convert_assistant_message
<1>2. CASE UNCHANGED toolNamesVars
  BY <1>2 DEF toolNamesVars, NamesRemembered, SentAs, shorten_tool_name, sanitize_tool_name
<1> QED
  BY <1>1, <1>2

LEMMA RememberedIsEnough == NamesRemembered => NamesComeBack
  BY DEF NamesRemembered, NamesComeBack, original_name

\* A tool the upstream calls is told by a name its client has used for it
\* (tool_name_map of converter.rs, looked up by every stream and answer).
THEOREM NamesCorrect == ToolNamesSpec => []NamesComeBack
  BY RememberedAtFirst, RememberedStep, RememberedIsEnough, PTL DEF ToolNamesSpec

-----------------------------------------------------------------------------
(***************************************************************************)
(* RequestPreparation, for every request and every configuration.  Each    *)
(* step reads the settings anew, so what a step leaves behind is tied to   *)
(* the settings only as long as these are steady.                          *)
(***************************************************************************)

\* A request as a handler has changed it.
Changed ==
    [entry : {"messages", "count_tokens", "chat", "responses"}, model : Models,
     thinking : Thinking, max_tokens : Nat,
     system : SUBSET {"mode", "length", "noise", "injected"}, tools : SUBSET {"search", "other"},
     choice : {"none", "search"}, first : {"text", "prefixed", "blank", "image"},
     shape : {"good", "ends_with_assistant", "no_user"}]

PreparationTyped ==
    /\ asked \in SentRequests /\ payload \in Changed
    /\ suffix \in ThinkingSuffixes /\ mapping \in Models

BeforeThinking == {"arrived", "valid"}
AfterThinking == {"injecting", "routing", "kept"}

\* What the handler may have changed so far: only prepare_kiro_request, the last step, maps the
\* model, and the client's own prompt stays as it is.
StillAsked ==
    /\ payload.entry = asked.entry
    /\ phase \in BeforeThinking \cup AfterThinking => payload.model = asked.model
    /\ asked.system \subseteq payload.system
    /\ payload.system \subseteq asked.system \cup {"injected"}
    /\ phase \in BeforeThinking => payload.thinking = asked.thinking

\* The thinking is what the model's name asks for, while the settings stay.
ThinkingIsSet ==
    phase \in AfterThinking /\ steady =>
        payload.thinking = override_thinking_from_model_name(asked, suffix).thinking

PreparationInv ==
    /\ PreparationTyped /\ StillAsked /\ ThinkingIsSet
    /\ phase = "kept" => "search" \notin payload.tools
    /\ PreparedAsAsked

LEMMA PreparationAtFirst == PreparationInit => PreparationInv
<1> SUFFICES ASSUME PreparationInit PROVE PreparationInv
  OBVIOUS
<1>1. asked \in SentRequests /\ payload = asked /\ phase = "arrived" /\ suffix \in ThinkingSuffixes
  BY PreparationAssumption DEF PreparationInit
<1>2. payload \in Changed
  BY <1>1 DEF SentRequests, Changed
<1>3. mapping \in Models
  <2>1. Unmapped \in Models
    BY DEF Models, Unmapped, Unnamed
  <2> QED
    BY <2>1, PreparationAssumption DEF PreparationInit
<1> QED
  BY <1>1, <1>2, <1>3
     DEF PreparationInv, PreparationTyped, StillAsked, ThinkingIsSet, PreparedAsAsked,
         BeforeThinking, AfterThinking

\* The thinking a request has: nothing but its type and display matters below.
LEMMA Overridden ==
    ASSUME NEW q \in Changed, NEW s
    PROVE  LET old == q.thinking
               new == override_thinking_from_model_name(q, s).thinking
           IN  /\ override_thinking_from_model_name(q, s) \in Changed
               /\ override_thinking_from_model_name(q, s) = [q EXCEPT !.thinking = new]
               /\ NamesThinking(q.model, s) /\ OpusAdaptive(q.model) =>
                      new.type = "adaptive" /\ new.display = "summarized"
               /\ NamesThinking(q.model, s) /\ ~OpusAdaptive(q.model) => new.type = "enabled"
               /\ ~NamesThinking(q.model, s) /\ Opus47(q.model) /\ old.type # "none" =>
                      /\ new.type = (IF old.type = "enabled" THEN "adaptive" ELSE old.type)
                      /\ new.display = (IF old.display = "none" THEN "summarized" ELSE old.display)
               /\ ~NamesThinking(q.model, s) /\ ~(Opus47(q.model) /\ old.type # "none") => new = old
<1> DEFINE old == q.thinking
           asNamed == IF OpusAdaptive(q.model)
                      THEN [type |-> "adaptive", budget |-> 0, display |-> "summarized"]
                      ELSE [type |-> "enabled", budget |-> SUFFIX_BUDGET, display |-> "none"]
           asOpus == [old EXCEPT !.type = IF @ = "enabled" THEN "adaptive" ELSE @,
                                 !.display = IF @ = "none" THEN "summarized" ELSE @]
           new == IF NamesThinking(q.model, s) THEN asNamed
                  ELSE IF Opus47(q.model) /\ old.type # "none" THEN asOpus ELSE old
<1>1. old \in Thinking
  BY DEF Changed
<1>2. /\ asNamed \in Thinking
      /\ OpusAdaptive(q.model) => asNamed.type = "adaptive" /\ asNamed.display = "summarized"
      /\ ~OpusAdaptive(q.model) => asNamed.type = "enabled"
  <2>1. SUFFIX_BUDGET \in Nat
    BY PreparationAssumption
  <2>2. CASE OpusAdaptive(q.model)
    <3>1. asNamed = [type |-> "adaptive", budget |-> 0, display |-> "summarized"]
      BY <2>2
    <3> HIDE DEF asNamed
    <3> QED
      BY <2>2, <3>1 DEF Thinking
  <2>3. CASE ~OpusAdaptive(q.model)
    <3>1. asNamed = [type |-> "enabled", budget |-> SUFFIX_BUDGET, display |-> "none"]
      BY <2>3
    <3> HIDE DEF asNamed
    <3> QED
      BY <2>1, <2>3, <3>1 DEF Thinking
  <2> QED
    BY <2>2, <2>3
<1>3. /\ asOpus \in Thinking
      /\ asOpus.type = (IF old.type = "enabled" THEN "adaptive" ELSE old.type)
      /\ asOpus.display = (IF old.display = "none" THEN "summarized" ELSE old.display)
  <2> DEFINE type == IF old.type = "enabled" THEN "adaptive" ELSE old.type
             display == IF old.display = "none" THEN "summarized" ELSE old.display
  <2>1. asOpus = [[old EXCEPT !.type = type] EXCEPT !.display = display]
    OBVIOUS
  <2>2. /\ type \in {"none", "enabled", "adaptive", "disabled", "other"}
        /\ display \in {"none", "summarized", "omitted", "other"}
    BY <1>1 DEF Thinking
  <2> HIDE DEF type, display, old, asOpus
  <2>3. asOpus \in Thinking /\ asOpus.type = type /\ asOpus.display = display
    BY <1>1, <2>1, <2>2 DEF Thinking
  <2> QED
    BY <2>3 DEF type, display
<1>4. override_thinking_from_model_name(q, s) = [q EXCEPT !.thinking = new]
  BY DEF override_thinking_from_model_name
<1> HIDE DEF asNamed, asOpus
<1>5. new \in Thinking
  BY <1>1, <1>2, <1>3
<1> HIDE DEF new, old
<1>6. [q EXCEPT !.thinking = new] \in Changed /\ [q EXCEPT !.thinking = new].thinking = new
  BY <1>5 DEF Changed
<1> QED
  BY <1>2, <1>3, <1>4, <1>6 DEF new, old

\* Setting the thinking a second time changes none of the instructions it stands for,
\* and neither does the mapping of the model's name.
LEMMA SetTwiceIsSetOnce ==
    ASSUME NEW q \in Changed, NEW p \in Changed, NEW s,
           p.model = q.model, p.thinking = override_thinking_from_model_name(q, s).thinking
    PROVE  generate_thinking_prefix(request_with_thinking_accounting(p, s)) = generate_thinking_prefix(p)
<1> DEFINE on == override_thinking_from_model_name(p, s)
           r == request_with_thinking_accounting(p, s)
<1>1. on \in Changed /\ on.model = p.model
  BY Overridden DEF Changed
<1>2. r.thinking = on.thinking /\ r.model = map_model(p.model, s)
  BY <1>1 DEF request_with_thinking_accounting, Changed
<1>3. Opus47(r.model) <=> Opus47(p.model)
  BY <1>2 DEF map_model, Opus47, Changed, Models
<1> DEFINE t == p.thinking
           u == on.thinking
<1>4. /\ t.type \in {"enabled", "adaptive"} <=> u.type \in {"enabled", "adaptive"}
      /\ t.type \in {"enabled", "adaptive"} => u.type = t.type
      /\ t.type = "adaptive" /\ Opus47(p.model) =>
             (u.display \in {"none", "summarized"} <=> t.display \in {"none", "summarized"})
  BY Overridden DEF OpusAdaptive, Opus47
<1>5. r.thinking = u /\ p.thinking = t
  BY <1>2
<1> SUFFICES generate_thinking_prefix(r) = generate_thinking_prefix(p)
  OBVIOUS
<1> HIDE DEF r, t, u
<1>6. CASE t.type \in {"enabled", "adaptive"}
  <2>1. u.type = t.type
    BY <1>4, <1>6
  <2>2. ThinkingIsOn(r) /\ ThinkingIsOn(p)
    BY <1>4, <1>5, <1>6 DEF ThinkingIsOn
  <2>3. (/\ r.thinking.type = "adaptive" /\ Opus47(r.model) /\ r.thinking.display \in {"none", "summarized"})
        <=> (/\ p.thinking.type = "adaptive" /\ Opus47(p.model) /\ p.thinking.display \in {"none", "summarized"})
    BY <1>3, <1>4, <1>5, <2>1
  <2> QED
    BY <1>5, <2>1, <2>2, <2>3 DEF generate_thinking_prefix
<1>7. CASE t.type \notin {"enabled", "adaptive"}
  BY <1>4, <1>5, <1>7 DEF generate_thinking_prefix, ThinkingIsOn
<1> QED
  BY <1>6, <1>7

\* The instructions are those of the prefix, and there are some if thinking is on.
LEMMA PrefixIsInstructions ==
    ASSUME NEW q
    PROVE  /\ generate_thinking_prefix(q) \subseteq Instructions
           /\ generate_thinking_prefix(q) # {} <=> ThinkingIsOn(q)
  BY DEF generate_thinking_prefix, ThinkingIsOn, Instructions

\* A client's prompt has none of the instructions, so those that are sent are the prefix.
LEMMA SentInstructions ==
    ASSUME NEW q \in Changed
    PROVE  /\ ThinkingIsOn(q) => SentSystem(q) \cap (Instructions \cup {"mode", "length"}) # {}
           /\ SentSystem(q) \cap Instructions # {} => ThinkingIsOn(q)
           /\ q.system \cap {"mode", "length"} = {} =>
                  SentSystem(q) \cap Instructions = generate_thinking_prefix(q)
<1> DEFINE prefix == generate_thinking_prefix(q)
           kept == IF filtering THEN q.system \ {"noise"} ELSE q.system
<1>1. q.system \cap Instructions = {}
  BY DEF Changed, Instructions
<1>2. kept \cap Instructions = {} /\ kept \cap {"mode", "length"} = q.system \cap {"mode", "length"}
  BY <1>1
<1>3. SentSystem(q) = IF kept \cap {"mode", "length"} = {} THEN kept \cup prefix ELSE kept
  BY DEF SentSystem
<1>4. prefix \subseteq Instructions /\ (prefix # {} <=> ThinkingIsOn(q))
  BY PrefixIsInstructions
<1> HIDE DEF prefix, kept
<1>5. CASE kept \cap {"mode", "length"} = {}
  <2>1. SentSystem(q) \cap Instructions = prefix
    BY <1>2, <1>3, <1>4, <1>5
  <2>2. SentSystem(q) \cap Instructions \subseteq SentSystem(q) \cap (Instructions \cup {"mode", "length"})
    OBVIOUS
  <2> QED
    BY <1>4, <2>1, <2>2 DEF prefix
<1>6. CASE kept \cap {"mode", "length"} # {}
  BY <1>2, <1>3, <1>4, <1>6
<1> QED
  BY <1>5, <1>6 DEF prefix

LEMMA CountedInstructions ==
    ASSUME NEW q \in Changed, q.system \cap {"mode", "length"} = {}
    PROVE  CountedSystem(q) \cap Instructions = generate_thinking_prefix(q)
<1>1. "mode" \notin q.system /\ q.system \cap Instructions = {}
  BY DEF Changed, Instructions
<1>2. CountedSystem(q) = q.system \cup generate_thinking_prefix(q)
  BY <1>1 DEF CountedSystem
<1> QED
  BY <1>1, <1>2, PrefixIsInstructions

\* The request that is counted has the client's prompt, and a model of this world.
LEMMA CountedRequest ==
    ASSUME NEW q \in Changed, NEW s
    PROVE  /\ request_with_thinking_accounting(q, s) \in Changed
           /\ request_with_thinking_accounting(q, s).system = q.system
<1> DEFINE on == override_thinking_from_model_name(q, s)
<1>1. on \in Changed /\ on.system = q.system
  <2>1. on = [q EXCEPT !.thinking = on.thinking] /\ on \in Changed
    BY Overridden
  <2> HIDE DEF on
  <2>2. on.system = q.system
    BY <2>1 DEF Changed
  <2> QED
    BY <2>1, <2>2
<1> HIDE DEF on
<1>2. map_model(on.model, s) \in Models
  BY <1>1 DEF map_model, Changed, Models, Unnamed
<1>3. request_with_thinking_accounting(q, s) = [on EXCEPT !.model = map_model(on.model, s)]
  BY DEF request_with_thinking_accounting, on
<1> QED
  BY <1>1, <1>2, <1>3 DEF Changed

\* A model's name that asks for thinking gets it, and is sent without its end.
LEMMA NamedThinks ==
    ASSUME NEW q \in Changed, NEW s, NamesThinking(q.model, s)
    PROVE  /\ override_thinking_from_model_name(q, s).thinking.type \in {"enabled", "adaptive"}
           /\ map_model(q.model, s).tail = Unnamed
<1>1. override_thinking_from_model_name(q, s).thinking.type \in {"enabled", "adaptive"}
  BY Overridden
<1>2. map_model(q.model, s).tail = Unnamed
  BY DEF map_model, Changed, Models
<1> QED
  BY <1>1, <1>2

\* What the thinking is set to depends on the model and the thinking alone.
LEMMA SameThinking ==
    ASSUME NEW p \in Changed, NEW q \in Changed, NEW s, p.model = q.model, p.thinking = q.thinking
    PROVE  override_thinking_from_model_name(p, s).thinking
               = override_thinking_from_model_name(q, s).thinking
<1> DEFINE new(r) ==
               IF NamesThinking(r.model, s) THEN
                   IF OpusAdaptive(r.model)
                   THEN [type |-> "adaptive", budget |-> 0, display |-> "summarized"]
                   ELSE [type |-> "enabled", budget |-> SUFFIX_BUDGET, display |-> "none"]
               ELSE IF Opus47(r.model) /\ r.thinking.type # "none" THEN
                   [r.thinking EXCEPT !.type = IF @ = "enabled" THEN "adaptive" ELSE @,
                                      !.display = IF @ = "none" THEN "summarized" ELSE @]
               ELSE r.thinking
<1>1. new(p) = new(q)
  OBVIOUS
<1>2. /\ override_thinking_from_model_name(p, s) = [p EXCEPT !.thinking = new(p)]
      /\ override_thinking_from_model_name(q, s) = [q EXCEPT !.thinking = new(q)]
  BY DEF override_thinking_from_model_name
<1> HIDE DEF new
<1> QED
  BY <1>1, <1>2 DEF Changed

-----------------------------------------------------------------------------
LEMMA SentIsChanged == SentRequests \subseteq Changed
<1> SUFFICES ASSUME NEW q \in SentRequests PROVE q \in Changed
  OBVIOUS
<1> QED
  BY DEF SentRequests, Changed

\* The handler of the Messages API hands on what it should.
LEMMA MessagesAreReady ==
    ASSUME PreparationInv, prepare_request PROVE PreparedAsAsked'
<1> SUFFICES ASSUME phase' = "sent" PROVE PreparedAsAsked'
  BY DEF PreparedAsAsked
<1>1. /\ payload \in Changed /\ asked \in Changed /\ asked \in SentRequests
      /\ phase = "kept" /\ payload.entry = asked.entry /\ payload.model = asked.model
      /\ asked.system \subseteq payload.system /\ payload.system \subseteq asked.system \cup {"injected"}
      /\ steady => payload.thinking = override_thinking_from_model_name(asked, suffix).thinking
      /\ "search" \notin payload.tools /\ payload.entry = "messages"
  BY SentIsChanged
     DEF PreparationInv, PreparationTyped, StillAsked, ThinkingIsSet, BeforeThinking, AfterThinking,
         prepare_request, Step
<1> DEFINE counted == request_with_thinking_accounting(payload, suffix)
<1>2. /\ prepared'.model = map_model(payload.model, suffix)
      /\ prepared'.system = SentSystem(payload)
      /\ prepared'.counted = CountedSystem(counted)
      /\ prepared'.reads = ThinkingIsOn(payload) /\ prepared'.tools = payload.tools
      /\ asked' = asked /\ steady' = steady /\ suffix' = suffix /\ mapping' = mapping
  BY DEF prepare_request, Step, settingVars
<1>3. counted \in Changed /\ counted.system = payload.system
  BY <1>1, CountedRequest
<1> HIDE DEF counted
<1>4. "search" \notin prepared'.tools
  BY <1>1, <1>2
<1>5. /\ prepared'.reads => prepared'.system \cap (Instructions \cup {"mode", "length"}) # {}
      /\ prepared'.system \cap Instructions # {} => prepared'.reads
  BY <1>1, <1>2, SentInstructions
<1>6. ASSUME steady', NamesThinking(asked.model, suffix)
      PROVE  prepared'.reads /\ prepared'.model.tail = Unnamed
  <2>1. /\ override_thinking_from_model_name(asked, suffix).thinking.type \in {"enabled", "adaptive"}
        /\ map_model(asked.model, suffix).tail = Unnamed
    BY <1>1, <1>6, NamedThinks
  <2>2. payload.thinking.type \in {"enabled", "adaptive"}
    BY <1>1, <1>2, <1>6, <2>1
  <2> QED
    BY <1>1, <1>2, <2>1, <2>2 DEF ThinkingIsOn
<1>7. ASSUME steady', asked.system \cap {"mode", "length"} = {}
      PROVE  prepared'.counted \cap Instructions = prepared'.system \cap Instructions
  <2>1. payload.system \cap {"mode", "length"} = {}
    BY <1>1, <1>7
  <2>2. generate_thinking_prefix(counted) = generate_thinking_prefix(payload)
    BY <1>1, <1>2, <1>7, SetTwiceIsSetOnce DEF counted
  <2> QED
    BY <1>1, <1>2, <1>3, <2>1, <2>2, SentInstructions, CountedInstructions
<1> QED
  BY <1>2, <1>4, <1>5, <1>6, <1>7 DEF PreparedAsAsked, NamesThinking

\* The handlers of the OpenAI protocols map the model first.
LEMMA OpenAiIsReady ==
    ASSUME PreparationInv, prepare_kiro_request PROVE PreparedAsAsked'
<1> SUFFICES ASSUME phase' = "sent" PROVE PreparedAsAsked'
  BY DEF PreparedAsAsked
<1>1. /\ payload \in Changed /\ asked \in Changed /\ mapping \in Models
      /\ phase = "kept" /\ payload.entry = asked.entry /\ payload.model = asked.model
      /\ steady => payload.thinking = override_thinking_from_model_name(asked, suffix).thinking
      /\ "search" \notin payload.tools /\ payload.entry # "messages"
  BY SentIsChanged
     DEF PreparationInv, PreparationTyped, StillAsked, ThinkingIsSet, BeforeThinking, AfterThinking,
         prepare_kiro_request, Step
<1> DEFINE q == IF mapping = Unmapped THEN payload ELSE [payload EXCEPT !.model = mapping]
<1>2. /\ prepared'.model = map_model(q.model, suffix)
      /\ prepared'.system = SentSystem(q)
      /\ prepared'.reads = ThinkingIsOn(q) /\ prepared'.tools = q.tools
      /\ asked' = asked /\ steady' = steady /\ suffix' = suffix /\ mapping' = mapping
  <2>1. payload.first # "blank"
    BY DEF prepare_kiro_request, Step
  <2>2. \E z \in {q} :
            prepared' = [model |-> map_model(z.model, suffix), system |-> SentSystem(z),
                         counted |-> asked.system, reads |-> ThinkingIsOn(z), tools |-> z.tools]
    BY <2>1 DEF prepare_kiro_request
  <2> HIDE DEF q
  <2> QED
    BY <2>2 DEF prepare_kiro_request, settingVars
<1>3. /\ q \in Changed /\ q.tools = payload.tools /\ q.thinking = payload.thinking
      /\ mapping = Unmapped => q.model = payload.model
  BY <1>1 DEF Changed
<1> HIDE DEF q
<1>4. /\ prepared'.reads => prepared'.system \cap (Instructions \cup {"mode", "length"}) # {}
      /\ prepared'.system \cap Instructions # {} => prepared'.reads
  BY <1>2, <1>3, SentInstructions
<1>5. ASSUME steady', NamesThinking(asked.model, suffix)
      PROVE  prepared'.reads /\ (mapping = Unmapped => prepared'.model.tail = Unnamed)
  <2>1. /\ override_thinking_from_model_name(asked, suffix).thinking.type \in {"enabled", "adaptive"}
        /\ map_model(asked.model, suffix).tail = Unnamed
    BY <1>1, <1>5, NamedThinks
  <2>2. q.thinking = override_thinking_from_model_name(asked, suffix).thinking
    BY <1>1, <1>2, <1>3, <1>5
  <2>3. prepared'.reads
    BY <1>2, <2>1, <2>2 DEF ThinkingIsOn
  <2>4. mapping = Unmapped => q.model = asked.model
    BY <1>1, <1>3
  <2> QED
    BY <1>2, <2>1, <2>3, <2>4
<1> QED
  BY <1>1, <1>2, <1>3, <1>4, <1>5 DEF PreparedAsAsked, NamesThinking

LEMMA PreparationStep == PreparationInv /\ [PreparationNext]_preparationVars => PreparationInv'
<1> SUFFICES ASSUME PreparationInv, [PreparationNext]_preparationVars PROVE PreparationInv'
  OBVIOUS
<1> USE DEF settingVars, BeforeThinking, AfterThinking, Step
<1>1. /\ PreparationTyped /\ StillAsked /\ ThinkingIsSet
      /\ phase = "kept" => "search" \notin payload.tools
  BY DEF PreparationInv
<1>2. CASE Validate
  <2>1. phase' \in {"refused", "counting", "valid"} /\ phase = "arrived"
    BY <1>2 DEF Validate
  <2> QED
    BY <1>1, <1>2, <2>1
       DEF Validate, PreparationInv, PreparationTyped, StillAsked, ThinkingIsSet, PreparedAsAsked
<1>3. CASE OverrideThinking
  <2>1. /\ phase = "valid" /\ phase' \in {"injecting", "routing"}
        /\ payload' = override_thinking_from_model_name(payload, suffix)
        /\ UNCHANGED <<settingVars, asked, prepared, steady>>
    BY <1>3 DEF OverrideThinking
  <2>2. /\ payload \in Changed /\ asked \in SentRequests
        /\ payload.model = asked.model /\ payload.thinking = asked.thinking
    BY <1>1, <2>1 DEF PreparationTyped, StillAsked
  <2>3. payload' \in Changed /\ payload' = [payload EXCEPT !.thinking = payload'.thinking]
    BY <2>1, <2>2, Overridden
  <2>4. payload'.thinking = override_thinking_from_model_name(asked, suffix).thinking
    BY <2>1, <2>2, SentIsChanged, SameThinking
  <2>5. payload'.entry = payload.entry /\ payload'.model = payload.model /\ payload'.system = payload.system
    BY <2>2, <2>3 DEF Changed
  <2> QED
    BY <1>1, <2>1, <2>3, <2>4, <2>5
       DEF PreparationInv, PreparationTyped, StillAsked, ThinkingIsSet, PreparedAsAsked
<1>4. CASE inject_system_prompt
  <2>1. /\ phase = "injecting" /\ phase' = "routing" /\ payload \in Changed
        /\ UNCHANGED <<settingVars, asked, prepared, steady>>
    BY <1>1, <1>4 DEF inject_system_prompt, PreparationTyped
  <2>2. /\ payload' \in Changed /\ payload'.entry = payload.entry /\ payload'.model = payload.model
        /\ payload'.thinking = payload.thinking
        /\ payload.system \subseteq payload'.system
        /\ payload'.system \subseteq payload.system \cup {"injected"}
    <3>1. CASE injecting
      <4>1. payload' = [payload EXCEPT !.system = payload.system \cup {"injected"}]
        BY <1>4, <3>1 DEF inject_system_prompt
      <4>2. payload.system \cup {"injected"} \in SUBSET {"mode", "length", "noise", "injected"}
        BY <2>1 DEF Changed
      <4> QED
        BY <2>1, <4>1, <4>2 DEF Changed
    <3>2. CASE ~injecting
      BY <1>4, <2>1, <3>2 DEF inject_system_prompt
    <3> QED
      BY <3>1, <3>2
  <2> QED
    BY <1>1, <2>1, <2>2
       DEF PreparationInv, PreparationTyped, StillAsked, ThinkingIsSet, PreparedAsAsked
<1>5. CASE Route
  <2>1. /\ phase = "routing" /\ phase' \in {"searching", "kept"} /\ payload \in Changed
        /\ UNCHANGED <<settingVars, asked, prepared, steady>>
    BY <1>1, <1>5 DEF Route, PreparationTyped
  <2>2. /\ payload' \in Changed /\ payload'.entry = payload.entry /\ payload'.model = payload.model
        /\ payload'.thinking = payload.thinking /\ payload'.system = payload.system
        /\ phase' = "kept" => "search" \notin payload'.tools
    <3>1. CASE should_handle_websearch_request(payload)
      BY <1>5, <2>1, <3>1 DEF Route
    <3>2. CASE ~should_handle_websearch_request(payload)
      <4>1. payload' = [payload EXCEPT !.tools = payload.tools \ {"search"}]
        BY <1>5, <3>2 DEF Route, strip_web_search_tools
      <4>2. payload.tools \ {"search"} \in SUBSET {"search", "other"}
        BY <2>1 DEF Changed
      <4> QED
        BY <2>1, <4>1, <4>2 DEF Changed
    <3> QED
      BY <3>1, <3>2
  <2> QED
    BY <1>1, <2>1, <2>2
       DEF PreparationInv, PreparationTyped, StillAsked, ThinkingIsSet, PreparedAsAsked
<1>6. CASE Search
  <2>1. phase' \in {"found", "empty", "refused"}
    BY <1>6 DEF Search
  <2> QED
    BY <1>1, <1>6, <2>1
       DEF Search, PreparationInv, PreparationTyped, StillAsked, ThinkingIsSet, PreparedAsAsked
<1>7. CASE prepare_request
  <2>1. phase' \in {"refused", "sent"}
    BY <1>7 DEF prepare_request
  <2> QED
    BY <1>1, <1>7, <2>1, MessagesAreReady
       DEF prepare_request, PreparationInv, PreparationTyped, StillAsked, ThinkingIsSet
<1>8. CASE prepare_kiro_request
  <2>1. phase' \in {"refused", "sent"} /\ payload \in Changed /\ mapping \in Models
    BY <1>1, <1>8 DEF prepare_kiro_request, PreparationTyped
  <2>2. payload' = IF mapping = Unmapped THEN payload ELSE [payload EXCEPT !.model = mapping]
    BY <1>8 DEF prepare_kiro_request
  <2>3. payload' \in Changed /\ payload'.entry = payload.entry /\ payload'.system = payload.system
    BY <2>1, <2>2 DEF Changed
  <2> QED
    BY <1>1, <1>8, <2>1, <2>3, OpenAiIsReady
       DEF prepare_kiro_request, PreparationInv, PreparationTyped, StillAsked, ThinkingIsSet
<1>9. CASE count_tokens
  BY <1>1, <1>9
     DEF count_tokens, PreparationInv, PreparationTyped, StillAsked, ThinkingIsSet, PreparedAsAsked
<1>10. CASE EditSettings
  <2>1. Unmapped \in Models
    BY DEF Models, Unmapped, Unnamed
  <2>2. /\ suffix' \in ThinkingSuffixes /\ mapping' \in Models /\ steady' = FALSE
        /\ phase \in {"valid", "injecting", "routing", "kept", "counting"}
        /\ UNCHANGED <<asked, payload, phase, prepared>>
    BY <1>1, <1>10, <2>1, PreparationAssumption DEF EditSettings, PreparationTyped
  <2> QED
    BY <1>1, <2>2 DEF PreparationInv, PreparationTyped, StillAsked, ThinkingIsSet, PreparedAsAsked
<1>11. CASE UNCHANGED preparationVars
  BY <1>11 DEF PreparationInv, PreparationTyped, StillAsked, ThinkingIsSet, PreparedAsAsked,
               preparationVars, NamesThinking
<1> QED
  BY <1>2, <1>3, <1>4, <1>5, <1>6, <1>7, <1>8, <1>9, <1>10, <1>11 DEF PreparationNext

\* Whatever an administrator changes between two steps of a request, what the handlers
\* hand on stays a request of the client's: nothing but its model and its prompt is changed,
\* and the thinking is that of its model's name while the settings stay.
THEOREM PreparationCorrect == PreparationSpec => []PreparationInv
  BY PreparationAtFirst, PreparationStep, PTL DEF PreparationSpec

\* What is sent agrees with how the answer will be read, with what the client asked for and
\* with what it pays for (prepare_request, prepare_kiro_request and the accounting).
THEOREM RequestsArePreparedAsAsked == PreparationSpec => []PreparedAsAsked
<1>1. PreparationInv => PreparedAsAsked
  BY DEF PreparationInv
<1> QED
  BY <1>1, PreparationCorrect, PTL

-----------------------------------------------------------------------------
(***************************************************************************)
(* EventStreamDecoder, for frames of any length and any number of them,    *)
(* however they are damaged and cut into chunks.                           *)
(***************************************************************************)
Bytes == [frame : Int, at : Int]

\* The bytes of the first m frames.
Base(m) == m * FrameBytes

\* Nothing has come so far that the decoder cannot get over.
Readable ==
    (\A f \in DOMAIN damage : HasBegun(f) => damage[f] # "prelude") /\ ~overflowed

\* The first m frames are behind, and the buffer has what has come since.
Behind(m) ==
    /\ Len(buffer) = arrived - Base(m)
    /\ \A p \in 1 .. Len(buffer) : buffer[p] = Wire[Base(m) + p]
    /\ HasDelivered(m)
    /\ ~reading /\ decoderState = "Ready" => Len(buffer) < FrameBytes

DecoderTyped ==
    /\ damage \in [1 .. MaxFrames -> Damages]
    /\ arrived \in 0 .. Base(MaxFrames)
    /\ buffer \in Seq(Bytes) /\ delivered \in Seq(Int)
    /\ overflowed \in BOOLEAN /\ errorCount \in Nat

DecoderInv == DecoderTyped /\ (Readable => \E m \in 0 .. MaxFrames : Behind(m))

LEMMA Quotient ==
    ASSUME NEW n \in Nat, NEW b \in Nat \ {0}, NEW m \in Nat, m * b <= n, n < (m + 1) * b
    PROVE  n \div b = m
  OBVIOUS

LEMMA AtLeast ==
    ASSUME NEW n \in Nat, NEW b \in Nat \ {0}, NEW m \in Nat, m * b <= n
    PROVE  m <= n \div b /\ n \div b \in Nat
  OBVIOUS

LEMMA Times ==
    ASSUME NEW b \in Nat \ {0}, NEW m \in Nat, NEW k \in Nat, m < k
    PROVE  (m + 1) * b <= k * b
  OBVIOUS

LEMMA Grows ==
    ASSUME NEW b \in Nat \ {0}, NEW m \in Nat
    PROVE  (m + 1) * b = m * b + b /\ m * b \in Nat
  OBVIOUS

LEMMA Place ==
    ASSUME NEW b \in Nat \ {0}, NEW m \in Nat, NEW i \in 1 .. b
    PROVE  (m * b + i - 1) \div b = m /\ (m * b + i - 1) % b = i - 1
  OBVIOUS

LEMMA DecoderConstants ==
    /\ FrameBytes \in Nat \ {0} /\ PRELUDE_SIZE \in Nat \ {0} /\ MaxErrors \in Nat \ {0}
    /\ MaxFrames \in Nat
<1>1. /\ FrameBytes \in Nat /\ PRELUDE_SIZE \in 1 .. FrameBytes
      /\ MaxErrors \in 1 .. FrameBytes - 1 /\ MaxFrames \in Nat
  BY DecoderAssumption
<1> QED
  BY <1>1

LEMMA Bases ==
    /\ \A m \in Nat : Base(m) \in Nat /\ Base(m + 1) = Base(m) + FrameBytes
    /\ \A m, k \in Nat : m < k => Base(m + 1) <= Base(k)
    /\ Base(0) = 0
<1>1. \A m \in Nat : Base(m) \in Nat /\ Base(m + 1) = Base(m) + FrameBytes
  BY DecoderConstants, Grows DEF Base
<1>2. ASSUME NEW m \in Nat, NEW k \in Nat, m < k PROVE Base(m + 1) <= Base(k)
  BY <1>2, DecoderConstants, Times DEF Base
<1>3. Base(0) = 0
  BY DecoderConstants DEF Base
<1> QED
  BY <1>1, <1>2, <1>3

\* A function on 1 .. n is a sequence; what its parts are.
LEMMA FunctionAsSeq ==
    ASSUME NEW T, NEW n \in Nat, NEW s \in [1 .. n -> T]
    PROVE  s \in Seq(T) /\ Len(s) = n /\ DOMAIN s = 1 .. n
  OBVIOUS

LEMMA PartOf ==
    ASSUME NEW T, NEW s \in Seq(T), NEW a \in Nat, NEW b \in Nat, a <= b, b <= Len(s)
    PROVE  /\ SubSeq(s, a + 1, b) \in Seq(T) /\ Len(SubSeq(s, a + 1, b)) = b - a
           /\ \A p \in 1 .. b - a : SubSeq(s, a + 1, b)[p] = s[a + p]
  OBVIOUS

LEMMA Joined ==
    ASSUME NEW T, NEW s \in Seq(T), NEW t \in Seq(T)
    PROVE  /\ s \o t \in Seq(T) /\ Len(s \o t) = Len(s) + Len(t)
           /\ \A p \in 1 .. Len(s) : (s \o t)[p] = s[p]
           /\ \A p \in 1 .. Len(t) : (s \o t)[Len(s) + p] = t[p]
  OBVIOUS

\* The bytes of a frame on the wire.
LEMMA OnTheWire ==
    ASSUME DecoderTyped
    PROVE  /\ Wire \in Seq(Bytes) /\ Len(Wire) = Base(MaxFrames)
           /\ \A m \in 0 .. MaxFrames - 1 : \A i \in 1 .. FrameBytes :
                  Wire[Base(m) + i] = [frame |-> m + 1, at |-> i]
<1>0. Len(damage) = MaxFrames
  <2>1. MaxFrames \in Nat /\ damage \in [1 .. MaxFrames -> Damages]
    BY DecoderConstants DEF DecoderTyped
  <2> QED
    BY <2>1, FunctionAsSeq
<1>1. PICK n \in Nat : n = Base(MaxFrames)
  BY Bases, DecoderConstants
<1>2. Wire = [i \in 1 .. n |->
                 [frame |-> (i - 1) \div FrameBytes + 1, at |-> ((i - 1) % FrameBytes) + 1]]
  BY <1>0, <1>1 DEF Wire, Base
<1>3. \A i \in 1 .. n : (i - 1) \div FrameBytes \in Int /\ (i - 1) % FrameBytes \in Int
  BY DecoderConstants
<1>4. Wire \in [1 .. n -> Bytes]
  BY <1>2, <1>3 DEF Bytes
<1>5. Wire \in Seq(Bytes) /\ Len(Wire) = n
  BY <1>4, FunctionAsSeq
<1>6. ASSUME NEW m \in 0 .. MaxFrames - 1, NEW i \in 1 .. FrameBytes
      PROVE  Wire[Base(m) + i] = [frame |-> m + 1, at |-> i]
  <2>1. m \in Nat /\ i \in Int /\ m < MaxFrames /\ Base(m + 1) <= n /\ Base(m + 1) = Base(m) + FrameBytes
        /\ Base(m) \in Nat
    BY <1>1, DecoderConstants, Bases
  <2>2. Base(m) + i \in 1 .. n
    BY <1>1, <2>1, DecoderConstants
  <2>3. (Base(m) + i - 1) \div FrameBytes = m /\ (Base(m) + i - 1) % FrameBytes = i - 1
    BY <2>1, DecoderConstants, Place DEF Base
  <2>4. PICK k \in 1 .. n : k = Base(m) + i
    BY <2>2
  <2>5. Wire[k] = [frame |-> (k - 1) \div FrameBytes + 1, at |-> ((k - 1) % FrameBytes) + 1]
    BY <1>2
  <2>6. (k - 1) \div FrameBytes = m /\ (k - 1) % FrameBytes = i - 1
    <3>1. k - 1 = Base(m) + i - 1
      BY <2>1, <2>4
    <3> QED
      BY <2>3, <3>1
  <2>7. Wire[k] = [frame |-> m + 1, at |-> i - 1 + 1] /\ i - 1 + 1 = i
    BY <2>1, <2>5, <2>6
  <2> QED
    BY <2>4, <2>7
<1> QED
  BY <1>1, <1>5, <1>6

LEMMA DecoderAtFirst == DecoderInit => DecoderInv
<1> SUFFICES ASSUME DecoderInit PROVE DecoderInv
  OBVIOUS
<1>1. DecoderTyped
  <2>1. 0 \in 0 .. Base(MaxFrames)
    BY DecoderConstants, Bases
  <2>2. buffer \in Seq(Bytes) /\ delivered \in Seq(Int)
    BY DEF DecoderInit
  <2> QED
    BY <2>1, <2>2 DEF DecoderInit, DecoderTyped
<1>2. delivered = <<>> /\ DOMAIN delivered = {} /\ buffer = <<>> /\ Len(buffer) = 0 /\ arrived = 0
  BY DEF DecoderInit
<1>3. HasDelivered(0)
  <2>1. {delivered[i] : i \in DOMAIN delivered} = {}
    BY <1>2
  <2>2. {f \in 1 .. 0 : damage[f] = "none"} = {}
    OBVIOUS
  <2> QED
    BY <1>2, <2>1, <2>2 DEF HasDelivered
<1>4. Behind(0)
  BY <1>2, <1>3, Bases, DecoderConstants DEF Behind
<1> QED
  BY <1>1, <1>4, DecoderConstants DEF DecoderInv

\* What stands at the head of the buffer, if anything does.
LEMMA HeadOfBuffer ==
    ASSUME DecoderTyped, Readable, NEW m \in 0 .. MaxFrames, Behind(m), buffer # <<>>
    PROVE  /\ m \in 0 .. MaxFrames - 1 /\ Head(buffer) = [frame |-> m + 1, at |-> 1]
           /\ damage[m + 1] # "prelude" /\ Aligned
<1>1. Len(buffer) \in Nat /\ Len(buffer) > 0 /\ Head(buffer) = buffer[1]
  BY DEF DecoderTyped
<1>2. m \in Nat /\ Base(m) < arrived
  <2>0. m \in Nat /\ MaxFrames \in Nat
    BY DecoderConstants
  <2>1. Base(m) \in Nat /\ Base(MaxFrames) \in Nat
    BY <2>0, Bases
  <2>2. Len(buffer) = arrived - Base(m) /\ arrived \in 0 .. Base(MaxFrames)
    BY DEF Behind, DecoderTyped
  <2> QED
    BY <1>1, <2>0, <2>1, <2>2
<1>3. m \in 0 .. MaxFrames - 1
  <2>0. Base(MaxFrames) \in Nat
    BY DecoderConstants, Bases
  <2>1. m # MaxFrames
    BY <1>2, <2>0 DEF DecoderTyped
  <2> QED
    BY <2>1, DecoderConstants
<1>4. 1 \in 1 .. Len(buffer)
  BY <1>1
<1>5. buffer[1] = Wire[Base(m) + 1]
  BY <1>4 DEF Behind
<1>6. 1 \in 1 .. FrameBytes
  BY DecoderConstants
<1>7. Head(buffer) = [frame |-> m + 1, at |-> 1]
  BY <1>1, <1>3, <1>5, <1>6, OnTheWire
<1>8. m + 1 \in DOMAIN damage
  BY <1>3, DecoderConstants DEF DecoderTyped
<1>9. HasBegun(m + 1)
  <2>1. m + 1 - 1 = m
    BY <1>2
  <2> QED
    BY <1>2, <2>1 DEF HasBegun, Base
<1>10. damage[m + 1] # "prelude"
  BY <1>8, <1>9 DEF Readable
<1> QED
  BY <1>3, <1>7, <1>10 DEF Aligned

\* A frame that is not damaged is found to be intact.
LEMMA IntactIfUndamaged ==
    ASSUME DecoderTyped, Readable, NEW m \in 0 .. MaxFrames, Behind(m), WholeFrame
    PROVE  /\ m \in 0 .. MaxFrames - 1 /\ Head(buffer).frame = m + 1
           /\ Intact <=> damage[m + 1] = "none"
<1>1. buffer # <<>> /\ Len(buffer) >= FrameBytes
  BY DEF WholeFrame, Aligned
<1>2. m \in 0 .. MaxFrames - 1 /\ Head(buffer).frame = m + 1
  BY <1>1, HeadOfBuffer
<1>3. \A i \in 1 .. FrameBytes : buffer[i] = [frame |-> m + 1, at |-> i]
  <2> TAKE i \in 1 .. FrameBytes
  <2>0. Len(buffer) \in Nat
    BY DEF DecoderTyped
  <2>1. i \in 1 .. Len(buffer)
    BY <1>1, <2>0, DecoderConstants
  <2>2. buffer[i] = Wire[Base(m) + i]
    BY <2>1 DEF Behind
  <2> QED
    BY <1>2, <2>2, OnTheWire
<1> QED
  BY <1>2, <1>3 DEF Intact

\* The frame at the head is left behind.
LEMMA FrameConsumed ==
    ASSUME DecoderTyped, NEW m \in 0 .. MaxFrames - 1, Behind(m), Len(buffer) >= FrameBytes,
           Consume(FrameBytes), UNCHANGED <<damage, arrived>>, HasDelivered(m + 1)',
           reading' \/ decoderState' # "Ready"
    PROVE  Behind(m + 1)'
<1>1. PICK n \in Nat : n = Len(buffer) /\ n >= FrameBytes
  BY DEF DecoderTyped
<1>2. PICK b \in Nat : b = Base(m)
  BY Bases, DecoderConstants
<1>3. Base(m + 1) = b + FrameBytes /\ n = arrived - b /\ arrived \in Int /\ m + 1 \in Nat
  BY <1>1, <1>2, Bases, DecoderConstants DEF Behind, DecoderTyped
<1>4. buffer' = SubSeq(buffer, FrameBytes + 1, n)
  BY <1>1 DEF Consume
<1>5. /\ Len(buffer') = n - FrameBytes
      /\ \A p \in 1 .. n - FrameBytes : buffer'[p] = buffer[FrameBytes + p]
  <2>1. buffer \in Seq(Bytes) /\ FrameBytes \in Nat /\ FrameBytes <= n /\ n <= Len(buffer)
    BY <1>1, DecoderConstants DEF DecoderTyped
  <2> QED
    BY <1>4, <2>1, PartOf
<1>6. Wire' = Wire
  BY DEF Wire
<1>7. ASSUME NEW p \in 1 .. n - FrameBytes PROVE buffer'[p] = Wire[Base(m + 1) + p]
  <2>1. FrameBytes + p \in 1 .. n /\ b + (FrameBytes + p) = Base(m + 1) + p
    BY <1>1, <1>2, <1>3, DecoderConstants
  <2>2. buffer[FrameBytes + p] = Wire[b + (FrameBytes + p)]
    BY <1>1, <1>2, <2>1 DEF Behind
  <2> QED
    BY <1>5, <2>1, <2>2
<1>8. Len(buffer') = arrived' - Base(m + 1)
  BY <1>1, <1>2, <1>3, <1>5, DecoderConstants
<1>9. \A p \in 1 .. Len(buffer') : buffer'[p] = Wire'[Base(m + 1) + p]
  BY <1>5, <1>6, <1>7
<1>10. (Base(m + 1))' = Base(m + 1)
  BY DEF Base
<1> QED
  BY <1>8, <1>9, <1>10 DEF Behind

LEMMA FeedKeeps == DecoderInv /\ Feed => DecoderInv'
<1> SUFFICES ASSUME DecoderInv, Feed PROVE DecoderInv'
  OBVIOUS
<1>1. DecoderTyped
  BY DEF DecoderInv
<1>2. PICK to \in arrived + 1 .. Len(Wire) :
          /\ arrived' = to
          /\ IF Len(buffer) + Len(SubSeq(Wire, arrived + 1, to)) > MaxBufferSize
               THEN overflowed' = TRUE /\ UNCHANGED <<buffer, decoderState>>
               ELSE buffer' = buffer \o SubSeq(Wire, arrived + 1, to) /\ UNCHANGED overflowed
  BY DEF Feed
<1>3. reading' = TRUE /\ UNCHANGED <<damage, errorCount, delivered, eof>>
  BY DEF Feed
<1>4. Wire \in Seq(Bytes) /\ Len(Wire) = Base(MaxFrames) /\ Wire' = Wire
      /\ (Base(MaxFrames))' = Base(MaxFrames)
  BY <1>1, <1>3, OnTheWire DEF Wire, Base
<1>5. arrived \in Nat /\ to \in Nat /\ arrived < to /\ to <= Len(Wire) /\ Base(MaxFrames) \in Nat
  <2>1. Base(MaxFrames) \in Nat
    BY DecoderConstants, Bases
  <2>2. arrived \in Nat
    BY <1>1, <2>1 DEF DecoderTyped
  <2> QED
    BY <1>2, <1>4, <2>1, <2>2
<1> DEFINE chunk == SubSeq(Wire, arrived + 1, to)
<1>6. /\ chunk \in Seq(Bytes) /\ Len(chunk) = to - arrived
      /\ \A p \in 1 .. to - arrived : chunk[p] = Wire[arrived + p]
  BY <1>4, <1>5, PartOf
<1> HIDE DEF chunk
<1>7. buffer' = buffer \/ buffer' = buffer \o chunk
  BY <1>2 DEF chunk
<1>8. DecoderTyped'
  <2>1. buffer' \in Seq(Bytes)
    <3>1. buffer \in Seq(Bytes) /\ chunk \in Seq(Bytes)
      BY <1>1, <1>6 DEF DecoderTyped
    <3>2. buffer \o chunk \in Seq(Bytes)
      BY <3>1, Joined
    <3> QED
      BY <1>7, <3>1, <3>2
  <2>2. overflowed' \in BOOLEAN
    BY <1>1, <1>2 DEF DecoderTyped
  <2>3. arrived' \in 0 .. Base(MaxFrames)
    BY <1>2, <1>4, <1>5
  <2> QED
    BY <1>1, <1>3, <1>4, <2>1, <2>2, <2>3 DEF DecoderTyped
<1>9. ASSUME Readable' PROVE \E m \in 0 .. MaxFrames : Behind(m)'
  <2>1. ~overflowed' /\ ~overflowed /\ buffer' = buffer \o chunk
    BY <1>2, <1>9 DEF Readable, chunk
  <2>2. ASSUME NEW f \in DOMAIN damage, HasBegun(f) PROVE HasBegun(f)'
    <3>1. f \in Nat \ {0} /\ f - 1 \in Nat
      BY <1>1, DecoderConstants DEF DecoderTyped
    <3>2. Base(f - 1) \in Nat /\ Base(f - 1) < arrived
      BY <2>2, <3>1, Bases DEF HasBegun, Base
    <3>3. Base(f - 1) < arrived'
      BY <1>2, <1>5, <3>2
    <3> QED
      BY <3>3 DEF HasBegun, Base
  <2>3. Readable
    BY <1>3, <1>9, <2>1, <2>2 DEF Readable
  <2>4. PICK m \in 0 .. MaxFrames : Behind(m)
    BY <2>3 DEF DecoderInv
  <2>5. PICK n \in Nat, b \in Nat : n = Len(buffer) /\ b = Base(m) /\ n = arrived - b
    <3>1. m \in Nat
      BY <2>4, DecoderConstants
    <3>2. Base(m) \in Nat
      BY <3>1, Bases
    <3> QED
      BY <1>1, <2>4, <3>2 DEF Behind, DecoderTyped
  <2>6. /\ Len(buffer') = n + (to - arrived)
        /\ \A p \in 1 .. n : buffer'[p] = buffer[p]
        /\ \A p \in 1 .. to - arrived : buffer'[n + p] = chunk[p]
    <3>1. buffer \in Seq(Bytes) /\ chunk \in Seq(Bytes)
      BY <1>1, <1>6 DEF DecoderTyped
    <3>2. /\ Len(buffer \o chunk) = Len(buffer) + Len(chunk)
          /\ \A p \in 1 .. Len(buffer) : (buffer \o chunk)[p] = buffer[p]
          /\ \A p \in 1 .. Len(chunk) : (buffer \o chunk)[Len(buffer) + p] = chunk[p]
      BY <3>1, Joined
    <3> QED
      BY <1>6, <2>1, <2>5, <3>2
  <2>7. ASSUME NEW p \in 1 .. n + (to - arrived) PROVE buffer'[p] = Wire[b + p]
    <3>1. CASE p <= n
      <4>1. p \in 1 .. n
        BY <2>5, <3>1
      <4> QED
        BY <2>4, <2>5, <2>6, <4>1 DEF Behind
    <3>2. CASE p > n
      <4>1. PICK k \in 1 .. to - arrived : n + k = p /\ arrived + k = b + p
        <5>0. p \in Int /\ n \in Int /\ b \in Int /\ to \in Int /\ arrived = n + b /\ p > n
              /\ p <= n + (to - arrived)
          BY <1>5, <2>5, <3>2
        <5>1. p - n \in 1 .. to - arrived /\ n + (p - n) = p /\ arrived + (p - n) = b + p
          BY <5>0
        <5> QED
          BY <5>1
      <4>2. buffer'[n + k] = chunk[k] /\ chunk[k] = Wire[arrived + k]
        BY <1>6, <2>6
      <4> QED
        BY <4>1, <4>2
    <3> QED
      BY <1>5, <2>5, <3>1, <3>2
  <2>8. HasDelivered(m)'
    BY <1>3, <2>4 DEF Behind, HasDelivered
  <2>9. Len(buffer') = arrived' - b
    BY <1>2, <1>5, <2>5, <2>6
  <2>10. \A p \in 1 .. Len(buffer') : buffer'[p] = Wire'[b + p]
    BY <1>4, <2>6, <2>7
  <2>11. (Base(m))' = b
    BY <2>5 DEF Base
  <2>12. Behind(m)'
    BY <1>3, <2>8, <2>9, <2>10, <2>11 DEF Behind
  <2> QED
    BY <2>12
<1> QED
  BY <1>8, <1>9 DEF DecoderInv

\* Steps that change neither the buffer nor what was delivered.
LEMMA StaysBehind ==
    ASSUME DecoderInv, UNCHANGED <<damage, arrived, buffer, delivered, overflowed>>,
           errorCount' \in Nat,
           ASSUME NEW m \in 0 .. MaxFrames, Readable, Behind(m), ~reading', decoderState' = "Ready"
           PROVE  Len(buffer) < FrameBytes
    PROVE  DecoderInv'
<1>0. \A m \in 0 .. MaxFrames : (Base(m))' = Base(m)
  BY DEF Base
<1>1. DecoderTyped'
  BY DEF DecoderInv, DecoderTyped, Base
<1>2. Readable' => Readable
  BY DEF Readable, HasBegun
<1>3. ASSUME NEW m \in 0 .. MaxFrames, Readable, Behind(m) PROVE Behind(m)'
  <2>1. ~reading' /\ decoderState' = "Ready" => Len(buffer) < FrameBytes
    BY <1>3
  <2>2. HasDelivered(m)'
    BY <1>3 DEF Behind, HasDelivered
  <2>3. Wire' = Wire
    BY DEF Wire
  <2> QED
    BY <1>0, <1>3, <2>1, <2>2, <2>3 DEF Behind
<1> QED
  BY <1>1, <1>2, <1>3 DEF DecoderInv

LEMMA NeedsMoreKeeps == DecoderInv /\ NeedsMore => DecoderInv'
<1> SUFFICES ASSUME DecoderInv, NeedsMore PROVE DecoderInv'
  OBVIOUS
<1>1. ASSUME NEW m \in 0 .. MaxFrames, Readable, Behind(m) PROVE Len(buffer) < FrameBytes
  <2>1. CASE buffer = <<>>
    BY <2>1, DecoderConstants
  <2>2. CASE buffer # <<>>
    <3>1. Aligned
      BY <1>1, <2>2, HeadOfBuffer DEF DecoderInv
    <3>2. ~(Len(buffer) >= FrameBytes)
      BY <3>1 DEF NeedsMore, WholeFrame
    <3>3. Len(buffer) \in Nat
      BY DEF DecoderInv, DecoderTyped
    <3> QED
      BY <3>2, <3>3, DecoderConstants
  <2> QED
    BY <2>1, <2>2
<1>2. UNCHANGED <<damage, arrived, buffer, delivered, overflowed, errorCount>>
  BY DEF NeedsMore
<1>3. errorCount' \in Nat
  BY <1>2 DEF DecoderInv, DecoderTyped
<1> QED
  BY <1>1, <1>2, <1>3, StaysBehind

\* What is left after some bytes are consumed.
LEMMA ConsumedTyped ==
    ASSUME DecoderTyped, NEW n \in Nat, n <= Len(buffer), Consume(n)
    PROVE  buffer' \in Seq(Bytes)
<1>1. buffer \in Seq(Bytes) /\ Len(buffer) \in Nat
  BY DEF DecoderTyped
<1> QED
  BY <1>1, PartOf DEF Consume

\* Delivering the next frame, or passing over a bad one.
LEMMA NextDelivered ==
    ASSUME DecoderTyped, NEW m \in 0 .. MaxFrames - 1, HasDelivered(m), damage[m + 1] = "none",
           delivered' = Append(delivered, m + 1), UNCHANGED damage
    PROVE  HasDelivered(m + 1)'
<1>1. PICK n \in Nat : n = Len(delivered) /\ DOMAIN delivered = 1 .. n
  BY DEF DecoderTyped
<1>2. m \in Nat
  BY DecoderConstants
<1>3. /\ DOMAIN delivered' = 1 .. n + 1 /\ delivered'[n + 1] = m + 1
      /\ \A i \in 1 .. n : delivered'[i] = delivered[i]
  BY <1>1, <1>2 DEF DecoderTyped
<1>4. \A i \in 1 .. n : delivered[i] \in 1 .. m /\ damage[delivered[i]] = "none"
  BY <1>1 DEF HasDelivered
<1>5. \A i, j \in 1 .. n : i < j => delivered[i] < delivered[j]
  BY <1>1 DEF HasDelivered
<1>6. ASSUME NEW i \in 1 .. n + 1, NEW j \in 1 .. n + 1, i < j PROVE delivered'[i] < delivered'[j]
  <2>1. i \in 1 .. n /\ (j \in 1 .. n \/ j = n + 1)
    BY <1>1, <1>6
  <2> QED
    BY <1>2, <1>3, <1>4, <1>5, <1>6, <2>1
<1>7. ASSUME NEW i \in 1 .. n + 1 PROVE delivered'[i] \in {f \in 1 .. m + 1 : damage[f] = "none"}
  <2>1. i \in 1 .. n \/ i = n + 1
    BY <1>1
  <2> QED
    BY <1>2, <1>3, <1>4, <2>1
<1>8. ASSUME NEW f \in 1 .. m + 1, damage[f] = "none" PROVE \E i \in 1 .. n + 1 : delivered'[i] = f
  <2>1. CASE f = m + 1
    <3>1. PICK k \in 1 .. n + 1 : k = n + 1
      BY <1>1
    <3>2. delivered'[k] = f
      BY <1>3, <2>1, <3>1
    <3> QED
      BY <3>2
  <2>2. CASE f \in 1 .. m
    <3>1. f \in {delivered[i] : i \in 1 .. n}
      BY <1>1, <1>8, <2>2 DEF HasDelivered
    <3>2. PICK i \in 1 .. n : delivered[i] = f
      BY <3>1
    <3>3. i \in 1 .. n + 1 /\ delivered'[i] = f
      BY <1>1, <1>3, <3>2
    <3> QED
      BY <3>3
  <2>3. f = m + 1 \/ f \in 1 .. m
    BY <1>2
  <2> QED
    BY <2>1, <2>2, <2>3
<1>9. {delivered'[i] : i \in 1 .. n + 1} = {f \in 1 .. m + 1 : damage[f] = "none"}
  BY <1>7, <1>8
<1>10. \A i, j \in DOMAIN delivered' : i < j => delivered'[i] < delivered'[j]
  BY <1>3, <1>6
<1>11. {delivered'[i] : i \in DOMAIN delivered'} = {f \in 1 .. m + 1 : damage'[f] = "none"}
  BY <1>3, <1>9
<1> QED
  BY <1>10, <1>11 DEF HasDelivered

LEMMA NonePassedOver ==
    ASSUME DecoderTyped, NEW m \in 0 .. MaxFrames - 1, HasDelivered(m), damage[m + 1] # "none",
           UNCHANGED <<delivered, damage>>
    PROVE  HasDelivered(m + 1)'
<1>1. m \in Nat
  BY DecoderConstants
<1>2. {f \in 1 .. m : damage[f] = "none"} = {f \in 1 .. m + 1 : damage[f] = "none"}
  BY <1>1
<1> QED
  BY <1>2 DEF HasDelivered

LEMMA DecodesFrameKeeps == DecoderInv /\ DecodesFrame => DecoderInv'
<1> SUFFICES ASSUME DecoderInv, DecodesFrame PROVE DecoderInv'
  OBVIOUS
<1>1. /\ DecoderTyped /\ WholeFrame /\ Intact /\ Consume(FrameBytes) /\ reading' /\ errorCount' = 0
      /\ delivered' = Append(delivered, Head(buffer).frame)
      /\ UNCHANGED <<damage, arrived, overflowed>>
  BY DEF DecoderInv, DecodesFrame, Decodes
<1>2. buffer # <<>> /\ Len(buffer) >= FrameBytes
  BY <1>1 DEF WholeFrame, Aligned
<1>3. buffer' \in Seq(Bytes)
  BY <1>1, <1>2, ConsumedTyped, DecoderConstants DEF DecoderTyped
<1>4. Head(buffer).frame \in Int
  <2>1. Head(buffer) \in Bytes
    BY <1>1, <1>2 DEF DecoderTyped
  <2> QED
    BY <2>1 DEF Bytes
<1>5. delivered' \in Seq(Int)
  BY <1>1, <1>4 DEF DecoderTyped
<1>6. DecoderTyped'
  BY <1>1, <1>3, <1>5 DEF DecoderTyped, Base
<1>7. ASSUME Readable' PROVE \E m \in 0 .. MaxFrames : Behind(m)'
  <2>1. Readable
    BY <1>1, <1>7 DEF Readable, HasBegun
  <2>2. PICK m \in 0 .. MaxFrames : Behind(m)
    BY <2>1 DEF DecoderInv
  <2>3. m \in 0 .. MaxFrames - 1 /\ Head(buffer).frame = m + 1 /\ damage[m + 1] = "none"
    BY <1>1, <2>1, <2>2, IntactIfUndamaged
  <2>4. HasDelivered(m + 1)'
    BY <1>1, <2>2, <2>3, NextDelivered DEF Behind
  <2>5. Behind(m + 1)'
    BY <1>1, <1>2, <2>2, <2>3, <2>4, FrameConsumed
  <2>6. m + 1 \in 0 .. MaxFrames
    BY <2>3, DecoderConstants
  <2> QED
    BY <2>5, <2>6
<1> QED
  BY <1>6, <1>7 DEF DecoderInv

LEMMA BadDataKeeps == DecoderInv /\ BadData => DecoderInv'
<1> SUFFICES ASSUME DecoderInv, BadData PROVE DecoderInv'
  OBVIOUS
<1>1. /\ DecoderTyped /\ reading /\ WholeFrame /\ ~Intact /\ errorCount' = errorCount + 1
      /\ UNCHANGED <<damage, arrived, reading, delivered, overflowed>>
  BY DEF DecoderInv, BadData, DecodeFails, Decodes
<1>2. errorCount' \in Nat
  BY <1>1 DEF DecoderTyped
<1>3. CASE UNCHANGED buffer
  BY <1>1, <1>2, <1>3, StaysBehind
<1>4. CASE Consume(FrameBytes)
  <2>1. buffer # <<>> /\ Len(buffer) >= FrameBytes
    BY <1>1 DEF WholeFrame, Aligned
  <2>2. buffer' \in Seq(Bytes)
    BY <1>1, <1>4, <2>1, ConsumedTyped, DecoderConstants DEF DecoderTyped
  <2>3. DecoderTyped'
    BY <1>1, <1>2, <2>2 DEF DecoderTyped, Base
  <2>4. ASSUME Readable' PROVE \E m \in 0 .. MaxFrames : Behind(m)'
    <3>1. Readable
      BY <1>1, <2>4 DEF Readable, HasBegun
    <3>2. PICK m \in 0 .. MaxFrames : Behind(m)
      BY <3>1 DEF DecoderInv
    <3>3. m \in 0 .. MaxFrames - 1 /\ damage[m + 1] # "none"
      BY <1>1, <3>1, <3>2, IntactIfUndamaged
    <3>4. HasDelivered(m + 1)'
      BY <1>1, <3>2, <3>3, NonePassedOver DEF Behind
    <3>5. Behind(m + 1)'
      BY <1>1, <1>4, <2>1, <3>2, <3>3, <3>4, FrameConsumed
    <3>6. m + 1 \in 0 .. MaxFrames
      BY <3>3, DecoderConstants
    <3> QED
      BY <3>5, <3>6
  <2> QED
    BY <2>3, <2>4 DEF DecoderInv
<1> QED
  BY <1>3, <1>4 DEF BadData, DecodeFails, TryRecover

\* The bytes of a prelude that can be read are never skipped one by one.
LEMMA BadPreludeKeeps == DecoderInv /\ BadPrelude => DecoderInv'
<1> SUFFICES ASSUME DecoderInv, BadPrelude PROVE DecoderInv'
  OBVIOUS
<1>1. /\ DecoderTyped /\ reading /\ ~Aligned /\ Len(buffer) >= PRELUDE_SIZE
      /\ errorCount' = errorCount + 1
      /\ UNCHANGED <<damage, arrived, reading, delivered, overflowed>>
  BY DEF DecoderInv, BadPrelude, DecodeFails, Decodes
<1>2. errorCount' \in Nat
  BY <1>1 DEF DecoderTyped
<1>3. buffer # <<>> /\ 1 <= Len(buffer)
  BY <1>1, DecoderConstants DEF DecoderTyped
<1>4. buffer' \in Seq(Bytes)
  <2>1. CASE UNCHANGED buffer
    BY <1>1, <2>1 DEF DecoderTyped
  <2>2. CASE Consume(1)
    BY <1>1, <1>3, <2>2, ConsumedTyped
  <2> QED
    BY <2>1, <2>2 DEF BadPrelude, DecodeFails, TryRecover
<1>5. DecoderTyped'
  BY <1>1, <1>2, <1>4 DEF DecoderTyped, Base
<1>6. ~Readable'
  <2>1. SUFFICES ASSUME Readable' PROVE FALSE
    OBVIOUS
  <2>2. Readable
    BY <1>1, <2>1 DEF Readable, HasBegun
  <2>3. PICK m \in 0 .. MaxFrames : Behind(m)
    BY <2>2 DEF DecoderInv
  <2> QED
    BY <1>1, <1>3, <2>2, <2>3, HeadOfBuffer
<1> QED
  BY <1>5, <1>6 DEF DecoderInv

LEMMA DecoderStep == DecoderInv /\ [DecoderNext]_decoderVars => DecoderInv'
<1> SUFFICES ASSUME DecoderInv, [DecoderNext]_decoderVars PROVE DecoderInv'
  OBVIOUS
<1>0. errorCount \in Nat /\ \A m \in 0 .. MaxFrames :
          Behind(m) /\ ~reading /\ decoderState = "Ready" => Len(buffer) < FrameBytes
  BY DEF DecoderInv, DecoderTyped, Behind
<1>1. CASE Feed
  BY <1>1, FeedKeeps
<1>2. CASE EndOfBody
  <2>1. UNCHANGED <<damage, arrived, buffer, delivered, overflowed, errorCount, reading, decoderState>>
    BY <1>2 DEF EndOfBody
  <2> QED
    BY <1>0, <2>1, StaysBehind
<1>3. CASE IteratorEnds
  <2>1. UNCHANGED <<damage, arrived, buffer, delivered, overflowed, errorCount, decoderState>>
        /\ decoderState # "Ready"
    BY <1>3 DEF IteratorEnds
  <2> QED
    BY <1>0, <2>1, StaysBehind
<1>4. CASE NeedsMore
  BY <1>4, NeedsMoreKeeps
<1>5. CASE DecodesFrame
  BY <1>5, DecodesFrameKeeps
<1>6. CASE BadData
  BY <1>6, BadDataKeeps
<1>7. CASE BadPrelude
  BY <1>7, BadPreludeKeeps
<1>8. CASE UNCHANGED decoderVars
  <2>1. UNCHANGED <<damage, arrived, buffer, delivered, overflowed, errorCount, reading, decoderState>>
    BY <1>8 DEF decoderVars
  <2> QED
    BY <1>0, <2>1, StaysBehind
<1> QED
  BY <1>1, <1>2, <1>3, <1>4, <1>5, <1>6, <1>7, <1>8 DEF DecoderNext

\* DecoderInv is an invariant: as long as every prelude can be read and no chunk is
\* refused, the buffer begins where a frame begins, and what was delivered are the
\* intact frames before it.
THEOREM DecoderCorrect == DecoderSpec => []DecoderInv
<1>1. DecoderInit => DecoderInv
  BY DecoderAtFirst
<1>2. DecoderInv /\ [DecoderNext]_decoderVars => DecoderInv'
  BY DecoderStep
<1> QED
  BY <1>1, <1>2, PTL DEF DecoderSpec

LEMMA SkippedIfBehind == DecoderInv => DamagedDataSkipped
<1> SUFFICES ASSUME DecoderInv, Readable
             PROVE  \E m \in 0 .. arrived \div FrameBytes :
                        HasDelivered(m) /\ (~reading /\ decoderState = "Ready" => m = arrived \div FrameBytes)
  BY DEF DamagedDataSkipped, Readable
<1>1. PICK m \in 0 .. MaxFrames : Behind(m)
  BY DEF DecoderInv
<1>2. m \in Nat /\ Len(buffer) \in Nat
  BY DecoderConstants DEF DecoderInv, DecoderTyped
<1>3. PICK b \in Nat : b = Base(m) /\ Base(m + 1) = b + FrameBytes
  BY <1>2, Bases
<1>4. arrived \in Nat
  BY DecoderConstants, Bases DEF DecoderInv, DecoderTyped
<1>5. b <= arrived
  BY <1>1, <1>2, <1>3, <1>4 DEF Behind
<1>6. m <= arrived \div FrameBytes /\ arrived \div FrameBytes \in Nat
  BY <1>2, <1>3, <1>4, <1>5, DecoderConstants, AtLeast DEF Base
<1>7. ASSUME ~reading, decoderState = "Ready" PROVE m = arrived \div FrameBytes
  <2>1. arrived < b + FrameBytes
    BY <1>1, <1>2, <1>3, <1>4, <1>7, DecoderConstants DEF Behind
  <2> QED
    BY <1>2, <1>3, <1>4, <1>5, <2>1, DecoderConstants, Quotient DEF Base
<1>8. m \in 0 .. arrived \div FrameBytes
  BY <1>2, <1>6
<1> QED
  BY <1>1, <1>7, <1>8 DEF Behind

\* For frames of any length and any number of them, however they are damaged and cut
\* into chunks, a frame whose data is damaged costs nothing but itself.
THEOREM DamageIsSkipped == DecoderSpec => []DamagedDataSkipped
  BY DecoderCorrect, SkippedIfBehind, PTL

-----------------------------------------------------------------------------
(***************************************************************************)
(* ResponsesStore, for any number of clients and responses, any lifetime   *)
(* and any limit of the history.                                           *)
(***************************************************************************)
LEMMA LeastOf ==
    ASSUME NEW S, S \subseteq Nat, S # {}
    PROVE  \E m \in S : \A n \in S : m <= n
<1>1. PICK m \in S : \A n \in S : <<n, m>> \notin OpToRel(<, Nat)
  BY NatLessThanWellFounded, WFMin
<1>2. \A n \in S : ~(n < m)
  BY <1>1 DEF OpToRel
<1> QED
  BY <1>2

\* Going from an x on, step by step: up to n, and for ever.
GoesOn(g, n, x, step) == g[0] = x /\ \A k \in 1 .. n : g[k] = step[g[k - 1]]

LEMMA OnlyOneWay ==
    ASSUME NEW x, NEW step, NEW g, NEW h, NEW n \in Nat, NEW m \in Nat, n <= m,
           GoesOn(g, n, x, step), GoesOn(h, m, x, step)
    PROVE  \A k \in 0 .. n : g[k] = h[k]
<1> DEFINE Differ == {k \in 0 .. n : g[k] # h[k]}
<1> SUFFICES ASSUME Differ # {} PROVE FALSE
  OBVIOUS
<1>0. Differ \subseteq Nat
  OBVIOUS
<1>1. PICK k \in Differ : \A i \in Differ : k <= i
  <2> HIDE DEF Differ
  <2> QED
    BY <1>0, LeastOf
<1>2. k # 0 /\ k \in 1 .. n /\ k \in 1 .. m /\ k - 1 \in 0 .. n
  BY <1>1 DEF GoesOn
<1>3. g[k - 1] = h[k - 1]
  BY <1>1, <1>2
<1>4. g[k] = h[k]
  BY <1>2, <1>3 DEF GoesOn
<1> QED
  BY <1>1, <1>4

LEMMA AsFarAsOneLikes ==
    ASSUME NEW S, NEW x \in S, NEW step \in [S -> S]
    PROVE  \A n \in Nat : \E g \in [0 .. n -> S] : GoesOn(g, n, x, step)
<1> DEFINE Far(n) == \E g \in [0 .. n -> S] : GoesOn(g, n, x, step)
           Beyond == {n \in Nat : ~Far(n)}
<1> SUFFICES ASSUME Beyond # {} PROVE FALSE
  OBVIOUS
<1>1. PICK n \in Beyond : \A i \in Beyond : n <= i
  BY LeastOf
<1>2. n # 0
  <2> SUFFICES ASSUME n = 0 PROVE FALSE
    OBVIOUS
  <2>1. PICK g : g = [k \in 0 .. n |-> x]
    OBVIOUS
  <2>2. g \in [0 .. n -> S] /\ GoesOn(g, n, x, step)
    BY <2>1 DEF GoesOn
  <2> QED
    BY <1>1, <2>2
<1>3. n - 1 \in Nat /\ n - 1 \notin Beyond
  BY <1>1, <1>2
<1>4. PICK g \in [0 .. n - 1 -> S] : GoesOn(g, n - 1, x, step)
  BY <1>3
<1>5. PICK h : h = [k \in 0 .. n |-> IF k = n THEN step[g[n - 1]] ELSE g[k]]
  OBVIOUS
<1>6. h \in [0 .. n -> S]
  <2>1. \A k \in 0 .. n : k = n \/ k \in 0 .. n - 1
    BY <1>1
  <2>2. g[n - 1] \in S
    BY <1>3
  <2> QED
    BY <1>5, <2>1, <2>2
<1>7. GoesOn(h, n, x, step)
  <2>1. h[0] = x
    BY <1>1, <1>2, <1>4, <1>5 DEF GoesOn
  <2>2. ASSUME NEW k \in 1 .. n PROVE h[k] = step[h[k - 1]]
    <3>1. h[k - 1] = g[k - 1]
      BY <1>1, <1>5
    <3>2. CASE k = n
      BY <1>5, <3>1, <3>2
    <3>3. CASE k # n
      <4>1. k \in 1 .. n - 1
        BY <1>1, <3>3
      <4>2. h[k] = g[k]
        BY <1>1, <1>5, <3>3
      <4> QED
        BY <1>4, <3>1, <4>1, <4>2 DEF GoesOn
    <3> QED
      BY <3>2, <3>3
  <2> QED
    BY <2>1, <2>2 DEF GoesOn
<1> QED
  BY <1>1, <1>6, <1>7

\* So a function that is given step by step is one.
LeadsOn(S, x, step) == \E f \in [Nat -> S] : f[0] = x /\ \A n \in Nat : f[n + 1] = step[f[n]]

LEMMA StepByStep ==
    ASSUME NEW S, NEW x \in S, NEW step \in [S -> S]
    PROVE  LeadsOn(S, x, step)
<1> DEFINE Way(n) == CHOOSE g \in [0 .. n -> S] : GoesOn(g, n, x, step)
<1>1. \A n \in Nat : Way(n) \in [0 .. n -> S] /\ GoesOn(Way(n), n, x, step)
  BY AsFarAsOneLikes
<1>2. PICK f : f = [n \in Nat |-> Way(n)[n]]
  OBVIOUS
<1> HIDE DEF Way
<1>3. f \in [Nat -> S]
  BY <1>1, <1>2
<1>4. f[0] = x
  BY <1>1, <1>2 DEF GoesOn
<1>5. ASSUME NEW n \in Nat PROVE f[n + 1] = step[f[n]]
  <2>1. n + 1 \in Nat /\ n <= n + 1 /\ n \in 0 .. n /\ n + 1 \in 1 .. n + 1 /\ (n + 1) - 1 = n
    OBVIOUS
  <2>2. GoesOn(Way(n), n, x, step) /\ GoesOn(Way(n + 1), n + 1, x, step)
    BY <1>1, <2>1
  <2>3. Way(n)[n] = Way(n + 1)[n]
    BY <2>1, <2>2, OnlyOneWay
  <2>4. Way(n + 1)[n + 1] = step[Way(n + 1)[n]]
    BY <2>1, <2>2 DEF GoesOn
  <2> QED
    BY <1>2, <2>1, <2>3, <2>4
<1> QED
  BY <1>3, <1>4, <1>5 DEF LeadsOn

-----------------------------------------------------------------------------
LastId == Len(previous)

\* A response was stored after the one it goes on from.
LaterThanBefore(i) == previous[i] # 0 => storedAt[previous[i]] <= storedAt[i]

\* What somebody went on from had been stored, and is there until it expires.
WasStored(p) == (p \in storeFiles \/ Expired(p)) /\ LaterThanBefore(p)

HistoryInv ==
    /\ previous \in Seq(Nat) /\ storedAt \in Seq(Nat) /\ Len(storedAt) = LastId
    /\ storeNow \in Nat /\ storeFiles \subseteq 1 .. LastId
    /\ answering \in [StoreClients -> 0 .. LastId]
    /\ \A i \in 1 .. LastId :
           previous[i] \in 0 .. LastId /\ previous[i] < i /\ storedAt[i] <= storeNow
    /\ \A r \in StoreClients : answering[r] # 0 =>
           /\ answering[r] \notin storeFiles
           /\ \A i \in 1 .. LastId : previous[i] # answering[r]
           /\ \A q \in StoreClients \ {r} : answering[q] # answering[r]
    /\ \A i, p \in 1 .. LastId : previous[i] = p => WasStored(p)
    /\ \A i \in storeFiles : LaterThanBefore(i)

LEMMA HistoryTyped ==
    HistoryInv => /\ LastId \in Nat /\ storeNow \in Nat
                  /\ \A i \in 1 .. LastId : previous[i] \in 0 .. LastId /\ storedAt[i] \in Nat
<1> SUFFICES ASSUME HistoryInv PROVE \A i \in 1 .. LastId : storedAt[i] \in Nat
  BY DEF HistoryInv, LastId
<1>1. storedAt \in Seq(Nat) /\ LastId = Len(storedAt)
  BY DEF HistoryInv
<1>2. \A i \in 1 .. Len(storedAt) : storedAt[i] \in Nat
  BY <1>1
<1> QED
  BY <1>1, <1>2

LEMMA BeforeGoesBack ==
    ASSUME HistoryInv, NEW id \in 0 .. LastId
    PROVE  /\ Before(id)[0] = id
           /\ \A n \in Nat : /\ Before(id)[n] \in 0 .. LastId
                             /\ Before(id)[n + 1] = IF Before(id)[n] = 0 THEN 0
                                                    ELSE previous[Before(id)[n]]
<1>1. PICK S, step : S = 0 .. LastId /\ step = [i \in S |-> IF i = 0 THEN 0 ELSE previous[i]]
  OBVIOUS
<1>2. step \in [S -> S]
  BY <1>1 DEF HistoryInv, LastId
<1>3. id \in S
  BY <1>1
<1>4. PICK f \in [Nat -> S] : f[0] = id /\ \A n \in Nat : f[n + 1] = step[f[n]]
  <2>1. LeadsOn(S, id, step)
    BY <1>2, <1>3, StepByStep
  <2> QED
    BY <2>1 DEF LeadsOn
<1> DEFINE Goes(b) ==
        b = [n \in Nat |-> IF n = 0 THEN id ELSE IF b[n - 1] = 0 THEN 0 ELSE previous[b[n - 1]]]
<1>5. Goes(f)
  <2>1. ASSUME NEW n \in Nat
        PROVE  f[n] = IF n = 0 THEN id ELSE IF f[n - 1] = 0 THEN 0 ELSE previous[f[n - 1]]
    <3>1. CASE n = 0
      BY <1>4, <3>1
    <3>2. CASE n # 0
      <4>1. n - 1 \in Nat /\ (n - 1) + 1 = n
        BY <3>2
      <4>2. f[n] = step[f[n - 1]] /\ f[n - 1] \in S
        BY <1>4, <4>1
      <4> QED
        BY <1>1, <3>2, <4>2
    <3> QED
      BY <3>1, <3>2
  <2> QED
    BY <1>4, <2>1
<1>6. Before(id) = CHOOSE b : Goes(b)
  BY DEF Before
<1>7. PICK b : b = Before(id) /\ Goes(b)
  BY <1>5, <1>6
<1>8. b[0] = id
  BY <1>7
<1>9. ASSUME NEW n \in Nat PROVE b[n + 1] = IF b[n] = 0 THEN 0 ELSE previous[b[n]]
  <2>1. n + 1 \in Nat /\ n + 1 # 0 /\ (n + 1) - 1 = n
    OBVIOUS
  <2>2. \A k \in Nat : b[k] = IF k = 0 THEN id ELSE IF b[k - 1] = 0 THEN 0 ELSE previous[b[k - 1]]
    BY <1>7
  <2> QED
    BY <2>1, <2>2
<1>10. \A n \in Nat : b[n] \in 0 .. LastId
  <2> DEFINE Out == {n \in Nat : b[n] \notin 0 .. LastId}
  <2> SUFFICES ASSUME Out # {} PROVE FALSE
    OBVIOUS
  <2>1. PICK n \in Out : \A i \in Out : n <= i
    BY LeastOf
  <2>2. n # 0
    BY <1>8, <2>1
  <2>3. n - 1 \in Nat /\ (n - 1) + 1 = n /\ b[n - 1] \in 0 .. LastId
    BY <2>1, <2>2
  <2>4. b[n] = IF b[n - 1] = 0 THEN 0 ELSE previous[b[n - 1]]
    BY <1>9, <2>3
  <2>5. b[n] \in 0 .. LastId
    BY <2>3, <2>4 DEF HistoryInv, LastId
  <2> QED
    BY <2>1, <2>5
<1> QED
  BY <1>7, <1>8, <1>9, <1>10

LEMMA ReachEnds ==
    ASSUME NEW id, NEW depth \in Nat
    PROVE  /\ Reach(id, depth) \in 0 .. depth
           /\ \A k \in 1 .. Reach(id, depth) : Loads(Before(id)[k])
           /\ Reach(id, depth) < depth => ~Loads(Before(id)[Reach(id, depth) + 1])
<1> DEFINE Halts == {n \in 0 .. depth : n < depth => ~Loads(Before(id)[n + 1])}
<1>1. depth \in Halts
  OBVIOUS
<1>0. Halts \subseteq Nat
  OBVIOUS
<1>2. PICK m \in Halts : \A n \in Halts : m <= n
  <2> HIDE DEF Halts
  <2> QED
    BY <1>0, <1>1, LeastOf
<1>3. ASSUME NEW k \in 1 .. m PROVE Loads(Before(id)[k])
  <2>1. k - 1 \in 0 .. depth /\ k - 1 \notin Halts /\ (k - 1) + 1 = k
    BY <1>2
  <2> QED
    BY <2>1
<1>4. /\ m \in 0 .. depth /\ \A k \in 1 .. m : Loads(Before(id)[k])
      /\ m < depth => ~Loads(Before(id)[m + 1])
  BY <1>2, <1>3
<1> QED
  BY <1>4 DEF Reach

LEMMA CollectedLength ==
    ASSUME NEW id
    PROVE  /\ Len(CollectAncestors(id)) = Reach(id, HistoryDepth) + 1
           /\ CollectAncestors(id) =
                  [i \in 1 .. Reach(id, HistoryDepth) + 1 |-> Before(id)[Reach(id, HistoryDepth) + 1 - i]]
<1>1. PICK n \in Nat : n = Reach(id, HistoryDepth)
  BY ReachEnds, StoreAssumption
<1>2. CollectAncestors(id) = [i \in 1 .. n + 1 |-> Before(id)[n + 1 - i]]
  BY <1>1 DEF CollectAncestors, OldestFirst
<1>3. Len([i \in 1 .. n + 1 |-> Before(id)[n + 1 - i]]) = n + 1
  OBVIOUS
<1> QED
  BY <1>1, <1>2, <1>3

LEMMA TriedHasExpired ==
    ASSUME NEW id, NEW x \in TriedLast(id), x \in storeFiles
    PROVE  Expired(x)
<1>1. PICK n \in Nat : n = Reach(id, HistoryDepth) /\ n <= HistoryDepth
  BY ReachEnds, StoreAssumption
<1>2. Len(CollectAncestors(id)) = n + 1
  BY <1>1, CollectedLength
<1>3. n + 1 <= HistoryDepth /\ x = Before(id)[n + 1]
  BY <1>2 DEF TriedLast
<1>4. ~Loads(Before(id)[n + 1])
  BY <1>1, <1>3, ReachEnds, StoreAssumption
<1> QED
  BY <1>3, <1>4 DEF Loads

-----------------------------------------------------------------------------
LEMMA HistoryAtFirst == ResponsesInit => HistoryInv
  BY DEF ResponsesInit, HistoryInv, LastId

LEMMA TimeKeepsHistory == ASSUME HistoryInv, StoreTick PROVE HistoryInv'
<1>1. storeNow' = storeNow + 1 /\ UNCHANGED <<storeFiles, previous, storedAt, answering>>
  BY DEF StoreTick
<1>2. \A i \in 1 .. LastId : storedAt[i] \in Nat
  BY HistoryTyped
<1>3. \A i \in 1 .. LastId : Expired(i) => Expired(i)'
  BY <1>1, <1>2, StoreAssumption DEF Expired, HistoryInv
<1>4. \A p \in 1 .. LastId : WasStored(p) => WasStored(p)'
  BY <1>1, <1>3 DEF WasStored, LaterThanBefore
<1> QED
  BY <1>1, <1>2, <1>4 DEF HistoryInv, LastId, LaterThanBefore

LEMMA RefusalKeepsHistory ==
    ASSUME HistoryInv, NEW from \in storeFiles, PostNotFound(from)
    PROVE  HistoryInv'
<1>1. storeFiles' = storeFiles \ {from} /\ UNCHANGED <<storeNow, previous, storedAt, answering>>
      /\ Expired(from)
  BY DEF PostNotFound
<1>2. \A i : WasStored(i) => WasStored(i)'
  BY <1>1 DEF WasStored, LaterThanBefore, Expired
<1> QED
  BY <1>1, <1>2 DEF HistoryInv, LastId, LaterThanBefore

LEMMA OneMore ==
    ASSUME NEW S \in Seq(Nat), NEW x \in Nat
    PROVE  /\ Append(S, x) \in Seq(Nat) /\ Len(Append(S, x)) = Len(S) + 1
           /\ Append(S, x)[Len(S) + 1] = x
           /\ \A i \in 1 .. Len(S) : Append(S, x)[i] = S[i]
  OBVIOUS

\* A response begins, and nobody has gone on from it yet.
LEMMA PostKeepsHistory ==
    ASSUME HistoryInv, NEW r \in StoreClients, NEW from \in {0} \cup storeFiles, PostResponse(r, from)
    PROVE  HistoryInv'
<1>1. PICK n \in Nat : n = LastId
  BY DEF HistoryInv, LastId
<1>2. /\ previous' = Append(previous, from) /\ storedAt' = Append(storedAt, 0)
      /\ answering' = [answering EXCEPT ![r] = Len(previous')] /\ storeNow' = storeNow
      /\ answering[r] = 0 /\ (from # 0 => Loads(from))
  BY DEF PostResponse
<1>3. from \in 0 .. n
  BY <1>1 DEF HistoryInv
<1>4. /\ previous' \in Seq(Nat) /\ Len(previous') = n + 1 /\ previous'[n + 1] = from
      /\ \A i \in 1 .. n : previous'[i] = previous[i]
  BY <1>1, <1>2, <1>3, OneMore DEF HistoryInv, LastId
<1>5. /\ storedAt' \in Seq(Nat) /\ Len(storedAt') = n + 1 /\ storedAt'[n + 1] = 0
      /\ \A i \in 1 .. n : storedAt'[i] = storedAt[i]
  BY <1>1, <1>2, OneMore DEF HistoryInv, LastId
<1>6. storeFiles' \subseteq storeFiles /\ \A i \in storeFiles \ storeFiles' : Expired(i)
  BY TriedHasExpired DEF PostResponse
<1>7. storeFiles' \subseteq 1 .. n + 1
  BY <1>1, <1>6 DEF HistoryInv
<1>8. answering' = [answering EXCEPT ![r] = n + 1] /\ answering' \in [StoreClients -> 0 .. n + 1]
  BY <1>1, <1>2, <1>4 DEF HistoryInv
<1>9. \A i \in 1 .. n + 1 : i \in 1 .. n \/ i = n + 1
  BY <1>1
<1>10. \A i \in 1 .. n + 1 :
           previous'[i] \in 0 .. n + 1 /\ previous'[i] < i /\ storedAt'[i] <= storeNow'
  BY <1>1, <1>2, <1>3, <1>4, <1>5, <1>9 DEF HistoryInv
<1>11. \A i \in 1 .. n : Expired(i)' <=> Expired(i)
  BY <1>2, <1>5 DEF Expired
<1>12. \A i \in 1 .. n : LaterThanBefore(i) => LaterThanBefore(i)'
  <2> SUFFICES ASSUME NEW i \in 1 .. n, LaterThanBefore(i), previous'[i] # 0
               PROVE  storedAt'[previous'[i]] <= storedAt'[i]
    BY DEF LaterThanBefore
  <2>1. previous'[i] = previous[i] /\ previous[i] \in 0 .. n
    BY <1>1, <1>4, HistoryTyped
  <2>2. previous[i] \in 1 .. n
    BY <1>1, <2>1
  <2> QED
    BY <1>5, <2>1, <2>2 DEF LaterThanBefore
<1>13. \A p \in 1 .. n : WasStored(p) => WasStored(p)'
  BY <1>6, <1>11, <1>12 DEF WasStored
<1>14. \A i, p \in 1 .. n + 1 : previous'[i] = p => WasStored(p)'
  <2> SUFFICES ASSUME NEW i \in 1 .. n + 1, NEW p \in 1 .. n + 1, previous'[i] = p
               PROVE  WasStored(p)'
    OBVIOUS
  <2>1. CASE i \in 1 .. n
    <3>1. previous[i] = p /\ p \in 1 .. n
      <4>1. previous[i] = p
        BY <1>4, <2>1
      <4>2. p \in 0 .. n
        BY <1>1, <2>1, <4>1, HistoryTyped
      <4> QED
        BY <4>1, <4>2
    <3>2. WasStored(p)
      BY <1>1, <2>1, <3>1 DEF HistoryInv
    <3> QED
      BY <1>13, <3>1, <3>2
  <2>2. CASE i = n + 1
    <3>1. p = from /\ p \in storeFiles /\ p \in 1 .. n
      BY <1>3, <1>4, <2>2
    <3>2. WasStored(p)
      BY <3>1 DEF WasStored, HistoryInv
    <3> QED
      BY <1>13, <3>1, <3>2
  <2> QED
    BY <1>9, <2>1, <2>2
<1>15. \A i \in storeFiles' : LaterThanBefore(i)'
  BY <1>1, <1>6, <1>12 DEF HistoryInv
<1>16. ASSUME NEW q \in StoreClients, answering'[q] # 0
       PROVE  /\ answering'[q] \notin storeFiles'
              /\ \A i \in 1 .. n + 1 : previous'[i] # answering'[q]
              /\ \A p \in StoreClients \ {q} : answering'[p] # answering'[q]
  <2>1. CASE q = r
    <3>1. answering'[q] = n + 1
      BY <1>8, <2>1 DEF HistoryInv
    <3>2. \A p \in StoreClients \ {q} : answering'[p] \in 0 .. n
      BY <1>1, <1>8, <2>1 DEF HistoryInv
    <3>3. \A i \in 1 .. n + 1 : previous'[i] \in 0 .. n
      BY <1>1, <1>3, <1>4, <1>9 DEF HistoryInv
    <3>4. storeFiles' \subseteq 1 .. n
      BY <1>1, <1>6 DEF HistoryInv
    <3> QED
      BY <3>1, <3>2, <3>3, <3>4
  <2>2. CASE q # r
    <3>1. answering'[q] = answering[q] /\ answering[q] \in 1 .. n
      BY <1>1, <1>8, <1>16, <2>2 DEF HistoryInv
    <3>2. /\ answering[q] \notin storeFiles
          /\ \A i \in 1 .. n : previous[i] # answering[q]
          /\ \A p \in StoreClients \ {q} : answering[p] # answering[q]
      <4>1. answering[q] # 0
        BY <3>1
      <4>2. \A p \in StoreClients : answering[p] # 0 =>
                /\ answering[p] \notin storeFiles
                /\ \A i \in 1 .. n : previous[i] # answering[p]
                /\ \A s \in StoreClients \ {p} : answering[s] # answering[p]
        BY <1>1 DEF HistoryInv
      <4> QED
        BY <4>1, <4>2
    <3>3. answering[q] # from
      BY <3>1, <3>2
    <3>4. \A p \in StoreClients \ {q} : answering'[p] # answering[q]
      BY <1>8, <3>1, <3>2 DEF HistoryInv
    <3> QED
      BY <1>4, <1>6, <1>9, <3>1, <3>2, <3>3, <3>4
  <2> QED
    BY <2>1, <2>2
<1>17. LastId' = n + 1
  BY <1>4 DEF LastId
<1>18. /\ previous' \in Seq(Nat) /\ storedAt' \in Seq(Nat) /\ Len(storedAt') = LastId'
       /\ storeNow' \in Nat /\ storeFiles' \subseteq 1 .. LastId'
       /\ answering' \in [StoreClients -> 0 .. LastId']
  BY <1>2, <1>4, <1>5, <1>7, <1>8, <1>17 DEF HistoryInv
<1>19. \A i \in 1 .. LastId' :
           previous'[i] \in 0 .. LastId' /\ previous'[i] < i /\ storedAt'[i] <= storeNow'
  BY <1>10, <1>17
<1>20. \A q \in StoreClients : answering'[q] # 0 =>
           /\ answering'[q] \notin storeFiles'
           /\ \A i \in 1 .. LastId' : previous'[i] # answering'[q]
           /\ \A p \in StoreClients \ {q} : answering'[p] # answering'[q]
  BY <1>16, <1>17
<1>21. \A i, p \in 1 .. LastId' : previous'[i] = p => WasStored(p)'
  BY <1>14, <1>17
<1> QED
  BY <1>15, <1>18, <1>19, <1>20, <1>21 DEF HistoryInv

\* It ends, and may be stored: now, which is not before any other was.
LEMMA EndKeepsHistory ==
    ASSUME HistoryInv, NEW r \in StoreClients, EndOfAnswer(r)
    PROVE  HistoryInv'
<1>0. PICK id : id = answering[r]
  OBVIOUS
<1>1. UNCHANGED <<storeNow, previous>> /\ answering' = [answering EXCEPT ![r] = 0] /\ id # 0
  BY <1>0 DEF EndOfAnswer
<1>2. LastId' = LastId /\ id \in 1 .. LastId
  BY <1>0, <1>1 DEF LastId, HistoryInv
<1>3. /\ id \notin storeFiles /\ \A i \in 1 .. LastId : previous[i] # id
      /\ \A q \in StoreClients \ {r} : answering[q] # id
  BY <1>0, <1>1 DEF HistoryInv
<1>4. \A q \in StoreClients : answering'[q] = IF q = r THEN 0 ELSE answering[q]
  BY <1>1 DEF HistoryInv
<1>5. answering' \in [StoreClients -> 0 .. LastId]
  BY <1>1 DEF HistoryInv, LastId
<1>6. CASE SaveResponse(id)
  <2>1. storeFiles' = storeFiles \cup {id} /\ storedAt' = [storedAt EXCEPT ![id] = storeNow]
    BY <1>6 DEF SaveResponse
  <2>2. storedAt' \in Seq(Nat) /\ Len(storedAt') = LastId
    BY <1>2, <2>1 DEF HistoryInv, LastId
  <2>3. \A i \in 1 .. LastId : storedAt'[i] = IF i = id THEN storeNow ELSE storedAt[i]
    BY <2>1 DEF HistoryInv, LastId
  <2>4. \A i \in 1 .. LastId : /\ storedAt[i] \in Nat /\ storedAt[i] <= storeNow
                                /\ previous[i] \in 0 .. LastId /\ previous[i] < i
    BY HistoryTyped DEF HistoryInv
  <2>5. \A i \in 1 .. LastId : i # id => (LaterThanBefore(i) => LaterThanBefore(i)')
    <3> SUFFICES ASSUME NEW i \in 1 .. LastId, i # id, LaterThanBefore(i), previous[i] # 0
                 PROVE  storedAt'[previous[i]] <= storedAt'[i]
      BY <1>1 DEF LaterThanBefore
    <3>1. previous[i] \in 1 .. LastId /\ previous[i] # id
      BY <1>3, <2>4
    <3> QED
      BY <2>3, <3>1 DEF LaterThanBefore
  <2>6. LaterThanBefore(id)'
    <3> SUFFICES ASSUME previous[id] # 0 PROVE storedAt'[previous[id]] <= storedAt'[id]
      BY <1>1 DEF LaterThanBefore
    <3>1. previous[id] \in 1 .. LastId /\ previous[id] # id
      BY <1>2, <1>3, <2>4
    <3> QED
      BY <1>2, <2>3, <2>4, <3>1
  <2>7. \A i \in storeFiles' : LaterThanBefore(i)'
    BY <2>1, <2>5, <2>6 DEF HistoryInv
  <2>8. \A i \in 1 .. LastId : i # id => (Expired(i) => Expired(i)')
    BY <1>1, <2>3 DEF Expired
  <2>9. ASSUME NEW i \in 1 .. LastId, NEW p \in 1 .. LastId, previous[i] = p PROVE WasStored(p)'
    <3>1. p # id /\ WasStored(p)
      BY <1>3, <2>9 DEF HistoryInv
    <3> QED
      BY <2>1, <2>5, <2>8, <3>1 DEF WasStored
  <2>10. \A i \in 1 .. LastId : storedAt'[i] <= storeNow
    <3>1. storeNow \in Nat
      BY DEF HistoryInv
    <3> QED
      BY <2>3, <2>4, <3>1
  <2>11. ASSUME NEW q \in StoreClients, answering'[q] # 0
         PROVE  /\ answering'[q] \notin storeFiles'
                /\ \A i \in 1 .. LastId : previous[i] # answering'[q]
                /\ \A p \in StoreClients \ {q} : answering'[p] # answering'[q]
    <3>1. q # r /\ answering'[q] = answering[q]
      BY <1>4, <2>11
    <3> QED
      BY <1>3, <1>4, <2>1, <2>11, <3>1 DEF HistoryInv
  <2>12. storeFiles' \subseteq 1 .. LastId
    BY <1>2, <2>1 DEF HistoryInv
  <2> QED
    BY <1>1, <1>2, <1>5, <2>2, <2>4, <2>7, <2>9, <2>10, <2>11, <2>12 DEF HistoryInv
<1>7. CASE UNCHANGED <<storeFiles, storedAt>>
  <2>1. \A i : WasStored(i)' <=> WasStored(i)
    BY <1>1, <1>7 DEF WasStored, Expired, LaterThanBefore
  <2>2. \A i : LaterThanBefore(i)' <=> LaterThanBefore(i)
    BY <1>1, <1>7 DEF LaterThanBefore
  <2>3. ASSUME NEW q \in StoreClients, answering'[q] # 0
        PROVE  /\ answering'[q] \notin storeFiles
               /\ \A i \in 1 .. LastId : previous[i] # answering'[q]
               /\ \A p \in StoreClients \ {q} : answering'[p] # answering'[q]
    <3>1. q # r /\ answering'[q] = answering[q]
      BY <1>4, <2>3
    <3> QED
      BY <1>4, <2>3, <3>1 DEF HistoryInv
  <2> QED
    BY <1>1, <1>2, <1>5, <1>7, <2>1, <2>2, <2>3 DEF HistoryInv
<1> QED
  BY <1>0, <1>6, <1>7 DEF EndOfAnswer

LEMMA HistoryStep == HistoryInv /\ [ResponsesNext]_responsesVars => HistoryInv'
<1> SUFFICES ASSUME HistoryInv, [ResponsesNext]_responsesVars PROVE HistoryInv'
  OBVIOUS
<1>1. CASE StoreTick
  BY <1>1, TimeKeepsHistory
<1>2. ASSUME NEW r \in StoreClients, NEW from \in {0} \cup storeFiles, PostResponse(r, from)
      PROVE  HistoryInv'
  BY <1>2, PostKeepsHistory
<1>3. ASSUME NEW r \in StoreClients, EndOfAnswer(r) PROVE HistoryInv'
  BY <1>3, EndKeepsHistory
<1>4. ASSUME NEW from \in storeFiles, PostNotFound(from) PROVE HistoryInv'
  BY <1>4, RefusalKeepsHistory
<1>5. CASE UNCHANGED responsesVars
  BY <1>5 DEF responsesVars, HistoryInv, LastId, WasStored, LaterThanBefore, Expired
<1> QED
  BY <1>1, <1>2, <1>3, <1>4, <1>5 DEF ResponsesNext

-----------------------------------------------------------------------------
\* Behind the first response that does not load everything has expired.
LEMMA RestHasExpired ==
    ASSUME HistoryInv, NEW id \in storeFiles, NEW n \in Nat, ~Loads(Before(id)[n + 1]),
           NEW m \in Nat, n + 1 <= m
    PROVE  Before(id)[m] = 0 \/ Expired(Before(id)[m])
<1> DEFINE b == Before(id)
           Fresh == {k \in Nat : n + 1 <= k /\ b[k] # 0 /\ ~Expired(b[k])}
<1>1. \A k \in Nat : b[k] \in 0 .. LastId /\ b[k + 1] = IF b[k] = 0 THEN 0 ELSE previous[b[k]]
  <2>1. id \in 0 .. LastId
    BY DEF HistoryInv
  <2> QED
    BY <2>1, BeforeGoesBack
<1> HIDE DEF b
<1> SUFFICES ASSUME Fresh # {} PROVE FALSE
  BY DEF b
<1>2. Fresh \subseteq Nat
  OBVIOUS
<1>3. PICK k \in Fresh : \A i \in Fresh : k <= i
  <2> HIDE DEF Fresh
  <2> QED
    BY <1>2, LeastOf
<1>4. k - 1 \in Nat /\ (k - 1) + 1 = k /\ n <= k - 1
  BY <1>3
<1>5. b[k - 1] \in 1 .. LastId /\ b[k] = previous[b[k - 1]] /\ b[k] # 0
  BY <1>1, <1>3, <1>4
<1>6. WasStored(b[k]) /\ ~Expired(b[k])
  <2>1. b[k] \in 1 .. LastId
    BY <1>1, <1>3, <1>5
  <2>2. \A p : p = b[k] => WasStored(p)
    BY <1>5, <2>1 DEF HistoryInv
  <2> QED
    BY <1>3, <2>2
<1>7. CASE k = n + 1
  BY <1>6, <1>7 DEF WasStored, Loads, b
<1>8. CASE k # n + 1
  <2>1. k - 1 \notin Fresh /\ n + 1 <= k - 1
    BY <1>3, <1>4, <1>8
  <2>2. Expired(b[k - 1])
    BY <1>4, <1>5, <2>1
  <2>3. (k - 1) - 1 \in Nat /\ ((k - 1) - 1) + 1 = k - 1
    BY <1>3, <2>1
  <2>4. b[(k - 1) - 1] \in 1 .. LastId /\ b[k - 1] = previous[b[(k - 1) - 1]]
    BY <1>1, <1>5, <2>3
  <2>5. WasStored(b[k - 1])
    <3>1. \A p : p = b[k - 1] => WasStored(p)
      BY <1>5, <2>4 DEF HistoryInv
    <3> QED
      BY <3>1
  <2>6. storedAt[b[k]] <= storedAt[b[k - 1]]
    BY <1>5, <2>5 DEF WasStored, LaterThanBefore
  <2>7. b[k] \in 1 .. LastId
    BY <1>1, <1>5, <1>3
  <2>8. storedAt[b[k]] \in Nat /\ storedAt[b[k - 1]] \in Nat /\ storeNow \in Nat
    <3>1. \A i \in 1 .. LastId : storedAt[i] \in Nat
      BY HistoryTyped
    <3> QED
      BY <1>5, <2>7, <3>1 DEF HistoryInv
  <2>9. Expired(b[k])
    BY <2>2, <2>6, <2>8, StoreAssumption DEF Expired
  <2> QED
    BY <1>6, <2>9
<1> QED
  BY <1>7, <1>8

LEMMA HistoryInvIsComplete == HistoryInv => HistoryComplete
<1> SUFFICES ASSUME HistoryInv, NEW id \in {i \in storeFiles : Loads(i)}
             PROVE  LET given == CollectAncestors(id)
                        length == Len(given)
                    IN  /\ length \in 1 .. HistoryDepth + 1
                        /\ \A i \in 1 .. length :
                               given[i] = Before(id)[length - i] /\ given[i] # 0 /\ ~Expired(given[i])
                        /\ length <= HistoryDepth =>
                               \A n \in length .. Len(previous) :
                                   Before(id)[n] = 0 \/ Expired(Before(id)[n])
  BY DEF HistoryComplete
<1>1. PICK n \in Nat : n = Reach(id, HistoryDepth) /\ n <= HistoryDepth
  BY ReachEnds, StoreAssumption
<1>2. /\ \A k \in 1 .. n : Loads(Before(id)[k])
      /\ n < HistoryDepth => ~Loads(Before(id)[n + 1])
  BY <1>1, ReachEnds, StoreAssumption
<1>3. /\ Len(CollectAncestors(id)) = n + 1
      /\ CollectAncestors(id) = [i \in 1 .. n + 1 |-> Before(id)[n + 1 - i]]
  BY <1>1, CollectedLength
<1>4. Before(id)[0] = id
  BY BeforeGoesBack DEF HistoryInv
<1>5. \A k \in 0 .. n : Loads(Before(id)[k])
  <2>1. \A k \in 0 .. n : k = 0 \/ k \in 1 .. n
    BY <1>1
  <2> QED
    BY <1>2, <1>4, <2>1
<1>6. \A x : Loads(x) => x # 0 /\ ~Expired(x)
  BY DEF Loads, HistoryInv
<1>7. ASSUME NEW i \in 1 .. n + 1
      PROVE  /\ CollectAncestors(id)[i] = Before(id)[n + 1 - i]
             /\ CollectAncestors(id)[i] # 0 /\ ~Expired(CollectAncestors(id)[i])
  <2>1. n + 1 - i \in 0 .. n
    BY <1>1
  <2>2. CollectAncestors(id)[i] = Before(id)[n + 1 - i]
    BY <1>3
  <2> QED
    BY <1>5, <1>6, <2>1, <2>2
<1>8. ASSUME n + 1 <= HistoryDepth, NEW m \in n + 1 .. Len(previous)
      PROVE  Before(id)[m] = 0 \/ Expired(Before(id)[m])
  <2>1. m \in Nat /\ n + 1 <= m
    BY <1>1 DEF HistoryInv, LastId
  <2>2. ~Loads(Before(id)[n + 1])
    BY <1>1, <1>2, <1>8, StoreAssumption
  <2> QED
    BY <2>1, <2>2, RestHasExpired
<1>9. n + 1 \in 1 .. HistoryDepth + 1
  BY <1>1, StoreAssumption
<1> QED
  BY <1>3, <1>7, <1>8, <1>9

\* A response that somebody went on from was stored before what came of it, and nobody is
\* still answering it.
THEOREM HistoryCorrect == ResponsesSpec => []HistoryInv
  BY HistoryAtFirst, HistoryStep, PTL DEF ResponsesSpec

\* HistoryComplete, for any number of clients, chains of any length and any limit.
THEOREM HistoriesAreComplete == ResponsesSpec => []HistoryComplete
  BY HistoryCorrect, HistoryInvIsComplete, PTL

-----------------------------------------------------------------------------
(***************************************************************************)
(* WebSearch, for any lists of sites and chunks of any size.  Trace says   *)
(* what a client has of the blocks after each event; AssembledIs, that     *)
(* this is what it puts together.                                          *)
(***************************************************************************)

\* A client that has nothing at first, and then after each event what Taken says, has in the
\* end what it puts together.
Follows(events, n, g) ==
    /\ Len(events) = n
    /\ g = [k \in 0 .. n |-> g[k]] /\ g[0] = <<>>
    /\ \A k \in 1 .. n : g[k] = Taken(g[k - 1], events[k])

LEMMA AssembledIs ==
    ASSUME NEW events, NEW n \in Nat, NEW g, Follows(events, n, g)
    PROVE  Assembled(events) = g[n]
<1> USE DEF Follows
<1> DEFINE Computes(f) ==
             f = [k \in 0 .. n |-> IF k = 0 THEN <<>> ELSE Taken(f[k - 1], events[k])]
<1>1. Computes(g)
  <2>1. \A k \in 0 .. n : k = 0 \/ k \in 1 .. n
    OBVIOUS
  <2>2. \A k \in 0 .. n : g[k] = IF k = 0 THEN <<>> ELSE Taken(g[k - 1], events[k])
    BY <2>1
  <2> QED
    BY <2>2
<1>2. ASSUME NEW f, Computes(f) PROVE f[n] = g[n]
  <2>1. f[0] = <<>> /\ \A k \in 1 .. n : f[k] = Taken(f[k - 1], events[k])
    <3>1. 0 \in 0 .. n /\ \A k \in 1 .. n : k \in 0 .. n /\ k # 0
      OBVIOUS
    <3> QED
      BY <1>2, <3>1
  <2>2. PICK Bad : Bad = {k \in 0 .. n : f[k] # g[k]}
    OBVIOUS
  <2>3. CASE Bad # {}
    <3>1. Bad \subseteq Nat
      BY <2>2
    <3>2. PICK m \in Bad : \A k \in Bad : m <= k
      BY <2>3, <3>1, LeastOf
    <3>3. m \in 1 .. n /\ m - 1 \in 0 .. n /\ m - 1 \notin Bad
      BY <2>1, <2>2, <3>2
    <3>4. f[m - 1] = g[m - 1]
      BY <2>2, <3>3
    <3>5. f[m] = g[m]
      BY <2>1, <3>3, <3>4
    <3> QED
      BY <2>2, <3>2, <3>5
  <2>4. CASE Bad = {}
    <3>1. n \in 0 .. n
      OBVIOUS
    <3> QED
      BY <2>2, <2>4, <3>1
  <2> QED
    BY <2>3, <2>4
<1>3. Assembled(events) = (CHOOSE f : Computes(f))[n]
  BY DEF Assembled
<1>4. Computes(CHOOSE f : Computes(f))
  BY <1>1
<1> HIDE DEF Computes
<1> QED
  BY <1>2, <1>3, <1>4

LEMMA Passes ==
    ASSUME NEW blocks, NEW e, e.type \notin {"start", "delta"}
    PROVE  Taken(blocks, e) = blocks
BY DEF Taken

\* q is p with x at its end.
Longer(V, n, p, q, x) ==
    /\ p \in Seq(V) /\ q \in Seq(V) /\ x \in V /\ Len(p) = n /\ Len(q) = n + 1
    /\ \A i \in 1 .. n : q[i] = p[i]
    /\ q[n + 1] = x

LEMMA AppendIs ==
    ASSUME NEW V, NEW n \in Nat, NEW p, NEW q, NEW x, Longer(V, n, p, q, x)
    PROVE  Append(p, x) = q
<1>1. PICK r : r = Append(p, x)
  OBVIOUS
<1>2. r \in Seq(V) /\ Len(r) = n + 1 /\ (\A i \in 1 .. n : r[i] = p[i]) /\ r[n + 1] = x
  BY <1>1, AppendProperties DEF Longer
<1>3. \A i \in 1 .. n + 1 : i \in 1 .. n \/ i = n + 1
  OBVIOUS
<1>4. \A i \in 1 .. n + 1 : r[i] = q[i]
  BY <1>2, <1>3 DEF Longer
<1>5. q \in Seq(V) /\ Len(q) = Len(r) /\ \A i \in 1 .. Len(r) : r[i] = q[i]
  BY <1>2, <1>4 DEF Longer
<1>6. r = q
  BY <1>2, <1>5, SeqEqual
<1> QED
  BY <1>1, <1>6

\* Blocks are opened in order.
OpenedIn(a, b, c, d) ==
    /\ Taken(<<>>, Starts(0, a)) = <<a>>
    /\ Taken(<<a>>, Starts(1, b)) = <<a, b>>
    /\ Taken(<<a, b>>, Starts(2, c)) = <<a, b, c>>
    /\ Taken(<<a, b, c>>, Starts(3, d)) = <<a, b, c, d>>

LEMMA Opens ==
    ASSUME NEW a, NEW b, NEW c, NEW d
    PROVE  OpenedIn(a, b, c, d)
<1>1. PICK V : V = {a, b, c, d}
  OBVIOUS
<1>2. a \in V /\ b \in V /\ c \in V /\ d \in V
  BY <1>1
<1>3. Append(<<>>, a) = <<a>>
  OBVIOUS
<1>4. Append(<<a>>, b) = <<a, b>>
  <2>1. PICK p, q : p = <<a>> /\ q = <<a, b>>
    OBVIOUS
  <2>2. 1 \in Nat /\ Longer(V, 1, p, q, b)
    BY <1>2, <2>1 DEF Longer
  <2>3. Append(p, b) = q
    BY <2>2, AppendIs
  <2> QED
    BY <2>1, <2>3
<1>5. Append(<<a, b>>, c) = <<a, b, c>>
  <2>1. PICK p, q : p = <<a, b>> /\ q = <<a, b, c>>
    OBVIOUS
  <2>2. 2 \in Nat /\ Longer(V, 2, p, q, c)
    BY <1>2, <2>1 DEF Longer
  <2>3. Append(p, c) = q
    BY <2>2, AppendIs
  <2> QED
    BY <2>1, <2>3
<1>6. Append(<<a, b, c>>, d) = <<a, b, c, d>>
  <2>1. PICK p, q : p = <<a, b, c>> /\ q = <<a, b, c, d>>
    OBVIOUS
  <2>2. 3 \in Nat /\ Longer(V, 3, p, q, d)
    BY <1>2, <2>1 DEF Longer
  <2>3. Append(p, d) = q
    BY <2>2, AppendIs
  <2> QED
    BY <2>1, <2>3
<1>7. ASSUME NEW blocks, NEW i, i = Len(blocks), NEW block
      PROVE  Taken(blocks, Starts(i, block)) = Append(blocks, block)
  BY <1>7 DEF Taken, Starts, Event
<1>8. Len(<<>>) = 0 /\ Len(<<a>>) = 1 /\ Len(<<a, b>>) = 2 /\ Len(<<a, b, c>>) = 3
  OBVIOUS
<1>9. /\ Taken(<<>>, Starts(0, a)) = Append(<<>>, a)
       /\ Taken(<<a>>, Starts(1, b)) = Append(<<a>>, b)
       /\ Taken(<<a, b>>, Starts(2, c)) = Append(<<a, b>>, c)
       /\ Taken(<<a, b, c>>, Starts(3, d)) = Append(<<a, b, c>>, d)
  BY <1>7, <1>8, Zenon
<1> QED
  BY <1>3, <1>4, <1>5, <1>6, <1>9, Zenon DEF OpenedIn

LEMMA OpensFourth ==
    ASSUME NEW a, NEW b, NEW c, NEW d
    PROVE  Taken(<<a, b, c>>, Starts(3, d)) = <<a, b, c, d>>
<1>1. OpenedIn(a, b, c, d)
  BY Opens
<1> QED
  BY <1>1 DEF OpenedIn

LEMMA TextOf ==
    ASSUME NEW type, NEW toks, NEW more
    PROVE  /\ SearchBlock(type, toks).toks = toks
           /\ [SearchBlock(type, toks) EXCEPT !.toks = more] = SearchBlock(type, more)
BY DEF SearchBlock

\* A delta of the block at place k.
LEMMA SaysIn ==
    ASSUME NEW blocks, NEW i \in Nat, NEW k, k = i + 1, i < Len(blocks), NEW type, NEW toks,
           blocks[k] = SearchBlock(type, toks), NEW more
    PROVE  Taken(blocks, Delta(i, more)) = [blocks EXCEPT ![k] = SearchBlock(type, toks \o more)]
<1>1. PICK e : e = Delta(i, more)
  OBVIOUS
<1>2. e.type = "delta" /\ e.index = i /\ e.block.toks = more
  BY <1>1 DEF Delta, Event, SearchBlock
<1>3. Taken(blocks, e) = [blocks EXCEPT ![k] = [blocks[k] EXCEPT !.toks = blocks[k].toks \o more]]
  BY <1>2 DEF Taken
<1>4. [blocks[k] EXCEPT !.toks = blocks[k].toks \o more] = SearchBlock(type, toks \o more)
  <2>1. SearchBlock(type, toks).toks = toks
    BY TextOf
  <2>2. PICK all : all = toks \o more
    OBVIOUS
  <2>3. [SearchBlock(type, toks) EXCEPT !.toks = all] = SearchBlock(type, all)
    BY TextOf
  <2> QED
    BY <2>1, <2>2, <2>3
<1> QED
  BY <1>1, <1>3, <1>4

LEMMA SaysInFirst ==
    ASSUME NEW type, NEW toks, NEW more
    PROVE  Taken(<<SearchBlock(type, toks)>>, Delta(0, more)) = <<SearchBlock(type, toks \o more)>>
<1>1. PICK x, y : x = SearchBlock(type, toks) /\ y = SearchBlock(type, toks \o more)
  OBVIOUS
<1>2. Len(<<x>>) = 1 /\ <<x>>[1] = x /\ 0 \in Nat /\ 1 = 0 + 1 /\ 0 < 1
  OBVIOUS
<1>3. Taken(<<x>>, Delta(0, more)) = [<<x>> EXCEPT ![1] = y]
  BY <1>1, <1>2, SaysIn
<1>4. [<<x>> EXCEPT ![1] = y] = <<y>>
  OBVIOUS
<1> QED
  BY <1>1, <1>3, <1>4

LEMMA SaysInSecond ==
    ASSUME NEW a, NEW type, NEW toks, NEW more
    PROVE  Taken(<<a, SearchBlock(type, toks)>>, Delta(1, more)) = <<a, SearchBlock(type, toks \o more)>>
<1>1. PICK x, y : x = SearchBlock(type, toks) /\ y = SearchBlock(type, toks \o more)
  OBVIOUS
<1>2. Len(<<a, x>>) = 2 /\ <<a, x>>[2] = x /\ 1 \in Nat /\ 2 = 1 + 1 /\ 1 < 2
  OBVIOUS
<1>3. Taken(<<a, x>>, Delta(1, more)) = [<<a, x>> EXCEPT ![2] = y]
  BY <1>1, <1>2, SaysIn
<1>4. [<<a, x>> EXCEPT ![2] = y] = <<a, y>>
  OBVIOUS
<1> QED
  BY <1>1, <1>3, <1>4

LEMMA SaysInFourth ==
    ASSUME NEW a, NEW b, NEW c, NEW type, NEW toks, NEW more
    PROVE  Taken(<<a, b, c, SearchBlock(type, toks)>>, Delta(3, more))
               = <<a, b, c, SearchBlock(type, toks \o more)>>
<1>1. PICK x, y : x = SearchBlock(type, toks) /\ y = SearchBlock(type, toks \o more)
  OBVIOUS
<1>2. PICK p : p = <<a, b, c, x>>
  OBVIOUS
<1>3. Len(p) = 4 /\ p[4] = x /\ [p EXCEPT ![4] = y] = <<a, b, c, y>>
  BY <1>2
<1>4. PICK i \in Nat, k \in Nat : i = 3 /\ k = 4
  OBVIOUS
<1>5. k = i + 1 /\ i < Len(p) /\ p[k] = SearchBlock(type, toks)
  BY <1>1, <1>3, <1>4
<1>6. Taken(p, Delta(i, more)) = [p EXCEPT ![k] = y]
  BY <1>1, <1>5, SaysIn
<1> QED
  BY <1>1, <1>2, <1>3, <1>4, <1>6

\* Dividing by the size of a chunk.
LEMMA Rounds ==
    ASSUME NEW len \in Nat, NEW size \in Nat \ {0}, NEW n, n = (len + size - 1) \div size
    PROVE  n \in Nat /\ len <= n * size
<1>1. \A a \in Nat : a \div size \in Nat /\ a = (a \div size) * size + (a % size) /\ a % size \in 0 .. size - 1
  OBVIOUS
<1>2. len + size - 1 \in Nat
  OBVIOUS
<1>3. PICK r \in 0 .. size - 1 : len + size - 1 = n * size + r
  BY <1>1, <1>2
<1>4. n \in Nat /\ n * size \in Nat
  BY <1>1, <1>2
<1> QED
  BY <1>3, <1>4

\* How far the text has come with chunk k.
Reached(text, k) == IF k * ChunkSize < Len(text) THEN k * ChunkSize ELSE Len(text)

LEMMA ChunkEnds ==
    ASSUME NEW len \in Nat, NEW size \in Nat \ {0}, NEW k \in Nat \ {0}
    PROVE  /\ (k - 1) * size \in Nat /\ k * size \in Nat
           /\ (k - 1) * size <= k * size
OBVIOUS

\* The text, cut into n chunks.
CutInto(text, chunks, n) ==
    /\ Len(chunks) = n /\ DOMAIN chunks = 1 .. n /\ chunks = [i \in 1 .. n |-> chunks[i]]
    /\ SubSeq(text, 1, Reached(text, 0)) = <<>>
    /\ SubSeq(text, 1, Reached(text, n)) = text
    /\ \A k \in 1 .. n : SubSeq(text, 1, Reached(text, k - 1)) \o chunks[k]
                             = SubSeq(text, 1, Reached(text, k))

LEMMA ChunksJoin ==
    ASSUME NEW V, NEW text \in Seq(V), NEW chunks, chunks = Chunked(text)
    PROVE  \E n \in Nat : CutInto(text, chunks, n)
<1>1. ChunkSize \in Nat \ {0}
  BY SearchAssumption
<1>2. PICK len \in Nat : len = Len(text)
  BY LenProperties
<1>3. PICK n : n = (len + ChunkSize - 1) \div ChunkSize
  OBVIOUS
<1>4. n \in Nat /\ len <= n * ChunkSize
  BY <1>1, <1>3, Rounds
<1>5. chunks = [i \in 1 .. n |-> SubSeq(text, (i - 1) * ChunkSize + 1, Reached(text, i))]
  BY <1>2, <1>3 DEF Chunked, Reached
<1>6. Len(chunks) = n /\ DOMAIN chunks = 1 .. n
  BY <1>4, <1>5
<1>7. SubSeq(text, 1, Reached(text, 0)) = <<>>
  <2>1. Reached(text, 0) = 0
    BY <1>1, <1>2 DEF Reached
  <2> QED
    BY <2>1, SubSeqEmpty
<1>8. SubSeq(text, 1, Reached(text, n)) = text
  <2>1. Reached(text, n) = Len(text)
    <3>1. n * ChunkSize \in Nat
      BY <1>1, <1>4
    <3> QED
      BY <1>2, <1>4, <3>1 DEF Reached
  <2> QED
    BY <2>1, SubSeqFull
<1>9. ASSUME NEW k \in 1 .. n
      PROVE  SubSeq(text, 1, Reached(text, k - 1)) \o chunks[k] = SubSeq(text, 1, Reached(text, k))
  <2>1. PICK before \in Nat, upto \in Nat :
            before = (k - 1) * ChunkSize /\ upto = k * ChunkSize /\ before <= upto
    <3>1. k \in Nat \ {0}
      BY <1>4
    <3> QED
      BY <1>1, <3>1, ChunkEnds
  <2>2. chunks[k] = SubSeq(text, before + 1, Reached(text, k))
    BY <1>5, <2>1
  <2>3. /\ Reached(text, k - 1) = IF before < len THEN before ELSE len
        /\ Reached(text, k) = IF upto < len THEN upto ELSE len
    BY <1>2, <2>1 DEF Reached
  <2>4. CASE before < len
    <3>1. /\ Reached(text, k - 1) = before /\ before \in 1 - 1 .. Len(text)
          /\ Reached(text, k) \in before .. Len(text) /\ 1 \in 1 .. Len(text) + 1
      BY <1>2, <2>1, <2>3, <2>4
    <3> QED
      BY <2>2, <3>1, ConcatAdjacentSubSeq
  <2>5. CASE ~(before < len)
    <3>1. Reached(text, k - 1) = len /\ Reached(text, k) = len /\ len < before + 1
      BY <2>1, <2>3, <2>5
    <3>2. chunks[k] = <<>>
      BY <2>2, <3>1, SubSeqEmpty
    <3>3. SubSeq(text, 1, len) = text
      BY <1>2, SubSeqFull
    <3>4. text \o <<>> = text
      BY ConcatEmptySeq
    <3> QED
      BY <3>1, <3>2, <3>3, <3>4
  <2> QED
    BY <2>4, <2>5
<1> QED
  BY <1>4, <1>5, <1>6, <1>7, <1>8, <1>9 DEF CutInto

\* What a text of a search says.
Words == {"heading", "none", "note"}

LEMMA SummaryMentions ==
    ASSUME sites = Unfound \/ sites \in Findings
    PROVE  /\ generate_search_summary \in Seq(Words \cup ToSet(Sites))
           /\ Mentions(generate_search_summary, Sites)
<1>1. CASE sites = Unfound
  <2>1. PICK s : s = generate_search_summary
    OBVIOUS
  <2>2. s = (<<"heading">> \o <<"none">>) \o <<"note">> /\ Sites = <<>>
    BY <1>1, <2>1 DEF generate_search_summary, Sites
  <2>3. PICK V : V = Words \cup ToSet(Sites)
    OBVIOUS
  <2>4. s \in Seq(V) /\ Len(s) = 3 /\ DOMAIN s = 1 .. 3 /\ \A k \in 1 .. 3 : s[k] \in Words
    <3>1. /\ <<"heading">> \in Seq(Words) /\ <<"none">> \in Seq(Words) /\ <<"note">> \in Seq(Words)
          /\ Len(<<"heading">>) = 1 /\ Len(<<"none">>) = 1 /\ Len(<<"note">>) = 1
      BY DEF Words
    <3>2. PICK t : t = <<"heading">> \o <<"none">>
      OBVIOUS
    <3>3. t \in Seq(Words) /\ Len(t) = 1 + 1
      BY <3>1, <3>2, ConcatProperties
    <3>4. s \in Seq(Words) /\ Len(s) = 2 + 1
      BY <2>2, <3>1, <3>2, <3>3, ConcatProperties
    <3>5. s \in Seq(V)
      BY <2>3, <3>4, SeqMonotonic
    <3>6. Len(s) = 3 /\ DOMAIN s = 1 .. 3
      BY <3>4, LenProperties
    <3>7. \A k \in 1 .. 3 : s[k] \in Words
      BY <3>4, <3>6, ElementOfSeq
    <3> QED
      BY <3>5, <3>6, <3>7
  <2>5. 0 \in 0 .. Len(s) - Len(Sites) /\ Len(Sites) = 0 /\ SubSeq(s, 0 + 1, 0 + Len(Sites)) = Sites
    BY <2>2, <2>4, SubSeqEmpty
  <2>6. Mentions(s, Sites)
    BY <2>4, <2>5 DEF Mentions, Words
  <2> QED
    BY <2>1, <2>3, <2>4, <2>6
<1>2. CASE sites # Unfound
  <2>1. Sites = sites /\ sites \in Seq(ToSet(sites))
    BY <1>2, SearchAssumption DEF Sites
  <2>2. PICK s : s = generate_search_summary
    OBVIOUS
  <2>3. PICK V : V = Words \cup ToSet(sites)
    OBVIOUS
  <2>4. sites \in Seq(V) /\ <<"heading">> \in Seq(V) /\ <<"note">> \in Seq(V)
    <3>1. ToSet(sites) \subseteq V /\ "heading" \in V /\ "note" \in V
      BY <2>3 DEF Words
    <3>2. sites \in Seq(V)
      BY <2>1, <3>1, SeqMonotonic
    <3> QED
      BY <3>1, <3>2
  <2>5. s = (<<"heading">> \o sites) \o <<"note">>
    BY <1>2, <2>2 DEF generate_search_summary
  <2>6. PICK n \in Nat : n = Len(sites) /\ DOMAIN sites = 1 .. n
    BY <2>4, LenProperties
  <2>7. PICK t : t = <<"heading">> \o sites
    OBVIOUS
  <2>8. t \in Seq(V) /\ Len(t) = n + 1 /\ t[1] = "heading" /\ \A k \in 1 .. n : t[k + 1] = sites[k]
    <3>1. Len(<<"heading">>) = 1 /\ <<"heading">>[1] = "heading"
      OBVIOUS
    <3>2. t \in Seq(V) /\ Len(t) = 1 + n
      BY <2>4, <2>6, <2>7, <3>1, ConcatProperties
    <3>3. \A i \in 1 .. 1 + n : t[i] = IF i <= 1 THEN <<"heading">>[i] ELSE sites[i - 1]
      BY <2>4, <2>6, <2>7, <3>1, ConcatProperties
    <3>4. 1 \in 1 .. 1 + n /\ \A k \in 1 .. n : k + 1 \in 1 .. 1 + n /\ ~(k + 1 <= 1) /\ (k + 1) - 1 = k
      OBVIOUS
    <3> QED
      BY <3>1, <3>2, <3>3, <3>4
  <2>9. /\ s \in Seq(V) /\ Len(s) = n + 2 /\ DOMAIN s = 1 .. n + 2
        /\ s[1] = "heading" /\ s[n + 2] = "note" /\ \A k \in 1 .. n : s[k + 1] = sites[k]
    <3>1. Len(<<"note">>) = 1 /\ <<"note">>[1] = "note"
      OBVIOUS
    <3>2. s \in Seq(V) /\ Len(s) = (n + 1) + 1
      BY <2>4, <2>5, <2>7, <2>8, <3>1, ConcatProperties
    <3>3. \A i \in 1 .. (n + 1) + 1 : s[i] = IF i <= n + 1 THEN t[i] ELSE <<"note">>[i - (n + 1)]
      BY <2>4, <2>5, <2>7, <2>8, <3>1, ConcatProperties
    <3>4. DOMAIN s = 1 .. n + 2
      BY <3>2, LenProperties
    <3>5. /\ 1 \in 1 .. (n + 1) + 1 /\ 1 <= n + 1
          /\ n + 2 \in 1 .. (n + 1) + 1 /\ ~(n + 2 <= n + 1) /\ (n + 2) - (n + 1) = 1
          /\ \A k \in 1 .. n : k + 1 \in 1 .. (n + 1) + 1 /\ k + 1 <= n + 1
      OBVIOUS
    <3> QED
      BY <2>8, <3>1, <3>2, <3>3, <3>4, <3>5
  <2>10. SubSeq(s, 1 + 1, 1 + n) = sites
    <3>1. PICK u : u = SubSeq(s, 2, n + 1)
      OBVIOUS
    <3>2. /\ u \in Seq(V) /\ Len(u) = n /\ \A i \in 1 .. n : u[i] = s[2 + i - 1]
      <4>1. \A i \in 2 .. n + 1 : s[i] \in V
        <5>1. \A i \in 2 .. n + 1 : i \in 1 .. Len(s)
          BY <2>9
        <5> QED
          BY <2>9, <5>1, ElementOfSeq
      <4>2. /\ u \in Seq(V) /\ Len(u) = IF 2 <= n + 1 THEN (n + 1) - 2 + 1 ELSE 0
            /\ \A i \in 1 .. (n + 1) - 2 + 1 : u[i] = s[2 + i - 1]
        BY <3>1, <4>1, SubSeqProperties
      <4> QED
        BY <4>2
    <3>3. \A i \in 1 .. n : u[i] = sites[i]
      <4>1. \A i \in 1 .. n : 2 + i - 1 = i + 1
        OBVIOUS
      <4> QED
        BY <2>9, <3>2, <4>1
    <3>4. u = sites
      BY <2>4, <2>6, <3>2, <3>3, SeqEqual
    <3>5. 1 + 1 = 2 /\ 1 + n = n + 1
      OBVIOUS
    <3> QED
      BY <3>1, <3>4, <3>5
  <2>11. \A k \in 1 .. n + 2 : k \notin 1 + 1 .. 1 + n => k = 1 \/ k = n + 2
    OBVIOUS
  <2>12. 1 \in 0 .. (n + 2) - n
    OBVIOUS
  <2>13. Mentions(s, sites)
    BY <2>6, <2>9, <2>10, <2>11, <2>12 DEF Mentions
  <2> QED
    BY <2>1, <2>2, <2>3, <2>9, <2>13
<1> QED
  BY <1>1, <1>2

\* Sequences one after the other.
LEMMA Placed ==
    ASSUME NEW m \in Nat, NEW n \in Nat, NEW a, NEW b,
           a = [i \in 1 .. m |-> a[i]], b = [i \in 1 .. n |-> b[i]],
           NEW c, c = a \o b
    PROVE  /\ Len(c) = m + n /\ c = [i \in 1 .. m + n |-> c[i]]
           /\ \A i \in 1 .. m : c[i] = a[i]
           /\ \A i \in 1 .. n : c[m + i] = b[i]
<1>1. PICK V : V = {a[i] : i \in 1 .. m} \cup {b[i] : i \in 1 .. n}
  OBVIOUS
<1>2. a \in Seq(V) /\ b \in Seq(V) /\ Len(a) = m /\ Len(b) = n
  <2>1. (\A i \in 1 .. m : a[i] \in V) /\ (\A i \in 1 .. n : b[i] \in V)
    BY <1>1
  <2>2. a \in Seq(V) /\ b \in Seq(V)
    <3>1. a \in [1 .. m -> V] /\ b \in [1 .. n -> V]
      BY <2>1
    <3> QED
      BY <3>1, FunctionAsSeq
  <2>3. Len(a) = m /\ Len(b) = n
    OBVIOUS
  <2> QED
    BY <2>2, <2>3
<1>3. c \in Seq(V) /\ Len(c) = m + n /\ \A i \in 1 .. m + n : c[i] = IF i <= m THEN a[i] ELSE b[i - m]
  <2>1. /\ a \o b \in Seq(V) /\ Len(a \o b) = Len(a) + Len(b)
        /\ \A i \in 1 .. Len(a) + Len(b) : (a \o b)[i] = IF i <= Len(a) THEN a[i] ELSE b[i - Len(a)]
    BY <1>2, ConcatProperties
  <2> QED
    BY <1>2, <2>1
<1>4. c = [i \in 1 .. m + n |-> c[i]]
  BY <1>3, LenProperties
<1>5. \A i \in 1 .. m : i \in 1 .. m + n /\ i <= m
  OBVIOUS
<1>6. \A i \in 1 .. n : m + i \in 1 .. m + n /\ ~(m + i <= m) /\ (m + i) - m = i
  OBVIOUS
<1> QED
  BY <1>3, <1>4, <1>5, <1>6

\* What is streamed of the Messages API, event by event, in n chunks.
Announcing(e, n, chunks) ==
    /\ Len(e) = n + 12
    /\ e[1] = Event("message_start", 0, NoSearchBlock)
    /\ e[2] = Starts(0, SearchBlock("text", <<>>)) /\ e[3] = Delta(0, <<"decision">>) /\ e[4] = Stops(0)
    /\ e[5] = Starts(1, SearchCall) /\ e[6] = Stops(1)
    /\ e[7] = Starts(2, StreamedResult) /\ e[8] = Stops(2)
    /\ e[9] = Starts(3, SearchBlock("text", <<>>))
    /\ \A k \in 1 .. n : e[9 + k] = Delta(3, chunks[k])
    /\ e[n + 10] = Stops(3)
    /\ e[n + 11] = Event("message_delta", 0, NoSearchBlock)
    /\ e[n + 12] = Event("message_stop", 0, NoSearchBlock)

LEMMA EventsAnnounce ==
    ASSUME NEW n \in Nat, NEW chunks, chunks = Chunked(generate_search_summary),
           chunks = [i \in 1 .. n |-> chunks[i]], DOMAIN chunks = 1 .. n
    PROVE  /\ Announcing(generate_websearch_events, n, chunks)
           /\ generate_websearch_events = [k \in 1 .. n + 12 |-> generate_websearch_events[k]]
<1>1. PICK a : a = <<Event("message_start", 0, NoSearchBlock),
          Starts(0, SearchBlock("text", <<>>)), Delta(0, <<"decision">>), Stops(0),
          Starts(1, SearchCall), Stops(1),
          Starts(2, StreamedResult), Stops(2), Starts(3, SearchBlock("text", <<>>))>>
  OBVIOUS
<1>2. PICK b : b = [i \in 1 .. n |-> Delta(3, chunks[i])]
  OBVIOUS
<1>3. PICK c : c = <<Stops(3), Event("message_delta", 0, NoSearchBlock), Event("message_stop", 0, NoSearchBlock)>>
  OBVIOUS
<1>4. generate_websearch_events = (a \o b) \o c
  BY <1>1, <1>2, <1>3 DEF generate_websearch_events
<1>5. a = [i \in 1 .. 9 |-> a[i]] /\ c = [i \in 1 .. 3 |-> c[i]]
  BY <1>1, <1>3
<1>6. b = [i \in 1 .. n |-> b[i]] /\ \A i \in 1 .. n : b[i] = Delta(3, chunks[i])
  BY <1>2
<1>7. PICK ab : ab = a \o b
  OBVIOUS
<1>8. /\ Len(ab) = 9 + n /\ ab = [i \in 1 .. 9 + n |-> ab[i]]
      /\ \A i \in 1 .. 9 : ab[i] = a[i]
      /\ \A i \in 1 .. n : ab[9 + i] = b[i]
  <2>1. 9 \in Nat
    OBVIOUS
  <2> QED
    BY <1>5, <1>6, <1>7, <2>1, Placed
<1>9. PICK e : e = ab \o c
  OBVIOUS
<1>10. PICK m \in Nat : m = 9 + n
  OBVIOUS
<1>11. /\ Len(e) = m + 3 /\ e = [i \in 1 .. m + 3 |-> e[i]]
       /\ \A i \in 1 .. m : e[i] = ab[i]
       /\ \A i \in 1 .. 3 : e[m + i] = c[i]
  <2>1. ab = [i \in 1 .. m |-> ab[i]] /\ 3 \in Nat
    BY <1>8, <1>10
  <2> QED
    BY <1>5, <1>9, <2>1, Placed
<1>12. ASSUME NEW i \in 1 .. 9 PROVE e[i] = a[i]
  <2>1. i \in 1 .. m
    BY <1>10
  <2> QED
    BY <1>8, <1>11, <2>1
<1>13. \A k \in 1 .. n : e[9 + k] = Delta(3, chunks[k])
  <2>1. \A k \in 1 .. n : 9 + k \in 1 .. m
    BY <1>10
  <2> QED
    BY <1>6, <1>8, <1>11, <2>1
<1>14. e[n + 10] = c[1] /\ e[n + 11] = c[2] /\ e[n + 12] = c[3] /\ Len(e) = n + 12
  <2>1. m + 1 = n + 10 /\ m + 2 = n + 11 /\ m + 3 = n + 12
    BY <1>10
  <2>2. 1 \in 1 .. 3 /\ 2 \in 1 .. 3 /\ 3 \in 1 .. 3
    OBVIOUS
  <2> QED
    BY <1>11, <2>1, <2>2
<1>15. c[1] = Stops(3) /\ c[2] = Event("message_delta", 0, NoSearchBlock)
       /\ c[3] = Event("message_stop", 0, NoSearchBlock)
  BY <1>3
<1>16. /\ e[1] = a[1] /\ e[2] = a[2] /\ e[3] = a[3] /\ e[4] = a[4] /\ e[5] = a[5] /\ e[6] = a[6]
       /\ e[7] = a[7] /\ e[8] = a[8] /\ e[9] = a[9]
  BY <1>12
<1>17. /\ a[1] = Event("message_start", 0, NoSearchBlock)
       /\ a[2] = Starts(0, SearchBlock("text", <<>>)) /\ a[3] = Delta(0, <<"decision">>) /\ a[4] = Stops(0)
       /\ a[5] = Starts(1, SearchCall) /\ a[6] = Stops(1)
       /\ a[7] = Starts(2, StreamedResult) /\ a[8] = Stops(2)
       /\ a[9] = Starts(3, SearchBlock("text", <<>>))
  BY <1>1
<1>18. generate_websearch_events = e
  BY <1>4, <1>7, <1>9
<1>19. e = [k \in 1 .. n + 12 |-> e[k]]
  <2>1. m + 3 = n + 12
    BY <1>10
  <2> QED
    BY <1>11, <2>1
<1> QED
  BY <1>13, <1>14, <1>15, <1>16, <1>17, <1>18, <1>19 DEF Announcing

\* Of what type the events are.
LEMMA StartsAre ==
    ASSUME NEW i, NEW b
    PROVE  Starts(i, b).type = "start" /\ Starts(i, b).index = i
BY DEF Starts, Event

LEMMA StopsAre ==
    ASSUME NEW i
    PROVE  Stops(i).type = "stop" /\ Stops(i).index = i
BY DEF Stops, Event

LEMMA DeltasAre ==
    ASSUME NEW i, NEW toks
    PROVE  Delta(i, toks).type = "delta" /\ Delta(i, toks).index = i
BY DEF Delta, Event

LEMMA EventsAre ==
    ASSUME NEW type, NEW b
    PROVE  Event(type, 0, b).type = type
BY DEF Event

LEMMA AnnouncedOneAtATime ==
    ASSUME NEW n \in Nat, NEW chunks, NEW e, Announcing(e, n, chunks), e = [k \in 1 .. n + 12 |-> e[k]]
    PROVE  OneAtATime(e)
<1>0. /\ e[1] = Event("message_start", 0, NoSearchBlock)
      /\ e[2] = Starts(0, SearchBlock("text", <<>>)) /\ e[3] = Delta(0, <<"decision">>) /\ e[4] = Stops(0)
      /\ e[5] = Starts(1, SearchCall) /\ e[6] = Stops(1)
      /\ e[7] = Starts(2, StreamedResult) /\ e[8] = Stops(2)
      /\ e[9] = Starts(3, SearchBlock("text", <<>>))
      /\ \A k \in 1 .. n : e[9 + k] = Delta(3, chunks[k])
      /\ e[n + 10] = Stops(3)
      /\ e[n + 11] = Event("message_delta", 0, NoSearchBlock)
      /\ e[n + 12] = Event("message_stop", 0, NoSearchBlock)
  BY DEF Announcing
<1>1. /\ e[1].type = "message_start" /\ e[2].type = "start" /\ e[3].type = "delta" /\ e[4].type = "stop"
      /\ e[5].type = "start" /\ e[6].type = "stop" /\ e[7].type = "start" /\ e[8].type = "stop"
      /\ e[9].type = "start" /\ e[n + 10].type = "stop" /\ e[n + 11].type = "message_delta"
      /\ e[n + 12].type = "message_stop"
  <2>1. e[2].type = "start" /\ e[5].type = "start" /\ e[7].type = "start" /\ e[9].type = "start"
    BY <1>0, StartsAre
  <2>2. e[4].type = "stop" /\ e[6].type = "stop" /\ e[8].type = "stop" /\ e[n + 10].type = "stop"
    BY <1>0, StopsAre
  <2>3. e[3].type = "delta"
    BY <1>0, DeltasAre
  <2>4. /\ e[1].type = "message_start" /\ e[n + 11].type = "message_delta"
        /\ e[n + 12].type = "message_stop"
    BY <1>0, EventsAre
  <2> QED
    BY <2>1, <2>2, <2>3, <2>4
<1>2. /\ e[2].index = 0 /\ e[3].index = 0 /\ e[5].index = 1 /\ e[7].index = 2 /\ e[9].index = 3
  BY <1>0, StartsAre, StopsAre, DeltasAre, EventsAre
<1>3. ASSUME NEW k \in 1 .. n PROVE e[9 + k].type = "delta" /\ e[9 + k].index = 3
  <2>1. e[9 + k] = Delta(3, chunks[k])
    BY <1>0
  <2> QED
    BY <2>1, DeltasAre
<1>4. DOMAIN e = 1 .. n + 12 /\ Len(e) = n + 12
  BY DEF Announcing
<1>5. e[4] = Stops(0) /\ e[6] = Stops(1) /\ e[8] = Stops(2) /\ e[n + 10] = Stops(3)
  BY DEF Announcing
<1>6. \A k \in 1 .. n + 12 : \/ k \in 1 .. 9 \/ k \in {n + 10, n + 11, n + 12}
                            \/ \E m \in 1 .. n : k = 9 + m
  <2> SUFFICES ASSUME NEW k \in 1 .. n + 12, k \notin 1 .. 9, k \notin {n + 10, n + 11, n + 12}
               PROVE  \E m \in 1 .. n : k = 9 + m
    OBVIOUS
  <2>1. 9 < k /\ k < n + 10
    OBVIOUS
  <2>2. k - 9 \in 1 .. n /\ k = 9 + (k - 9)
    BY <2>1
  <2> QED
    BY <2>2
<1>7. ASSUME NEW i \in 1 .. n + 12, e[i].type = "start" PROVE i \in {2, 5, 7, 9}
  <2>1. i \in 1 .. 9 => i \in {1, 2, 3, 4, 5, 6, 7, 8, 9}
    OBVIOUS
  <2>2. i \in 1 .. 9
    BY <1>1, <1>3, <1>6, <1>7
  <2> QED
    BY <1>1, <1>7, <2>1, <2>2
<1>8. ASSUME NEW i \in 1 .. n + 12, e[i].type = "start"
      PROVE  \E j \in i + 1 .. Len(e) :
                 /\ e[j] = Stops(e[i].index)
                 /\ \A k \in i + 1 .. j - 1 : e[k].type = "delta" /\ e[k].index = e[i].index
  <2>1. CASE i = 2
    <3>1. 4 \in i + 1 .. Len(e) /\ \A k \in i + 1 .. 4 - 1 : k = 3
      BY <1>4, <2>1
    <3> QED
      BY <1>1, <1>2, <1>5, <2>1, <3>1
  <2>2. CASE i = 5
    <3>1. 6 \in i + 1 .. Len(e) /\ i + 1 .. 6 - 1 = {}
      BY <1>4, <2>2
    <3> QED
      BY <1>2, <1>5, <2>2, <3>1
  <2>3. CASE i = 7
    <3>1. 8 \in i + 1 .. Len(e) /\ i + 1 .. 8 - 1 = {}
      BY <1>4, <2>3
    <3> QED
      BY <1>2, <1>5, <2>3, <3>1
  <2>4. CASE i = 9
    <3>1. n + 10 \in i + 1 .. Len(e)
      BY <1>4, <2>4
    <3>2. \A k \in i + 1 .. (n + 10) - 1 : \E m \in 1 .. n : k = 9 + m
      <4>1. \A k \in i + 1 .. (n + 10) - 1 : k - 9 \in 1 .. n /\ k = 9 + (k - 9)
        BY <2>4
      <4> QED
        BY <4>1
    <3>3. \A k \in i + 1 .. (n + 10) - 1 : e[k].type = "delta" /\ e[k].index = e[i].index
      BY <1>2, <1>3, <2>4, <3>2
    <3>4. e[n + 10] = Stops(e[i].index)
      BY <1>2, <1>5, <2>4
    <3> QED
      BY <3>1, <3>3, <3>4
  <2> QED
    BY <1>7, <1>8, <2>1, <2>2, <2>3, <2>4
<1>9. ASSUME NEW i \in 1 .. n + 12, e[i].type \in {"delta", "stop"}
      PROVE  i > 1 /\ e[i - 1].type \in {"start", "delta"}
  <2>1. CASE i \in 1 .. 9
    <3>1. i \in {1, 2, 3, 4, 5, 6, 7, 8, 9}
      BY <2>1
    <3>2. i \in {3, 4, 6, 8}
      BY <1>1, <1>9, <3>1
    <3>3. i - 1 \in {2, 3, 5, 7} /\ i > 1
      BY <3>2
    <3> QED
      BY <1>1, <3>3
  <2>2. CASE \E m \in 1 .. n : i = 9 + m
    <3>1. PICK m \in 1 .. n : i = 9 + m
      BY <2>2
    <3>2. i > 1 /\ (i - 1 = 9 \/ (m - 1 \in 1 .. n /\ i - 1 = 9 + (m - 1)))
      BY <3>1
    <3> QED
      BY <1>1, <1>3, <3>2
  <2>3. CASE i \in {n + 10, n + 11, n + 12}
    <3>1. i = n + 10
      BY <1>1, <1>9, <2>3
    <3>2. i > 1 /\ (i - 1 = 9 \/ (n \in 1 .. n /\ i - 1 = 9 + n))
      BY <3>1
    <3> QED
      BY <1>1, <1>3, <3>2
  <2> QED
    BY <1>6, <2>1, <2>2, <2>3
<1> QED
  BY <1>4, <1>8, <1>9 DEF OneAtATime

\* What a client of the Messages API has after each event.
LEMMA AnnouncedIsAssembled ==
    ASSUME NEW V, NEW text \in Seq(V), text = generate_search_summary
    PROVE  /\ OneAtATime(generate_websearch_events)
           /\ Assembled(generate_websearch_events)
                  = <<SearchBlock("text", <<"decision">>), SearchCall, StreamedResult,
                      SearchBlock("text", text)>>
<1>1. PICK chunks : chunks = Chunked(text)
  OBVIOUS
<1>0. PICK n \in Nat : CutInto(text, chunks, n)
  BY <1>1, ChunksJoin
<1>2. /\ Len(chunks) = n /\ DOMAIN chunks = 1 .. n /\ chunks = [i \in 1 .. n |-> chunks[i]]
          /\ SubSeq(text, 1, Reached(text, 0)) = <<>>
          /\ SubSeq(text, 1, Reached(text, n)) = text
          /\ \A k \in 1 .. n : SubSeq(text, 1, Reached(text, k - 1)) \o chunks[k]
                                   = SubSeq(text, 1, Reached(text, k))
  BY <1>0 DEF CutInto
<1>3. PICK e : e = generate_websearch_events
  OBVIOUS
<1>4. Announcing(e, n, chunks) /\ e = [k \in 1 .. n + 12 |-> e[k]]
  BY <1>1, <1>2, <1>3, EventsAnnounce
<1>5. PICK A, B, C : /\ A = SearchBlock("text", <<"decision">>)
                     /\ B = SearchCall /\ C = StreamedResult
  OBVIOUS
<1>6. PICK part : part = [k \in 0 .. n |-> SearchBlock("text", SubSeq(text, 1, Reached(text, k)))]
  OBVIOUS
<1>7. /\ part[0] = SearchBlock("text", <<>>) /\ part[n] = SearchBlock("text", text)
  <2>1. 0 \in 0 .. n /\ n \in 0 .. n
    OBVIOUS
  <2> QED
    BY <1>2, <1>6, <2>1
<1>8. PICK g : g = [k \in 0 .. n + 12 |->
                       IF k < 2 THEN <<>>
                       ELSE IF k = 2 THEN <<SearchBlock("text", <<>>)>>
                       ELSE IF k < 5 THEN <<A>>
                       ELSE IF k < 7 THEN <<A, B>>
                       ELSE IF k < 9 THEN <<A, B, C>>
                       ELSE IF k <= n + 9 THEN <<A, B, C, part[k - 9]>>
                       ELSE <<A, B, C, SearchBlock("text", text)>>]
  OBVIOUS
<1>9. /\ g[0] = <<>> /\ g[1] = <<>> /\ g[2] = <<SearchBlock("text", <<>>)>> /\ g[3] = <<A>>
      /\ g[4] = <<A>> /\ g[5] = <<A, B>> /\ g[6] = <<A, B>> /\ g[7] = <<A, B, C>>
      /\ g[8] = <<A, B, C>>
  BY <1>8
<1>10. \A k \in 0 .. n : g[k + 9] = <<A, B, C, part[k]>>
  <2>1. \A k \in 0 .. n : /\ k + 9 \in 0 .. n + 12 /\ ~(k + 9 < 9) /\ k + 9 <= n + 9
                          /\ (k + 9) - 9 = k /\ ~(k + 9 < 2) /\ k + 9 # 2 /\ ~(k + 9 < 5)
                          /\ ~(k + 9 < 7)
    OBVIOUS
  <2> QED
    BY <1>8, <2>1
<1>11. /\ g[n + 10] = <<A, B, C, SearchBlock("text", text)>>
       /\ g[n + 11] = <<A, B, C, SearchBlock("text", text)>>
       /\ g[n + 12] = <<A, B, C, SearchBlock("text", text)>>
  BY <1>8
<1>12. /\ g[0 + 9] = <<A, B, C, SearchBlock("text", <<>>)>>
       /\ g[n + 9] = <<A, B, C, SearchBlock("text", text)>>
  <2>1. 0 \in 0 .. n /\ n \in 0 .. n
    OBVIOUS
  <2> QED
    BY <1>7, <1>10, <2>1
<1>13. /\ e[1] = Event("message_start", 0, NoSearchBlock)
       /\ e[2] = Starts(0, SearchBlock("text", <<>>)) /\ e[3] = Delta(0, <<"decision">>) /\ e[4] = Stops(0)
       /\ e[5] = Starts(1, B) /\ e[6] = Stops(1) /\ e[7] = Starts(2, C) /\ e[8] = Stops(2)
       /\ e[9] = Starts(3, SearchBlock("text", <<>>))
       /\ \A k \in 1 .. n : e[9 + k] = Delta(3, chunks[k])
       /\ e[n + 10] = Stops(3)
       /\ e[n + 11] = Event("message_delta", 0, NoSearchBlock)
       /\ e[n + 12] = Event("message_stop", 0, NoSearchBlock)
       /\ Len(e) = n + 12
  BY <1>4, <1>5 DEF Announcing
<1>14. \A blocks : /\ Taken(blocks, Event("message_start", 0, NoSearchBlock)) = blocks
                   /\ Taken(blocks, Event("message_delta", 0, NoSearchBlock)) = blocks
                   /\ Taken(blocks, Event("message_stop", 0, NoSearchBlock)) = blocks
                   /\ \A i : Taken(blocks, Stops(i)) = blocks
  BY Passes, StopsAre, EventsAre
<1>15. <<>> \o <<"decision">> = <<"decision">>
  OBVIOUS
<1>16. /\ g[1] = Taken(g[0], e[1]) /\ g[2] = Taken(g[1], e[2]) /\ g[4] = Taken(g[3], e[4])
       /\ g[5] = Taken(g[4], e[5]) /\ g[6] = Taken(g[5], e[6]) /\ g[7] = Taken(g[6], e[7])
       /\ g[8] = Taken(g[7], e[8])
  <2>1. Taken(<<>>, Starts(0, SearchBlock("text", <<>>))) = <<SearchBlock("text", <<>>)>>
    BY Opens, Zenon DEF OpenedIn
  <2>2. Taken(<<A>>, Starts(1, B)) = <<A, B>>
    BY Opens, Zenon DEF OpenedIn
  <2>3. Taken(<<A, B>>, Starts(2, C)) = <<A, B, C>>
    BY Opens, Zenon DEF OpenedIn
  <2> QED
    BY <1>9, <1>13, <1>14, <2>1, <2>2, <2>3
<1>17. g[3] = Taken(g[2], e[3])
  <2>1. Taken(<<SearchBlock("text", <<>>)>>, Delta(0, <<"decision">>))
            = <<SearchBlock("text", <<>> \o <<"decision">>)>>
    BY SaysInFirst
  <2> QED
    BY <1>5, <1>9, <1>13, <1>15, <2>1
<1>18. g[9] = Taken(g[8], e[9])
  <2>1. Taken(<<A, B, C>>, Starts(3, SearchBlock("text", <<>>))) = <<A, B, C, SearchBlock("text", <<>>)>>
    BY OpensFourth
  <2>2. g[9] = <<A, B, C, SearchBlock("text", <<>>)>>
    BY <1>12
  <2> QED
    BY <1>9, <1>13, <2>1, <2>2
<1>19. ASSUME NEW k \in 1 .. n PROVE g[k + 9] = Taken(g[(k - 1) + 9], e[9 + k])
  <2>1. k \in 0 .. n /\ k - 1 \in 0 .. n
    OBVIOUS
  <2>2. PICK now, then : now = SubSeq(text, 1, Reached(text, k - 1)) /\ then = SubSeq(text, 1, Reached(text, k))
    OBVIOUS
  <2>3. part[k - 1] = SearchBlock("text", now) /\ part[k] = SearchBlock("text", then)
    BY <1>6, <2>1, <2>2
  <2>4. now \o chunks[k] = then
    BY <1>2, <2>2
  <2>5. Taken(<<A, B, C, SearchBlock("text", now)>>, Delta(3, chunks[k]))
            = <<A, B, C, SearchBlock("text", now \o chunks[k])>>
    BY SaysInFourth
  <2>6. g[k + 9] = <<A, B, C, SearchBlock("text", then)>>
    BY <1>10, <2>1, <2>3
  <2>7. g[(k - 1) + 9] = <<A, B, C, SearchBlock("text", now)>>
    BY <1>10, <2>1, <2>3
  <2>8. e[9 + k] = Delta(3, chunks[k])
    BY <1>13
  <2> QED
    BY <2>4, <2>5, <2>6, <2>7, <2>8
<1>20. /\ g[n + 10] = Taken(g[n + 9], e[n + 10]) /\ g[n + 11] = Taken(g[n + 10], e[n + 11])
       /\ g[n + 12] = Taken(g[n + 11], e[n + 12])
  BY <1>11, <1>12, <1>13, <1>14
<1>21. ASSUME NEW k \in 1 .. n + 12 PROVE g[k] = Taken(g[k - 1], e[k])
  <2>1. CASE k <= 9
    <3>1. k \in {1, 2, 3, 4, 5, 6, 7, 8, 9}
      BY <2>1
    <3> QED
      BY <1>16, <1>17, <1>18, <3>1
  <2>2. CASE k > 9 /\ k <= n + 9
    <3>1. PICK m \in 1 .. n : m = k - 9
      BY <2>2
    <3>2. m + 9 = k /\ (m - 1) + 9 = k - 1 /\ 9 + m = k
      BY <3>1
    <3>3. g[m + 9] = Taken(g[(m - 1) + 9], e[9 + m])
      BY <1>19
    <3> QED
      BY <3>2, <3>3
  <2>3. CASE k > n + 9
    <3>1. \/ k = n + 10 /\ k - 1 = n + 9
          \/ k = n + 11 /\ k - 1 = n + 10
          \/ k = n + 12 /\ k - 1 = n + 11
      BY <2>3
    <3> QED
      BY <1>20, <3>1
  <2> QED
    BY <2>1, <2>2, <2>3
<1>22. n + 12 \in Nat /\ g = [k \in 0 .. n + 12 |-> g[k]]
  BY <1>8
<1>23. Assembled(e) = g[n + 12]
  <2>1. PICK len \in Nat : len = n + 12
    BY <1>22
  <2>2. /\ Len(e) = len /\ g = [k \in 0 .. len |-> g[k]] /\ g[0] = <<>>
        /\ \A k \in 1 .. len : g[k] = Taken(g[k - 1], e[k])
    BY <1>9, <1>13, <1>21, <1>22, <2>1
  <2>3. Assembled(e) = g[len]
    BY <2>2, AssembledIs DEF Follows
  <2> QED
    BY <2>1, <2>3
<1> QED
  BY <1>3, <1>4, <1>5, <1>11, <1>23, AnnouncedOneAtATime

LEMMA ChatIsAssembled ==
    ASSUME NEW text, text = generate_search_summary, <<>> \o text = text
    PROVE  OneAtATime(ChatChunks) /\ Assembled(ChatChunks) = ChatBlocks
<1>1. PICK e : e = ChatChunks
  OBVIOUS
<1>2. /\ Len(e) = 4 /\ DOMAIN e = 1 .. 4
      /\ e[1] = Starts(0, SearchBlock("text", <<>>)) /\ e[2] = Delta(0, text) /\ e[3] = Stops(0)
      /\ e[4] = Event("done", 0, NoSearchBlock)
  BY <1>1 DEF ChatChunks
<1>3. /\ e[1].type = "start" /\ e[1].index = 0 /\ e[2].type = "delta" /\ e[2].index = 0
      /\ e[3].type = "stop" /\ e[4].type = "done"
  BY <1>2, StartsAre, StopsAre, DeltasAre, EventsAre
<1>4. OneAtATime(e)
  <2>1. ASSUME NEW i \in 1 .. 4, e[i].type = "start"
        PROVE  \E j \in i + 1 .. Len(e) :
                   /\ e[j] = Stops(e[i].index)
                   /\ \A k \in i + 1 .. j - 1 : e[k].type = "delta" /\ e[k].index = e[i].index
    <3>1. i = 1
      <4>1. i \in {1, 2, 3, 4}
        OBVIOUS
      <4> QED
        BY <1>3, <2>1, <4>1
    <3>2. 3 \in i + 1 .. Len(e) /\ \A k \in i + 1 .. 3 - 1 : k = 2
      BY <1>2, <3>1
    <3> QED
      BY <1>2, <1>3, <3>1, <3>2
  <2>2. ASSUME NEW i \in 1 .. 4, e[i].type \in {"delta", "stop"}
        PROVE  i > 1 /\ e[i - 1].type \in {"start", "delta"}
    <3>1. i \in {1, 2, 3, 4}
      OBVIOUS
    <3>2. (i = 2 /\ i - 1 = 1) \/ (i = 3 /\ i - 1 = 2)
      BY <1>3, <2>2, <3>1
    <3> QED
      BY <1>3, <3>2
  <2> QED
    BY <1>2, <2>1, <2>2 DEF OneAtATime
<1>5. PICK g : g = [k \in 0 .. 4 |-> IF k = 0 THEN <<>>
                                     ELSE IF k = 1 THEN <<SearchBlock("text", <<>>)>>
                                     ELSE <<SearchBlock("text", text)>>]
  OBVIOUS
<1>6. /\ g[0] = <<>> /\ g[1] = <<SearchBlock("text", <<>>)>> /\ g[2] = <<SearchBlock("text", text)>>
      /\ g[3] = <<SearchBlock("text", text)>> /\ g[4] = <<SearchBlock("text", text)>>
  BY <1>5
<1>7. /\ Taken(<<>>, Starts(0, SearchBlock("text", <<>>))) = <<SearchBlock("text", <<>>)>>
  BY Opens, Zenon DEF OpenedIn
<1>8. Taken(<<SearchBlock("text", <<>>)>>, Delta(0, text)) = <<SearchBlock("text", <<>> \o text)>>
  BY SaysInFirst
<1>9. \A blocks : /\ Taken(blocks, Event("done", 0, NoSearchBlock)) = blocks
                  /\ Taken(blocks, Stops(0)) = blocks
  BY Passes, StopsAre, EventsAre
<1>10. ASSUME NEW k \in 1 .. 4 PROVE g[k] = Taken(g[k - 1], e[k])
  <2>1. k \in {1, 2, 3, 4}
    OBVIOUS
  <2>2. g[1] = Taken(g[0], e[1]) /\ g[2] = Taken(g[1], e[2]) /\ g[3] = Taken(g[2], e[3]) /\ g[4] = Taken(g[3], e[4])
    BY <1>2, <1>6, <1>7, <1>8, <1>9
  <2> QED
    BY <2>1, <2>2
<1>11. 4 \in Nat /\ g = [k \in 0 .. 4 |-> g[k]]
  BY <1>5
<1>12. Assembled(e) = g[4]
  <2>1. /\ Len(e) = 4 /\ g[0] = <<>> /\ \A k \in 1 .. 4 : g[k] = Taken(g[k - 1], e[k])
    BY <1>2, <1>6, <1>10
  <2> QED
    BY <1>11, <2>1, AssembledIs DEF Follows
<1> QED
  BY <1>1, <1>4, <1>6, <1>12 DEF ChatBlocks

LEMMA ResponseIsAssembled ==
    ASSUME NEW text, text = generate_search_summary, <<>> \o text = text
    PROVE  OneAtATime(ResponseEvents) /\ Assembled(ResponseEvents) = ResponseItems
<1>1. PICK e : e = ResponseEvents
  OBVIOUS
<1>2. PICK A : A = ResponseItems[1]
  OBVIOUS
<1>3. ResponseItems = <<A, SearchBlock("message", text)>>
  BY <1>2 DEF ResponseItems
<1>4. /\ Len(e) = 7 /\ DOMAIN e = 1 .. 7
      /\ e[1] = Event("created", 0, NoSearchBlock) /\ e[2] = Starts(0, A) /\ e[3] = Stops(0)
      /\ e[4] = Starts(1, SearchBlock("message", <<>>)) /\ e[5] = Delta(1, text) /\ e[6] = Stops(1)
      /\ e[7] = Event("completed", 0, NoSearchBlock)
  BY <1>1, <1>2 DEF ResponseEvents
<1>5. /\ e[1].type = "created" /\ e[2].type = "start" /\ e[2].index = 0 /\ e[3].type = "stop"
      /\ e[4].type = "start" /\ e[4].index = 1 /\ e[5].type = "delta" /\ e[5].index = 1
      /\ e[6].type = "stop" /\ e[7].type = "completed"
  BY <1>4, StartsAre, StopsAre, DeltasAre, EventsAre
<1>6. OneAtATime(e)
  <2>1. ASSUME NEW i \in 1 .. 7, e[i].type = "start"
        PROVE  \E j \in i + 1 .. Len(e) :
                   /\ e[j] = Stops(e[i].index)
                   /\ \A k \in i + 1 .. j - 1 : e[k].type = "delta" /\ e[k].index = e[i].index
    <3>1. i = 2 \/ i = 4
      <4>1. i \in {1, 2, 3, 4, 5, 6, 7}
        OBVIOUS
      <4> QED
        BY <1>5, <2>1, <4>1
    <3>2. CASE i = 2
      <4>1. 3 \in i + 1 .. Len(e) /\ i + 1 .. 3 - 1 = {}
        BY <1>4, <3>2
      <4> QED
        BY <1>4, <1>5, <3>2, <4>1
    <3>3. CASE i = 4
      <4>1. 6 \in i + 1 .. Len(e) /\ \A k \in i + 1 .. 6 - 1 : k = 5
        BY <1>4, <3>3
      <4> QED
        BY <1>4, <1>5, <3>3, <4>1
    <3> QED
      BY <3>1, <3>2, <3>3
  <2>2. ASSUME NEW i \in 1 .. 7, e[i].type \in {"delta", "stop"}
        PROVE  i > 1 /\ e[i - 1].type \in {"start", "delta"}
    <3>1. i \in {1, 2, 3, 4, 5, 6, 7}
      OBVIOUS
    <3>2. (i = 3 /\ i - 1 = 2) \/ (i = 5 /\ i - 1 = 4) \/ (i = 6 /\ i - 1 = 5)
      BY <1>5, <2>2, <3>1
    <3> QED
      BY <1>5, <3>2
  <2> QED
    BY <1>4, <2>1, <2>2 DEF OneAtATime
<1>7. PICK g : g = [k \in 0 .. 7 |-> IF k < 2 THEN <<>>
                                     ELSE IF k < 4 THEN <<A>>
                                     ELSE IF k = 4 THEN <<A, SearchBlock("message", <<>>)>>
                                     ELSE <<A, SearchBlock("message", text)>>]
  OBVIOUS
<1>8. /\ g[0] = <<>> /\ g[1] = <<>> /\ g[2] = <<A>> /\ g[3] = <<A>>
      /\ g[4] = <<A, SearchBlock("message", <<>>)>> /\ g[5] = <<A, SearchBlock("message", text)>>
      /\ g[6] = <<A, SearchBlock("message", text)>> /\ g[7] = <<A, SearchBlock("message", text)>>
  BY <1>7
<1>9. Taken(<<>>, Starts(0, A)) = <<A>>
  BY Opens, Zenon DEF OpenedIn
<1>10. Taken(<<A>>, Starts(1, SearchBlock("message", <<>>))) = <<A, SearchBlock("message", <<>>)>>
  BY Opens, Zenon DEF OpenedIn
<1>11. Taken(<<A, SearchBlock("message", <<>>)>>, Delta(1, text))
           = <<A, SearchBlock("message", <<>> \o text)>>
  <2>1. PICK none : none = <<>>
    OBVIOUS
  <2>2. Taken(<<A, SearchBlock("message", none)>>, Delta(1, text))
            = <<A, SearchBlock("message", none \o text)>>
    BY SaysInSecond
  <2> QED
    BY <2>1, <2>2
<1>12. \A blocks : /\ Taken(blocks, Event("created", 0, NoSearchBlock)) = blocks
                   /\ Taken(blocks, Event("completed", 0, NoSearchBlock)) = blocks
                   /\ \A i : Taken(blocks, Stops(i)) = blocks
  BY Passes, StopsAre, EventsAre
<1>13. ASSUME NEW k \in 1 .. 7 PROVE g[k] = Taken(g[k - 1], e[k])
  <2>1. k \in {1, 2, 3, 4, 5, 6, 7}
    OBVIOUS
  <2>2. /\ g[1] = Taken(g[0], e[1]) /\ g[2] = Taken(g[1], e[2]) /\ g[3] = Taken(g[2], e[3])
        /\ g[4] = Taken(g[3], e[4]) /\ g[5] = Taken(g[4], e[5]) /\ g[6] = Taken(g[5], e[6])
        /\ g[7] = Taken(g[6], e[7])
    BY <1>4, <1>8, <1>9, <1>10, <1>11, <1>12
  <2> QED
    BY <2>1, <2>2
<1>14. 7 \in Nat /\ g = [k \in 0 .. 7 |-> g[k]]
  BY <1>7
<1>15. Assembled(e) = g[7]
  <2>1. /\ Len(e) = 7 /\ g[0] = <<>> /\ \A k \in 1 .. 7 : g[k] = Taken(g[k - 1], e[k])
    BY <1>4, <1>8, <1>13
  <2> QED
    BY <1>14, <2>1, AssembledIs DEF Follows
<1> QED
  BY <1>1, <1>3, <1>6, <1>8, <1>15

-----------------------------------------------------------------------------
\* The answer to a search.
ToldFor(s) ==
    CASE s.protocol = "messages" -> IF s.streams THEN generate_websearch_events ELSE MessageBlocks
      [] s.protocol = "chat" -> IF s.streams THEN ChatChunks ELSE ChatBlocks
      [] s.protocol = "responses" -> IF s.streams THEN ResponseEvents ELSE ResponseItems

\* A search has found nothing or one of the lists, and has been told of it what is to be
\* told; what was told whole and is kept is what was kept last.
SearchInv ==
    /\ search \in [protocol : {"messages", "chat", "responses"}, streams : BOOLEAN,
                   keeps : BOOLEAN, query : BOOLEAN,
                   step : {"asked", "found", "answered", "refused"}]
    /\ sites = Unfound \/ sites \in Findings
    /\ \E S : keptAnswers \in Seq(S)
    /\ search.step = "answered" =>
          /\ told = ToldFor(search)
          /\ search.protocol = "responses" /\ search.keeps /\ ~search.streams =>
                 keptAnswers # <<>> /\ Last(keptAnswers) = told

LEMMA SearchAtFirst == SearchInit => SearchInv
<1> SUFFICES ASSUME SearchInit PROVE SearchInv
  OBVIOUS
<1>1. keptAnswers \in Seq({})
  BY DEF SearchInit
<1> QED
  BY <1>1 DEF SearchInit, SearchInv, Asking

LEMMA LastKept ==
    ASSUME NEW S, NEW kept \in Seq(S), NEW x
    PROVE  /\ \E T : Append(kept, x) \in Seq(T)
           /\ Append(kept, x) # <<>> /\ Last(Append(kept, x)) = x
<1>1. PICK T : T = S \cup {x}
  OBVIOUS
<1>2. kept \in Seq(T) /\ x \in T
  BY <1>1
<1>3. /\ Append(kept, x) \in Seq(T) /\ Len(Append(kept, x)) = Len(kept) + 1
      /\ Append(kept, x)[Len(kept) + 1] = x /\ Len(kept) \in Nat
  BY <1>2, AppendProperties
<1>4. PICK more : more = Append(kept, x)
  OBVIOUS
<1>5. Last(more) = x
  BY <1>3, <1>4 DEF Last
<1>6. more # <<>>
  BY <1>3, <1>4
<1> QED
  BY <1>3, <1>4, <1>5, <1>6

LEMMA AnsweredFor ==
    ASSUME SearchInv, NEW answer, TellAnswer(answer), answer = ToldFor(search),
           \E S : keptAnswers' \in Seq(S),
           search.protocol = "responses" /\ search.keeps /\ ~search.streams =>
               keptAnswers' # <<>> /\ Last(keptAnswers') = answer
    PROVE  SearchInv'
<1>1. PICK s : s = search
  OBVIOUS
<1>2. search' = [s EXCEPT !.step = "answered"] /\ told' = answer /\ sites' = sites
  BY <1>1 DEF TellAnswer
<1>3. /\ search' \in [protocol : {"messages", "chat", "responses"}, streams : BOOLEAN,
                      keeps : BOOLEAN, query : BOOLEAN,
                      step : {"asked", "found", "answered", "refused"}]
      /\ search'.protocol = s.protocol /\ search'.streams = s.streams /\ search'.keeps = s.keeps
  BY <1>1, <1>2 DEF SearchInv
<1>4. ToldFor(search)' = ToldFor(search)
  BY <1>1, <1>2, <1>3 DEF ToldFor, generate_websearch_events, MessageBlocks, StreamedResult,
     WholeResult, SearchCall, ChatChunks, ChatBlocks, ResponseEvents, ResponseItems,
     generate_search_summary, Sites
<1>5. search'.protocol = "responses" /\ search'.keeps /\ ~search'.streams =>
          keptAnswers' # <<>> /\ Last(keptAnswers') = told'
  BY <1>1, <1>2, <1>3
<1>6. Last(keptAnswers)' = Last(keptAnswers')
  BY DEF Last
<1> QED
  BY <1>2, <1>3, <1>4, <1>5, <1>6 DEF SearchInv

LEMMA SearchStep == SearchInv /\ [SearchNext]_searchVars => SearchInv'
<1> SUFFICES ASSUME SearchInv, [SearchNext]_searchVars PROVE SearchInv'
  OBVIOUS
<1>1. CASE NoQuery
  BY <1>1 DEF NoQuery, SearchInv
<1>2. CASE CallMcp
  BY <1>2 DEF CallMcp, SearchInv
<1>3. CASE handle_websearch_request
  <2>1. search.protocol # "responses" /\ keptAnswers' = keptAnswers
    BY <1>3 DEF handle_websearch_request
  <2>2. PICK answer : TellAnswer(answer) /\ answer = ToldFor(search)
    BY <1>3 DEF handle_websearch_request, ToldFor
  <2>3. \E S : keptAnswers' \in Seq(S)
    BY <2>1 DEF SearchInv
  <2> QED
    BY <2>1, <2>2, <2>3, AnsweredFor
<1>4. CASE handle_chat_websearch
  <2>1. search.protocol # "responses" /\ keptAnswers' = keptAnswers
    BY <1>4 DEF handle_chat_websearch
  <2>2. PICK answer : TellAnswer(answer) /\ answer = ToldFor(search)
    BY <1>4 DEF handle_chat_websearch, ToldFor
  <2>3. \E S : keptAnswers' \in Seq(S)
    BY <2>1 DEF SearchInv
  <2> QED
    BY <2>1, <2>2, <2>3, AnsweredFor
<1>5. CASE handle_responses_websearch
  <2>1. PICK items : items = ResponseItems
    OBVIOUS
  <2>2. /\ search.protocol = "responses"
        /\ keptAnswers' = IF search.keeps /\ ~search.streams THEN Append(keptAnswers, items)
                                                             ELSE keptAnswers
    BY <1>5, <2>1 DEF handle_responses_websearch
  <2>3. PICK answer : /\ TellAnswer(answer) /\ answer = ToldFor(search)
                      /\ ~search.streams => answer = items
    BY <1>5, <2>1 DEF handle_responses_websearch, ToldFor
  <2>4. PICK S : keptAnswers \in Seq(S)
    BY DEF SearchInv
  <2>5. /\ \E T : Append(keptAnswers, items) \in Seq(T)
        /\ Append(keptAnswers, items) # <<>> /\ Last(Append(keptAnswers, items)) = items
    BY <2>4, LastKept
  <2>6. \E T : keptAnswers' \in Seq(T)
    BY <2>2, <2>4, <2>5
  <2>7. search.keeps /\ ~search.streams => keptAnswers' # <<>> /\ Last(keptAnswers') = answer
    BY <2>2, <2>3, <2>5
  <2> QED
    BY <2>3, <2>6, <2>7, AnsweredFor
<1>6. CASE AskAgain
  BY <1>6 DEF AskAgain, SearchInv, Asking
<1>7. CASE UNCHANGED searchVars
  <2>1. UNCHANGED <<search, sites, told, keptAnswers>>
    BY <1>7 DEF searchVars
  <2>2. ToldFor(search)' = ToldFor(search) /\ Last(keptAnswers)' = Last(keptAnswers)
    BY <2>1 DEF ToldFor, generate_websearch_events, MessageBlocks, StreamedResult, WholeResult,
       SearchCall, ChatChunks, ChatBlocks, ResponseEvents, ResponseItems,
       generate_search_summary, Sites, Last
  <2> QED
    BY <2>1, <2>2 DEF SearchInv
<1> QED
  BY <1>1, <1>2, <1>3, <1>4, <1>5, <1>6, <1>7 DEF SearchNext

\* The two forms of a result name the same sites.
LEMMA ResultsAlike == Alike(StreamedResult, WholeResult)
<1>1. PICK dates : dates = [i \in DOMAIN Sites |-> IF Sites[i] \in Dated THEN "date" ELSE "null"]
  OBVIOUS
<1>2. StreamedResult.toks = [i \in DOMAIN Sites |-> Result(Sites[i], dates[i])]
  BY <1>1 DEF StreamedResult, SearchBlock
<1>3. WholeResult.toks = [i \in DOMAIN Sites |-> Result(Sites[i], "null")]
  BY DEF WholeResult
<1>4. \A site, age : Result(site, age).site = site
  BY DEF Result
<1>5. PICK p, q : p = StreamedResult.toks /\ q = WholeResult.toks
  OBVIOUS
<1>6. DOMAIN p = DOMAIN q /\ \A i \in DOMAIN p : p[i].site = q[i].site
  BY <1>2, <1>3, <1>4, <1>5
<1>7. [i \in DOMAIN p |-> p[i].site] = [i \in DOMAIN q |-> q[i].site]
  BY <1>6
<1>8. FoundIn(StreamedResult) = FoundIn(WholeResult)
  BY <1>5, <1>7 DEF FoundIn
<1>9. StreamedResult.type = "web_search_tool_result" /\ WholeResult.type = "web_search_tool_result"
  BY DEF StreamedResult, SearchBlock, WholeResult
<1> QED
  BY <1>8, <1>9 DEF Alike

\* The blocks say, behind the first ones, what the answer says.
SaysAll(blocks, first, answer) ==
    /\ Len(blocks) = first + Len(answer)
    /\ \A i \in DOMAIN answer : Alike(blocks[first + i], answer[i])

LEMMA TheSameSaysAll ==
    ASSUME NEW V, NEW answer \in Seq(V)
    PROVE  SaysAll(answer, 0, answer)
<1>1. Len(answer) \in Nat /\ DOMAIN answer = 1 .. Len(answer)
  OBVIOUS
<1>2. \A i \in DOMAIN answer : 0 + i = i
  BY <1>1
<1>3. \A block : Alike(block, block)
  BY DEF Alike
<1> QED
  BY <1>1, <1>2, <1>3 DEF SaysAll

LEMMA AnnouncedSaysAll ==
    ASSUME NEW text
    PROVE  SaysAll(<<SearchBlock("text", <<"decision">>), SearchCall, StreamedResult, SearchBlock("text", text)>>,
                   1, <<SearchCall, WholeResult, SearchBlock("text", text)>>)
<1>1. PICK A, B, C, D, E : /\ A = SearchBlock("text", <<"decision">>) /\ B = SearchCall
                           /\ C = StreamedResult /\ D = WholeResult /\ E = SearchBlock("text", text)
  OBVIOUS
<1>2. PICK blocks, answer : blocks = <<A, B, C, E>> /\ answer = <<B, D, E>>
  OBVIOUS
<1>3. /\ Len(blocks) = 4 /\ Len(answer) = 3 /\ DOMAIN answer = 1 .. 3
      /\ blocks[2] = B /\ blocks[3] = C /\ blocks[4] = E
      /\ answer[1] = B /\ answer[2] = D /\ answer[3] = E
  BY <1>2
<1>4. Alike(B, B) /\ Alike(E, E)
  BY DEF Alike
<1>5. Alike(C, D)
  BY <1>1, ResultsAlike
<1>6. ASSUME NEW i \in 1 .. 3 PROVE Alike(blocks[1 + i], answer[i])
  <2>1. (i = 1 /\ 1 + i = 2) \/ (i = 2 /\ 1 + i = 3) \/ (i = 3 /\ 1 + i = 4)
    OBVIOUS
  <2> QED
    BY <1>3, <1>4, <1>5, <2>1
<1>7. SaysAll(blocks, 1, answer)
  BY <1>3, <1>6 DEF SaysAll
<1> QED
  BY <1>1, <1>2, <1>7

\* The lists of blocks there are, and the last of each.
LEMMA ListOfOne ==
    ASSUME NEW a
    PROVE  <<a>> \in Seq({a}) /\ Last(<<a>>) = a
BY DEF Last

LEMMA ListOfTwo ==
    ASSUME NEW a, NEW b
    PROVE  <<a, b>> \in Seq({a, b}) /\ Last(<<a, b>>) = b
BY DEF Last

LEMMA ListOfThree ==
    ASSUME NEW a, NEW b, NEW c
    PROVE  <<a, b, c>> \in Seq({a, b, c}) /\ Last(<<a, b, c>>) = c
<1>1. Last(<<a, b, c>>) = c
  BY DEF Last
<1> QED
  BY <1>1

LEMMA ToldIsTold ==
    ASSUME SearchInv
    PROVE  SearchTold
<1> SUFFICES ASSUME search.step = "answered", NEW announced, NEW first, NEW blocks,
                    announced = (search.streams /\ search.protocol = "messages"),
                    first = IF announced THEN 1 ELSE 0,
                    blocks = IF search.streams THEN Assembled(told) ELSE told
             PROVE  /\ search.streams => OneAtATime(told)
                    /\ announced => blocks[1] = SearchBlock("text", <<"decision">>)
                    /\ SaysAll(blocks, first, WholeAnswer)
                    /\ Mentions(Last(blocks).toks, Sites)
  <2>1. search.step = "answered" /\ search.protocol = "responses" /\ search.keeps /\ ~search.streams =>
            keptAnswers # <<>> /\ Last(keptAnswers) = told
    BY DEF SearchInv
  <2> QED
    BY <2>1 DEF SearchTold, SaysAll
<1>1. PICK text : text = generate_search_summary
  OBVIOUS
<1>2. PICK V : V = Words \cup ToSet(Sites)
  OBVIOUS
<1>3. text \in Seq(V) /\ Mentions(text, Sites)
  BY <1>1, <1>2, SummaryMentions DEF SearchInv
<1>4. <<>> \o text = text
  BY <1>3, ConcatEmptySeq
<1>5. \A type : SearchBlock(type, text).toks = text
  BY TextOf
<1>6. told = ToldFor(search) /\ search.streams \in BOOLEAN
  BY DEF SearchInv
<1>7. PICK A, B, C, D : /\ A = SearchBlock("text", <<"decision">>) /\ B = SearchCall
                        /\ C = StreamedResult /\ D = WholeResult
  OBVIOUS
<1>8. MessageBlocks = <<B, D, SearchBlock("text", text)>>
  BY <1>1, <1>7 DEF MessageBlocks
<1>9. CASE search.protocol = "messages"
  <2>1. WholeAnswer = MessageBlocks
    BY <1>9 DEF WholeAnswer
  <2>2. CASE search.streams
    <3>1. told = generate_websearch_events
      BY <1>6, <1>9, <2>2 DEF ToldFor
    <3>2. OneAtATime(told) /\ Assembled(told) = <<A, B, C, SearchBlock("text", text)>>
      BY <1>1, <1>3, <1>7, <3>1, AnnouncedIsAssembled
    <3>3. first = 1 /\ blocks = <<A, B, C, SearchBlock("text", text)>>
      BY <1>9, <2>2, <3>2
    <3>4. blocks[1] = A /\ Last(blocks) = SearchBlock("text", text)
      <4>1. PICK E : E = SearchBlock("text", text)
        OBVIOUS
      <4>2. Last(<<A, B, C, E>>) = E
        BY DEF Last
      <4>3. <<A, B, C, E>>[1] = A
        OBVIOUS
      <4>4. blocks = <<A, B, C, E>>
        BY <3>3, <4>1
      <4> QED
        BY <4>1, <4>2, <4>3, <4>4, Zenon
    <3>5. SaysAll(<<A, B, C, SearchBlock("text", text)>>, 1, <<B, D, SearchBlock("text", text)>>)
      BY <1>7, AnnouncedSaysAll
    <3>6. SaysAll(blocks, first, WholeAnswer)
      BY <1>8, <2>1, <3>3, <3>5
    <3> QED
      BY <1>3, <1>5, <1>7, <3>2, <3>4, <3>6
  <2>3. CASE ~search.streams
    <3>1. told = MessageBlocks
      BY <1>6, <1>9, <2>3 DEF ToldFor
    <3>2. first = 0 /\ ~announced /\ blocks = <<B, D, SearchBlock("text", text)>>
      BY <1>8, <2>3, <3>1
    <3>3. PICK E : E = SearchBlock("text", text)
      OBVIOUS
    <3>4. <<B, D, E>> \in Seq({B, D, E}) /\ Last(<<B, D, E>>) = E
      BY ListOfThree, Zenon
    <3>5. blocks \in Seq({B, D, E}) /\ Last(blocks) = SearchBlock("text", text)
      BY <3>2, <3>3, <3>4
    <3>6. SaysAll(blocks, first, WholeAnswer)
      BY <1>8, <2>1, <3>2, <3>5, TheSameSaysAll
    <3> QED
      BY <1>3, <1>5, <2>3, <3>2, <3>5, <3>6
  <2> QED
    BY <1>6, <2>2, <2>3
<1>10. CASE search.protocol = "chat"
  <2>1. PICK E : E = SearchBlock("text", text)
    OBVIOUS
  <2>2. WholeAnswer = ChatBlocks /\ ChatBlocks = <<E>>
    BY <1>1, <1>10, <2>1 DEF WholeAnswer, ChatBlocks
  <2>3. search.streams => told = ChatChunks
    BY <1>6, <1>10 DEF ToldFor
  <2>4. ~search.streams => told = ChatBlocks
    BY <1>6, <1>10 DEF ToldFor
  <2>5. OneAtATime(ChatChunks) /\ Assembled(ChatChunks) = ChatBlocks
    BY <1>1, <1>4, ChatIsAssembled
  <2>6. first = 0 /\ ~announced /\ blocks = <<E>>
    BY <1>6, <1>10, <2>2, <2>3, <2>4, <2>5
  <2>7. Last(blocks) = E /\ blocks \in Seq({E})
    <3>1. Last(<<E>>) = E /\ <<E>> \in Seq({E})
      BY ListOfOne, Zenon
    <3> QED
      BY <2>6, <3>1
  <2>8. SaysAll(blocks, first, WholeAnswer)
    BY <2>2, <2>6, <2>7, TheSameSaysAll
  <2> QED
    BY <1>3, <1>5, <2>1, <2>3, <2>5, <2>6, <2>7, <2>8
<1>11. CASE search.protocol = "responses"
  <2>1. PICK E, F : E = ResponseItems[1] /\ F = SearchBlock("message", text)
    OBVIOUS
  <2>2. WholeAnswer = ResponseItems /\ ResponseItems = <<E, F>>
    BY <1>1, <1>11, <2>1 DEF WholeAnswer, ResponseItems
  <2>3. search.streams => told = ResponseEvents
    BY <1>6, <1>11 DEF ToldFor
  <2>4. ~search.streams => told = ResponseItems
    BY <1>6, <1>11 DEF ToldFor
  <2>5. OneAtATime(ResponseEvents) /\ Assembled(ResponseEvents) = ResponseItems
    BY <1>1, <1>4, ResponseIsAssembled
  <2>6. first = 0 /\ ~announced /\ blocks = <<E, F>>
    BY <1>6, <1>11, <2>2, <2>3, <2>4, <2>5
  <2>7. Last(blocks) = F /\ blocks \in Seq({E, F})
    <3>1. Last(<<E, F>>) = F /\ <<E, F>> \in Seq({E, F})
      BY ListOfTwo, Zenon
    <3> QED
      BY <2>6, <3>1
  <2>8. SaysAll(blocks, first, WholeAnswer)
    BY <2>2, <2>6, <2>7, TheSameSaysAll
  <2> QED
    BY <1>3, <1>5, <2>1, <2>3, <2>5, <2>6, <2>7, <2>8
<1>12. search.protocol \in {"messages", "chat", "responses"}
  BY DEF SearchInv
<1> QED
  BY <1>9, <1>10, <1>11, <1>12

\* SearchTold, for any lists of sites, chunks of any size and any number of searches: the
\* answer a client puts together from a stream says block by block what the whole one says,
\* its text mentions the sites that were found, in order, and a whole response that is kept
\* is kept as it was told.
THEOREM SearchesAreTold == SearchSpec => []SearchTold
<1>1. SearchInit => SearchInv
  BY SearchAtFirst
<1>2. SearchInv /\ [SearchNext]_searchVars => SearchInv'
  BY SearchStep
<1>3. SearchInv => SearchTold
  BY ToldIsTold
<1> QED
  BY <1>1, <1>2, <1>3, PTL DEF SearchSpec

=============================================================================
