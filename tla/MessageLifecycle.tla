--------------------------- MODULE MessageLifecycle ---------------------------
(***************************************************************************)
(* The life of one request of a client, from its handler (post_messages,    *)
(* post_messages_cc, post_chat_completions, post_responses) to its last     *)
(* byte: what it holds of the credential, and what is written to the        *)
(* accounts when it ends.                                                   *)
(*                                                                          *)
(* A streamed answer is passed on as it comes; a buffered one, which only   *)
(* post_messages_cc knows, is gathered while pings are sent; a whole one is *)
(* gathered in silence.  The answer of the first two is a stream that the   *)
(* HTTP server polls when it has room for what the client has not read yet, *)
(* and drops when the client goes away; a whole one is a future that is     *)
(* dropped likewise.                                                        *)
(*                                                                          *)
(* Which request is rejected before the provider is asked, and what the     *)
(* provider does, is left open; the permits are those of one credential.    *)
(***************************************************************************)
EXTENDS Naturals, Sequences, FiniteSets

CONSTANTS
    Messages,
    MESSAGE_PERMITS,        \* what the credential of all of them may run at once
    MaxChunks               \* bound on what the upstream sends before it ends

ASSUME MessageAssumption == MESSAGE_PERMITS \in Nat \ {0} /\ MaxChunks \in Nat

VARIABLES
    message,                \* what is asked, of which handler, and how far it is
    body,                   \* the part of the upstream's answer nobody has read yet
    sent,                   \* how many chunks the upstream has sent
    metering,               \* the stream context has seen a metering event
    room,                   \* the HTTP server may poll the answer
    permits,                \* the requests that hold a permit
    ledger                  \* what has been written down about each request

messageVars == <<message, body, sent, metering, room, permits, ledger>>

Chunks == {"text", "credits"}
Ends == {"end", "break"}

\* Where a request is; the last four are ends.
Over == {"rejected", "refused", "complete", "aborted", "gone"}
At == {"asking", "reading"} \cup Over

NoLedger == [usage |-> 0, failures |-> 0, credits |-> 0, documents |-> 0]

\* The ledger l of a request with so much more in it.
Recorded(l, usage, failures, credits, documents) ==
    [usage |-> l.usage + usage, failures |-> l.failures + failures,
     credits |-> l.credits + credits, documents |-> l.documents + documents]

\* Only the Responses API stores what it answered.
Asks(handler, stream, stored) ==
    [handler |-> handler, stream |-> stream, stored |-> stored, at |-> "asking"]

post_messages == {Asks("post_messages", stream, FALSE) : stream \in BOOLEAN}
post_messages_cc == {Asks("post_messages_cc", stream, FALSE) : stream \in BOOLEAN}
post_chat_completions == {Asks("post_chat_completions", stream, FALSE) : stream \in BOOLEAN}
post_responses ==
    UNION {{Asks("post_responses", stream, stored) : stored \in BOOLEAN} : stream \in BOOLEAN}

Posted == post_messages \cup post_messages_cc \cup post_chat_completions \cup post_responses

MessageInit ==
    /\ message \in [Messages -> Posted]
    /\ body = [r \in Messages |-> <<>>]
    /\ sent = [r \in Messages |-> 0]
    /\ metering = [r \in Messages |-> FALSE]
    /\ room = [r \in Messages |-> TRUE]
    /\ permits = {}
    /\ ledger = [r \in Messages |-> NoLedger]

Is(r, handler, stream) == message[r].handler = handler /\ message[r].stream = stream
Buffered(r) == Is(r, "post_messages_cc", TRUE)
Whole(r) == ~message[r].stream
Moves(r, at) == message' = [message EXCEPT ![r].at = at]
Reading(r) == message[r].at = "reading"

-----------------------------------------------------------------------------
(* Before the upstream answers *)

\* A request of a wrong shape, without a provider, too large, of an unknown history, or
\* one that is answered by a web search.
RejectMessage(r) ==
    /\ message[r].at = "asking"
    /\ Moves(r, "rejected")
    /\ UNCHANGED <<body, sent, metering, room, permits, ledger>>

\* The provider gives up: record_gateway_failure.
ProviderFails(r) ==
    /\ message[r].at = "asking"
    /\ Moves(r, "refused")
    /\ ledger' = [ledger EXCEPT ![r] = Recorded(@, 0, 1, 0, 0)]
    /\ UNCHANGED <<body, sent, metering, room, permits>>

\* The permits of the answer go to the stream, or stay with the handler.
ProviderAnswers(r) ==
    /\ message[r].at = "asking"
    /\ Cardinality(permits) < MESSAGE_PERMITS
    /\ permits' = permits \cup {r}
    /\ Moves(r, "reading")
    /\ UNCHANGED <<body, sent, metering, room, ledger>>

CallsProvider(r) == ProviderFails(r) \/ ProviderAnswers(r)

handle_stream_request(r) == Is(r, "post_messages", TRUE) /\ CallsProvider(r)
handle_stream_request_buffered(r) == Buffered(r) /\ CallsProvider(r)
handle_chat_stream(r) == Is(r, "post_chat_completions", TRUE) /\ CallsProvider(r)
handle_responses_stream(r) == Is(r, "post_responses", TRUE) /\ CallsProvider(r)

\* The handlers of whole answers begin likewise.
HandlesWhole(r) == Whole(r) /\ CallsProvider(r)

-----------------------------------------------------------------------------
(* The two ends of the connection *)

UpstreamEnded(r) == body[r] # <<>> /\ body[r][Len(body[r])] \in Ends

UpstreamSends(r, chunk) ==
    /\ Reading(r) /\ ~UpstreamEnded(r) /\ sent[r] < MaxChunks
    /\ body' = [body EXCEPT ![r] = Append(@, chunk)]
    /\ sent' = [sent EXCEPT ![r] = @ + 1]
    /\ UNCHANGED <<message, metering, room, permits, ledger>>

UpstreamEnds(r, how) ==
    /\ Reading(r) /\ ~UpstreamEnded(r)
    /\ body' = [body EXCEPT ![r] = Append(@, how)]
    /\ UNCHANGED <<message, sent, metering, room, permits, ledger>>

ClientReads(r) ==
    /\ ~room[r]
    /\ room' = [room EXCEPT ![r] = TRUE]
    /\ UNCHANGED <<message, body, sent, metering, permits, ledger>>

\* The future or the stream is dropped with all it holds.
ClientGoes(r) ==
    /\ message[r].at \in {"asking", "reading"}
    /\ permits' = permits \ {r}
    /\ Moves(r, "gone")
    /\ UNCHANGED <<body, sent, metering, room, ledger>>

-----------------------------------------------------------------------------
(* What the streams and the handlers share *)

Coming(r) == Head(body[r])
Polled(r) == Reading(r) /\ (Whole(r) \/ room[r])
Sees(r, what) == Polled(r) /\ body[r] # <<>> /\ Coming(r) = what

\* Only what is passed on as it comes fills the client's buffer.
ReadChunk(r) ==
    /\ Polled(r) /\ body[r] # <<>> /\ Coming(r) \in Chunks
    /\ metering' = [metering EXCEPT ![r] = @ \/ Coming(r) = "credits"]
    /\ room' = [room EXCEPT ![r] = Whole(r) \/ Buffered(r) \/ Coming(r) # "text"]
    /\ body' = [body EXCEPT ![r] = Tail(@)]
    /\ UNCHANGED <<message, sent, permits, ledger>>

Ping(r) ==
    /\ Polled(r) /\ ~Whole(r)
    /\ room' = [room EXCEPT ![r] = FALSE]
    /\ UNCHANGED <<message, body, sent, metering, permits, ledger>>

One(condition) == IF condition THEN 1 ELSE 0

\* Fault: the stream is not marked as finished, and is polled again.
CloseUnfinished(r, at, usage, failures, credits, documents) ==
    /\ permits' = permits \ {r}
    /\ ledger' = [ledger EXCEPT ![r] = Recorded(@, usage, failures, credits, documents)]
    /\ \/ Moves(r, at) /\ body' = [body EXCEPT ![r] = <<>>]
       \/ UNCHANGED <<message, body>>
    /\ UNCHANGED <<sent, metering, room>>

\* The request ends at the end of the upstream's answer, and gives back its permits; so
\* much is written to the accounts.
Close(r, at, usage, failures, credits, documents) ==
    /\ permits' = permits \ {r}
    /\ ledger' = [ledger EXCEPT ![r] = Recorded(@, usage, failures, credits, documents)]
    /\ Moves(r, at)
    /\ body' = [body EXCEPT ![r] = <<>>]
    /\ UNCHANGED <<sent, metering, room>>

-----------------------------------------------------------------------------
(* Answers passed on: a broken one is told to the client and counted. *)

PassedOn(r) ==
    \/ Sees(r, "end") /\ Close(r, "complete", 1, 0, One(metering[r]), 0)
    \/ Sees(r, "break") /\ Close(r, "aborted", 0, 1, One(metering[r]), 0)

create_sse_stream(r) == Is(r, "post_messages", TRUE) /\ PassedOn(r)

create_chat_sse_stream(r) == Is(r, "post_chat_completions", TRUE) /\ PassedOn(r)

create_responses_sse_stream(r) ==
    /\ Is(r, "post_responses", TRUE)
    /\ \/ Sees(r, "end") /\ Close(r, "complete", 1, 0, One(metering[r]), One(message[r].stored))
       \/ Sees(r, "break") /\ Close(r, "aborted", 0, 1, One(metering[r]), 0)

(* Answers gathered while pings are sent: what came is passed on as if whole. *)

create_buffered_sse_stream(r) ==
    /\ Buffered(r)
    /\ \/ Sees(r, "end") /\ Close(r, "complete", 1, 0, One(metering[r]), 0)
       \/ Sees(r, "break") /\ Close(r, "complete", 0, 0, One(metering[r]), 0)

(* Answers gathered in silence: a broken one is an error that nobody counts, nor what *)
(* the upstream charged for it.                                                       *)

AnsweredWhole(r, documents) ==
    Sees(r, "end") /\ Close(r, "complete", 1, 0, One(metering[r]), documents)

BrokenUncounted(r) == Sees(r, "break") /\ Close(r, "aborted", 0, 0, 0, 0)

handle_non_stream_request(r) ==
    /\ Is(r, "post_messages", FALSE) \/ Is(r, "post_messages_cc", FALSE)
    /\ AnsweredWhole(r, 0) \/ BrokenUncounted(r)

handle_chat_non_stream(r) ==
    Is(r, "post_chat_completions", FALSE) /\ (AnsweredWhole(r, 0) \/ BrokenUncounted(r))

handle_responses_non_stream(r) ==
    /\ Is(r, "post_responses", FALSE)
    /\ AnsweredWhole(r, One(message[r].stored)) \/ BrokenUncounted(r)

MessageStep(r) ==
    \/ ReadChunk(r)
    \/ create_sse_stream(r) \/ create_chat_sse_stream(r) \/ create_responses_sse_stream(r)
    \/ create_buffered_sse_stream(r)
    \/ handle_non_stream_request(r) \/ handle_chat_non_stream(r)
    \/ handle_responses_non_stream(r)

MessageNext == \E r \in Messages :
    \/ RejectMessage(r)
    \/ handle_stream_request(r) \/ handle_stream_request_buffered(r)
    \/ handle_chat_stream(r) \/ handle_responses_stream(r) \/ HandlesWhole(r)
    \/ \E chunk \in Chunks : UpstreamSends(r, chunk)
    \/ \E how \in Ends : UpstreamEnds(r, how)
    \/ ClientReads(r) \/ ClientGoes(r)
    \/ MessageStep(r) \/ Ping(r)

MessageSpec == MessageInit /\ [][MessageNext]_messageVars

-----------------------------------------------------------------------------
MessageTypeOK ==
    /\ \A r \in Messages :
           /\ message[r].at \in At
           /\ Asks(message[r].handler, message[r].stream, message[r].stored) \in Posted
    /\ body \in [Messages -> Seq(Chunks \cup Ends)]
    /\ sent \in [Messages -> 0 .. MaxChunks]
    /\ metering \in [Messages -> BOOLEAN] /\ room \in [Messages -> BOOLEAN]
    /\ permits \subseteq Messages
    /\ ledger \in [Messages -> [usage : Nat, failures : Nat, credits : Nat, documents : Nat]]

\* A request that is over is in the accounts exactly once, as a success or as a failure.
\* What is missing from them is what was rejected, what its client left, and what broke
\* off on the way to be gathered.  What the upstream charged is taken from the balance
\* once, with these exceptions.
AccountedOnce == \A r \in Messages :
    LET l == ledger[r]
        at == message[r].at
    IN  /\ l.usage + l.failures <= 1 /\ l.credits <= 1 /\ l.documents <= l.usage
        /\ at = "refused" => l.failures = 1
        /\ at = "aborted" /\ ~Whole(r) => l.failures = 1 /\ l.credits = One(metering[r])
        /\ at = "complete" => l.credits = One(metering[r])
        /\ at = "complete" /\ ~Buffered(r) =>
               l.usage = 1 /\ l.documents = One(message[r].stored)
        /\ at \notin Over => l = NoLedger

\* A permit is held from the upstream's answer until its end has been read, however the
\* request ends, and never by a request that is over.
PermitsFollowTheBody == permits = {r \in Messages : Reading(r)}

\* On each of the seven paths, and wherever one breaks off, both are done, and once.
AccountedAndReleased == AccountedOnce /\ PermitsFollowTheBody

=============================================================================
