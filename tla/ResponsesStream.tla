--------------------------- MODULE ResponsesStream ---------------------------
(***************************************************************************)
(* The stream of an OpenAI response (OpenAIResponsesStream in               *)
(* openai/stream.rs): one message item for all of the text, one item for    *)
(* every function call, and the response with all items at the end, which   *)
(* is also what is stored (persist_response_if_needed).                     *)
(*                                                                          *)
(* As in ChatStream methods are operators on the stream, events are         *)
(* appended to `out`, and text is a sequence of tokens [k, at].  Thinking   *)
(* between tags is dropped, and thinking of events only counted.  Names,    *)
(* arguments and usage are left out; item 0 is the message, and a call is   *)
(* known by the id it was added with.                                       *)
(***************************************************************************)
EXTENDS Integers, Sequences, SequencesExt

CONSTANTS
    ReplyTexts,             \* texts an assistantResponseEvent may bring, as kinds
    ReplyTools,             \* the names of tools
    ReplyIds,               \* the ids of calls, none of them a name
    MaxReplyEvents

ASSUME ReplyAssumption == ReplyTools \cap ReplyIds = {} /\ MaxReplyEvents \in Nat

VARIABLES
    reply,                  \* the OpenAIResponsesStream
    replyNow,               \* upstream events so far
    replyReceived,          \* the text and calls of the upstream, in order
    stored                  \* the output of the stored response

replyVars == <<reply, replyNow, replyReceived, stored>>

NewReply ==
    [out |-> <<>>, text_buffer |-> <<>>, in_thinking_block |-> FALSE,
     text_aggregated |-> <<>>, message_item_started |-> FALSE, message_item_done |-> FALSE,
     next_output_index |-> 0, calls |-> <<>>, generated |-> {}, finished |-> "no"]

Message == "message"

OutputEvent(ev, item, index, toks) == [ev |-> ev, item |-> item, index |-> index, toks |-> toks]

SendEvent(s, ev, item, index, toks) ==
    [s EXCEPT !.out = Append(@, OutputEvent(ev, item, index, toks))]

-----------------------------------------------------------------------------
(* The message item, always at index 0. *)

EnsureMessageStarted(s) ==
    IF s.message_item_started THEN s
    ELSE SendEvent([s EXCEPT !.message_item_started = TRUE,
                             !.next_output_index = IF @ = 0 THEN 1 ELSE @],
                   "added", Message, 0, <<>>)

FinishMessageItem(s) ==
    IF ~s.message_item_started \/ s.message_item_done THEN s
    ELSE SendEvent([s EXCEPT !.message_item_done = TRUE], "done", Message, 0, s.text_aggregated)

EmitText(s, toks) ==
    IF toks = <<>> THEN s
    ELSE SendEvent(EnsureMessageStarted([s EXCEPT !.text_aggregated = @ \o toks]),
                   "delta", Message, 0, toks)

OpensAt(toks) ==
    SelectInSeq([i \in DOMAIN toks |-> i < Len(toks) /\ toks[i].k = "lt" /\ toks[i + 1].k = "rt"],
                LAMBDA b : b)
ClosesAt(toks) == SelectInSeq(toks, LAMBDA t : t.k = "end")

After(toks, n) == SubSeq(toks, n + 1, Len(toks))

\* process_text_delta: everything but what may be the beginning of a tag.
RECURSIVE DrainReply(_, _)
DrainReply(s, flush) ==
    LET b == s.text_buffer
        start == OpensAt(b)
        end == ClosesAt(b)
        keep == IF ~flush /\ b # <<>> /\ Last(b).k = "lt" THEN 1 ELSE 0
    IN  CASE ~s.in_thinking_block /\ start > 0 ->
               DrainReply([EmitText(s, SubSeq(b, 1, start - 1)) EXCEPT
                             !.text_buffer = After(b, start + 1), !.in_thinking_block = TRUE], flush)
          [] ~s.in_thinking_block /\ start = 0 ->
               [EmitText(s, SubSeq(b, 1, Len(b) - keep)) EXCEPT
                   !.text_buffer = After(b, Len(b) - keep)]
          [] s.in_thinking_block /\ end > 0 ->
               DrainReply([s EXCEPT !.text_buffer = After(b, end), !.in_thinking_block = FALSE], flush)
          [] OTHER ->
               [s EXCEPT !.text_buffer = <<>>, !.in_thinking_block = ~flush]

ReplyFlush(s) == DrainReply(s, TRUE)

-----------------------------------------------------------------------------
(* process_event *)

ReplyInit ==
    /\ reply = NewReply
    /\ replyNow = 0
    /\ replyReceived = <<>>
    /\ stored = <<>>

Comes == reply.finished = "no" /\ replyNow < MaxReplyEvents /\ replyNow' = replyNow + 1

ReplyText(kinds) ==
    /\ Comes
    /\ LET toks == [i \in DOMAIN kinds |-> [k |-> kinds[i], at |-> replyNow']]
       IN  /\ reply' = DrainReply([reply EXCEPT !.text_buffer = @ \o toks], FALSE)
           /\ replyReceived' = replyReceived \o toks
    /\ UNCHANGED stored

\* A call is the record [id, index, done]; done is set by its stop.
Call(s, id) == SelectInSeq(s.calls, LAMBDA c : c.id = id)

\* Its own id, or the one that was generated for the tool and is in use.  The
\* generated id of a tool is written as its name.
ReplyCallId(s, name, id) ==
    IF id = name \/ (name \in s.generated /\ Call(s, name) > 0) THEN name ELSE id

AddCall(s, id) ==
    IF Call(s, id) > 0 THEN s
    ELSE SendEvent([s EXCEPT !.calls = Append(@, [id |-> id, index |-> s.next_output_index,
                                                  done |-> FALSE]),
                             !.next_output_index = @ + 1],
                   "added", id, s.next_output_index, <<>>)

FinishCall(s, id) ==
    LET c == Call(s, id)
    IN  SendEvent([s EXCEPT !.calls[c].done = TRUE], "done", id, s.calls[c].index, <<>>)

\* Nothing looks at whether the call is done: what comes of it after its stop, or of
\* another call of the tool without an id, is told under the item that is done.
ReplyToolUse(name, id, input, stop) ==
    LET call == ReplyCallId(reply, name, id)
        flushed == FinishMessageItem(ReplyFlush(reply))
        added == AddCall([flushed EXCEPT !.generated = IF id = name THEN @ \cup {name} ELSE @], call)
        told == IF input
                  THEN SendEvent(added, "delta", call, added.calls[Call(added, call)].index, <<>>)
                  ELSE added
    IN  /\ Comes
        /\ reply' = IF stop THEN FinishCall(told, call) ELSE told
        /\ replyReceived' = Append(replyReceived,
               [k |-> "call", at |-> replyNow', call |-> call, stop |-> stop])
        /\ UNCHANGED stored

-----------------------------------------------------------------------------
(* The end *)

RECURSIVE FinishCalls(_, _)
FinishCalls(s, i) ==
    IF i > Len(s.calls) THEN s
    ELSE FinishCalls(IF s.calls[i].done THEN s ELSE FinishCall(s, s.calls[i].id), i + 1)

\* completed_output_items: the message, unless there is no text and there are calls.
OutputItems(s) ==
    (IF s.text_aggregated # <<>> \/ s.calls = <<>> THEN <<Message>> ELSE <<>>)
        \o [i \in DOMAIN s.calls |-> s.calls[i].id]

\* Fault: calls that the upstream has not stopped are left open.
ReplyFinishOpen ==
    /\ reply.finished = "no"
    /\ reply' = [FinishMessageItem(ReplyFlush(reply)) EXCEPT !.finished = "completed"]
    /\ stored' = OutputItems(reply')
    /\ UNCHANGED <<replyNow, replyReceived>>

\* finish_events
ReplyFinish ==
    /\ reply.finished = "no"
    /\ reply' = [FinishCalls(FinishMessageItem(ReplyFlush(reply)), 1) EXCEPT
                    !.finished = "completed"]
    /\ stored' = OutputItems(reply')
    /\ UNCHANGED <<replyNow, replyReceived>>

\* failed_events: nothing is closed, and nothing stored.
ReplyFail ==
    /\ reply.finished = "no"
    /\ reply' = [reply EXCEPT !.finished = "failed"]
    /\ UNCHANGED <<replyNow, replyReceived, stored>>

ReplyNext ==
    \/ \E kinds \in ReplyTexts : ReplyText(kinds)
    \/ \E name \in ReplyTools, input, stop \in BOOLEAN : \E id \in ReplyIds \cup {name} :
           ReplyToolUse(name, id, input, stop)
    \/ ReplyFinish \/ ReplyFail

ReplySpec == ReplyInit /\ [][ReplyNext]_replyVars

-----------------------------------------------------------------------------
Of(item, ev) == {i \in DOMAIN reply.out : reply.out[i].item = item /\ reply.out[i].ev = ev}
Items == {reply.out[i].item : i \in DOMAIN reply.out}

\* The calls of which something came after their stop.
Resumed == {replyReceived[j].call : j \in
              {n \in DOMAIN replyReceived : /\ replyReceived[n].k = "call"
                                            /\ \E m \in 1 .. n - 1 :
                                                  /\ replyReceived[m].k = "call"
                                                  /\ replyReceived[m].call = replyReceived[n].call
                                                  /\ replyReceived[m].stop}}

\* Each item is added once, before anything else of it, and nothing comes after it
\* is done, except of a call that is resumed; no two have the same index.
WellFormed ==
    /\ \A i \in DOMAIN reply.out, j \in DOMAIN reply.out :
           reply.out[i].item = reply.out[j].item /\ i < j =>
               /\ reply.out[j].ev # "added"
               /\ reply.out[i].ev = "done" => reply.out[i].item \in Resumed
    /\ \A item \in Items : Of(item, "added") # {}
    /\ \A i, j \in DOMAIN reply.out :
           reply.out[i].index = reply.out[j].index => reply.out[i].item = reply.out[j].item

TextFollowsCall ==
    \E i, j \in DOMAIN replyReceived :
        i < j /\ replyReceived[i].k = "call" /\ replyReceived[j].k # "call"

\* The items of a response are well formed as long as the upstream sends no text
\* behind a call, and each item is over when it is done unless the upstream goes on with a
\* call it has stopped, or sends another of the tool without an id; and a completed
\* response has all of them done, in the order and with the items that are stored.
ItemsWellFormed ==
    ~TextFollowsCall =>
        /\ WellFormed
        /\ reply.finished = "completed" =>
               /\ \A item \in Items : Of(item, "done") # {}
               /\ Items = {} \/ Items = ToSet(stored)
               /\ \A item \in ToSet(stored) \cap Items : \A i \in Of(item, "added") :
                      stored[reply.out[i].index + 1] = item

=============================================================================
