------------------------------ MODULE SseStream ------------------------------
(***************************************************************************)
(* The stream sent to an Anthropic client: how StreamContext and            *)
(* SseStateManager (anthropic/stream.rs) turn the events of the upstream    *)
(* into content blocks, and how create_sse_stream and                       *)
(* create_buffered_sse_stream (anthropic/handlers.rs) end it.               *)
(*                                                                          *)
(* The methods of StreamContext take it by &mut and return events; here     *)
(* they are operators from a context to a context, and the events are       *)
(* appended to its field `sent`.                                            *)
(*                                                                          *)
(* Text is a sequence of tokens [k, at]: "text", "gap" (blank), "lt" and    *)
(* "rt" (the halves of <thinking>, which may arrive apart), "end"           *)
(* (</thinking>, an end tag only before a gap), "call" (a bracket-style     *)
(* tool call) and "reason".  at is the number of the upstream event it came *)
(* with.  The bytes held back because they may begin a tag are the last     *)
(* token.  Chunks are what normalize_chunk leaves: new text.  Token counts  *)
(* and tool inputs are left out.                                            *)
(***************************************************************************)
EXTENDS Naturals, Sequences, SequencesExt, FiniteSets, FiniteSetsExt

CONSTANTS
    Chunks,                 \* texts an assistantResponseEvent may bring
    ToolIds, ToolNames,
    NameOf,                 \* the tool that the call with an id is for
    NoId,                   \* a toolUseEvent without an id
    MaxEvents               \* bound on the upstream events of a stream

ASSUME SseAssumption ==
    NoId \notin ToolIds /\ NameOf \in [ToolIds -> ToolNames] /\ MaxEvents \in Nat

VARIABLES
    ctx,                    \* the StreamContext
    now,                    \* upstream events so far
    received,               \* the upstream events that brought text
    called                  \* the ids and names of the tool calls so far

vars == <<ctx, now, received, called>>

BlockType == {"text", "thinking", "tool_use"}
NoTool == [name |-> "none"]
None == 0

\* Which call a tool_use block is for; other blocks have none.
NoCall == [id |-> NoId, name |-> "none", at |-> 0]

\* Block i is blocks[i]; the code counts from 0.
NewContext(enabled, format) ==
    [thinking_enabled |-> enabled, thinking_format |-> format,
     blocks |-> <<>>, sent |-> <<>>,
     thinking_buffer |-> <<>>, in_thinking_block |-> FALSE, thinking_extracted |-> FALSE,
     thinking_block_index |-> None, text_block_index |-> None,
     thinking_source |-> "Unknown", drop_tag_thinking |-> FALSE,
     pending_tool_use |-> NoTool, has_tool_use |-> FALSE, emitted_call |-> FALSE,
     stop_reason |-> "none", ended |-> FALSE, aborted |-> FALSE]

-----------------------------------------------------------------------------
(* SseStateManager *)

Emit(s, e) == [s EXCEPT !.sent = Append(@, e)]

Start(i, type, call) == [ev |-> "start", index |-> i, type |-> type, call |-> call]
Delta(i, kind, toks) == [ev |-> "delta", index |-> i, kind |-> kind, toks |-> toks]
Stop(i) == [ev |-> "stop", index |-> i]

IsOpen(s, i) == i \in DOMAIN s.blocks /\ s.blocks[i].open
IsOpenOfType(s, i, type) == IsOpen(s, i) /\ s.blocks[i].type = type

\* Stops the open blocks of the given types, in the order of a HashMap.
StopAll(s, types) ==
    LET open == {i \in DOMAIN s.blocks : s.blocks[i].open /\ s.blocks[i].type \in types}
        order == SetToSeq(open)
    IN  [s EXCEPT !.blocks = [i \in DOMAIN s.blocks |->
                                 [type |-> s.blocks[i].type,
                                  open |-> s.blocks[i].open /\ i \notin open]],
                  !.sent = s.sent \o [k \in DOMAIN order |-> Stop(order[k])]]

\* handle_content_block_start with the next index; a tool ends the open text.
StartBlock(s, type, call) ==
    LET a == IF type = "tool_use"
               THEN [StopAll(s, {"text"}) EXCEPT !.has_tool_use = TRUE]
               ELSE s
    IN  Emit([a EXCEPT !.blocks = Append(@, [type |-> type, open |-> TRUE])],
             Start(Len(a.blocks) + 1, type, call))

\* handle_content_block_delta drops what comes for a block that is not open.
SendDelta(s, i, kind, toks) == IF IsOpen(s, i) THEN Emit(s, Delta(i, kind, toks)) ELSE s

\* handle_content_block_stop
StopBlock(s, i) ==
    IF IsOpen(s, i) THEN Emit([s EXCEPT !.blocks[i].open = FALSE], Stop(i)) ELSE s

-----------------------------------------------------------------------------
(* StreamContext: text and thinking *)

OpenThinking(s) ==
    [StartBlock(s, "thinking", NoCall) EXCEPT !.thinking_block_index = Len(s.blocks) + 1]

\* create_thinking_delta_event goes past the state manager.
ThinkingDelta(s, toks) == Emit(s, Delta(s.thinking_block_index, "thinking", toks))

\* An empty thinking_delta, the signature and the stop.
EndThinkingBlock(s) ==
    StopBlock(Emit(ThinkingDelta(s, <<>>), Delta(s.thinking_block_index, "signature", <<>>)),
              s.thinking_block_index)

\* Fault: the block is ended again by every text.
CloseReasoningAgain(s) ==
    IF s.thinking_source = "Reasoning" /\ s.thinking_block_index # None
      THEN [EndThinkingBlock(s) EXCEPT !.thinking_extracted = TRUE]
      ELSE s

close_reasoning_thinking_block(s) ==
    IF /\ s.thinking_source = "Reasoning"
       /\ IsOpenOfType(s, s.thinking_block_index, "thinking")
      THEN [EndThinkingBlock(s) EXCEPT !.thinking_extracted = TRUE]
      ELSE s

\* Fault: text goes to the block it used last, open or not.
TextToLastBlock(s, toks) ==
    LET a == close_reasoning_thinking_block(s)
        b == IF a.text_block_index # None
               THEN a
               ELSE [StartBlock(a, "text", NoCall) EXCEPT !.text_block_index = Len(a.blocks) + 1]
    IN  [SendDelta(b, b.text_block_index, "text", toks) EXCEPT
            !.emitted_call = @ \/ \E i \in DOMAIN toks : toks[i].k = "call"]

\* Text ends a reasoning block, and opens a text block if none is open.
create_text_delta_events(s, toks) ==
    LET a == close_reasoning_thinking_block(s)
        b == IF IsOpenOfType(a, a.text_block_index, "text")
               THEN a
               ELSE [StartBlock(a, "text", NoCall) EXCEPT !.text_block_index = Len(a.blocks) + 1]
    IN  [SendDelta(b, b.text_block_index, "text", toks) EXCEPT
            !.emitted_call = @ \/ \E i \in DOMAIN toks : toks[i].k = "call"]

Blank(toks) == \A i \in DOMAIN toks : toks[i].k = "gap"

StartTags(b) == {i \in 1 .. Len(b) - 1 : b[i].k = "lt" /\ b[i + 1].k = "rt"}
EndTags(b) == {i \in 1 .. Len(b) - 1 : b[i].k = "end" /\ b[i + 1].k = "gap"}
EndTagsAtBufferEnd(b) ==
    {i \in DOMAIN b : b[i].k = "end" /\ Blank(SubSeq(b, i + 1, Len(b)))}

Upto(b, n) == SubSeq(b, 1, n)
From(b, n) == SubSeq(b, n, Len(b))

\* ThinkingSourceArbiter::allow_tag: the first source of thinking is the only one.
allow_tag(s) ==
    IF s.thinking_source = "Reasoning"
      THEN [s EXCEPT !.drop_tag_thinking = TRUE]
      ELSE [s EXCEPT !.drop_tag_thinking = FALSE, !.thinking_source = "Tag"]

EnterThinking(s) ==
    LET tag == Min(StartTags(s.thinking_buffer))
        before == Upto(s.thinking_buffer, tag - 1)
        a == IF Blank(before) THEN s ELSE create_text_delta_events(s, before)
        b == [allow_tag(a) EXCEPT !.in_thinking_block = TRUE,
                                  !.thinking_buffer = From(@, tag + 2)]
    IN  IF b.drop_tag_thinking
          THEN b
          ELSE OpenThinking(b)

\* No tag yet: all but the last token is text, unless it is blank.
HoldBack(s) ==
    LET safe == Upto(s.thinking_buffer, Len(s.thinking_buffer) - 1)
    IN  IF Blank(safe)
          THEN s
          ELSE [create_text_delta_events(s, safe) EXCEPT
                   !.thinking_buffer = From(@, Len(@))]

\* The thinking ends with the first n tokens of the buffer.
LeaveThinking(s, n) ==
    LET a == [s EXCEPT !.in_thinking_block = FALSE, !.thinking_extracted = TRUE,
                       !.drop_tag_thinking = FALSE]
        content == Upto(s.thinking_buffer, n)
    IN  IF s.drop_tag_thinking
          THEN a
          ELSE EndThinkingBlock(IF content = <<>> THEN a ELSE ThinkingDelta(a, content))

InsideThinking(s) ==
    LET ends == EndTags(s.thinking_buffer)
        last == Len(s.thinking_buffer)
    IN  IF ends # {}
          THEN [LeaveThinking(s, Min(ends) - 1) EXCEPT
                   !.thinking_buffer = From(@, Min(ends) + 2)]
          ELSE IF last < 2
          THEN s
          ELSE [IF s.drop_tag_thinking THEN s ELSE ThinkingDelta(s, Upto(s.thinking_buffer, last - 1))
                   EXCEPT !.thinking_buffer = From(@, last)]

AfterThinking(s) ==
    IF s.in_thinking_block \/ s.thinking_buffer = <<>>
      THEN s
      ELSE create_text_delta_events([s EXCEPT !.thinking_buffer = <<>>], s.thinking_buffer)

process_content_with_thinking(s, toks) ==
    LET a == [s EXCEPT !.thinking_buffer = @ \o toks]
    IN  IF a.in_thinking_block
          THEN AfterThinking(InsideThinking(a))
          ELSE IF a.thinking_extracted
          THEN AfterThinking(a)
          ELSE IF StartTags(a.thinking_buffer) # {}
          THEN AfterThinking(InsideThinking(EnterThinking(a)))
          ELSE HoldBack(a)

process_assistant_response(s, toks) ==
    IF s.thinking_enabled
      THEN process_content_with_thinking(s, toks)
      ELSE create_text_delta_events(s, toks)

process_reasoning_content(s, toks) ==
    IF ~s.thinking_enabled \/ s.thinking_source = "Tag"
      THEN s
      ELSE LET a == [s EXCEPT !.thinking_source = "Reasoning"]
               b == IF a.thinking_block_index # None THEN a ELSE OpenThinking(a)
           IN  IF a.thinking_format = "think"
                 THEN create_text_delta_events(a, toks)
                 ELSE SendDelta(b, b.thinking_block_index, "thinking", toks)

-----------------------------------------------------------------------------
(* StreamContext: tools *)

\* flush_pending_tool_use: the whole block at once.
flush_pending_tool_use(s) ==
    LET pending == s.pending_tool_use
        a == StartBlock(s, "tool_use", pending)
        i == Len(a.blocks)
    IN  IF pending = NoTool
          THEN s
          ELSE StopBlock(SendDelta([a EXCEPT !.pending_tool_use = NoTool], i, "input", <<>>), i)

\* Which call the event belongs to: a late id completes a call without one; an id
\* or, without an id, a name of its own begins another call.
SelectPending(s, e, at) ==
    LET pending == s.pending_tool_use
        fresh == [id |-> e.id, name |-> e.name, at |-> at]
    IN  IF pending = NoTool
          THEN [s EXCEPT !.pending_tool_use = fresh]
          ELSE IF e.id = NoId
          THEN IF pending.name = e.name
                 THEN s
                 ELSE [flush_pending_tool_use(s) EXCEPT !.pending_tool_use = fresh]
          ELSE IF pending.id = e.id
          THEN s
          ELSE IF pending.id = NoId /\ pending.name = e.name
          THEN [s EXCEPT !.pending_tool_use.id = e.id]
          ELSE [flush_pending_tool_use(s) EXCEPT !.pending_tool_use = fresh]

process_tool_use(s, e, at) ==
    LET a == [s EXCEPT !.has_tool_use = TRUE]
        ends == EndTagsAtBufferEnd(a.thinking_buffer)
        b == IF a.thinking_enabled /\ a.in_thinking_block /\ ends # {}
               THEN [LeaveThinking(a, Min(ends) - 1) EXCEPT !.thinking_buffer = <<>>]
               ELSE a
        c == IF /\ b.thinking_enabled /\ ~b.in_thinking_block /\ ~b.thinking_extracted
                /\ b.thinking_buffer # <<>>
               THEN create_text_delta_events([b EXCEPT !.thinking_buffer = <<>>],
                                             b.thinking_buffer)
               ELSE b
        d == SelectPending(c, e, at)
    IN  IF e.stop THEN flush_pending_tool_use(d) ELSE d

-----------------------------------------------------------------------------
(* StreamContext: the end *)

FlushBuffer(s) ==
    LET b == s.thinking_buffer
        ends == EndTagsAtBufferEnd(b)
    IN  IF ~s.thinking_enabled \/ b = <<>>
          THEN s
          ELSE IF ~s.in_thinking_block
          THEN [create_text_delta_events(s, b) EXCEPT !.thinking_buffer = <<>>]
          ELSE IF ends # {}
          THEN [LeaveThinking(s, Min(ends) - 1) EXCEPT !.thinking_buffer = <<>>]
          ELSE [IF s.drop_tag_thinking THEN s ELSE EndThinkingBlock(ThinkingDelta(s, b))
                   EXCEPT !.drop_tag_thinking = FALSE, !.thinking_buffer = <<>>]

\* An empty thinking block for a model that did not think.
InjectThinking(s) ==
    IF ~s.thinking_enabled \/ s.thinking_extracted \/ s.thinking_block_index # None
      THEN s
      ELSE LET a == [OpenThinking(s) EXCEPT !.thinking_extracted = TRUE]
               i == a.thinking_block_index
           IN  StopBlock(Emit(a, Delta(i, "signature", <<>>)), i)

\* A message of thinking only gets a text of one blank.
AddText(s) ==
    IF /\ s.thinking_enabled /\ s.thinking_block_index # None
       /\ \A i \in DOMAIN s.blocks : s.blocks[i].type = "thinking"
      THEN create_text_delta_events([s EXCEPT !.stop_reason = "max_tokens"],
                                    <<[k |-> "gap", at |-> 0]>>)
      ELSE s

\* Tool calls written out in the text, when there was no other.
BracketCalls(s) ==
    IF s.has_tool_use \/ ~s.emitted_call
      THEN s
      ELSE LET a == [StopBlock(s, s.text_block_index) EXCEPT
                        !.has_tool_use = TRUE, !.stop_reason = "tool_use",
                        !.text_block_index = None]
               b == StartBlock(a, "tool_use", [NoCall EXCEPT !.at = now])
               i == Len(b.blocks)
           IN  StopBlock(SendDelta(b, i, "input", <<>>), i)

\* SseStateManager::generate_final_events
Conclude(s) ==
    LET reason == IF s.stop_reason # "none" THEN s.stop_reason
                  ELSE IF s.has_tool_use THEN "tool_use" ELSE "end_turn"
        a == StopAll(s, BlockType)
    IN  [a EXCEPT !.sent = @ \o <<[ev |-> "message_delta", reason |-> reason],
                                  [ev |-> "message_stop"]>>,
                  !.ended = TRUE]

\* Fault: a tool call that has not seen its last event is dropped.
FinalWithoutPending(s) ==
    Conclude(BracketCalls(AddText(InjectThinking(
        close_reasoning_thinking_block(FlushBuffer(s))))))

generate_final_events(s) ==
    Conclude(BracketCalls(AddText(flush_pending_tool_use(InjectThinking(
        close_reasoning_thinking_block(FlushBuffer(s)))))))

generate_error_events(s) ==
    Emit([s EXCEPT !.aborted = TRUE, !.ended = TRUE], [ev |-> "error"])

-----------------------------------------------------------------------------
Init ==
    /\ \E enabled \in BOOLEAN, format \in {"thinking", "think"} :
          ctx = Emit(NewContext(enabled, format), [ev |-> "message_start"])
    /\ now = 0
    /\ received = {}
    /\ called = {}

\* One more event of the upstream; the methods see its number.
Upstream(s) ==
    /\ ~ctx.ended /\ now < MaxEvents
    /\ ctx' = s
    /\ now' = now + 1

AssistantResponse(chunk) ==
    LET toks == [i \in DOMAIN chunk |-> [k |-> chunk[i], at |-> now + 1]]
    IN  /\ Upstream(process_assistant_response(ctx, toks))
        /\ received' = IF \E i \in DOMAIN chunk : chunk[i] \in {"text", "call"}
                         THEN received \cup {now + 1} ELSE received
        /\ UNCHANGED called

ReasoningContent ==
    /\ Upstream(process_reasoning_content(ctx, <<[k |-> "reason", at |-> now + 1]>>))
    /\ UNCHANGED <<received, called>>

ToolUse(e) ==
    /\ Upstream(process_tool_use(ctx, e, now + 1))
    /\ called' = called \cup {e.name} \cup ({e.id} \ {NoId})
    /\ UNCHANGED received

\* contextUsageEvent at 100%, or ContentLengthExceededException.
LimitReached(reason) ==
    /\ Upstream([ctx EXCEPT !.stop_reason = reason])
    /\ UNCHANGED <<received, called>>

\* The upstream body ends, or breaks on the buffered path.
Finish ==
    /\ ~ctx.ended
    /\ ctx' = generate_final_events(ctx)
    /\ UNCHANGED <<now, received, called>>

\* The upstream body breaks on the streaming path.
Fail ==
    /\ ~ctx.ended
    /\ ctx' = generate_error_events(ctx)
    /\ UNCHANGED <<now, received, called>>

ToolUseEvent ==
    {e \in [id : ToolIds \cup {NoId}, name : ToolNames, stop : BOOLEAN] :
        e.id # NoId => e.name = NameOf[e.id]}

Next ==
    \/ \E chunk \in Chunks : AssistantResponse(chunk)
    \/ ReasoningContent
    \/ \E e \in ToolUseEvent : ToolUse(e)
    \/ \E reason \in {"max_tokens", "model_context_window_exceeded"} : LimitReached(reason)
    \/ Finish
    \/ Fail

Spec == Init /\ [][Next]_vars

-----------------------------------------------------------------------------
TypeOK ==
    /\ ctx.thinking_source \in {"Unknown", "Reasoning", "Tag"}
    /\ ctx.blocks \in Seq([type : BlockType, open : BOOLEAN])
    /\ ctx.thinking_block_index \in {None} \cup DOMAIN ctx.blocks
    /\ ctx.text_block_index \in {None} \cup DOMAIN ctx.blocks
    /\ ctx.pending_tool_use = NoTool
          \/ ctx.pending_tool_use \in
                 [id : ToolIds \cup {NoId}, name : ToolNames, at : 1 .. MaxEvents]
    /\ now \in 0 .. MaxEvents
    /\ received \subseteq 1 .. now
    /\ called \subseteq ToolIds \cup ToolNames

Sent(k) == ctx.sent[k]
Positions == DOMAIN ctx.sent

IsStart(k, type) == Sent(k).ev = "start" /\ Sent(k).type = type

\* The content of a message in the order in which the client gets it.
TextAt(k) ==
    IF Sent(k).ev = "delta"
      THEN {t.at : t \in {Sent(k).toks[i] : i \in {j \in DOMAIN Sent(k).toks :
                                                     Sent(k).toks[j].k \in {"text", "call"}}}}
      ELSE {}

\* stream.rs:117, the protocol of the client: a block is started once and before
\* its deltas, which end with its stop; the message ends once, when every block
\* has; nothing follows an end or an error.  create_thinking_delta_event and the
\* injected blocks are not guarded by the state manager.
EventsWellFormed ==
    /\ \A k \in Positions : Sent(k).ev = "message_start" <=> k = 1
    /\ \A j, k \in Positions :
          Sent(j).ev = "start" /\ Sent(k).ev = "start" /\ j # k => Sent(j).index # Sent(k).index
    /\ \A k \in Positions : Sent(k).ev \in {"delta", "stop"} =>
          /\ \E j \in 1 .. k - 1 : Sent(j).ev = "start" /\ Sent(j).index = Sent(k).index
          /\ \A j \in 1 .. k - 1 : ~(Sent(j).ev = "stop" /\ Sent(j).index = Sent(k).index)
    /\ \A k \in Positions : Sent(k).ev = "message_delta" =>
          /\ \A j \in 1 .. k - 1 : Sent(j).ev = "start" =>
                \E i \in j .. k - 1 : Sent(i).ev = "stop" /\ Sent(i).index = Sent(j).index
          /\ k + 1 = Len(ctx.sent) /\ Sent(k + 1).ev = "message_stop"
    /\ \A k \in Positions : Sent(k).ev \in {"message_stop", "error"} => k = Len(ctx.sent)

\* Text reaches the client once, in order and, by the end, completely, however it
\* was cut into chunks and interrupted by tools and tags.  The one exception is
\* the inside of a tag that repeats the reasoning: of two sources of thinking
\* (thinking_source.rs:7) the client gets one.
TextComplete ==
    LET all == UNION {TextAt(k) : k \in Positions}
        missing == received \ all
        thoughts(k) == {Sent(k).toks[i].k : i \in DOMAIN Sent(k).toks}
    IN  /\ \A j, k \in Positions : j < k => \A x \in TextAt(j), y \in TextAt(k) : x < y
        /\ ctx.ended /\ ~ctx.aborted =>
              IF ctx.thinking_source = "Reasoning"
                THEN \A x, y \in missing, z \in received : x < z /\ z < y => z \in missing
                ELSE missing = {}
        /\ ~ \E j, k \in Positions :
              /\ Sent(j).ev = "delta" /\ Sent(j).kind = "thinking"
              /\ Sent(k).ev = "delta" /\ Sent(k).kind = "thinking"
              /\ "reason" \in thoughts(j)
              /\ thoughts(k) \ {"reason"} # {}

\* A finished message contains a call with every id and of every tool the upstream
\* named, whether its last event came or not, and a call at all if it tells the
\* client to run a tool.
ToolUseDelivered ==
    LET tools == {k \in Positions : IsStart(k, "tool_use")}
    IN  ctx.ended /\ ~ctx.aborted =>
            /\ called \subseteq UNION {{Sent(k).call.id, Sent(k).call.name} : k \in tools}
            /\ \A k \in Positions : Sent(k).ev = "message_delta" =>
                  (Sent(k).reason = "tool_use" => tools # {})

-----------------------------------------------------------------------------
(* Claims of comments in the code that the code does not keep.              *)

\* stream.rs:1079: text that waited for a tag is sent before the tool call that
\* came after it.
TextBeforeTool ==
    \A j, k \in Positions :
        /\ j < k /\ IsStart(j, "tool_use")
        /\ Sent(k).ev = "delta" /\ Sent(k).kind = "text"
        => \A x \in TextAt(k) : x > Sent(j).call.at

=============================================================================
