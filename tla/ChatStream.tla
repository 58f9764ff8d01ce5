------------------------------ MODULE ChatStream ------------------------------
(***************************************************************************)
(* The stream of chunks for an OpenAI chat completion (OpenAIChatStream in  *)
(* openai/stream.rs): text, thinking and tool calls of the upstream.        *)
(*                                                                          *)
(* The methods take the stream by &mut and return chunks; here they are     *)
(* operators from a stream to a stream, and chunks are appended to `out`.   *)
(* Text is a sequence of tokens [k, at]: "text", "lt" and "rt" (the halves  *)
(* of <thinking>, which may arrive apart), "end" (</thinking>) and "reason";*)
(* at is the number of the upstream event it came with.  A stream with      *)
(* format "tags" sends thinking as text between <think> and </think>, one   *)
(* with "field" in a field of its own.  Usage, names and the arguments of   *)
(* calls are left out.                                                      *)
(***************************************************************************)
EXTENDS Integers, Sequences, SequencesExt

CONSTANTS
    ChatTexts,              \* texts an assistantResponseEvent may bring, as kinds
    ChatTools,              \* the names of tools
    ChatIds,                \* the ids of calls, none of them a name
    MaxChatEvents

ASSUME ChatAssumption == ChatTools \cap ChatIds = {} /\ MaxChatEvents \in Nat

VARIABLES
    chat,                   \* the OpenAIChatStream
    chatNow,                \* upstream events so far
    chatReceived            \* the text and tool calls of the upstream, in order

chatVars == <<chat, chatNow, chatReceived>>

NewChat(enabled, format) ==
    [thinking_enabled |-> enabled, thinking_format |-> format, out |-> <<>>,
     text_buffer |-> <<>>, in_thinking_block |-> FALSE, drop_tag_thinking |-> FALSE,
     thinking_source |-> "Unknown", reasoning_open |-> FALSE,
     calls |-> <<>>, generated |-> {}, preferred |-> {}, finish_reason |-> "stop",
     finished |-> "no"]

Chunk(s, k, toks) == [s EXCEPT !.out = Append(@, [k |-> k, toks |-> toks, call |-> "none"])]

ContentChunk(s, toks) == IF toks = <<>> THEN s ELSE Chunk(s, "content", toks)

-----------------------------------------------------------------------------
(* Thinking *)

\* reasoning_chunk: with tags the first and the last chunk have the tags in them.
ReasoningChunk(s, toks, phase) ==
    LET opened == IF phase = "Start" THEN Chunk(s, "<think>", <<>>) ELSE s
        said == IF toks = <<>> THEN opened ELSE Chunk(opened, "reasoning", toks)
        closed == IF phase = "End" THEN Chunk(said, "</think>", <<>>) ELSE said
    IN  IF ~s.thinking_enabled THEN s
        ELSE IF s.thinking_format = "tags" THEN closed
        ELSE IF toks = <<>> THEN s ELSE Chunk(s, "reasoning", toks)

ReasoningDelta(s, toks) ==
    IF ~s.thinking_enabled THEN s
    ELSE ReasoningChunk([s EXCEPT !.reasoning_open = TRUE], toks,
                        IF s.reasoning_open THEN "Continue" ELSE "Start")

CloseReasoning(s) ==
    LET closed == [s EXCEPT !.reasoning_open = FALSE]
    IN  IF s.reasoning_open THEN ReasoningChunk(closed, <<>>, "End") ELSE closed

CloseReasoningWithContent(s, toks) ==
    LET closed == [s EXCEPT !.reasoning_open = FALSE]
    IN  IF s.reasoning_open THEN ReasoningChunk(closed, toks, "End")
        ELSE ReasoningChunk(ReasoningChunk(closed, toks, "Start"), <<>>, "End")

-----------------------------------------------------------------------------
(* Text *)

\* Text that is not thinking.
SendText(s, toks) == IF toks = <<>> THEN s ELSE ContentChunk(CloseReasoning(s), toks)

TagStart(toks) ==
    SelectInSeq([i \in DOMAIN toks |-> i < Len(toks) /\ toks[i].k = "lt" /\ toks[i + 1].k = "rt"],
                LAMBDA b : b)
TagEnd(toks) == SelectInSeq(toks, LAMBDA t : t.k = "end")

Upto(toks, n) == SubSeq(toks, 1, n)
Behind(toks, n) == SubSeq(toks, n + 1, Len(toks))

\* ThinkingSourceArbiter: the first source of thinking is the only one.
AllowTag(s) == s.thinking_source # "Reasoning"

\* process_text_delta: what may be sent of the buffer is sent.  Long texts are sent
\* but for the last bytes, in which a tag may begin; keep is the number of tokens
\* that stays, more than there are if the text is short.
RECURSIVE Drain(_, _, _)
Drain(s, flush, keep) ==
    LET b == s.text_buffer
        start == TagStart(b)
        end == TagEnd(b)
        long == IF Len(b) > keep THEN Len(b) - keep ELSE 0
    IN  CASE ~s.in_thinking_block /\ start > 0 ->
               Drain([SendText(s, Upto(b, start - 1)) EXCEPT
                        !.text_buffer = Behind(b, start + 1),
                        !.in_thinking_block = TRUE,
                        !.drop_tag_thinking = ~AllowTag(s),
                        !.thinking_source = IF AllowTag(s) THEN "Tag" ELSE @], flush, keep)
          [] ~s.in_thinking_block /\ start = 0 ->
               IF flush THEN [SendText(s, b) EXCEPT !.text_buffer = <<>>]
               ELSE [SendText(s, Upto(b, long)) EXCEPT !.text_buffer = Behind(b, long)]
          [] s.in_thinking_block /\ end > 0 ->
               LET a == IF s.drop_tag_thinking THEN s
                        ELSE CloseReasoningWithContent(s, Upto(b, end - 1))
               IN  Drain([a EXCEPT !.text_buffer = Behind(b, end), !.in_thinking_block = FALSE,
                                   !.drop_tag_thinking = FALSE], flush, keep)
          [] s.in_thinking_block /\ end = 0 /\ flush ->
               LET a == IF b # <<>> /\ ~s.drop_tag_thinking
                          THEN CloseReasoningWithContent(s, b) ELSE CloseReasoning(s)
               IN  [a EXCEPT !.text_buffer = <<>>, !.in_thinking_block = FALSE,
                             !.drop_tag_thinking = FALSE]
          [] OTHER ->
               LET a == IF long = 0 \/ s.drop_tag_thinking THEN s
                        ELSE ReasoningDelta(s, Upto(b, long))
               IN  [a EXCEPT !.text_buffer = Behind(b, long)]

ProcessText(s, toks, keep) ==
    Drain([s EXCEPT !.text_buffer = @ \o toks], FALSE, keep)

\* Fault: what is held back stays where it is.
FlushNothing(s) == CloseReasoning(s)

FlushPending(s) == CloseReasoning(Drain(s, TRUE, 0))

-----------------------------------------------------------------------------
(* process_event *)

Tokens(kinds, now) == [i \in DOMAIN kinds |-> [k |-> kinds[i], at |-> now]]

ChatInit ==
    /\ \E e \in BOOLEAN, f \in {"tags", "field"} : chat = NewChat(e, f)
    /\ chatNow = 0
    /\ chatReceived = <<>>

Arrives == chat.finished = "no" /\ chatNow < MaxChatEvents /\ chatNow' = chatNow + 1

ChatText(kinds) ==
    /\ Arrives
    /\ LET toks == Tokens(kinds, chatNow')
       IN  /\ \E keep \in {1, Len(chat.text_buffer) + Len(kinds)} :
                  chat' = ProcessText(chat, toks, keep)
           /\ chatReceived' = chatReceived \o toks

ChatReasoning ==
    /\ Arrives
    /\ chat' = IF ~chat.thinking_enabled \/ chat.thinking_source = "Tag" THEN chat
               ELSE ReasoningDelta([chat EXCEPT !.thinking_source = "Reasoning"],
                                   Tokens(<<"reason">>, chatNow'))
    /\ UNCHANGED chatReceived

\* The id a call goes by: its own, or one generated for its tool as long as it has
\* none, which then stays (resolve_stateful_tool_use_id).  The generated id of a
\* tool is written as its name.
CallId(s, name, id) ==
    IF id = name \/ (name \in s.generated /\ Contains(s.calls, name)) THEN name ELSE id

ChatToolUse(name, id) ==
    /\ Arrives
    /\ LET flushed == FlushPending(chat)
           call == CallId(chat, name, id)
           a == [flushed EXCEPT
                   !.generated = IF id = name THEN @ \cup {name} ELSE @,
                   !.preferred = IF call = name /\ id # name THEN @ \cup {<<name, id>>} ELSE @]
       IN  chat' = IF Contains(a.calls, call) THEN a
                   ELSE [a EXCEPT !.calls = Append(@, call), !.finish_reason = "tool_calls",
                           !.out = Append(@, [k |-> "call", call |-> call,
                                              toks |-> Tokens(<<"call">>, chatNow')])]
    /\ chatReceived' = chatReceived \o Tokens(<<"call">>, chatNow')

\* ContentLengthExceededException
ChatTooLong ==
    /\ Arrives
    /\ chat' = [chat EXCEPT !.finish_reason = "stop"]
    /\ UNCHANGED chatReceived

\* finish_events, at the end of the upstream's stream; abort_events, if it breaks.
ChatFinish ==
    /\ chat.finished = "no"
    /\ chat' = [FlushPending(chat) EXCEPT !.finished = "finished"]
    /\ UNCHANGED <<chatNow, chatReceived>>

ChatAbort ==
    /\ chat.finished = "no"
    /\ chat' = [chat EXCEPT !.finished = "aborted"]
    /\ UNCHANGED <<chatNow, chatReceived>>

ChatNext ==
    \/ \E kinds \in ChatTexts : ChatText(kinds)
    \/ \E name \in ChatTools : \E id \in ChatIds \cup {name} : ChatToolUse(name, id)
    \/ ChatReasoning \/ ChatTooLong \/ ChatFinish \/ ChatAbort

ChatSpec == ChatInit /\ [][ChatNext]_chatVars

-----------------------------------------------------------------------------
\* The tokens of what was received that are not thinking: not between the tags,
\* where a tool call ends what has no end tag.
VisibleText(toks) ==
    LET opens(i) == i < Len(toks) /\ toks[i].k = "lt" /\ toks[i + 1].k = "rt"
        inside[i \in 0 .. Len(toks)] ==
            IF i = 0 THEN FALSE
            ELSE CASE toks[i].k \in {"end", "call"} -> FALSE
                   [] opens(i) -> TRUE
                   [] OTHER -> inside[i - 1]
        hidden(i) == (toks[i].k # "call" /\ inside[i - 1]) \/ inside[i]
    IN  [i \in DOMAIN SelectSeq([j \in DOMAIN toks |-> j], LAMBDA j : ~hidden(j)) |->
            toks[SelectSeq([j \in DOMAIN toks |-> j], LAMBDA j : ~hidden(j))[i]]]

ChatSent(ks) ==
    LET said == SelectSeq(chat.out, LAMBDA c : c.k \in ks)
    IN  FlattenSeq([i \in DOMAIN said |-> said[i].toks])

\* Text reaches the client once, in order, and before the tool calls that follow it,
\* wherever it is cut, held back or flushed; at the end all of it has.
ChatTextInOrder ==
    LET sent == SelectSeq(ChatSent({"content", "call"}), LAMBDA t : t.k # "call")
        due == SelectSeq(VisibleText(chatReceived), LAMBDA t : t.k # "call")
        both == ChatSent({"content", "call"})
    IN  /\ IsPrefix(sent, due)
        /\ chat.finished = "finished" => sent = due
        /\ \A i, j \in DOMAIN both : i < j => both[i].at <= both[j].at

=============================================================================
