--------------------------- MODULE NonStreamAnswer ---------------------------
(* The whole answer an Anthropic client gets that did not ask for a stream    *)
(* (handle_non_stream_request in anthropic/handlers.rs): the events of the    *)
(* body are gathered one by one into a text, a thinking and tool uses, and at *)
(* the end put together.                                                      *)
(*                                                                            *)
(* Text is a sequence of tokens: words, "start" and "end" (the tags of        *)
(* thinking) and "call" (a tool call written out in brackets), each with the  *)
(* number of the event it came with.  A chunk is what normalize_chunk leaves. *)
(* The input of a tool is the sequence of its pieces: an object, which stands *)
(* for itself, or texts, of which the "last" makes those before it into JSON. *)
EXTENDS Integers, Sequences, SequencesExt

CONSTANTS
    AnswerTexts,            \* what an assistantResponseEvent may bring
    AnswerIds,              \* ids the upstream gives its calls: tuples of one element
    AnswerTools,            \* names of tools
    MaxAnswerEvents

Kinds == {"text", "call", "start", "end"}

ASSUME AnswerAssumption ==
    /\ AnswerTexts \subseteq Seq(Kinds)
    /\ \A id \in AnswerIds : id \in Seq(STRING) /\ Len(id) = 1
    /\ MaxAnswerEvents \in Nat

VARIABLES
    answer,                 \* what has been gathered
    current,                \* current_tool_use: the call whose pieces come in, or none
    content,                \* the blocks the client gets, once they are put together
    answerNow,              \* events so far
    issued                  \* the calls as the upstream made them

answerVars == <<answer, current, content, answerNow, issued>>

NoCurrent == <<>>
Unidentified == <<>>

AnswerInit ==
    /\ answer = [text |-> <<>>, thinking |-> <<>>, uses |-> <<>>, used |-> FALSE,
                 reason |-> "end_turn"]
    /\ current = NoCurrent /\ content = <<>> /\ answerNow = 0 /\ issued = <<>>

Gathering == content = <<>>

Receives == Gathering /\ answerNow < MaxAnswerEvents /\ answerNow' = answerNow + 1

ArrivedAs(kinds) == [i \in DOMAIN kinds |-> [k |-> kinds[i], at |-> answerNow + 1]]

-----------------------------------------------------------------------------
(* Tool uses.  The current one is the only element of `current`. *)

NewUse(id, name, generated) ==
    <<[id |-> id, name |-> name, input |-> <<>>, generated |-> generated]>>

\* An id of the proxy's own.
Generated == <<"toolu", answerNow + 1>>

\* serde_json::from_str of what has been buffered; an empty input stands for {}, which
\* takes the place of what does not parse.
Parses(input) ==
    input # <<>> /\ Last(input).k # "part" /\ \A i \in 1 .. Len(input) - 1 : input[i].k = "part"
Parsed(input) == IF Parses(input) THEN input ELSE <<>>

\* finish_non_stream_tool_use
Finished(uses, cur) ==
    IF cur = NoCurrent THEN uses ELSE Append(uses, [cur[1] EXCEPT !.input = Parsed(@)])

\* Fault: an id that comes late starts another call.
CurrentSplitting(cur, id, name) ==
    CASE id # Unidentified ->
           IF cur # NoCurrent /\ cur[1].id = id THEN cur ELSE NewUse(id, name, FALSE)
      [] OTHER -> IF cur = NoCurrent \/ cur[1].name # name THEN NewUse(Generated, name, TRUE)
                                                           ELSE cur

\* The call that an event with this id and name belongs to: the current one if the
\* ids agree, or if the id is the first that is told of a call of that name.
CurrentAfter(cur, id, name) ==
    CASE id # Unidentified ->
           IF cur # NoCurrent /\ cur[1].id = id THEN cur
           ELSE IF cur # NoCurrent /\ cur[1].generated /\ cur[1].name = name
             THEN <<[cur[1] EXCEPT !.id = id, !.generated = FALSE]>>
           ELSE NewUse(id, name, FALSE)
      [] OTHER -> IF cur = NoCurrent \/ cur[1].name # name THEN NewUse(Generated, name, TRUE)
                                                           ELSE cur

\* Whether the event went to another call than the current one, which then is finished.
Leaves(cur, next) ==
    /\ cur # NoCurrent /\ next[1].id # cur[1].id
    /\ ~(cur[1].generated /\ ~next[1].generated /\ next[1].name = cur[1].name)

\* apply_input_to_buffer: an object replaces the pieces before it.
BufferedInput(input, piece) ==
    LET new == <<[k |-> piece, at |-> answerNow + 1]>>
    IN  CASE piece = "none" -> input
          [] piece = "object" -> new
          [] piece \in {"part", "last"} -> input \o new

\* handle_non_stream_tool_use_event
GatherToolUse(id, name, piece, stop) ==
    \E next \in {CurrentAfter(current, id, name)} :
    \E fed \in {<<[next[1] EXCEPT !.input = BufferedInput(@, piece)]>>} :
        /\ current' = IF stop THEN NoCurrent ELSE fed
        /\ answer' =
             [answer EXCEPT
                !.used = TRUE,
                !.uses = Finished(IF Leaves(current, next) THEN Finished(@, current) ELSE @,
                                  IF stop THEN fed ELSE NoCurrent)]

\* The upstream makes a call, or goes on with its last.  It does not go on with one it
\* has stopped, and a call it has not stopped it leaves for one that can be told apart.
Issues(id, name, piece, stop) ==
    /\ Receives
    /\ issued # <<>> => \E last \in {Last(issued)} :
           last.stopped \/ last.name # name \/ (last.id # Unidentified /\ id # Unidentified)
    /\ id # Unidentified => \A i \in DOMAIN issued : issued[i].id # id
    /\ GatherToolUse(id, name, piece, stop)
    /\ issued' = Append(issued, [id |-> id, name |-> name, stopped |-> stop,
                                 input |-> BufferedInput(<<>>, piece)])
    /\ UNCHANGED content

GoneOn(call, id, piece, stop) ==
    [call EXCEPT !.id = IF id = Unidentified THEN @ ELSE id, !.stopped = stop,
                 !.input = BufferedInput(@, piece)]

GoesOn(id, piece, stop) ==
    /\ Receives
    /\ issued # <<>> /\ ~Last(issued).stopped
    /\ id # Last(issued).id => \/ id = Unidentified
                               \/ /\ Last(issued).id = Unidentified
                                  /\ \A i \in DOMAIN issued : issued[i].id # id
    /\ GatherToolUse(id, Last(issued).name, piece, stop)
    /\ issued' = [issued EXCEPT ![Len(issued)] = GoneOn(@, id, piece, stop)]
    /\ UNCHANGED content

-----------------------------------------------------------------------------
(* Text, thinking and why the answer ends. *)

append_non_stream_assistant_delta ==
    /\ Receives
    /\ \E kinds \in AnswerTexts : answer' = [answer EXCEPT !.text = @ \o ArrivedAs(kinds)]
    /\ UNCHANGED <<current, content, issued>>

append_non_stream_reasoning_delta ==
    /\ Receives
    /\ answer' = [answer EXCEPT !.thinking = @ \o ArrivedAs(<<"reason">>)]
    /\ UNCHANGED <<current, content, issued>>

\* ContextUsage at 100 % and ContentLengthExceededException.
Overflows ==
    /\ Receives
    /\ \E reason \in {"model_context_window_exceeded", "max_tokens"} :
           answer' = [answer EXCEPT !.reason = reason]
    /\ UNCHANGED <<current, content, issued>>

-----------------------------------------------------------------------------
(* Putting the answer together. *)

\* What is of these kinds, in order.
OfKind(s, kinds) == FlattenSeq([i \in DOMAIN s |-> IF s[i].k \in kinds THEN <<s[i]>> ELSE <<>>])

Calls(text) == OfKind(text, {"call"})

\* strip_bracket_spans
WithoutCalls(text) == OfKind(text, Kinds \ {"call"})

\* extract_thinking_from_complete_text
Opening(text) == SelectInSeq(text, LAMBDA t : t.k = "start")
Closing(text) == SelectInSubSeq(text, Opening(text) + 1, Len(text), LAMBDA t : t.k = "end")
HasThinking(text) == Opening(text) # 0 /\ Closing(text) # 0
ThinkingIn(text) ==
    IF HasThinking(text) THEN SubSeq(text, Opening(text) + 1, Closing(text) - 1) ELSE <<>>
TextAround(text) ==
    IF HasThinking(text)
    THEN SubSeq(text, 1, Opening(text) - 1) \o SubSeq(text, Closing(text) + 1, Len(text))
    ELSE text

Block(kind, toks) == [k |-> kind, toks |-> toks]
UseBlock(use) == [k |-> "tool_use", id |-> use.id, name |-> use.name, input |-> use.input]
NonEmpty(kind, toks) == IF toks = <<>> THEN <<>> ELSE <<Block(kind, toks)>>

\* How thinking is shown: not at all, with its text omitted, between tags of the text,
\* or in a block of its own.
Styles == {"disabled", "omitted", "think", "thinking"}

build_non_stream_content_blocks(a, text, uses, style) ==
    LET thinking == IF a.thinking # <<>> THEN a.thinking ELSE ThinkingIn(text)
        rest == TextAround(text)
        blocks ==
            IF style = "disabled" THEN NonEmpty("text", text)
            ELSE IF thinking = <<>> THEN NonEmpty("text", rest)
            ELSE IF style = "omitted" THEN <<Block("thinking", <<>>)>> \o NonEmpty("text", rest)
            ELSE IF style = "think" THEN <<Block("text", thinking \o rest)>>
            ELSE <<Block("thinking", thinking)>> \o NonEmpty("text", rest)
    IN  blocks \o [i \in DOMAIN uses |-> UseBlock(uses[i])]

End == <<[k |-> "end"]>>

\* What is left of the last call is finished.  Calls that were written out count only
\* if there was no other.
PutTogether ==
    /\ Gathering
    /\ LET uses == Finished(answer.uses, current)
           written == IF answer.used THEN <<>> ELSE Calls(answer.text)
           text == IF written = <<>> THEN answer.text ELSE WithoutCalls(answer.text)
           made == [i \in DOMAIN written |-> [id |-> <<"toolu", -i>>, name |-> "called",
                                              input |-> <<>>, generated |-> TRUE]]
       IN  /\ \E style \in Styles : content' =
                  build_non_stream_content_blocks(answer, text, uses \o made, style) \o End
           /\ answer' = [answer EXCEPT
                            !.uses = uses \o made,
                            !.reason = IF @ = "end_turn" /\ uses \o made # <<>>
                                       THEN "tool_use" ELSE @]
    /\ current' = NoCurrent
    /\ UNCHANGED <<answerNow, issued>>

AnswerNext ==
    \/ \E id \in AnswerIds \cup {Unidentified}, piece \in {"none", "part", "last", "object"},
          stop \in BOOLEAN :
           \/ \E name \in AnswerTools : Issues(id, name, piece, stop)
           \/ GoesOn(id, piece, stop)
    \/ append_non_stream_assistant_delta
    \/ append_non_stream_reasoning_delta
    \/ Overflows
    \/ PutTogether

AnswerSpec == AnswerInit /\ [][AnswerNext]_answerVars

-----------------------------------------------------------------------------
UseBlocks == OfKind(content, {"tool_use"})
Told == FlattenSeq([i \in DOMAIN content |->
            IF content[i].k \in {"text", "thinking"} THEN content[i].toks ELSE <<>>])

Words(toks) == OfKind(toks, {"text"})

\* The client gets every call of the upstream once, in order, under the id the upstream
\* gave it if it ever gave one, whatever the events it came in were like, and with the
\* whole of its input, or with an empty one if that does not parse in the end; the calls
\* that were written out only where there are no others; and every word of the text once,
\* in order, those of thinking first, or not at all if thinking came twice or is not to
\* be shown.  The answer ends for the sake of its tools only if there are any.
AnswerTellsAll ==
    content # <<>> =>
        /\ issued # <<>> =>
               /\ Len(UseBlocks) = Len(issued)
               /\ \A i \in DOMAIN issued :
                      /\ UseBlocks[i].name = issued[i].name
                      /\ UseBlocks[i].input = Parsed(issued[i].input)
                      /\ issued[i].id # Unidentified => UseBlocks[i].id = issued[i].id
        /\ \A i, j \in DOMAIN UseBlocks : i # j => UseBlocks[i].id # UseBlocks[j].id
        /\ issued = <<>> => Len(UseBlocks) = Len(Calls(answer.text))
        /\ Words(Told) \in
               {Words(answer.text), Words(TextAround(answer.text)),
                Words(ThinkingIn(answer.text)) \o Words(TextAround(answer.text))}
        /\ answer.reason = "tool_use" => UseBlocks # <<>>
        /\ answer.reason = "end_turn" => UseBlocks = <<>>

=============================================================================
