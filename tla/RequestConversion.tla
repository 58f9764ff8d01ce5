-------------------------- MODULE RequestConversion --------------------------
(***************************************************************************)
(* From the messages of a client to the conversation Kiro is sent           *)
(* (anthropic/converter.rs, convert_request_with_thinking_suffix).          *)
(*                                                                          *)
(* Kiro wants a user turn before every assistant turn, tool uses only where *)
(* they are answered, and a definition for every tool that is used; clients *)
(* send histories in which turns are missing, doubled, or cut off.          *)
(*                                                                          *)
(* A text is the sequence of its parts: what was said, the results of tools *)
(* by the id of their use, or "." where something must be said.  Thinking,  *)
(* schemas and the contents of images are left out, and the names of tools  *)
(* are those that map_tool_name makes.                                      *)
(***************************************************************************)
EXTENDS Integers, Sequences, SequencesExt

CONSTANTS
    Says,                   \* the messages a client may send
    MaxMessages,
    ToolNames,
    MIN_RECENT_MESSAGES,    \* turns that are kept whatever their size: 4
    BodyLimits              \* limits an administrator may set, 0 for none

Uses == Seq([id : STRING, name : STRING])
ClientMessages ==
    [role : STRING, text : STRING, image : BOOLEAN, results : Seq(STRING), uses : Uses]

ASSUME ConversionAssumption ==
    MaxMessages \in Nat /\ Says \subseteq ClientMessages /\ IsFiniteSet(ToolNames)

\* Two turns are the fewest that keep a tool use together with the user turn before it.
ASSUME BudgetAssumption == MIN_RECENT_MESSAGES \in Nat \ {0, 1} /\ BodyLimits \subseteq Nat

VARIABLES
    messages,               \* of the request, in the order the client has them
    system,                 \* it has a system prompt, or asks for thinking
    tools                   \* the tools it defines

conversionVars == <<messages, system, tools>>

ConversionInit == messages = <<>> /\ system \in BOOLEAN /\ tools \in SUBSET ToolNames

\* One more message.  It has a role, a text ("called" is a tool call that was
\* written out), perhaps an image, the ids of the uses it has results for, and
\* uses [id, name] of its own.
Send(say) ==
    /\ Len(messages) < MaxMessages
    /\ messages' = Append(messages, say)
    /\ UNCHANGED <<system, tools>>

ConversionNext == \E say \in Says : Send(say)

ConversionSpec == ConversionInit /\ [][ConversionNext]_conversionVars

-----------------------------------------------------------------------------
(* Which messages are converted. *)

Fallback == <<".">>
Said(text) == IF text = "" THEN <<>> ELSE <<text>>

\* What comes after the last user message is dropped.
Considered(msgs) == SubSeq(msgs, 1, SelectLastInSeq(msgs, LAMBDA m : m.role = "user"))

HasValidContent(m) == m.text # "" \/ m.image \/ m.results # <<>> \/ m.uses # <<>>

Accepted(msgs) == Considered(msgs) # <<>> /\ HasValidContent(Last(Considered(msgs)))

-----------------------------------------------------------------------------
(* build_history *)

UserTurn(content, image, results) ==
    [role |-> "user", content |-> content, image |-> image, results |-> results, uses |-> <<>>]
AssistantTurn(content, uses) ==
    [role |-> "assistant", content |-> content, image |-> FALSE, results |-> <<>>, uses |-> uses]

SaidIn(msgs) == FlattenSeq([i \in DOMAIN msgs |-> Said(msgs[i].text)])

MergeUsers(msgs) ==
    LET content == SaidIn(msgs)
        results == FlattenSeq([i \in DOMAIN msgs |-> msgs[i].results])
        image == \E i \in DOMAIN msgs : msgs[i].image
    IN  UserTurn(IF content = <<>> /\ results = <<>> /\ ~image THEN Fallback ELSE content,
                 image, results)

MergeAssistants(msgs) ==
    AssistantTurn(SaidIn(msgs), FlattenSeq([i \in DOMAIN msgs |-> msgs[i].uses]))

EndsWith(history, role) == history # <<>> /\ Last(history).role = role

FlushUsers(b) ==
    IF b.users = <<>> THEN b.history ELSE Append(b.history, MergeUsers(b.users))
FlushAssistants(b) ==
    IF b.assistants = <<>> THEN b.history ELSE Append(b.history, MergeAssistants(b.assistants))

\* The loop over the messages: those of one role in a row become one turn, and an
\* assistant message with no user turn before it is dropped.
BuildStep(b, m) ==
    CASE m.role = "user" ->
           [history |-> FlushAssistants(b), users |-> Append(b.users, m), assistants |-> <<>>]
      [] m.role = "assistant" ->
           LET history == FlushUsers(b)
           IN  [history |-> history, users |-> <<>>,
                assistants |-> IF EndsWith(history, "user") THEN Append(b.assistants, m)
                                                            ELSE b.assistants]
      [] OTHER -> b

Priming == IF system THEN <<UserTurn(<<"system">>, FALSE, <<>>), AssistantTurn(<<"follow">>, <<>>)>>
                     ELSE <<>>

Built(msgs) ==
    LET built[n \in 0 .. Len(msgs)] ==
            IF n = 0 THEN [history |-> Priming, users |-> <<>>, assistants |-> <<>>]
                     ELSE BuildStep(built[n - 1], msgs[n])
    IN  built[Len(msgs)]

FlushBoth(b) == FlushUsers([b EXCEPT !.history = FlushAssistants(b)])

\* All but the last message, after the priming turns.
BuildHistory(msgs) == FlushBoth(Built(Front(msgs)))

-----------------------------------------------------------------------------
(* sanitize_kiro_history *)

\* The last turn uses tools, and the results answer all of its uses.
\* (current_tool_results_match_last_assistant, active_idx)
Answers(history, ids) ==
    /\ EndsWith(history, "assistant")
    /\ Last(history).uses # <<>>
    /\ \A u \in ToSet(Last(history).uses) : u.id \in ids

WithoutCalled(content) ==
    LET rest[n \in 0 .. Len(content)] ==
            IF n = 0 THEN <<>>
            ELSE IF content[n] = "called" THEN rest[n - 1] ELSE Append(rest[n - 1], content[n])
    IN  rest[Len(content)]

\* Tool calls that were written out are cut; uses stay only in the active turn.
SanitizeAssistant(turn, active) ==
    AssistantTurn(WithoutCalled(turn.content), IF active THEN turn.uses ELSE <<>>)

\* Fault: the results of an earlier turn are dropped where they are narrated.
SanitizeUserSilently(turn) ==
    UserTurn(IF turn.content = <<>> /\ ~turn.image THEN Fallback ELSE turn.content, turn.image, <<>>)

\* The results of tools are told as text.
SanitizeUser(turn) ==
    LET content == turn.content \o turn.results
    IN  UserTurn(IF content = <<>> /\ ~turn.image THEN Fallback ELSE content, turn.image, <<>>)

Hollow(turn) == turn.role = "assistant" /\ turn.content \in {<<>>, Fallback} /\ turn.uses = <<>>

Repeats(history, turn) ==
    /\ turn.role = "user" /\ turn.content # <<>> /\ ~turn.image
    /\ EndsWith(history, "user") /\ Last(history).content = turn.content

KeepTurn(history, turn) ==
    IF Hollow(turn) \/ Repeats(history, turn) THEN history ELSE Append(history, turn)

\* What is left of the turns, one after the other.
Kept(turns) ==
    LET kept[n \in 0 .. Len(turns)] == IF n = 0 THEN <<>> ELSE KeepTurn(kept[n - 1], turns[n])
    IN  kept[Len(turns)]

Sanitized(history, active) ==
    [i \in DOMAIN history |->
        IF history[i].role = "user" THEN SanitizeUser(history[i])
                                    ELSE SanitizeAssistant(history[i], i = active)]

FromFirstUser(turns) ==
    LET first == SelectInSeq(turns, LAMBDA t : t.role = "user")
    IN  IF first = 0 THEN <<>> ELSE SubSeq(turns, first, Len(turns))

SanitizeHistory(history, ids) ==
    FromFirstUser(Kept(Sanitized(history, IF Answers(history, ids) THEN Len(history) ELSE 0)))

-----------------------------------------------------------------------------
(* The conversation that is sent. *)

\* convert_tools, collect_history_tool_names and create_placeholder_tool
DefinedTools(history) ==
    tools \cup {u.name : u \in UNION {ToSet(history[i].uses) : i \in DOMAIN history}}

\* The results of the last message are attached if they answer the last turn of the
\* history; else they are told, if there is no text and no image to send instead.
Attach(history, last, answered) ==
    [history |-> history,
     results |-> IF answered THEN last.results ELSE <<>>,
     content |-> IF last.text # "" THEN <<last.text>>
                 ELSE IF last.image THEN <<"image">>
                 ELSE IF last.results # <<>> THEN last.results ELSE Fallback,
     image |-> last.image,
     tools |-> DefinedTools(history)]

ConvertLast(built, last, answered) ==
    Attach(SanitizeHistory(built, IF answered THEN ToSet(last.results) ELSE {}), last, answered)

AnswerHistory(built, last) == ConvertLast(built, last, Answers(built, ToSet(last.results)))

Convert(msgs) == AnswerHistory(BuildHistory(msgs), Last(msgs))

-----------------------------------------------------------------------------
(* How it is made to fit the limit of the upstream's body                    *)
(* (serialize_and_fit_body in anthropic/handlers.rs, for both protocols):     *)
(* the oldest turns are dropped, then the last message is cut, and what is    *)
(* too large even then is refused.  A text, a result, a use and an image are  *)
(* of size one.                                                               *)
Placeholder == UserTurn(<<"truncated">>, FALSE, <<>>)

serialized_history_entry_size(turn) ==
    1 + Len(turn.content) + Len(turn.results) + Len(turn.uses) + (IF turn.image THEN 1 ELSE 0)

SizeOf(history) ==
    LET upTo[n \in 0 .. Len(history)] ==
            IF n = 0 THEN 0 ELSE upTo[n - 1] + serialized_history_entry_size(history[n])
    IN  upTo[Len(history)]

\* serde_json::to_string: the tools and the envelope take one each.
BodySize(c) ==
    1 + Cardinality(c.tools) + Len(c.results) + (IF c.image THEN 1 ELSE 0)
      + Len(c.content) + SizeOf(c.history)

\* The turns of the system prompt are never dropped.
system_priming_count(history) ==
    IF /\ system /\ Len(history) >= 2
       /\ history[1].role = "user" /\ history[2] = AssistantTurn(<<"follow">>, <<>>)
    THEN 2 ELSE 0

\* Fault: one turn fewer is kept.
KeepFromLater(turns, base, limit) ==
    LET n == Len(turns)
    IN  Min({n + 1} \cup
            {i \in 1 .. n : \A j \in i .. n :
                base + SizeOf(SubSeq(turns, j, n)) <= limit \/ n - j + 1 < MIN_RECENT_MESSAGES})

\* The loop from the last turn backwards: it goes on while what is kept fits, or is
\* not yet MIN_RECENT_MESSAGES turns.  The first turn that is kept.
KeepFrom(turns, base, limit) ==
    LET n == Len(turns)
    IN  Min({n + 1} \cup
            {i \in 1 .. n : \A j \in i .. n :
                base + SizeOf(SubSeq(turns, j, n)) <= limit \/ n - j + 1 <= MIN_RECENT_MESSAGES})

drop_leading_assistant(tail) == FromFirstUser(tail)

\* truncate_string_to_byte_budget with what the rest of the body leaves.
truncate_current_message_to_fit(c, limit) ==
    LET rest == BodySize(c) - Len(c.content)
        budget == IF rest < limit THEN limit - rest ELSE 0
    IN  IF Len(c.content) <= budget THEN c
        ELSE [c EXCEPT !.content = IF budget = 0 THEN Fallback ELSE SubSeq(@, 1, budget)]

truncate_payload_to_body_limit(c, limit) ==
    LET primed == system_priming_count(c.history)
        priming == SubSeq(c.history, 1, primed)
        conversation == SubSeq(c.history, primed + 1, Len(c.history))
        base == BodySize([c EXCEPT !.history = Append(priming, Placeholder)])
        from == KeepFrom(conversation, base, limit)
        tail == drop_leading_assistant(SubSeq(conversation, from, Len(conversation)))
        shorter == [c EXCEPT !.history =
                       priming \o (IF from > 1 THEN <<Placeholder>> ELSE <<>>) \o tail]
    IN  IF BodySize(shorter) > limit THEN truncate_current_message_to_fit(shorter, limit)
                                     ELSE shorter

\* serialize_and_fit_body: the request, which is refused if it is still too large.
Fitted(c, limit) ==
    IF limit = 0 \/ BodySize(c) <= limit THEN c ELSE truncate_payload_to_body_limit(c, limit)

TooLarge(c, limit) == limit # 0 /\ BodySize(c) > limit

-----------------------------------------------------------------------------
\* No tool use without its result, no result without a use before it, no use of a tool
\* that is not defined.
UsesAnswered(c, n) ==
    /\ \A i \in 1 .. n : c.history[i].uses # <<>> =>
           /\ i = n
           /\ \A u \in ToSet(c.history[i].uses) :
                  Contains(c.results, u.id) /\ u.name \in c.tools
    /\ c.results # <<>> => n > 0 /\ c.history[n].uses # <<>>
    /\ \A i \in 1 .. n : c.history[i].results = <<>>

\* What users said, and what their tools said, arrives, somewhere in the history or
\* in the last message: only a result that comes with a text or an image, and that
\* does not belong to the last turn, is lost.
NothingUsersSayIsLost ==
    Accepted(messages) =>
        \A msgs \in {Considered(messages)} : \A c \in {Convert(msgs)} :
        \A told \in {(UNION {ToSet(c.history[i].content) : i \in DOMAIN c.history})
                        \cup ToSet(c.content) \cup ToSet(c.results)} :
        \A i \in DOMAIN msgs : msgs[i].role = "user" =>
            /\ ToSet(Said(msgs[i].text)) \subseteq told
            /\ i < Len(msgs) \/ (msgs[i].text = "" /\ ~msgs[i].image) =>
                   ToSet(msgs[i].results) \subseteq told

\* Whatever the limit, what is cut to fit is still a conversation the upstream takes:
\* every tool use has its result and every result its use, an assistant turn follows
\* a user's, no turn is empty.  The system prompt stays, a gap is told of, the newest
\* turns are those that stay, and the last message is cut only when no more turns can be
\* dropped.
TruncationIsSafe ==
    Accepted(messages) =>
        \A c \in {Convert(Considered(messages))} : \A limit \in BodyLimits :
        \A f \in {Fitted(c, limit)} : ~TooLarge(f, limit) =>
            /\ UsesAnswered(f, Len(f.history))
            /\ \A i \in DOMAIN f.history :
                   /\ f.history[i].role = "assistant" => i > 1 /\ f.history[i - 1].role = "user"
                   /\ f.history[i].content # <<>> \/ f.history[i].image \/ f.history[i].uses # <<>>
            /\ system => SubSeq(f.history, 1, 2) = SubSeq(c.history, 1, 2)
            /\ f.history # c.history =>
                   \E i \in DOMAIN f.history :
                       /\ f.history[i] = Placeholder
                       /\ IsSuffix(SubSeq(f.history, i + 1, Len(f.history)), c.history)
                       /\ f.content # c.content => Len(f.history) - i <= MIN_RECENT_MESSAGES
            /\ IsPrefix(f.content, c.content) \/ f.content = Fallback

=============================================================================
