-------------------------- MODULE OpenAiConversion --------------------------
(* From the messages and items of an OpenAI client to the messages of an      *)
(* Anthropic request (openai/converter.rs).  Items of the Responses API are   *)
(* first turned into messages of the Chat API; those then into user and       *)
(* assistant messages, the results of tools into user messages of their own,  *)
(* which must not come before a message that was there first.                 *)
(*                                                                            *)
(* A content is [form, parts]: a string, an array, or null.  A part has a     *)
(* kind, "text", "image" (inline), "link" (an image by its address) or        *)
(* "opaque" (nothing that can be read), and what it says.  The arguments of   *)
(* calls are left out.                                                        *)
EXTENDS Naturals, Sequences, FiniteSets, SequencesExt

CONSTANTS
    ChatSays,               \* messages a client of Chat Completions may send
    ReplyItems,             \* items a client of Responses may send
    ToolLists,              \* tools either may define
    MaxItems

ASSUME OpenAiAssumption == MaxItems \in Nat

VARIABLES
    entry,                  \* "chat" or "responses"
    items,                  \* what the client has sent, in order
    offered                 \* the tools it defines

openAiVars == <<entry, items, offered>>

OpenAiInit ==
    /\ entry \in {"chat", "responses"} /\ items = <<>>
    /\ offered \in ToolLists \cup {<<>>}

\* Tools are converted apart from messages, so those have requests of their own.
SendItem ==
    /\ Len(items) < MaxItems /\ offered = <<>>
    /\ \E i \in IF entry = "chat" THEN ChatSays ELSE ReplyItems : items' = Append(items, i)
    /\ UNCHANGED <<entry, offered>>

OpenAiSpec == OpenAiInit /\ [][SendItem]_openAiVars

-----------------------------------------------------------------------------
(* Contents. *)

Null == [form |-> "null", parts |-> <<>>]
Part(kind, says) == [kind |-> kind, says |-> says]
Text(says) == [form |-> "string", parts |-> IF says = "" THEN <<>> ELSE <<Part("text", says)>>]

Texts(parts) == SelectSeq(parts, LAMBDA p : p.kind = "text")

\* extract_message_text: an array in which there is no text is given as its JSON.
extract_message_text(c) ==
    IF c.form = "array" /\ Texts(c.parts) = <<>> THEN <<Part("text", "json")>> ELSE Texts(c.parts)

\* openai_image_part_to_block: only what is there inline can be sent on.
openai_image_parts(parts) == SelectSeq(parts, LAMBDA p : p.kind = "image")

\* A block of text holds all texts of its message.
TextBlock(texts) == IF texts = <<>> THEN <<>> ELSE <<[type |-> "text", texts |-> texts]>>
ImageBlocks(images) ==
    [i \in DOMAIN images |-> [type |-> "image", says |-> images[i].says]]

content_to_anthropic_blocks(c) ==
    TextBlock(Texts(c.parts)) \o ImageBlocks(openai_image_parts(c.parts))

assistant_content_to_anthropic_blocks(c) == TextBlock(extract_message_text(c))

tool_message_content_to_tool_result_content(c) ==
    LET blocks == content_to_anthropic_blocks(c)
    IN  IF blocks = <<>> THEN TextBlock(extract_message_text(c)) ELSE blocks

-----------------------------------------------------------------------------
(* Responses: from items to the messages of Chat Completions. *)

Chat(role, content, calls, id) ==
    [role |-> role, content |-> content, calls |-> calls, id |-> id]

\* responses_chat_content_value: an array of texts becomes one string.
responses_chat_content_value(parts) ==
    LET kept == SelectSeq(parts, LAMBDA p : p.kind # "opaque")
    IN  [form |-> IF \A i \in DOMAIN kept : kept[i].kind = "text" THEN "string" ELSE "array",
         parts |-> kept]

\* responses_chat_message_from_input_item
FromItem(item) ==
    CASE item.content.form = "string" -> <<Chat(item.role, item.content, <<>>, "")>>
      [] item.content.form = "array" ->
             <<Chat(item.role, responses_chat_content_value(item.content.parts), <<>>, "")>>
      [] item.content.form = "null" -> <<>>

\* flush_pending_user
FlushUser(b) ==
    [messages |-> IF b.pending = <<>> THEN b.messages
                  ELSE Append(b.messages,
                              Chat("user", [form |-> "array", parts |-> b.pending], <<>>, "")),
     pending |-> <<>>]

\* Calls in a row become one message, unless it has a text.
TakesCall(messages) ==
    /\ messages # <<>>
    /\ Last(messages).role = "assistant" /\ Last(messages).calls # <<>>
    /\ extract_message_text(Last(messages).content) = <<>>

WithCall(messages, id) ==
    IF TakesCall(messages)
    THEN [messages EXCEPT ![Len(messages)].calls = Append(@, id)]
    ELSE Append(messages, Chat("assistant", Text(""), <<id>>, ""))

\* The loop of convert_responses_input_items_to_chat_messages.
TakeItem(b, item) ==
    LET flushed == FlushUser(b)
    IN  CASE item.type = "message" -> [flushed EXCEPT !.messages = @ \o FromItem(item)]
          [] item.type = "function_call_output" ->
                 [flushed EXCEPT !.messages = Append(@, Chat("tool", item.content, <<>>, item.id))]
          [] item.type = "function_call" -> [flushed EXCEPT !.messages = WithCall(@, item.id)]
          [] item.type = "part" ->
                 IF item.part.kind = "opaque" THEN b
                 ELSE [b EXCEPT !.pending = Append(@, item.part)]
          [] item.type = "output_text" ->
                 [flushed EXCEPT !.messages =
                     IF item.content = Text("") THEN @
                     ELSE Append(@, Chat("assistant", item.content, <<>>, ""))]
          [] item.type = "reasoning" -> b

convert_responses_input_items_to_chat_messages(list) ==
    FlushUser(FoldLeft(TakeItem, [messages |-> <<>>, pending |-> <<>>], list)).messages

\* responses_openai_messages_to_messages_request refuses a request without a user.
Refused(messages) == \A i \in DOMAIN messages : messages[i].role # "user"

-----------------------------------------------------------------------------
(* Chat Completions: from messages to the turns of an Anthropic request. *)

Turn(role, blocks) == [role |-> role, blocks |-> blocks]

\* Fault: the results that are waiting are forgotten.
NoFlush(b) == b.turns

\* Results of tools become a message of the user's before the next message.
FlushResults(b) ==
    IF b.pending = <<>> THEN b.turns ELSE Append(b.turns, Turn("user", b.pending))

\* The loop of chat_completions_to_messages_request.
TakeMessage(b, m) ==
    CASE m.role \in {"system", "developer"} ->
           [b EXCEPT !.system = @ \o extract_message_text(m.content)]
      [] m.role = "tool" ->
           [b EXCEPT !.pending = Append(@,
              [type |-> "tool_result", id |-> m.id,
               content |-> tool_message_content_to_tool_result_content(m.content)])]
      [] m.role = "user" ->
           [b EXCEPT !.turns = Append(FlushResults(b),
                                      Turn("user", content_to_anthropic_blocks(m.content))),
                     !.pending = <<>>]
      [] m.role = "assistant" ->
           [b EXCEPT !.turns = Append(FlushResults(b), Turn("assistant",
                        assistant_content_to_anthropic_blocks(m.content)
                        \o [i \in DOMAIN m.calls |-> [type |-> "tool_use", id |-> m.calls[i]]])),
                     !.pending = <<>>]
      [] OTHER -> b

chat_completions_to_messages_request(messages) ==
    LET b == FoldLeft(TakeMessage, [system |-> <<>>, turns |-> <<>>, pending |-> <<>>], messages)
    IN  [system |-> b.system, turns |-> FlushResults(b)]

ChatMessages ==
    IF entry = "chat" THEN items ELSE convert_responses_input_items_to_chat_messages(items)

-----------------------------------------------------------------------------
(* Tools.  A tool is [type, outer, inner, tools]: its name beside its type or *)
(* in its "function", and those of a namespace.                               *)

is_web_search_alias(type) == type \in {"web_search", "web_search_preview", "browser"}

\* The name in the function counts, if it is not empty.
NameOfTool(t) == IF t.inner # "" THEN t.inner ELSE t.outer

NamedTool(t) == IF NameOfTool(t) \in {"", "blank"} THEN <<>> ELSE <<NameOfTool(t)>>

chat_tool_to_anthropic_tool(t) ==
    IF is_web_search_alias(t.type) THEN <<"web_search">>
    ELSE IF t.type = "function" THEN NamedTool(t) ELSE <<>>

FlatTool(t) ==
    IF is_web_search_alias(t.type) THEN <<"web_search">>
    ELSE IF t.type \in {"function", ""} THEN NamedTool(t) ELSE <<>>

\* A namespace is replaced by its tools (of one level here).
responses_tool_to_anthropic(t) ==
    IF t.type = "namespace" THEN FlattenSeq([i \in DOMAIN t.tools |-> FlatTool(t.tools[i])])
                            ELSE FlatTool(t)

ToolsOf(list, convert(_)) == FlattenSeq([i \in DOMAIN list |-> convert(list[i])])

-----------------------------------------------------------------------------
(* What was said, by whom, one thing at a time. *)

Atom(side, type, says) == [side |-> side, type |-> type, says |-> says]

SaidBy(side, parts) ==
    LET kept == SelectSeq(parts, LAMBDA p : \/ p.kind = "text"
                                            \/ p.kind = "image" /\ side = "user")
    IN  [i \in DOMAIN kept |-> Atom(side, kept[i].kind, kept[i].says)]

Called(ids) == [i \in DOMAIN ids |-> Atom("assistant", "call", ids[i])]

SentAtoms(item) ==
    CASE entry = "chat" /\ item.role = "tool" -> <<Atom("user", "result", item.id)>>
      [] entry = "chat" /\ item.role \in {"user", "assistant"} ->
             SaidBy(item.role, item.content.parts) \o Called(item.calls)
      [] entry = "responses" /\ item.type = "part" -> SaidBy("user", <<item.part>>)
      [] entry = "responses" /\ item.type = "message" /\ item.role \in {"user", "assistant"} ->
             SaidBy(item.role, item.content.parts)
      [] entry = "responses" /\ item.type = "output_text" ->
             SaidBy("assistant", item.content.parts)
      [] entry = "responses" /\ item.type = "function_call" -> Called(<<item.id>>)
      [] entry = "responses" /\ item.type = "function_call_output" ->
             <<Atom("user", "result", item.id)>>
      [] OTHER -> <<>>

BlockAtoms(role, b) ==
    CASE b.type = "text" -> SaidBy(role, SelectSeq(b.texts, LAMBDA p : p.says # "json"))
      [] b.type = "image" -> <<Atom(role, "image", b.says)>>
      [] b.type = "tool_use" -> <<Atom(role, "call", b.id)>>
      [] b.type = "tool_result" -> <<Atom(role, "result", b.id)>>

TurnAtoms(t) == FlattenSeq([i \in DOMAIN t.blocks |-> BlockAtoms(t.role, t.blocks[i])])

\* The things of one type, each with the number of times the speaker changed before.
Placed(atoms, type) ==
    LET changes(i) == Cardinality({j \in 2 .. i : atoms[j].side # atoms[j - 1].side})
        placed == [i \in DOMAIN atoms |-> [turn |-> changes(i), atom |-> atoms[i]]]
    IN  SelectSeq(placed, LAMBDA p : p.atom.type = type)

\* Whatever a client interleaves, each thing it sent arrives once, from the same side,
\* in the same turn of the conversation and in the same order among its kind: a result
\* so stays as close to its call as the client put it.  What the system says is kept in
\* its order.  A tool is the same tool in both protocols, unless it has no type or is a
\* namespace.
TurnsKept ==
    \A messages \in {ChatMessages} :
    \A sent \in {FlattenSeq([i \in DOMAIN items |-> SentAtoms(items[i])])} :
    \A request \in {chat_completions_to_messages_request(messages)} :
    \A told \in {FlattenSeq([i \in DOMAIN request.turns |-> TurnAtoms(request.turns[i])])} :
        /\ \A type \in {"text", "image", "call", "result"} : Placed(told, type) = Placed(sent, type)
        /\ ~Refused(messages) => \E i \in DOMAIN request.turns : request.turns[i].role = "user"
        /\ (\A i \in DOMAIN offered : offered[i].type \notin {"", "namespace"}) =>
               ToolsOf(offered, chat_tool_to_anthropic_tool)
                   = ToolsOf(offered, responses_tool_to_anthropic)

=============================================================================
