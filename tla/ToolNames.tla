------------------------------ MODULE ToolNames ------------------------------
(***************************************************************************)
(* The names of a request's tools (anthropic/converter.rs): what they are   *)
(* called towards the upstream, and what is remembered to call them by      *)
(* their own names in the answer.  Names of Claude clients lose their       *)
(* separators, and names that are too long their end; so several may come   *)
(* to the same.                                                             *)
(*                                                                          *)
(* A name is its words and how they are written: in one (camel, or pascal   *)
(* with a capital before), with separators between (snake, kebab), or as    *)
(* mcp__server__tool.  Its length is the number of its words.               *)
(***************************************************************************)
EXTENDS Integers, Sequences, FiniteSets

CONSTANTS
    ToolNamed,              \* the names clients use
    TOOL_NAME_MAX_LEN,
    MaxNames                \* bound on the names of one request

ASSUME ToolNamesAssumption == TOOL_NAME_MAX_LEN \in Nat \ {0, 1} /\ MaxNames \in Nat

VARIABLES
    preserve_tool_names,    \* the client is an OpenAI one
    naming,                 \* "tools", then the tool uses of the "history"
    named,                  \* the names the client has used in the request
    tool_name_map           \* from what was sent to what it stands for

toolNamesVars == <<preserve_tool_names, naming, named, tool_name_map>>

ToolName(words, style) == [words |-> words, style |-> style]

\* A name of nothing but separators is "tool".
sanitize_tool_name(n) == ToolName(IF n.words = <<>> THEN <<"tool">> ELSE n.words, "camel")

\* Of an MCP tool the server is left out; everything else is cut.
shorten_tool_name(n) ==
    LET length == Len(n.words)
    IN  IF length <= TOOL_NAME_MAX_LEN THEN n
        ELSE IF n.style = "mcp" THEN ToolName(<<"mcp", n.words[length]>>, "mcp")
        ELSE ToolName(SubSeq(n.words, 1, TOOL_NAME_MAX_LEN), n.style)

SentAs(n) == shorten_tool_name(IF preserve_tool_names THEN n ELSE sanitize_tool_name(n))

\* Fault: what is remembered are the names that were cut, as the log calls them.
MapShortened(n) ==
    LET sent == SentAs(n)
    IN  tool_name_map' =
            IF sent # n /\ (preserve_tool_names \/ sent # sanitize_tool_name(n))
              THEN [s \in DOMAIN tool_name_map \cup {sent} |->
                       IF s = sent THEN n ELSE tool_name_map[s]]
              ELSE tool_name_map

\* Of two names that are sent alike the last one that was changed is remembered.
map_tool_name(n) ==
    LET sent == SentAs(n)
    IN  tool_name_map' =
            IF sent # n
              THEN [s \in DOMAIN tool_name_map \cup {sent} |->
                       IF s = sent THEN n ELSE tool_name_map[s]]
              ELSE tool_name_map

-----------------------------------------------------------------------------
ToolNamesInit ==
    /\ preserve_tool_names \in BOOLEAN
    /\ naming = "tools" /\ named = {} /\ tool_name_map = <<>>

\* The tools come first, each in its turn, and all are sent, those alike as well.
convert_tools(n) ==
    /\ naming = "tools"
    /\ map_tool_name(n)
    /\ named' = named \cup {n}
    /\ UNCHANGED <<preserve_tool_names, naming>>

\* The history may use tools that are not offered any more.
convert_assistant_message(n) ==
    /\ naming' = "history"
    /\ map_tool_name(n)
    /\ named' = named \cup {n}
    /\ UNCHANGED preserve_tool_names

ToolNamesNext ==
    \E n \in ToolNamed :
        /\ Cardinality(named \cup {n}) <= MaxNames
        /\ convert_tools(n) \/ convert_assistant_message(n)

ToolNamesSpec == ToolNamesInit /\ [][ToolNamesNext]_toolNamesVars

\* What the client is told when the upstream calls a tool, streamed or not.
original_name(s) == IF s \in DOMAIN tool_name_map THEN tool_name_map[s] ELSE s

-----------------------------------------------------------------------------
\* A tool the upstream calls is told by a name the client has used, and by its own unless
\* another is sent alike: however the names were changed, and whatever came after.
NamesComeBack ==
    \A n \in named :
        original_name(SentAs(n)) \in {alike \in named : SentAs(alike) = SentAs(n)}

=============================================================================
