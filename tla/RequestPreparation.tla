------------------------- MODULE RequestPreparation -------------------------
(* What becomes of a request between its arrival and the call of the upstream *)
(* (anthropic/handlers.rs, anthropic/websearch.rs, openai/handlers.rs): it is *)
(* checked, its thinking is set from the name of its model, a prompt is       *)
(* added, a search is answered on the way, and the rest is converted and      *)
(* counted.  Each step reads the configuration anew, which an administrator   *)
(* may change between two steps.                                              *)
(*                                                                            *)
(* A model is its family and what its name ends with.  A system prompt is the *)
(* set of the kinds of its blocks: "mode" and "length" stand for texts of the *)
(* client with <thinking_mode> and with <max_thinking_length>, "noise" for    *)
(* what the filters remove.                                                   *)
EXTENDS Naturals

CONSTANTS
    Payloads,               \* the requests clients send
    ThinkingSuffixes,               \* the thinking suffixes an administrator configures
    MappedTo,               \* the models that OpenAI requests may be mapped to
    MIN_BUDGET,             \* 1024
    SUFFIX_BUDGET,          \* 20000
    MaxEdits                \* bound on the changes of the configuration

Unnamed == ""               \* no suffix, or a name without one

\* What the checks and the handlers tell apart in a request.
Models ==
    [family : {"none", "sonnet", "opus46", "opus47", "alias"}, tail : ThinkingSuffixes \cup {Unnamed}]
Thinking ==
    [type : {"none", "enabled", "adaptive", "disabled", "other"}, budget : Nat,
     display : {"none", "summarized", "omitted", "other"}]
SentRequests ==
    [entry : {"messages", "count_tokens", "chat", "responses"}, model : Models,
     thinking : Thinking, max_tokens : Nat,
     system : SUBSET {"mode", "length", "noise"}, tools : SUBSET {"search", "other"},
     choice : {"none", "search"}, first : {"text", "prefixed", "blank", "image"},
     shape : {"good", "ends_with_assistant", "no_user"}]

ASSUME PreparationAssumption ==
    /\ MIN_BUDGET \in Nat \ {0} /\ SUFFIX_BUDGET \in Nat /\ MIN_BUDGET <= SUFFIX_BUDGET
    /\ MaxEdits \in Nat
    /\ Payloads \subseteq SentRequests /\ MappedTo \subseteq Models

Unmapped == [family |-> "none", tail |-> Unnamed]

VARIABLES
    suffix,                 \* thinking_config.suffix
    mapping,                \* model_mapping_config: one rule for every model, or Unmapped
    filtering,              \* the prompt filters are on
    injecting,              \* a system prompt of the administrator's is to be added
    edits,
    asked,                  \* the request as the client sent it
    payload,                \* as the handler has changed it
    phase,
    prepared,               \* what is sent to the upstream, and what is counted for it
    steady                  \* the configuration has not changed since the request came

settingVars == <<suffix, mapping, filtering, injecting, edits>>
preparationVars == <<settingVars, asked, payload, phase, prepared, steady>>

Nothing == [model |-> Unmapped, system |-> {}, counted |-> {}, reads |-> FALSE, tools |-> {}]

PreparationInit ==
    /\ suffix \in ThinkingSuffixes
    /\ mapping \in MappedTo \cup {Unmapped}
    /\ filtering \in BOOLEAN /\ injecting \in BOOLEAN /\ edits = 0
    /\ asked \in Payloads /\ payload = asked
    /\ phase = "arrived" /\ prepared = Nothing /\ steady = TRUE

-----------------------------------------------------------------------------
(* Checks at the door. *)

\* validate_thinking_config; an absent budget counts as 0.
ThinkingError(t, max_tokens) ==
    \/ t.type \notin {"none", "enabled", "adaptive", "disabled"}
    \/ /\ t.type = "enabled"
       /\ \/ max_tokens = 0
          \/ t.budget < MIN_BUDGET
          \/ t.budget >= max_tokens
    \/ t.type \in {"adaptive", "disabled"} /\ t.budget # 0
    \/ t.display \notin {"none", "summarized", "omitted"}
    \/ t.type = "disabled" /\ t.display # "none"

\* "shape" says what is wrong with the list of messages, if anything is.
validate_messages_request_shape(q) ==
    q.shape = "good" /\ ~ThinkingError(q.thinking, q.max_tokens)
validate_openai_chat_request_shape(q) == q.shape = "good"
responses_has_user(q) == q.shape \in {"good", "ends_with_assistant"}

Valid(q) ==
    CASE q.entry = "messages" -> validate_messages_request_shape(q)
      [] q.entry = "count_tokens" -> ~ThinkingError(q.thinking, q.max_tokens)
      [] q.entry = "chat" -> validate_openai_chat_request_shape(q)
      [] q.entry = "responses" -> responses_has_user(q)

-----------------------------------------------------------------------------
(* Thinking. *)

Opus47(model) == model.family = "opus47"
OpusAdaptive(model) == model.family \in {"opus46", "opus47"}
NamesThinking(model, s) == s # Unnamed /\ model.tail = s

\* Opus 4.7 knows no "enabled"; what the name asks for replaces what the request does.
override_thinking_from_model_name(q, s) ==
    LET old == q.thinking
    IN  [q EXCEPT !.thinking =
            IF NamesThinking(q.model, s) THEN
               IF OpusAdaptive(q.model)
               THEN [type |-> "adaptive", budget |-> 0, display |-> "summarized"]
               ELSE [type |-> "enabled", budget |-> SUFFIX_BUDGET, display |-> "none"]
            ELSE IF Opus47(q.model) /\ old.type # "none" THEN
               [old EXCEPT !.type = IF @ = "enabled" THEN "adaptive" ELSE @,
                           !.display = IF @ = "none" THEN "summarized" ELSE @]
            ELSE old]

\* An alias is replaced as a whole; else the suffix is cut off.
map_model(model, s) ==
    IF model.family = "alias" THEN [family |-> "sonnet", tail |-> Unnamed]
    ELSE IF NamesThinking(model, s) THEN [model EXCEPT !.tail = Unnamed] ELSE model

\* Thinking::is_enabled
ThinkingIsOn(q) == q.thinking.type \in {"enabled", "adaptive"}

\* Fault: the instructions for adaptive thinking are forgotten.
PrefixOfEnabled(q) == IF q.thinking.type = "enabled" THEN {"enabled"} ELSE {}

\* The instructions to think, and for Opus 4.7 to wrap the thinking in tags.
generate_thinking_prefix(q) ==
    IF ~ThinkingIsOn(q) THEN {}
    ELSE {q.thinking.type} \cup
         (IF /\ q.thinking.type = "adaptive" /\ Opus47(q.model)
             /\ q.thinking.display \in {"none", "summarized"}
          THEN {"wrap"} ELSE {})

\* What build_history sends: the prompt the filters leave, behind the instructions.
SentSystem(q) ==
    LET kept == IF filtering THEN q.system \ {"noise"} ELSE q.system
    IN  IF kept \cap {"mode", "length"} = {} THEN kept \cup generate_thinking_prefix(q) ELSE kept

\* apply_thinking_prefix_for_accounting looks for one of the tags only.
CountedSystem(q) ==
    IF "mode" \in q.system THEN q.system ELSE q.system \cup generate_thinking_prefix(q)

request_with_thinking_accounting(q, s) ==
    LET on == override_thinking_from_model_name(q, s)
    IN  [on EXCEPT !.model = map_model(on.model, s)]

-----------------------------------------------------------------------------
(* Searching. *)

has_web_search_tool(q) == "search" \in q.tools

\* A search is forced, the only thing on offer, or asked for in so many words.
should_handle_websearch_request(q) ==
    /\ has_web_search_tool(q)
    /\ q.choice = "search" \/ q.tools = {"search"} \/ q.first = "prefixed"

strip_web_search_tools(q) == [q EXCEPT !.tools = @ \ {"search"}]

\* The query is the text of the first block of the last user message.
extract_search_query(q) == q.first \in {"text", "prefixed"}

-----------------------------------------------------------------------------
(* The steps of the handlers. *)

Step(from, to) == phase = from /\ phase' = to

Validate ==
    /\ Step("arrived", IF ~Valid(payload) THEN "refused"
                       ELSE IF payload.entry = "count_tokens" THEN "counting" ELSE "valid")
    /\ UNCHANGED <<settingVars, asked, payload, prepared, steady>>

OverrideThinking ==
    /\ Step("valid", IF payload.entry = "messages" THEN "injecting" ELSE "routing")
    /\ payload' = override_thinking_from_model_name(payload, suffix)
    /\ UNCHANGED <<settingVars, asked, prepared, steady>>

inject_system_prompt ==
    /\ Step("injecting", "routing")
    /\ payload' = IF injecting THEN [payload EXCEPT !.system = @ \cup {"injected"}] ELSE payload
    /\ UNCHANGED <<settingVars, asked, prepared, steady>>

Route ==
    /\ Step("routing", IF should_handle_websearch_request(payload) THEN "searching" ELSE "kept")
    /\ payload' = IF should_handle_websearch_request(payload) THEN payload
                  ELSE strip_web_search_tools(payload)
    /\ UNCHANGED <<settingVars, asked, prepared, steady>>

\* handle_websearch_request, handle_chat_websearch and handle_responses_websearch: a
\* search that failed is told as one that found nothing.
Search ==
    /\ IF extract_search_query(payload) THEN Step("searching", "found") \/ Step("searching", "empty")
       ELSE Step("searching", "refused")
    /\ UNCHANGED <<settingVars, asked, payload, prepared, steady>>

\* prepare_request: the last message must hold something.
prepare_request ==
    /\ payload.entry = "messages"
    /\ Step("kept", IF payload.first = "blank" THEN "refused" ELSE "sent")
    /\ prepared' = IF payload.first = "blank" THEN prepared
                   ELSE [model |-> map_model(payload.model, suffix),
                         system |-> SentSystem(payload),
                         counted |-> CountedSystem(request_with_thinking_accounting(payload, suffix)),
                         reads |-> ThinkingIsOn(payload),
                         tools |-> payload.tools]
    /\ UNCHANGED <<settingVars, asked, payload, steady>>

\* prepare_kiro_request: the model is mapped first, and counted is what the client sent.
prepare_kiro_request ==
    /\ payload.entry \in {"chat", "responses"}
    /\ Step("kept", IF payload.first = "blank" THEN "refused" ELSE "sent")
    /\ \E q \in {IF mapping = Unmapped THEN payload ELSE [payload EXCEPT !.model = mapping]} :
           /\ payload' = q
           /\ prepared' = IF payload.first = "blank" THEN prepared
                          ELSE [model |-> map_model(q.model, suffix),
                                system |-> SentSystem(q),
                                counted |-> asked.system,
                                reads |-> ThinkingIsOn(q),
                                tools |-> q.tools]
    /\ UNCHANGED <<settingVars, asked, steady>>

\* count_tokens, effective_count_tokens_request
count_tokens ==
    /\ Step("counting", "counted")
    /\ prepared' = [prepared EXCEPT
                       !.counted = CountedSystem(request_with_thinking_accounting(payload, suffix))]
    /\ UNCHANGED <<settingVars, asked, payload, steady>>

\* An administrator changes a setting that the request reads.
EditSettings ==
    /\ edits < MaxEdits /\ edits' = edits + 1
    /\ phase \in {"valid", "injecting", "routing", "kept", "counting"}
    /\ \/ suffix' \in ThinkingSuffixes /\ UNCHANGED <<mapping, filtering, injecting>>
       \/ mapping' \in MappedTo \cup {Unmapped} /\ UNCHANGED <<suffix, filtering, injecting>>
       \/ filtering' = ~filtering /\ UNCHANGED <<suffix, mapping, injecting>>
       \/ injecting' = ~injecting /\ UNCHANGED <<suffix, mapping, filtering>>
    /\ steady' = FALSE
    /\ UNCHANGED <<asked, payload, phase, prepared>>

PreparationNext ==
    \/ Validate \/ OverrideThinking \/ inject_system_prompt \/ Route \/ Search
    \/ prepare_request \/ prepare_kiro_request \/ count_tokens \/ EditSettings

PreparationSpec == PreparationInit /\ [][PreparationNext]_preparationVars

-----------------------------------------------------------------------------
Instructions == {"enabled", "adaptive", "wrap"}

\* What is sent agrees with how the answer will be read, and with what the client
\* pays for, although each is worked out in a place of its own.  A search never goes
\* on as a tool the upstream does not know.  Tags of thinking are looked for in the
\* answer if and only if the upstream was told to think, by these instructions or by
\* the client's.  A model that is named to think thinks, and the upstream gets its real
\* name; the instructions that are sent are those that are counted: both unless the
\* settings change in between, and unless a client writes tags of its own.
PreparedAsAsked ==
    phase = "sent" =>
        /\ "search" \notin prepared.tools
        /\ prepared.reads => prepared.system \cap (Instructions \cup {"mode", "length"}) # {}
        /\ prepared.system \cap Instructions # {} => prepared.reads
        /\ steady /\ NamesThinking(asked.model, suffix) =>
               /\ prepared.reads
               /\ mapping = Unmapped \/ asked.entry = "messages" => prepared.model.tail = Unnamed
        /\ steady /\ asked.entry = "messages" /\ asked.system \cap {"mode", "length"} = {} =>
               prepared.counted \cap Instructions = prepared.system \cap Instructions

=============================================================================
