----------------------------- MODULE MCGateway -----------------------------
(* Small instances of what a request passes on its way to the upstream and    *)
(* back: the checks and settings that prepare it, the conversion of its       *)
(* messages, the history it goes on from, the attempts of the provider, the   *)
(* frames of the answer, the two OpenAI streams, the answer that is not       *)
(* streamed, the searches the proxy answers itself, and what counts as        *)
(* cached.  In the models they share no state, so one run checks them side by *)
(* side: the initial state picks the part that moves.                         *)
EXTENDS ProviderRetry, RequestConversion, ChatStream, ResponsesStream, EventStreamDecoder,
        ResponsesStore, MessageLifecycle, RequestPreparation, OpenAiConversion,
        NonStreamAnswer, PromptCacheProfile, WebSearch, ToolNames, TLC

VARIABLE part

-----------------------------------------------------------------------------
(* Messages of Anthropic clients. *)

User(text, image, results) ==
    [role |-> "user", text |-> text, image |-> image, results |-> results, uses |-> <<>>]
Assistant(text, uses) ==
    [role |-> "assistant", text |-> text, image |-> FALSE, results |-> <<>>, uses |-> uses]
Use(id, name) == [id |-> id, name |-> name]

\* Every role, with and without text, results that answer and results that do not,
\* single and double tool calls, and a call that was written out as text.
SomeMessages ==
    {User("hi", FALSE, <<>>), User("", FALSE, <<>>), User("", TRUE, <<>>),
     User("", FALSE, <<"t1">>), User("", FALSE, <<"t2", "t1">>), User("hi", FALSE, <<"t2">>),
     [User("hi", FALSE, <<>>) EXCEPT !.role = "system"],
     Assistant("yes", <<>>), Assistant("called", <<>>), Assistant("", <<Use("t1", "a")>>),
     Assistant("yes", <<Use("t1", "a"), Use("t2", "b")>>)}

\* One name written in every way, the same cut short, tools of two servers, and names
\* that are what others become.
SomeToolNames ==
    {ToolName(<<"read", "file">>, style) : style \in {"camel", "pascal", "snake", "kebab"}}
    \cup {ToolName(<<"read", "file", "now">>, "snake"), ToolName(<<"mcp", "a", "do">>, "mcp"),
          ToolName(<<"mcp", "b", "do">>, "mcp"), ToolName(<<>>, "snake"), ToolName(<<"tool">>, "camel")}

-----------------------------------------------------------------------------
(* Requests. *)

PlainThinking == [type |-> "none", budget |-> 0, display |-> "none"]
Ask(entrance) ==
    [entry |-> entrance, model |-> [family |-> "sonnet", tail |-> ""], thinking |-> PlainThinking,
     max_tokens |-> 3, system |-> {}, tools |-> {}, choice |-> "none", first |-> "text",
     shape |-> "good"]

\* Every kind of model with and without the suffix, and every thinking that is refused
\* for another reason.
SomeModels == [family : {"sonnet", "opus46", "opus47", "alias"}, tail : {"", "t"}]
SomeThinking ==
    [type : {"enabled", "adaptive", "disabled"}, budget : {0, 2}, display : {"none", "omitted"}]
    \cup {PlainThinking, [PlainThinking EXCEPT !.type = "other"],
          [PlainThinking EXCEPT !.type = "adaptive", !.display = "other"]}
AsksToThink ==
    {[Ask(e) EXCEPT !.model = m, !.thinking = t, !.system = s, !.max_tokens = n] :
        e \in {"messages", "count_tokens"}, m \in SomeModels, t \in SomeThinking,
        s \in {{}, {"mode"}, {"length", "noise"}}, n \in {0, 3}}
    \cup {[Ask(e) EXCEPT !.model = m, !.system = s] :
        e \in {"chat", "responses"}, m \in SomeModels, s \in {{}, {"mode"}, {"noise"}}}
AsksToSearch ==
    {[Ask(e) EXCEPT !.tools = t, !.choice = c, !.first = f, !.shape = s] :
        e \in {"messages", "chat", "responses"}, t \in {{"search"}, {"search", "other"}, {"other"}},
        c \in {"none", "search"}, f \in {"text", "prefixed", "blank", "image"},
        s \in {"good", "ends_with_assistant", "no_user"}}
SomePayloads == AsksToThink \cup AsksToSearch
SomeTargets == {[family |-> "opus47", tail |-> "t"]}

-----------------------------------------------------------------------------
(* Messages and items of OpenAI clients, and their tools. *)

Array(parts) == [form |-> "array", parts |-> parts]
Mixed == Array(<<Part("text", "a"), Part("image", "i"), Part("link", "l"), Part("text", "b")>>)

\* Each role with what it may hold, two results, an array without any text.
SomeChats ==
    {Chat("system", Text("s"), <<>>, ""), Chat("other", Text("s"), <<>>, ""),
     Chat("user", Text("u"), <<>>, ""), Chat("user", Mixed, <<>>, ""),
     Chat("user", Null, <<>>, ""), Chat("assistant", Text("y"), <<>>, ""),
     Chat("assistant", Null, <<"t1", "t2">>, ""),
     Chat("assistant", Array(<<Part("image", "i")>>), <<"t3">>, ""),
     Chat("tool", Text("r"), <<>>, "t1"), Chat("tool", Array(<<Part("link", "l")>>), <<>>, "t2")}

Item(type) ==
    [type |-> type, role |-> "user", content |-> Null, part |-> Part("opaque", ""), id |-> ""]
ItemOf(role, says) == [Item("message") EXCEPT !.role = role, !.content = says]
SomeItems ==
    {ItemOf("system", Text("s")), ItemOf("user", Mixed), ItemOf("user", Text("")),
     ItemOf("assistant", Array(<<Part("text", "y")>>)),
     ItemOf("assistant", Array(<<Part("image", "i")>>)), Item("message"),
     [Item("function_call") EXCEPT !.id = "t1"], [Item("function_call") EXCEPT !.id = "t2"],
     [Item("function_call_output") EXCEPT !.id = "t1", !.content = Text("r")],
     [Item("part") EXCEPT !.part = Part("text", "p")],
     [Item("part") EXCEPT !.part = Part("image", "i")], Item("part"),
     [Item("output_text") EXCEPT !.content = Text("o")], Item("reasoning")}

SomeTools ==
    [type : {"function", "", "browser", "mcp"}, outer : {"", "o", "blank"}, inner : {"", "i"},
     tools : {<<>>}]
SomeToolLists ==
    {<<a, [a EXCEPT !.outer = "o"]>> : a \in SomeTools}
    \cup {<<[type |-> "namespace", outer |-> "o", inner |-> "", tools |-> <<a>>]>> : a \in SomeTools}

-----------------------------------------------------------------------------
(* Answers and prompts. *)

\* Plain text and the halves of tags, apart and together.
SomeTexts ==
    {<<"text">>, <<"lt">>, <<"rt">>, <<"end">>, <<"text", "end", "text">>}

\* Text, a call that is written out, and thinking that opens and closes.
SomeWholeTexts == {<<"text">>, <<"call">>, <<"start", "text">>, <<"end", "text">>}
SomeIds == {<<"x">>, <<"y">>}

\* Nothing, one site, two, and one of them twice.
SomeFindings == {<<>>, <<"s1">>, <<"s1", "s2">>, <<"s2", "s1", "s1">>}

\* A conversation that grows while its mark moves, others that share its beginning, marks
\* of every length, and a header that is left out.
PromptBlock(says, tokens, ttl, end) ==
    [says |-> says, tokens |-> tokens, ttl |-> ttl, end |-> end]
Sys(ttl) == PromptBlock("system", 2, ttl, FALSE)
SomePrompts ==
    {<<Sys(1), PromptBlock("a", 2, 0, TRUE)>>,
     <<PromptBlock("billing", 1, 0, FALSE), Sys(0), PromptBlock("a", 2, 3, TRUE)>>,
     <<Sys(2), PromptBlock("a", 2, 0, TRUE), PromptBlock("b", 3, 0, TRUE)>>,
     <<Sys(0), PromptBlock("b", 3, 1, TRUE)>>,
     <<Sys(0), PromptBlock("a", 2, 0, TRUE), PromptBlock("b", 3, 1, TRUE)>>,
     <<Sys(1), PromptBlock("a", 2, 0, FALSE), PromptBlock("c", 0, 0, TRUE)>>}

-----------------------------------------------------------------------------
\* The parts use the same names for who acts and for what they act upon.
GatewaySymmetry == Permutations(Creds) \cup Permutations(PoolProxies)

\* One of two concurrent requests is of the plainest kind.
PlainAsk == Asks("post_messages", TRUE, FALSE)

\* The parts that do not move start in one state, up to symmetry.
GatewayInit ==
    /\ part \in {"provider", "conversion", "chat", "responses", "decoder", "history",
                 "message", "prepare", "openai", "whole", "prompts", "search", "names"}
    /\ ReplyInit /\ ResponsesInit /\ AnswerInit /\ ProfileInit
    /\ ProviderInit /\ (part # "provider" => proxyOf = [c \in Creds |-> "direct"])
    /\ "direct" \in Range(proxyOf)
    /\ ConversionInit /\ (part # "conversion" => ~system /\ tools = {})
    /\ "b" \in tools => "a" \in tools
    /\ ChatInit /\ (part # "chat" => chat = NewChat(FALSE, "tags"))
    /\ chat.thinking_enabled \/ chat.thinking_format = "tags"
    /\ DecoderInit /\ (part # "decoder" => damage = [f \in 1 .. MaxFrames |-> "none"])
    /\ OpenAiInit /\ (part # "openai" => entry = "chat" /\ offered = <<>>)
    /\ SearchInit /\ (part # "search" => search = [protocol |-> "chat", streams |-> FALSE,
                                                   keeps |-> FALSE, query |-> FALSE, step |-> "asked"])
    /\ ToolNamesInit /\ (part # "names" => ~preserve_tool_names)
    /\ IF part = "message" THEN message \in {m \in [Messages -> Posted] : PlainAsk \in Range(m)}
                           ELSE message = [r \in Messages |-> PlainAsk]
    /\ MessageInit
    /\ IF part = "prepare" THEN PreparationInit
       ELSE /\ suffix = "" /\ mapping = Unmapped /\ filtering = FALSE /\ injecting = FALSE
            /\ edits = 0 /\ asked = Ask("messages") /\ payload = asked
            /\ phase = "arrived" /\ prepared = Nothing /\ steady = TRUE

StaysUnless(moving) ==
    /\ moving # "provider" => UNCHANGED providerVars
    /\ moving # "conversion" => UNCHANGED conversionVars
    /\ moving # "chat" => UNCHANGED chatVars
    /\ moving # "responses" => UNCHANGED replyVars
    /\ moving # "decoder" => UNCHANGED decoderVars
    /\ moving # "history" => UNCHANGED responsesVars
    /\ moving # "message" => UNCHANGED messageVars
    /\ moving # "prepare" => UNCHANGED preparationVars
    /\ moving # "openai" => UNCHANGED openAiVars
    /\ moving # "whole" => UNCHANGED answerVars
    /\ moving # "prompts" => UNCHANGED profileVars
    /\ moving # "search" => UNCHANGED searchVars
    /\ moving # "names" => UNCHANGED toolNamesVars

GatewayNext ==
    /\ UNCHANGED part
    /\ \/ part = "provider" /\ ProviderNext
       \/ part = "conversion" /\ ConversionNext
       \/ part = "chat" /\ ChatNext
       \/ part = "responses" /\ ReplyNext
       \/ part = "decoder" /\ DecoderNext
       \/ part = "history" /\ ResponsesNext
       \/ part = "message" /\ MessageNext
       \/ part = "prepare" /\ PreparationNext
       \/ part = "openai" /\ SendItem
       \/ part = "whole" /\ AnswerNext
       \/ part = "prompts" /\ ProfileNext
       \/ part = "search" /\ SearchNext
       \/ part = "names" /\ ToolNamesNext
    /\ StaysUnless(part)

gatewayVars == <<part, providerVars, conversionVars, chatVars, replyVars, decoderVars,
                 responsesVars, messageVars, preparationVars, openAiVars, answerVars,
                 profileVars, searchVars, toolNamesVars>>

GatewaySpec == GatewayInit /\ [][GatewayNext]_gatewayVars

=============================================================================
