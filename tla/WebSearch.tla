------------------------------- MODULE WebSearch -------------------------------
(* A search that the proxy answers itself (anthropic/websearch.rs and the      *)
(* searches of openai/handlers.rs): the upstream is asked for results in one   *)
(* call, and the answer is put together in six forms, for three protocols,     *)
(* each streamed or whole.  The protocols' forms are written out twice.        *)
(*                                                                             *)
(* A text is a sequence of tokens: "decision", "heading", each site that was   *)
(* found, "none" and "note".  Callers hand in no cache tracker, so searches    *)
(* are never counted as cached.                                                *)
EXTENDS Naturals, Sequences, SequencesExt

CONSTANTS
    Findings,               \* lists of sites a search may find
    Dated,                  \* sites whose published_date is given and can be read
    ChunkSize,              \* tokens of text in one event: 100 characters
    MaxSearches

ASSUME SearchAssumption ==
    /\ ChunkSize \in Nat \ {0} /\ MaxSearches \in Nat
    /\ \A found \in Findings : found \in Seq(ToSet(found))

VARIABLES
    search,                 \* the request: [protocol, streams, keeps, query], and its step
    sites,                  \* search_results: Unfound, or the sites
    told,                   \* the answer: its events, or its blocks
    keptAnswers             \* what store has, one entry for each response

searchVars == <<search, sites, told, keptAnswers>>

Unfound == <<"nothing">>
NoAnswer == <<>>
Asking == [protocol : {"messages", "chat", "responses"}, streams : BOOLEAN, keeps : BOOLEAN,
           query : BOOLEAN, step : {"asked"}]

SearchInit ==
    /\ search \in Asking /\ sites = Unfound /\ told = NoAnswer /\ keptAnswers = <<>>

-----------------------------------------------------------------------------
(* Asking the upstream. *)

\* extract_search_query: without a text in the last message there is nothing to look for.
NoQuery ==
    /\ search.step = "asked" /\ ~search.query
    /\ search' = [search EXCEPT !.step = "refused"]
    /\ UNCHANGED <<sites, told, keptAnswers>>

\* call_mcp_api and parse_search_results.  A call that fails, an error in its answer, and
\* an answer that cannot be read, end like a search without results.
CallMcp ==
    /\ search.step = "asked" /\ search.query
    /\ search' = [search EXCEPT !.step = "found"]
    /\ sites' \in Findings \cup {Unfound}
    /\ UNCHANGED <<told, keptAnswers>>

-----------------------------------------------------------------------------
(* Putting the answer together. *)

Sites == IF sites = Unfound THEN <<>> ELSE sites

generate_search_summary ==
    <<"heading">> \o (IF sites = Unfound THEN <<"none">> ELSE sites) \o <<"note">>

SearchBlock(type, toks) == [type |-> type, toks |-> toks]

\* The blocks of the Messages API.  The two forms of the result differ: the stream dates
\* the sites and does not say whose result it is, the whole answer says it and dates none.
ToolUseId == "srvtoolu"
SearchCall == [type |-> "server_tool_use", id |-> ToolUseId, toks |-> <<"query">>]
Result(site, page_age) == [site |-> site, page_age |-> page_age]
StreamedResult ==
    SearchBlock("web_search_tool_result",
                [i \in DOMAIN Sites |-> Result(Sites[i], IF Sites[i] \in Dated THEN "date" ELSE "null")])
WholeResult ==
    [type |-> "web_search_tool_result", tool_use_id |-> ToolUseId,
     toks |-> [i \in DOMAIN Sites |-> Result(Sites[i], "null")]]
MessageBlocks == <<SearchCall, WholeResult, SearchBlock("text", generate_search_summary)>>

Event(type, index, block) == [type |-> type, index |-> index, block |-> block]
NoSearchBlock == SearchBlock("none", <<>>)
Starts(i, block) == Event("start", i, block)
Stops(i) == Event("stop", i, NoSearchBlock)
Delta(i, toks) == Event("delta", i, SearchBlock("text", toks))

\* Fault: what does not fill a chunk is forgotten.
WholeChunks(text) ==
    [i \in 1 .. Len(text) \div ChunkSize |-> SubSeq(text, (i - 1) * ChunkSize + 1, i * ChunkSize)]

Chunked(text) ==
    [i \in 1 .. (Len(text) + ChunkSize - 1) \div ChunkSize |->
        SubSeq(text, (i - 1) * ChunkSize + 1,
               IF i * ChunkSize < Len(text) THEN i * ChunkSize ELSE Len(text))]

\* A block of text says first that the proxy is going to search.
generate_websearch_events ==
    LET chunks == Chunked(generate_search_summary)
    IN  <<Event("message_start", 0, NoSearchBlock),
          Starts(0, SearchBlock("text", <<>>)), Delta(0, <<"decision">>), Stops(0),
          Starts(1, SearchCall), Stops(1),
          Starts(2, StreamedResult), Stops(2), Starts(3, SearchBlock("text", <<>>))>>
        \o [i \in DOMAIN chunks |-> Delta(3, chunks[i])]
        \o <<Stops(3), Event("message_delta", 0, NoSearchBlock), Event("message_stop", 0, NoSearchBlock)>>

\* The Chat API is told the summary alone.
ChatBlocks == <<SearchBlock("text", generate_search_summary)>>
ChatChunks ==
    <<Starts(0, SearchBlock("text", <<>>)), Delta(0, generate_search_summary), Stops(0),
      Event("done", 0, NoSearchBlock)>>

\* The Responses API is told an item for the search and one for its summary.
ResponseItems ==
    <<SearchBlock("web_search_call", Sites), SearchBlock("message", generate_search_summary)>>
ResponseEvents ==
    <<Event("created", 0, NoSearchBlock), Starts(0, ResponseItems[1]), Stops(0),
      Starts(1, SearchBlock("message", <<>>)), Delta(1, generate_search_summary), Stops(1),
      Event("completed", 0, NoSearchBlock)>>

TellAnswer(answer) ==
    /\ search.step = "found" /\ search' = [search EXCEPT !.step = "answered"]
    /\ told' = answer
    /\ UNCHANGED sites

handle_websearch_request ==
    /\ search.protocol = "messages"
    /\ TellAnswer(IF search.streams THEN generate_websearch_events ELSE MessageBlocks)
    /\ UNCHANGED keptAnswers

handle_chat_websearch ==
    /\ search.protocol = "chat"
    /\ TellAnswer(IF search.streams THEN ChatChunks ELSE ChatBlocks)
    /\ UNCHANGED keptAnswers

\* persist_response_if_needed is called for a whole answer only.
handle_responses_websearch ==
    /\ search.protocol = "responses"
    /\ TellAnswer(IF search.streams THEN ResponseEvents ELSE ResponseItems)
    /\ keptAnswers' = IF search.keeps /\ ~search.streams THEN Append(keptAnswers, ResponseItems)
                                                         ELSE keptAnswers

\* The next request.
AskAgain ==
    /\ search.step \in {"answered", "refused"} /\ Len(keptAnswers) < MaxSearches
    /\ search' \in Asking /\ sites' = Unfound /\ told' = NoAnswer
    /\ UNCHANGED keptAnswers

SearchNext ==
    \/ NoQuery \/ CallMcp
    \/ handle_websearch_request \/ handle_chat_websearch \/ handle_responses_websearch
    \/ AskAgain

SearchSpec == SearchInit /\ [][SearchNext]_searchVars

-----------------------------------------------------------------------------
\* What a client makes of the events: blocks are opened in order, text is added to the
\* block it names.
Taken(blocks, e) ==
    CASE e.type = "start" -> IF e.index = Len(blocks) THEN Append(blocks, e.block) ELSE blocks
      [] e.type = "delta" -> IF e.index < Len(blocks)
                             THEN [blocks EXCEPT ![e.index + 1].toks = @ \o e.block.toks]
                             ELSE blocks
      [] OTHER -> blocks

Assembled(events) ==
    LET taken[n \in 0 .. Len(events)] == IF n = 0 THEN <<>> ELSE Taken(taken[n - 1], events[n])
    IN  taken[Len(events)]

\* The sites stand in the text, one after the other, and nothing else but its own words.
Mentions(toks, list) ==
    \E i \in 0 .. Len(toks) - Len(list) :
        /\ SubSeq(toks, i + 1, i + Len(list)) = list
        /\ \A k \in DOMAIN toks :
               k \notin i + 1 .. i + Len(list) => toks[k] \in {"heading", "none", "note"}

\* Each block stands open, alone, from its start to its one stop.
OneAtATime(events) ==
    \A i \in DOMAIN events :
        /\ events[i].type = "start" =>
               \E j \in i + 1 .. Len(events) :
                   /\ events[j] = Stops(events[i].index)
                   /\ \A k \in i + 1 .. j - 1 :
                          events[k].type = "delta" /\ events[k].index = events[i].index
        /\ events[i].type \in {"delta", "stop"} => i > 1 /\ events[i - 1].type \in {"start", "delta"}

WholeAnswer ==
    CASE search.protocol = "messages" -> MessageBlocks
      [] search.protocol = "chat" -> ChatBlocks
      [] search.protocol = "responses" -> ResponseItems

\* Two blocks say the same: of the results of a search, the same sites, in the same order.
FoundIn(block) == [i \in DOMAIN block.toks |-> block.toks[i].site]
Alike(b, c) ==
    \/ b = c
    \/ /\ b.type = "web_search_tool_result" /\ c.type = "web_search_tool_result"
       /\ FoundIn(b) = FoundIn(c)

\* A search is told alike in all of its forms: what a client puts together from the
\* stream says block by block what it would have got whole, after the announcement of the
\* search in the Messages API.  Only the result of the search is not the same there: the
\* stream alone dates the sites, the whole answer alone names the search it answers.
\* Every site that was found is in it, in order, in the answer's text too; and what was
\* told whole is what a response that is kept is continued from.
SearchTold ==
    search.step = "answered" =>
        LET announced == search.streams /\ search.protocol = "messages"
            first == IF announced THEN 1 ELSE 0
            blocks == IF search.streams THEN Assembled(told) ELSE told
        IN  /\ search.streams => OneAtATime(told)
            /\ announced => blocks[1] = SearchBlock("text", <<"decision">>)
            /\ Len(blocks) = first + Len(WholeAnswer)
            /\ \A i \in DOMAIN WholeAnswer : Alike(blocks[first + i], WholeAnswer[i])
            /\ Mentions(Last(blocks).toks, Sites)
            /\ search.protocol = "responses" /\ search.keeps /\ ~search.streams =>
                   keptAnswers # <<>> /\ Last(keptAnswers) = told

=============================================================================
