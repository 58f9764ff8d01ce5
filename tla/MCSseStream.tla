---------------------------- MODULE MCSseStream ----------------------------
(* The texts of SseStream's upstream: plain, blank, the halves of a start tag *)
(* apart and together, an end tag with and without its blank line, and a     *)
(* bracket-style tool call.                                                  *)
EXTENDS SseStream

CONSTANTS n, m

\* Calls of n have ids or not, calls of m have none.
IdsOfN == [i \in ToolIds |-> n]

AllChunks ==
    {<<"text">>, <<"gap">>, <<"lt">>, <<"rt">>, <<"lt", "rt", "text">>,
     <<"end">>, <<"end", "gap", "text">>, <<"call">>}

FewChunks == {<<"text">>, <<"gap">>, <<"lt", "rt">>, <<"end">>}

=============================================================================
