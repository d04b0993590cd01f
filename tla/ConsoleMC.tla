----------------------------- MODULE ConsoleMC -----------------------------
(* Instances of Console for TLC *)
EXTENDS Console

MCTerminals == {{"in", "out", "err"}, {"out", "err"}}
MCSizes == {<<3, 1>>, <<1, 2>>}
MCDefaultSize == <<3, 1>>

\* Enter, a key of the table, ESC alone and shift-tab, which the table does not hold
MCPresses == {<<"NL">>, <<"ESC", "h">>, <<"ESC">>, <<"ESC", "[", "Z">>}
MCStrings == {<<"x">>, <<"x", "x", "CR", "LF">>, <<"TAB">>, <<"LF">>, <<"BS">>}
=============================================================================
