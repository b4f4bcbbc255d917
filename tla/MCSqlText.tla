------------------------------ MODULE MCSqlText ------------------------------
(* Every script of a few lexemes over small alphabets, one for each thing that *)
(* can hide a terminator, and the writes of SqlGuards.                         *)
EXTENDS SqlGuards

CONSTANT MaxLexemes

Alphabets == {
  {<<"quote">>, <<"semi">>, <<"bslash">>, <<"a">>},                \* literals
  {<<"dquote">>, <<"semi">>, <<"quote">>, <<"nl">>},               \* two kinds of quotes
  {<<"bq">>, <<"bslash">>, <<"semi">>},                             \* names between backticks
  {<<"/", "*">>, <<"*", "/">>, <<"semi">>, <<"/">>},               \* comments in comments
  {<<"/", "*">>, <<"*", "/">>, <<"update">>},                      \* comments before the verb
  {<<"-", "-">>, <<"semi">>, <<"nl">>, <<"quote">>},               \* comments and literals
  {<<"#">>, <<"sp">>, <<"nl">>, <<"update">>},
  {<<"$", "$">>, <<"$", "a", "$">>, <<"semi">>, <<"quote">>},      \* dollar quotes
  {<<"delimiter", "sp">>, <<"nl">>, <<"/">>, <<"semi">>}}         \* directives

Scripts(alphabet) == UNION {[1 .. n -> alphabet] : n \in 0 .. MaxLexemes}

MCTexts == {Join(script) : script \in UNION {Scripts(alphabet) : alphabet \in Alphabets}}
             \cup Writes

MCSymbols == Keyword \cup Word \cup Whitespace \cup Wide \cup
  {"semi", "quote", "dquote", "bslash", "bq", "/", "*", "-", "#", "$", "(", ")", "=", "delimiter", "c2"}

MCLeads   == {<<>>, <<"sp">>, <<"/", "*", "a", "*", "/">>, <<"-", "-", "a", "nl">>}
MCTargets == {<<"t">>, <<"t", "sp", "a">>}
MCValues  == {<<"a">>, <<"quote", "where", "quote">>,
              <<"(", "select", "sp", "a", "sp", "where", "sp", "a", ")">>,
              <<"a", "sp", "-", "-", "sp", "where", "nl">>,
              <<"dquote", "where", "dquote">>}
MCFilters == {<<>>, <<"a">>, <<"a", "=", "quote", "semi", "quote">>, <<"(", "set", ")">>}
MCTails   == {<<>>, <<"limit", "sp", "a">>}
=============================================================================
