------------------------------ MODULE MCTables ------------------------------
(* Model values for Tables: contents that fill the authority's array but for  *)
(* one cell, repeat a string or a key, and use a default symbol.              *)
EXTENDS Tables

MCDefault == <<"read">>
Content(words, scopes) == [words |-> words, scopes |-> scopes]

MCContents ==
  {Content(<<"a", "b", "c">>, <<>>), Content(<<"d">>, <<>>), Content(<<"e">>, <<"k1">>),
   Content(<<"a", "read">>, <<"k2", "k1">>), Content(<<"e", "b">>, <<"k3", "k2">>)}
=============================================================================
