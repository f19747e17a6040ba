---------------------------- MODULE MCExpression ----------------------------
(***************************************************************************)
(* Every text of up to five characters, with one sort of quotes, and of up *)
(* to three with both; every path of up to three steps, written with either*)
(* sort; an object, a dictionary with keys of all sorts, and what is in it.*)
(***************************************************************************)
EXTENDS Naturals, Sequences, TLC

VARIABLES text, path, e

Chars == {"a", "b", "1", ".", "[", "]", "'"}
AllTexts == UNION {[1..n -> Chars] : n \in 0..5} \cup UNION {[1..n -> Chars \cup {"\""}] : n \in 0..3}

S(i, n) == [is |-> i, name |-> n]
Names == {<<"a">>, <<"b">>, <<"a", "b">>}
Keys == {<<"a">>, <<"a", "b">>, <<"b">>, <<"b", ".">>, <<"a", "]">>, <<"[", "a">>, <<".", "a">>}
Steps ==
  {S("field", n) : n \in Names} \cup {S("key", k) : k \in Keys}
  \cup {S("hash", h) : h \in {<<"1">>, <<"1", "1">>, <<"0">>}}
AllPaths == UNION {[1..n -> Steps] : n \in 1..3}

Entry(k, h, v) == [key |-> k, hash |-> h, value |-> v]
Objects ==
  <<[fields |-> <<<<<<"a">>, 2>>, <<<<"b">>, 0>>>>, entries |-> <<>>],
    [fields |-> <<<<<<"a", "b">>, 1>>, <<<<"a">>, 3>>>>,
     entries |-> <<Entry(<<"a", "b">>, 1, 3), Entry(<<"a">>, 11, 1), Entry(<<"b", ".">>, 0, 1),
                   Entry(<<"a", "]">>, 11, 2), Entry(<<"b">>, 3, 0)>>],
    [fields |-> <<<<<<"b">>, 2>>, <<<<"a">>, 2>>>>, entries |-> <<Entry(<<"a">>, 1, 2)>>]>>

INSTANCE Expression WITH
  Letters <- {"a", "b"}, Texts <- AllTexts, Paths <- AllPaths, Memory <- Objects
=============================================================================
