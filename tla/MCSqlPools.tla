----------------------------- MODULE MCSqlPools -----------------------------
(***************************************************************************)
(* A dump of two factories with two groups, three pools and three          *)
(* connections, any part of which cannot be read; a live target of one     *)
(* pool with two connections of three.                                     *)
(***************************************************************************)
EXTENDS Naturals, Sequences, TLC

CONSTANT None

VARIABLES mem, e, shown, ran, held, reused, removed, lasting, events

Conns == {"c1", "c2", "c3"}
Commands == {"k1", "k2", "k3"}
Handles == {"h1", "h2"}
All == {"f1", "f2", "g1", "g2", "p1", "p2", "p3"}
Few == {"f1", "g1", "p1"}

NoList == [size |-> 0, items |-> 0]
Full ==
  [static |-> TRUE, factories |-> <<None, "f1", "f2">>, valid |-> {"f1", "f2"},
   kids |-> [x \in All |-> CASE x = "f1" -> <<"g1", "g2">> [] x = "g1" -> <<"p1", "p2">>
                                 [] x = "g2" -> <<"p3">> [] OTHER -> <<>>],
   good |-> All \cup Conns \cup Commands,
   list |-> [x \in All |-> CASE x = "p1" -> [size |-> 2, items |-> 1]
                                 [] x = "p3" -> [size |-> 1, items |-> 2] [] OTHER -> NoList],
   arrays |-> <<<<"c1", "c2">>, <<"c3", None>>>>,
   owner |-> [c \in Conns |-> CASE c = "c1" -> "h1" [] c = "c3" -> "h2" [] OTHER -> None],
   handle |-> [h \in Handles |-> IF h = "h1" THEN "k1" ELSE None],
   dated |-> {"c1", "c2"}]

DumpImages ==
  {[Full EXCEPT !.good = @ \ {x, y}] : x, y \in All \cup Conns \cup {"k1"}}
  \cup {[Full EXCEPT !.valid = {"f1"}], [Full EXCEPT !.static = FALSE], [Full EXCEPT !.factories = <<>>]}

One ==
  [static |-> TRUE, factories |-> <<"f1">>, valid |-> {"f1"},
   kids |-> [x \in Few |-> CASE x = "f1" -> <<"g1">> [] x = "g1" -> <<"p1">> [] OTHER -> <<>>],
   good |-> Few \cup Conns \cup Commands,
   list |-> [x \in Few |-> IF x = "p1" THEN [size |-> 2, items |-> 1] ELSE NoList],
   arrays |-> <<<<"c1", "c2">>>>,
   owner |-> [c \in Conns |-> IF c = "c1" THEN "h1" ELSE None],
   handle |-> [h \in Handles |-> IF h = "h1" THEN "k1" ELSE None],
   dated |-> Conns]
LiveImages == {One}

Dump == INSTANCE SqlPools WITH
  Images <- DumpImages, Objects <- All, Users <- {"managed", "command"}, Events <- 0

\* Connections come and go and run commands during the call.
Live == INSTANCE SqlPools WITH
  Images <- LiveImages, Objects <- Few, Users <- {"command"}, Events <- 5
=============================================================================
