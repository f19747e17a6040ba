------------------------- MODULE MCThreadRequests -------------------------
(***************************************************************************)
(* The lists of threads for the configurations of the two compositions:    *)
(* three threads, each one of those that differ on the way to a request,   *)
(* for a dump; a list of two and room for a third for a live target.       *)
(***************************************************************************)
EXTENDS ThreadRequests, TLC

Kind(m, x, i, h) ==
  [id |-> 0, next |-> Null, readable |-> TRUE, managed |-> m, exec |-> x, illogical |-> i, host |-> h]
Kinds ==
  {Kind(TRUE, "set", "set", 11), Kind(TRUE, "set", "set", 12), Kind(TRUE, "set", "set", Null),
   Kind(FALSE, "null", "null", 11), Kind(TRUE, "null", "null", 11), Kind(TRUE, "bad", "bad", 11),
   Kind(TRUE, "set", "null", Null), Kind(TRUE, "set", "bad", 12),
   [Kind(TRUE, "set", "set", 12) EXCEPT !.readable = FALSE]}

Chain(s) ==
  [store |-> TRUE, first |-> IF s = <<>> THEN Null ELSE 1,
   linked |-> DOMAIN s,
   at |-> [n \in Nodes |-> IF n \in DOMAIN s
             THEN [s[n] EXCEPT !.id = n, !.next = IF n < Len(s) THEN n + 1 ELSE Null]
             ELSE Kind(FALSE, "null", "null", Null)]]

DumpImages ==
  {Chain(<<x, y, z>>) : x, y, z \in Kinds} \cup {Chain(<<>>)}
    \cup {[Chain(<<x>>) EXCEPT !.store = FALSE] : x \in Kinds}

\* Live, of threads that serve no request or one that takes turns.
Usual == Kind(TRUE, "set", "set", Null)
LiveImages == {Chain(<<Usual, Usual>>)}

AnImage == CHOOSE m \in Images : TRUE

(* While something else is looked at, the command waits to be made.        *)
RequestWaits ==
  /\ mem = AnImage
  /\ RequestInit
  /\ e.wanted = 0 /\ e.cmd = "dump"
=============================================================================
