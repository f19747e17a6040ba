----------------------------- MODULE Expression -----------------------------
(***************************************************************************)
(* EvaluateExpression (SDbgExt/SDbgExt_EvaluateExpression.cpp): from an    *)
(* object along fields, dictionary keys in quotes and hash codes, as in    *)
(* _items['en-us']._value.  The expression is scanned once, character by   *)
(* character, and every lookup made as soon as its end is seen.            *)
(***************************************************************************)
EXTENDS Naturals, SequencesExt

CONSTANTS
  Letters,    (* the characters names and keys are made of                 *)
  Texts,      (* arbitrary expressions, sequences of characters            *)
  Paths,      (* expressions that are meant, see Step                      *)
  Memory      (* the target, see Object                                    *)

NULL == 0
Digits == {"0", "1"}
Quotes == {"'", "\""}
Special == {".", "[", "]"} \cup Quotes

(* A step along a field, or to the value of a key or a hash code.          *)
Step == [is: {"field", "key", "hash"}, name: Seq(Letters \cup Digits \cup Special)]

(* fields: the value of each field.  entries: of a dictionary, in the order*)
(* in which DctEnumerator comes to them.                                   *)
Object == [fields: Seq(Seq(Letters) \X Nat),
           entries: Seq([key: Seq(Letters \cup Special), hash: Nat, value: Nat])]

\* What the module takes for granted of its parameters.
ExpressionAssumption ==
  /\ Letters \cap (Digits \cup Special) = {}
  /\ \A t \in Texts : t \in Seq(Letters \cup Digits \cup Special)
  /\ \A p \in Paths : p \in Seq(Step)
  /\ Memory \in Seq(Object) /\ Memory # <<>>

VARIABLES
  text,       (* the expression                                            *)
  path,       (* what is meant by it, if anything                          *)
  e           (* the evaluation, see Evaluation                            *)

vars == <<text, path, e>>

(* pos: how many characters have been scanned.  buffer: what is in buffer  *)
(* up to bufferPos.  curr: currAddr.                                       *)
Evaluation ==
  [pc: {"scan", "last", "returned", "crashed"}, pos: Nat,
   buffer: Seq(Letters \cup Digits \cup Special), curr: Nat, ok: BOOLEAN, result: Nat]

-----------------------------------------------------------------------------
(* The lookups, each the address and whether it was found. *)

Miss == [ok |-> FALSE, addr |-> NULL]
Hit(a) == [ok |-> TRUE, addr |-> a]

(* GetFieldValuePtr                                                        *)
FieldOf(a, name) ==
  IF a \notin DOMAIN Memory THEN Miss
  ELSE LET f == SelectSeq(Memory[a].fields, LAMBDA x : x[1] = name) IN
       IF f = <<>> THEN Miss ELSE Hit(f[1][2])

\* The entries of what is there: none where there is nothing.
EntriesAt(a) == IF a \in DOMAIN Memory THEN Memory[a].entries ELSE <<>>

\* The first of the entries that match, whose value must not be NULL.
First(s) == IF s = <<>> \/ s[1].value = NULL THEN Miss ELSE Hit(s[1].value)

(* FindDctEntryByKey: a key that begins with the one looked for will do.   *)
ByKey(a, key) == First(SelectSeq(EntriesAt(a), LAMBDA x : IsPrefix(key, x.key)))

(* wcstoul, which stops at the first character that is no digit.           *)
HashCode(s) ==
  LET end == SelectInSeq(s, LAMBDA c : c \notin Digits)
      digits == IF end = 0 THEN s ELSE SubSeq(s, 1, end - 1)
  IN  FoldLeft(LAMBDA n, c : 10 * n + (IF c = "1" THEN 1 ELSE 0), 0, digits)

ByHash(a, h) == First(SelectSeq(EntriesAt(a), LAMBDA x : x.hash = h))

-----------------------------------------------------------------------------
(* What an expression stands for, and how one is written. *)

Follow(r, s) ==
  IF ~r.ok THEN Miss
  ELSE CASE s.is = "field" -> FieldOf(r.addr, s.name)
         [] s.is = "key"   -> ByKey(r.addr, s.name)
         [] s.is = "hash"  -> ByHash(r.addr, HashCode(s.name))

Meant(p) == FoldLeft(Follow, Hit(1), p)

Written(p, quote) ==
  FlattenSeq([i \in DOMAIN p |->
    CASE p[i].is = "field" -> (IF i = 1 THEN <<>> ELSE <<".">>) \o p[i].name
      [] p[i].is = "key"   -> <<"[", quote>> \o p[i].name \o <<quote, "]">>
      [] p[i].is = "hash"  -> <<"[">> \o p[i].name \o <<"]">>])

Init ==
  /\ \/ text \in Texts /\ path = <<>>
     \/ path \in Paths /\ text \in {Written(path, q) : q \in Quotes}
  /\ e = [pc |-> "scan", pos |-> 0, buffer |-> <<>>, curr |-> 1, ok |-> TRUE, result |-> NULL]

-----------------------------------------------------------------------------
(* The scanner. *)

Do(p, f) == e.pc = p /\ e' = f /\ UNCHANGED <<text, path>>
At(c) == e.pos < Len(text) /\ text[e.pos + 1] = c
Failed == [e EXCEPT !.pc = "returned", !.ok = FALSE]

\* RESET_BUFFER after a lookup, and on to what is n characters further.
Reset(r, n) ==
  IF r.ok THEN [e EXCEPT !.curr = r.addr, !.buffer = <<>>, !.pos = @ + n] ELSE Failed

Dot ==
  /\ e.pc = "scan" /\ At(".")
  /\ Do("scan", IF e.buffer = <<>> THEN Failed ELSE Reset(FieldOf(e.curr, e.buffer), 1))

\* A slip: a bracket without a name in front is not passed over.
OpenStays ==
  /\ e.pc = "scan" /\ At("[")
  /\ Do("scan", IF e.buffer = <<>> THEN e ELSE Reset(FieldOf(e.curr, e.buffer), 1))

\* A slip: a bracket inside of a key begins it anew.
OpenRestarts ==
  /\ e.pc = "scan" /\ At("[")
  /\ Do("scan", IF e.buffer = <<>> \/ Head(e.buffer) \in Quotes THEN [e EXCEPT !.buffer = <<>>, !.pos = @ + 1]
                ELSE Reset(FieldOf(e.curr, e.buffer), 1))

Open ==
  /\ e.pc = "scan" /\ At("[")
  /\ Do("scan", IF e.buffer = <<>> THEN [e EXCEPT !.pos = @ + 1]
                ELSE Reset(FieldOf(e.curr, e.buffer), 1))

Quoted == e.buffer # <<>> /\ Head(e.buffer) \in Quotes /\ Last(e.buffer) = Head(e.buffer)

\* A slip: the dot behind is not passed over.
NotBehind == 1

\* A dot behind a bracket is passed over with it.
Behind == IF e.pos + 1 < Len(text) /\ text[e.pos + 2] = "." THEN 2 ELSE 1

\* A slip: what is in brackets is always taken for a quoted key.
CloseAlwaysQuoted ==
  /\ e.pc = "scan" /\ At("]")
  /\ Do("scan",
        IF Len(e.buffer) < 2 THEN [e EXCEPT !.pc = "crashed"]
        ELSE Reset(ByKey(e.curr, SubSeq(e.buffer, 2, Len(e.buffer) - 1)), Behind))

(* One quote alone is both the first and the last: a string of length -1   *)
(* cannot be made, and nobody catches what is thrown.                      *)
Close ==
  /\ e.pc = "scan" /\ At("]")
  /\ Do("scan",
        IF Quoted /\ Len(e.buffer) = 1 THEN [e EXCEPT !.pc = "crashed"]
        ELSE Reset(IF Quoted THEN ByKey(e.curr, SubSeq(e.buffer, 2, Len(e.buffer) - 1))
                   ELSE ByHash(e.curr, HashCode(e.buffer)), Behind))

\* A slip: a dot may be a part of a name as well.
OtherTakesDots ==
  /\ e.pc = "scan" /\ e.pos < Len(text) /\ text[e.pos + 1] \notin {"[", "]"}
  /\ Do("scan", [e EXCEPT !.buffer = Append(@, text[e.pos + 1]), !.pos = @ + 1])

Other ==
  /\ e.pc = "scan" /\ e.pos < Len(text) /\ text[e.pos + 1] \notin {".", "[", "]"}
  /\ Do("scan", [e EXCEPT !.buffer = Append(@, text[e.pos + 1]), !.pos = @ + 1])

EndOfText == e.pos = Len(text) /\ Do("scan", [e EXCEPT !.pc = "last"])

(* The field that ends the expression, if it ends in one.                  *)
LastField ==
  Do("last",
     LET r == IF e.buffer = <<>> THEN Hit(e.curr) ELSE FieldOf(e.curr, e.buffer) IN
     IF r.ok THEN [e EXCEPT !.pc = "returned", !.result = r.addr] ELSE Failed)

Next == Dot \/ Open \/ Close \/ Other \/ EndOfText \/ LastField

Spec == Init /\ [][Next]_vars

-----------------------------------------------------------------------------
TypeOK ==
  /\ e \in Evaluation
  /\ Range(e.buffer) \cap {".", "[", "]"} = {}
  /\ e.pos <= Len(text)

Plain(s) == Range(s.name) \subseteq Letters \cup Digits

(* The process only ends at a quote between two brackets, or behind a dot *)
(* or at the start, with a bracket after it.                               *)
CrashExplained ==
  e.pc = "crashed" =>
    \E i \in 1..(Len(text) - 1) :
      /\ text[i] \in Quotes /\ text[i + 1] = "]"
      /\ i = 1 \/ text[i - 1] \in {".", "[", "]"}

(* An expression that was written for a path of fields, keys and hash codes*)
(* without special characters gives what the path leads to, or fails where *)
(* it leads nowhere.                                                       *)
MeantFound ==
  (e.pc \in {"returned", "crashed"} /\ path # <<>> /\ \A i \in DOMAIN path : Plain(path[i])) =>
    /\ e.pc = "returned" /\ e.ok = Meant(path).ok
    /\ e.ok => e.result = Meant(path).addr

(* A path with a dot or a bracket in a key is refused, if it does not end  *)
(* the process: it is never answered with another object.                  *)
SpecialRefused ==
  (e.pc = "returned" /\ path # <<>> /\ \E i \in DOMAIN path : ~Plain(path[i])) =>
    (e.ok => Meant(path) = Hit(e.result))

Ended == e.pc \in {"returned", "crashed"}
=============================================================================
