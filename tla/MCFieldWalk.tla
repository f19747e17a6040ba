---------------------------- MODULE MCFieldWalk ----------------------------
(***************************************************************************)
(* Types of three classes with up to two fields each, names that hide each *)
(* other, the FieldDescs of another class behind them; sound, and with any *)
(* one class or field damaged.                                             *)
(***************************************************************************)
EXTENDS Naturals, Sequences, TLC

VARIABLES type, e, called

Field(n, s) == [name |-> n, static |-> s, desc |-> TRUE, meta |-> TRUE]

\* The fields of one class: instance fields first.
Layouts ==
  {<<>>} \cup {<<Field(n, s)>> : n \in {"a", "b"}, s \in BOOLEAN}
  \cup {<<Field("a", FALSE), Field("b", s)>> : s \in BOOLEAN}

\* Three layouts in a row and two fields of another class behind them.
Cells(x, y, z) == x \o y \o z \o <<Field("c", FALSE), Field("a", TRUE)>>
Classes(x, y, z) ==
  LET c(s, from) == [table |-> TRUE, data |-> TRUE, module |-> TRUE,
                     fields |-> [i \in 1..Len(s) |-> from + i]]
  IN  <<c(x, 0), c(y, Len(x)), c(z, Len(x) + Len(y))>>
SoundTypes ==
  {[classes |-> Classes(x, y, z), cells |-> Cells(x, y, z)] : x, y, z \in Layouts}

Damaged(ty) ==
  {[ty EXCEPT !.classes[k].table = FALSE] : k \in 1..3}
  \cup {[ty EXCEPT !.classes[k].data = FALSE] : k \in 1..3}
  \cup {[ty EXCEPT !.classes[k].module = FALSE] : k \in 1..3}
  \cup {[ty EXCEPT !.cells[a].desc = FALSE] : a \in DOMAIN ty.cells}
  \cup {[ty EXCEPT !.cells[a].meta = FALSE] : a \in DOMAIN ty.cells}
AllTypes == SoundTypes \cup UNION {Damaged(ty) : ty \in SoundTypes}

INSTANCE FieldWalk WITH
  Types <- AllTypes, Names <- {"a", "b", "c"}, Operations <- {"enum", "value"}
=============================================================================
