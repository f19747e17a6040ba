------------------------------ MODULE FieldWalk ------------------------------
(***************************************************************************)
(* FindFieldByNameExImpl (SDbgCore/src/ClrProcess_Reflection.cpp): the walk*)
(* over the fields of a type, those of its parents first, that FindField-  *)
(* ByName, GetFieldValueBuffer and EnumFields are made from.  The fields of*)
(* a class lie one after the other, instance fields in front of statics;   *)
(* how many there are is only known by counting, and the number of instance*)
(* fields includes those of the parents.                                   *)
(***************************************************************************)
EXTENDS Naturals, FiniteSets, SequencesExt

CONSTANTS
  Types,      (* the types, see Type                                       *)
  Names,      (* the names that are looked for                             *)
  Operations  (* "enum" is EnumFields, "value" is GetFieldValueBuffer      *)

(* One class.  table, data, module: whether GetMethodTableData, GetMethod- *)
(* TableFieldData and GetModule answer for it.  fields: its own.           *)
Class == [table: BOOLEAN, data: BOOLEAN, module: BOOLEAN, fields: Seq(Nat)]

(* classes: from System.Object to the type itself.  cells: FieldDescs, by  *)
(* address; those of a class are at fields[1], fields[1] + 1, ...  static: *)
(* or thread or context local.  desc, meta: whether GetFieldDescData and   *)
(* GetMemberProps answer for it.                                           *)
\* What the module takes for granted of its parameters.
FieldAssumption ==
  /\ \A ty \in Types : ty.classes \in Seq(Class) /\ ty.classes # <<>>
  /\ Operations \subseteq {"enum", "value"}

VARIABLES
  type,       (* the type that is walked                                   *)
  e,          (* the walk, see Walk                                        *)
  called      (* addresses the callback was given                          *)

vars == <<type, e, called>>

(* class: the method table whose call is the innermost, an index of        *)
(* classes.  seen: *numInstanceFieldsSeen.  inst, stat: numInstanceFields, *)
(* numStaticFields.  curr: currFieldAddr.  found: *field, or 0.            *)
Walk ==
  [pc: {"table", "fields", "loop", "value", "returned"}, op: Operations, wanted: Names,
   class: Nat, seen: Nat, inst: Nat, stat: Nat, curr: Nat, found: Nat,
   hr: {"S_OK", "failed"}]

Derived == Len(type.classes)
Table(k) == type.classes[k]
Own(k) == Range(Table(k).fields)
Cell(a) == type.cells[a]
NumStaticFields(k) == Cardinality({a \in Own(k) : Cell(a).static})
NumInstanceFields(k) == Cardinality({a \in UNION {Own(j) : j \in 1..k} : ~Cell(a).static})

Init ==
  /\ type \in Types
  /\ \E op \in Operations, w \in Names :
       e = [pc |-> "table", op |-> op, wanted |-> w, class |-> Derived, seen |-> 0, inst |-> 0,
            stat |-> 0, curr |-> 0, found |-> 0, hr |-> "failed"]
  /\ called = <<>>

Do(p, f) == e.pc = p /\ e' = f /\ UNCHANGED <<type, called>>

\* The call for a class has not found the field: its caller goes on.
Up(f) ==
  IF f.class < Derived THEN [f EXCEPT !.pc = "fields", !.class = @ + 1]
  ELSE [f EXCEPT !.pc = "returned", !.hr = IF f.op = "enum" THEN "S_OK" ELSE "failed"]

(* GetMethodTableData, and the call for the parent.                        *)
ReadTable ==
  Do("table",
     IF ~Table(e.class).table THEN Up(e)
     ELSE IF e.class > 1 THEN [e EXCEPT !.class = @ - 1]
     ELSE [e EXCEPT !.pc = "fields"])

\* A slip: FirstField is not looked at.
ReadFieldsUnchecked ==
  Do("fields",
     LET c == Table(e.class) IN
     IF ~c.data \/ ~c.module THEN Up(e)
     ELSE [e EXCEPT !.pc = "loop", !.inst = e.seen, !.stat = 0,
                    !.curr = IF c.fields = <<>> THEN 0 ELSE c.fields[1]])

(* GetMethodTableFieldData and the class's metadata.                       *)
ReadFields ==
  Do("fields",
     LET c == Table(e.class) IN
     IF ~c.data \/ c.fields = <<>> \/ ~c.module THEN Up(e)
     ELSE [e EXCEPT !.pc = "loop", !.inst = e.seen, !.stat = 0, !.curr = c.fields[1]])

More == e.inst < NumInstanceFields(e.class) \/ e.stat < NumStaticFields(e.class)
Exists == e.curr \in DOMAIN type.cells /\ Cell(e.curr).desc

Counted ==
  IF Cell(e.curr).static THEN [e EXCEPT !.stat = @ + 1] ELSE [e EXCEPT !.inst = @ + 1]

\* A slip: the next field is only taken where the name could be read.
SkipFieldStays ==
  /\ More /\ Exists /\ ~Cell(e.curr).meta
  /\ Do("loop", Counted)

(* A field whose name cannot be read counts, and is otherwise passed over. *)
SkipField ==
  /\ More /\ Exists /\ ~Cell(e.curr).meta
  /\ Do("loop", [Counted EXCEPT !.curr = @ + 1])

(* The callback, whose answer is not looked at, and the comparison.        *)
VisitField ==
  /\ e.pc = "loop" /\ More /\ Exists /\ Cell(e.curr).meta
  /\ called' = IF e.op = "enum" THEN Append(called, e.curr) ELSE called
  /\ e' = IF e.op # "enum" /\ Cell(e.curr).name = e.wanted
            THEN [Counted EXCEPT !.found = e.curr, !.pc = "value"]
            ELSE [Counted EXCEPT !.curr = @ + 1]
  /\ UNCHANGED type

\* A slip: a field that cannot be read is passed over like one without a name.
FieldFailsContinue ==
  /\ More /\ ~Exists
  /\ Do("loop", e)

(* The call returns without telling how many instance fields it has seen.  *)
FieldFails ==
  /\ More /\ ~Exists
  /\ Do("loop", Up(e))

\* A slip: only the fields of the class itself are told.
EndOfFieldsOwn ==
  /\ ~More
  /\ Do("loop", Up([e EXCEPT !.seen = NumInstanceFields(e.class) - e.seen]))

EndOfFields ==
  /\ ~More
  /\ Do("loop", Up([e EXCEPT !.seen = e.inst]))

\* A slip: the value of a static field is read in the object.
ReadValueStatic ==
  Do("value", [e EXCEPT !.pc = "returned", !.hr = "S_OK"])

(* ReadFieldValueBuffer.                                                   *)
ReadValue ==
  Do("value", [e EXCEPT !.pc = "returned",
                        !.hr = IF Cell(e.found).static THEN "failed" ELSE "S_OK"])

Next ==
  \/ ReadTable \/ ReadFields \/ SkipField \/ VisitField \/ FieldFails \/ EndOfFields
  \/ ReadValue

Spec == Init /\ [][Next]_vars

-----------------------------------------------------------------------------
TypeOK ==
  /\ e \in Walk
  /\ e.class \in 1..Derived
  /\ e.pc = "loop" => e.curr > 0

Fields == UNION {Own(k) : k \in 1..Derived}
Visible(k) == Table(k).data /\ Table(k).module
Instances(k) == {a \in Own(k) : ~Cell(a).static}

(* A class whose call does not tell how many instance fields it has.       *)
Lost(k) ==
  \/ \E j \in k..Derived : ~Table(j).table
  \/ Instances(k) # {} /\ (~Visible(k) \/ \E a \in Own(k) : ~Cell(a).desc)

(* A field that is not of the type is only come across where the instance  *)
(* fields of a parent were not counted: the loop of a class then goes past *)
(* its last field.                                                         *)
StaysInside ==
  \/ Range(called) \cup {e.found} \subseteq Fields \cup {0}
  \/ \E k \in 1..(Derived - 1) : Lost(k)

Sound == \A k \in 1..Derived : ~Lost(k) /\ \A a \in Own(k) : Cell(a).desc

(* EnumFields calls back with every field whose class and name can be read,*)
(* once, parents first, where no class was lost.                           *)
EnumsAll ==
  (e.pc = "returned" /\ e.op = "enum" /\ Sound) =>
    called = FlattenSeq([k \in 1..Derived |->
               IF Visible(k) THEN SelectSeq(Table(k).fields, LAMBDA a : Cell(a).meta) ELSE <<>>])

(* A name that several classes use is that of the class nearest to         *)
(* System.Object, and if that field is static the value of the object's    *)
(* own field of the name cannot be read.                                   *)
FindsFirst ==
  (e.pc = "returned" /\ e.op = "value" /\ Sound) =>
    LET named == {k \in 1..Derived : Visible(k) /\ \E a \in Own(k) :
                                    Cell(a).meta /\ Cell(a).name = e.wanted}
    IN  /\ (named = {}) = (e.found = 0)
        /\ e.found # 0 =>
             /\ Cell(e.found).name = e.wanted
             /\ \E k \in named : e.found \in Own(k) /\ \A j \in named : k <= j
        /\ (e.hr = "S_OK") = (e.found # 0 /\ ~Cell(e.found).static)

Ended == e.pc = "returned"
=============================================================================
