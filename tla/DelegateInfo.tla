---------------------------- MODULE DelegateInfo ----------------------------
(***************************************************************************)
(* What a delegate calls: GetDelegateInfo (SDbgCore/src/ClrProcess.cpp)    *)
(* and !getdelegatemethod (SDbgExt/GetDelegateMethod.cpp).  The four fields*)
(* of a delegate are looked up once and kept in s_usefulFields, which every*)
(* ClrProcess and every thread of the debugger shares without a lock; a    *)
(* script may ask while a command does.                                    *)
(***************************************************************************)
EXTENDS Naturals, Sequences

CONSTANTS
  Calls,      (* the calls, each made at most once                         *)
  Types,      (* the offsets of the four fields by type, see Type          *)
  Objects,    (* what may be asked about, see Object                       *)
  Methods,    (* MethodDescs                                               *)
  FromIP,     (* what GetMethodDescPtrFromIP says of a code address,       *)
  Header      (* and what GetCodeHeaderData says of it                     *)

\* _target, _methodPtr, _methodPtrAux, _invocationList.
Slots == 1..4

None == 0                             \* NULL, and a field a type does not have
Unread == 99                          \* memory that cannot be read

(* field: the offset, from 1, of each of the four.                         *)
Type == [Slots -> Nat]

(* type: its method table, None where GetObjectData fails.  delegate:      *)
(* whether it is one.  at: what is in the object.                          *)
Object == [type: DOMAIN Types \cup {None}, delegate: BOOLEAN, at: Seq(Nat)]

(* What the module takes for granted of its parameters: all delegates have *)
(* the same four fields, no other type has all of them, and there is no    *)
(* code at NULL.                                                           *)
DelegateAssumption ==
  /\ \A t \in DOMAIN Types : Types[t] \in Type
  /\ \A o \in Objects :
       /\ o \in Object
       /\ o.delegate => o.type # None /\ \A f \in Slots : Types[o.type][f] \in DOMAIN o.at
  /\ \A a, b \in Objects : a.delegate /\ b.delegate => a.type = b.type
  /\ \E a \in Objects : a.delegate
  /\ \A t \in DOMAIN Types :
       (\A f \in Slots : Types[t][f] # None) => \E o \in Objects : o.delegate /\ o.type = t
  /\ DOMAIN FromIP = DOMAIN Header /\ None \notin DOMAIN Header
  /\ \A p \in DOMAIN Header : {FromIP[p], Header[p]} \subseteq Methods \cup {None}

VARIABLES
  cache,      (* s_usefulFields, see Cached                                *)
  e,          (* the calls, see Call                                       *)
  clash       (* whether the cache has been written to during another call *)

vars == <<cache, e, clash>>

(* field: whether the token is set, offset: 0 until it is.                 *)
Cached == [field: BOOLEAN, offset: Nat]

(* slot: the field that is looked up or read.  got: the values read.       *)
(* clean: see CleanRight.                                                  *)
Call ==
  [pc: {"idle", "check", "object", "find", "rest", "read", "resolve", "returned"}, obj: Objects,
   slot: 1..5, half: BOOLEAN, got: [Slots -> Nat], clean: BOOLEAN,
   hr: {"S_OK", "S_FALSE", "failed"}, method: Methods \cup {None}]

Init ==
  /\ cache = [f \in Slots |-> [field |-> FALSE, offset |-> 0]]
  /\ e \in [Calls -> {[pc |-> "idle", obj |-> o, slot |-> 1, half |-> FALSE,
                       got |-> [f \in Slots |-> None], clean |-> FALSE, hr |-> "failed",
                       method |-> None] : o \in Objects}]
  /\ clash = FALSE

Running(c) == e[c].pc \notin {"idle", "returned"}
Do(c, p, f) == e[c].pc = p /\ e' = [e EXCEPT ![c] = f] /\ UNCHANGED <<cache, clash>>
Return(c, hr, md) == [e[c] EXCEPT !.pc = "returned", !.hr = hr, !.method = md]

Start(c) == Do(c, "idle", [e[c] EXCEPT !.pc = "check"])

Filling(c) == e[c].pc \in {"object", "find", "rest"}
Delegates == CHOOSE t \in DOMAIN Types : \E o \in Objects : o.delegate /\ o.type = t
Complete == \A f \in Slots : cache[f] = [field |-> TRUE, offset |-> Types[Delegates][f]]
Settled == Complete /\ \A c \in Calls : Filling(c) => e[c].obj.delegate

\* All four fields are known.
AllKept == \A f \in Slots : cache[f].field

\* A slip: the invocation list is only looked at by the call that finds it.
CheckSkipsList(c) ==
  /\ e[c].pc = "check"
  /\ e' = [e EXCEPT ![c] = IF AllKept THEN [@ EXCEPT !.pc = "read", !.slot = 1, !.clean = Settled]
                           ELSE [@ EXCEPT !.pc = "object"]]
  /\ clash' = (clash \/ \E d \in Calls : Filling(d))
  /\ UNCHANGED cache

Check(c) ==
  /\ e[c].pc = "check"
  /\ e' = [e EXCEPT ![c] = IF AllKept THEN [@ EXCEPT !.pc = "read", !.slot = 4, !.clean = Settled]
                           ELSE [@ EXCEPT !.pc = "object"]]
  /\ clash' = (clash \/ \E d \in Calls : Filling(d))
  /\ UNCHANGED cache

\* A slip: the answer of the DAC is not looked at.
GetObjectDataUnchecked(c) == Do(c, "object", [e[c] EXCEPT !.pc = "find"])

GetObjectData(c) ==
  Do(c, "object", IF e[c].obj.type = None THEN Return(c, "failed", None)
                  ELSE [e[c] EXCEPT !.pc = "find"])

\* A slip: the description of the field is cleared before it is looked for.
FindClears(c) ==
  LET f == e[c].slot
      offset == Types[e[c].obj.type][f]
  IN  /\ e[c].pc = "find" /\ offset # None
      /\ \E token \in BOOLEAN :
           /\ cache' = [cache EXCEPT ![f] = IF token THEN [field |-> TRUE, offset |-> 0]
                                            ELSE [field |-> FALSE, offset |-> offset]]
           /\ e' = [e EXCEPT ![c].pc = "rest", ![c].half = token]
           /\ clash' = (clash \/ \E d \in Calls \ {c} : Running(d))

(* FindFieldByNameEx, which only writes where it finds the field.  The copy*)
(* of a ClrFieldDescData is not one step: the token or the offset may be   *)
(* seen first.                                                             *)
Find(c) ==
  LET f == e[c].slot
      offset == Types[e[c].obj.type][f]
  IN  /\ e[c].pc = "find"
      /\ IF offset = None
         THEN Do(c, "find", Return(c, "failed", None))
         ELSE \E token \in BOOLEAN :
                /\ cache' = [cache EXCEPT ![f] = IF token THEN [@ EXCEPT !.field = TRUE]
                                                 ELSE [@ EXCEPT !.offset = offset]]
                /\ e' = [e EXCEPT ![c].pc = "rest", ![c].half = token]
                /\ clash' = (clash \/ \E d \in Calls \ {c} : Running(d))

\* A slip: the invocation list is not looked for.
FindRestThree(c) ==
  LET f == e[c].slot IN
  /\ e[c].pc = "rest"
  /\ cache' = [cache EXCEPT ![f] = IF e[c].half THEN [@ EXCEPT !.offset = Types[e[c].obj.type][f]]
                                   ELSE [@ EXCEPT !.field = TRUE]]
  /\ e' = [e EXCEPT ![c].pc = IF f < 3 THEN "find" ELSE "read",
                    ![c].slot = IF f < 3 THEN f + 1 ELSE 4]
  /\ clash' = (clash \/ \E d \in Calls \ {c} : Running(d))

(* The rest of the copy; then the next field, or the reads.                *)
FindRest(c) ==
  LET f == e[c].slot IN
  /\ e[c].pc = "rest"
  /\ cache' = [cache EXCEPT ![f] = IF e[c].half THEN [@ EXCEPT !.offset = Types[e[c].obj.type][f]]
                                   ELSE [@ EXCEPT !.field = TRUE]]
  /\ e' = [e EXCEPT ![c].pc = IF f < 4 THEN "find" ELSE "read",
                    ![c].slot = IF f < 4 THEN f + 1 ELSE 4]
  /\ clash' = (clash \/ \E d \in Calls \ {c} : Running(d))

\* ReadFieldValueBuffer: an offset that is not yet there reads the first field.
ValueOf(o, f) ==
  LET i == IF cache[f].offset = 0 THEN 1 ELSE cache[f].offset IN
  IF i \in DOMAIN o.at THEN o.at[i] ELSE Unread

\* The order of the reads: what was read last.
After == [f \in {4, 1, 2} |-> CASE f = 4 -> 1 [] f = 1 -> 2 [] f = 2 -> 3]

(* One read, failures of which leave NULL.  A delegate with an invocation  *)
(* list is not looked into.                                                *)
Read(c) ==
  LET f == e[c].slot
      v == ValueOf(e[c].obj, f)
      got == [e[c].got EXCEPT ![f] = IF v = Unread THEN None ELSE v]
  IN  Do(c, "read",
         IF f = 4 /\ got[4] # None THEN Return(c, "S_FALSE", None)
         ELSE [e[c] EXCEPT !.got = got, !.pc = IF f = 3 THEN "resolve" ELSE "read",
                           !.slot = IF f = 3 THEN 3 ELSE After[f]])

Ask(answers, p) == IF p \in DOMAIN answers THEN answers[p] ELSE None

\* A slip: _methodPtr is looked at first, as it is always set.
MethodPtrFirst(got) ==
  IF Ask(FromIP, got[2]) # None THEN Ask(FromIP, got[2])
  ELSE IF got[3] # None THEN Ask(Header, got[3]) ELSE Ask(Header, got[2])

\* Which MethodDesc the two pointers stand for.
Method(got) ==
  IF got[3] # None THEN Ask(Header, got[3])
  ELSE IF got[2] = None THEN None
  ELSE IF Ask(FromIP, got[2]) # None THEN Ask(FromIP, got[2]) ELSE Ask(Header, got[2])

Resolve(c) ==
  LET md == Method(e[c].got) IN
  Do(c, "resolve", Return(c, IF md = None THEN "failed" ELSE "S_OK", md))

CallStep(c) ==
  Start(c) \/ Check(c) \/ GetObjectData(c) \/ Find(c) \/ FindRest(c) \/ Read(c) \/ Resolve(c)
Next == \E c \in Calls : CallStep(c)

Spec == Init /\ [][Next]_vars

-----------------------------------------------------------------------------
TypeOK ==
  /\ cache \in [Slots -> Cached]
  /\ e \in [Calls -> Call]
  /\ \A c \in Calls : e[c].pc \in {"find", "rest"} => e[c].slot \in Slots /\ e[c].obj.type # None

(* What a delegate's own fields say.                                       *)
Own(o) == [f \in Slots |-> LET v == o.at[Types[o.type][f]] IN IF v = Unread THEN None ELSE v]
Right(c) ==
  LET own == Own(e[c].obj) IN
  IF own[4] # None THEN e[c].hr = "S_FALSE"
  ELSE LET code == IF own[3] # None THEN own[3] ELSE own[2]
       IN  /\ e[c].method \in {Ask(FromIP, code), Ask(Header, code)}
           /\ own[3] # None => e[c].method = Ask(Header, own[3])
           /\ e[c].hr = IF e[c].method = None THEN "failed" ELSE "S_OK"
           /\ e[c].hr = "S_OK" => e[c].got[1] = own[1]

Answered(c) == e[c].pc = "returned" /\ e[c].obj.delegate

(* Whatever was asked about before, a delegate is answered for by its own  *)
(* fields as long as no call has looked fields up during another.          *)
AloneRight == ~clash => \A c \in Calls : Answered(c) => Right(c)

(* A call that finds the fields of delegates complete, and nobody looking  *)
(* up those of something else, is right whatever overlaps it.              *)
CleanRight == \A c \in Calls : Answered(c) /\ e[c].clean => Right(c)

(* A delegate is answered for by its own fields if nothing else meddled.   *)
DelegatesRight == TypeOK /\ CleanRight /\ AloneRight

(* Once complete the cache stays so, unless something that is no delegate  *)
(* was being looked up: its _target would then stay for good.              *)
KeepsComplete == Settled => Complete'

\* A call begins, where only delegates are asked about.
LooksUp(c) == e[c].pc = "check" /\ \A d \in Calls : e[d].obj.delegate
=============================================================================
