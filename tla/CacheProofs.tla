----------------------------- MODULE CacheProofs -----------------------------
(***************************************************************************)
(* Proofs about the static tables that no lock guards.  GetDelegateInfo,   *)
(* for any number of calls that overlap, any types and any objects: a cache*)
(* that is complete stays complete unless something that is no delegate is *)
(* being looked up, and a delegate is answered for by its own fields.      *)
(* ObjectProxy, for any number of scripts, targets and primitive types: the*)
(* tables end up full where no two threads fill them over each other, and a*)
(* script is answered with what it asked for.                              *)
(***************************************************************************)
EXTENDS DelegateInfo, ObjectProxy, TLAPS


\* The offset of the field f of what c asks about.
Offset(c, f) == Types[e[c].obj.type][f]

(* Where each call is: nothing but Check makes it clean, and it is at a    *)
(* field that its type has once it copies one.                             *)
Place(c) ==
  /\ e[c].pc \in {"idle", "check", "object"} => e[c].slot = 1
  /\ e[c].pc \in {"find", "rest"} => e[c].slot \in Slots /\ e[c].obj.type # None
  /\ e[c].pc = "rest" => Offset(c, e[c].slot) # None
  /\ e[c].pc = "read" => e[c].slot \in Slots
  /\ e[c].clean => e[c].pc \in {"read", "resolve", "returned"}

\* The fields that a call has read: the list, then target and pointers.
Seen(c) ==
  CASE e[c].pc = "resolve" -> Slots
    [] e[c].pc # "resolve" /\ e[c].slot = 1 -> {4}
    [] e[c].pc # "resolve" /\ e[c].slot = 2 -> {4, 1}
    [] e[c].pc # "resolve" /\ e[c].slot = 3 -> {4, 1, 2}
    [] OTHER -> {}

\* A call that reads a delegate's fields has read its own.
Reads(c) ==
  e[c].pc \in {"read", "resolve"} /\ e[c].obj.delegate =>
    /\ \A f \in Seen(c) : e[c].got[f] = Own(e[c].obj)[f]
    /\ 4 \in Seen(c) => e[c].got[4] = None

\* What the call has been told, or is being told, is right.
Trusted(c) == Reads(c) /\ (Answered(c) => Right(c))

(* As long as no call looks fields up during another: at most one does; the*)
(* fields before the one it is at are those of its type; the last token is *)
(* set only by one that has found all four, which is a delegate's; and who *)
(* reads has them all.                                                     *)
Alone(c) ==
  /\ \A d \in Calls : Filling(c) /\ Filling(d) => c = d
  /\ e[c].pc \in {"find", "rest"} =>
       \A f \in Slots : f < e[c].slot =>
         cache[f] = [field |-> TRUE, offset |-> Offset(c, f)] /\ Offset(c, f) # None
  /\ e[c].pc = "rest" =>
       IF e[c].half THEN cache[e[c].slot].field ELSE cache[e[c].slot].offset = Offset(c, e[c].slot)
  /\ Filling(c) /\ cache[4].field => e[c].pc = "rest" /\ e[c].slot = 4 /\ e[c].half
  /\ e[c].pc \in {"read", "resolve"} => Complete
  /\ Trusted(c)

AloneInv ==
  /\ cache[4].field => Complete \/ \E c \in Calls : Filling(c)
  /\ \A c \in Calls : Alone(c)

\* A clean call relies on a cache that stays complete.
CleanInv == \A c \in Calls : e[c].clean => Settled /\ Trusted(c)

IInv == TypeOK /\ (\A c \in Calls : Place(c)) /\ CleanInv /\ (~clash => AloneInv)
-----------------------------------------------------------------------------
(* All delegates have the type Delegates, which has the four fields.       *)
LEMMA DelegateFacts ==
  ASSUME DelegateAssumption, NEW o \in Objects, o.delegate
  PROVE  /\ o.type = Delegates /\ Delegates \in DOMAIN Types
         /\ Types[Delegates] \in [Slots -> Nat]
         /\ \A f \in Slots : Types[Delegates][f] \in DOMAIN o.at /\ Types[Delegates][f] # None
<1>1. Delegates \in DOMAIN Types /\ \E a \in Objects : a.delegate /\ a.type = Delegates
  <2>1. o.type \in DOMAIN Types
    BY DEF DelegateAssumption, Object
  <2> QED
    BY <2>1 DEF Delegates
<1>2. o.type = Delegates
  BY <1>1 DEF DelegateAssumption
<1>3. Types[Delegates] \in [Slots -> Nat]
  BY <1>1 DEF DelegateAssumption, Type
<1>4. \A f \in Slots : Types[Delegates][f] \in DOMAIN o.at
  BY <1>2 DEF DelegateAssumption
<1>5. DOMAIN o.at = 1 .. Len(o.at)
  BY DEF DelegateAssumption, Object
<1> QED
  BY <1>1, <1>2, <1>3, <1>4, <1>5 DEF None

(* A type that has all four fields is that of the delegates.               *)
LEMMA AllFour ==
  ASSUME DelegateAssumption, NEW t \in DOMAIN Types, \A f \in Slots : Types[t][f] # None
  PROVE  t = Delegates
<1>1. PICK o \in Objects : o.delegate /\ o.type = t
  BY DEF DelegateAssumption
<1> QED
  BY <1>1, DelegateFacts

(* What is read with a complete cache is what the delegate itself has.     *)
LEMMA OwnValues ==
  ASSUME DelegateAssumption, Complete, NEW o \in Objects, o.delegate, NEW f \in Slots
  PROVE  (IF ValueOf(o, f) = Unread THEN None ELSE ValueOf(o, f)) = Own(o)[f]
<1>1. cache[f].offset = Types[Delegates][f]
  <2>1. cache[f] = [field |-> TRUE, offset |-> Types[Delegates][f]]
    BY DEF Complete
  <2> QED
    BY <2>1
<1>2. ValueOf(o, f) = o.at[Types[o.type][f]]
  BY <1>1, DelegateFacts DEF ValueOf, None
<1> QED
  BY <1>2 DEF Own

(* What is found of the two pointers is a MethodDesc, or nothing.          *)
LEMMA MethodType ==
  ASSUME DelegateAssumption, NEW got
  PROVE  Method(got) \in Methods \cup {None}
<1>1. \A p : Ask(FromIP, p) \in Methods \cup {None} /\ Ask(Header, p) \in Methods \cup {None}
  BY DEF DelegateAssumption, Ask
<1> QED
  BY <1>1 DEF Method

(* A type that an object has is one of those that are known.               *)
LEMMA OffsetType ==
  ASSUME DelegateAssumption, NEW o \in Objects, o.type # None
  PROVE  o.type \in DOMAIN Types /\ Types[o.type] \in [Slots -> Nat]
BY DEF DelegateAssumption, Object, Type

(* What is in an object can be read as a number.                           *)
LEMMA ValueType ==
  ASSUME DelegateAssumption, NEW o \in Objects, NEW f
  PROVE  ValueOf(o, f) \in Nat
<1>1. o.at \in Seq(Nat)
  BY DEF DelegateAssumption, Object
<1>2. \A i \in DOMAIN o.at : o.at[i] \in Nat
  BY <1>1
<1> QED
  BY <1>2 DEF ValueOf, Unread

(* The initial state satisfies the inductive invariant.                    *)
LEMMA InitIInv ==
  ASSUME DelegateAssumption, Init
  PROVE  IInv
<1>1. \A c \in Calls :
        \E o \in Objects :
          e[c] = [pc |-> "idle", obj |-> o, slot |-> 1, half |-> FALSE,
                  got |-> [f \in Slots |-> None], clean |-> FALSE, hr |-> "failed",
                  method |-> None]
  BY DEF Init
<1>2. cache \in [Slots -> Cached] /\ \A f \in Slots : ~cache[f].field
  BY DEF Init, Cached
<1>3. ASSUME NEW c \in Calls
      PROVE  e[c] \in Call /\ e[c].pc = "idle" /\ e[c].slot = 1 /\ ~e[c].clean
  <2> DEFINE nothing == [f \in Slots |-> None]
  <2>1. nothing \in [Slots -> Nat]
    BY DEF None
  <2> HIDE DEF nothing
  <2>2. PICK o \in Objects :
          e[c] = [pc |-> "idle", obj |-> o, slot |-> 1, half |-> FALSE, got |-> nothing,
                  clean |-> FALSE, hr |-> "failed", method |-> None]
    BY <1>1 DEF nothing
  <2> QED
    BY <2>1, <2>2 DEF Call
<1>4. TypeOK
  <2>1. DOMAIN e = Calls /\ e = [c \in Calls |-> e[c]]
    BY DEF Init
  <2> QED
    BY <1>2, <1>3, <2>1 DEF TypeOK
<1>5. \A c \in Calls : Place(c)
  BY <1>3 DEF Place
<1>6. AloneInv
  BY <1>2, <1>3 DEF AloneInv, Alone, Trusted, Reads, Filling, Answered, Slots
<1> QED
  BY <1>3, <1>4, <1>5, <1>6 DEF IInv, CleanInv
-----------------------------------------------------------------------------
(* A call that goes on to read is still one,                               *)
LEMMA ReadsFrom4 ==
  ASSUME NEW r \in Call
  PROVE  LET m == [r EXCEPT !.pc = "read", !.slot = 4] IN
         m \in Call /\ m.pc = "read" /\ m.slot = 4 /\ m.obj = r.obj
<1> DEFINE m == [r EXCEPT !.pc = "read", !.slot = 4]
<1>1. m \in Call
  <2> DEFINE last == 4
  <2>1. last \in 1 .. 5 /\ m = [r EXCEPT !.pc = "read", !.slot = last]
    OBVIOUS
  <2> HIDE DEF last, m
  <2> QED
    BY <2>1 DEF Call
<1>2. m.pc = "read" /\ m.slot = 4 /\ m.obj = r.obj
  BY DEF Call
<1> QED
  BY <1>1, <1>2

(* clean or not.                                                           *)
ReadsOn(r, b) == [r EXCEPT !.pc = "read", !.slot = 4, !.clean = b]

(* What Check makes of a call that finds every token kept.                 *)
LEMMA Checked ==
  ASSUME NEW r \in Call, NEW b \in BOOLEAN
  PROVE  /\ ReadsOn(r, b) \in Call /\ ReadsOn(r, b).pc = "read" /\ ReadsOn(r, b).slot = 4
         /\ ReadsOn(r, b).obj = r.obj /\ ReadsOn(r, b).clean = b
<1> DEFINE k == ReadsOn(r, b)
<1> DEFINE m == [r EXCEPT !.pc = "read", !.slot = 4]
<1>1. m \in Call /\ m.pc = "read" /\ m.slot = 4 /\ m.obj = r.obj
  BY ReadsFrom4
<1>2. k = [m EXCEPT !.clean = b]
  BY DEF ReadsOn
<1> HIDE DEF m, k
<1>3. k \in Call
  BY <1>1, <1>2 DEF Call
<1>4. k.pc = m.pc /\ k.slot = m.slot /\ k.obj = m.obj
  BY <1>1, <1>2 DEF Call
<1>5. k.clean = b
  BY <1>1, <1>2 DEF Call
<1> QED
  BY <1>1, <1>3, <1>4, <1>5 DEF k

(* A call that finds every token kept goes on to read.                     *)
LEMMA CheckReads ==
  ASSUME NEW c \in Calls, e[c] \in Call, Check(c), AllKept
  PROVE  LET k == ReadsOn(e[c], Settled) IN
         /\ e' = [e EXCEPT ![c] = k]
         /\ k \in Call /\ k.pc = "read" /\ k.slot = 4 /\ k.obj = e[c].obj
         /\ k.clean = Settled
<1>1. Settled \in BOOLEAN
  BY DEF Settled, Complete
<1>2. \A b \in BOOLEAN :
        /\ ReadsOn(e[c], b) \in Call /\ ReadsOn(e[c], b).pc = "read" /\ ReadsOn(e[c], b).slot = 4
        /\ ReadsOn(e[c], b).obj = e[c].obj /\ ReadsOn(e[c], b).clean = b
  BY Checked
<1>3. e' = [e EXCEPT ![c] = ReadsOn(e[c], Settled)]
  BY DEF Check, ReadsOn
<1> QED
  BY <1>1, <1>2, <1>3

(* What a call that returns looks like.                                    *)
LEMMA Returned ==
  ASSUME NEW c \in Calls, e[c] \in Call, NEW hr, NEW md
  PROVE  /\ Return(c, hr, md).pc = "returned"
         /\ Return(c, hr, md).obj = e[c].obj
         /\ Return(c, hr, md).got = e[c].got
         /\ Return(c, hr, md).hr = hr
         /\ Return(c, hr, md).method = md
BY DEF Return, Call

(* A field that is known is not changed by what is known of it.            *)
LEMMA FieldStays ==
  ASSUME NEW f \in Slots, cache \in [Slots -> Cached], NEW n \in Nat,
         cache[f] = [field |-> TRUE, offset |-> n],
         \/ cache' = [cache EXCEPT ![f].field = TRUE]
         \/ cache' = [cache EXCEPT ![f].offset = n]
  PROVE  cache' = cache
<1>1. cache[f].field = TRUE /\ cache[f].offset = n /\ cache[f] \in Cached
  <2>1. cache[f].field = TRUE
    OBVIOUS
  <2>2. cache[f].offset = n
    OBVIOUS
  <2>3. cache[f] \in Cached
    OBVIOUS
  <2> QED
    BY <2>1, <2>2, <2>3
<1>2. [cache[f] EXCEPT !.field = TRUE] = cache[f] /\ [cache[f] EXCEPT !.offset = n] = cache[f]
  <2> DEFINE known == cache[f]
  <2>1. known.field = TRUE /\ known.offset = n /\ known \in Cached
    BY <1>1
  <2> HIDE DEF known
  <2>2. [known EXCEPT !.field = TRUE] = known /\ [known EXCEPT !.offset = n] = known
    BY <2>1 DEF Cached
  <2> QED
    BY <2>2 DEF known
<1>3. cache' = [cache EXCEPT ![f] = cache[f]]
  BY <1>2
<1> QED
  BY <1>3

(* Each step of a call keeps the types, and its place.                     *)
LEMMA StepPlace ==
  ASSUME DelegateAssumption, TypeOK, \A d \in Calls : Place(d), NEW c \in Calls, CallStep(c)
  PROVE  TypeOK' /\ (\A d \in Calls : Place(d)') /\ \A d \in Calls \ {c} : e'[d] = e[d]
<1> DEFINE Moved(n) == /\ n \in Call /\ e' = [e EXCEPT ![c] = n]
                       /\ n.pc \in {"find", "rest"} => n.slot \in Slots /\ n.obj.type # None
                       /\ n.pc \in {"idle", "check", "object"} => n.slot = 1
                       /\ n.pc = "rest" => Types[n.obj.type][n.slot] # None
                       /\ n.pc = "read" => n.slot \in Slots
                       /\ n.clean => n.pc \in {"read", "resolve", "returned"}
<1>1. ASSUME NEW n, Moved(n), cache' \in [Slots -> Cached]
      PROVE  TypeOK' /\ (\A d \in Calls : Place(d)') /\ \A d \in Calls \ {c} : e'[d] = e[d]
  <2>1. e'[c] = n /\ e' \in [Calls -> Call] /\ \A d \in Calls \ {c} : e'[d] = e[d]
    BY <1>1 DEF TypeOK
  <2>2. Place(c)'
    BY <1>1, <2>1 DEF Place, Offset
  <2>3. \A d \in Calls \ {c} : Place(d)'
    BY <2>1 DEF Place, Offset
  <2>4. TypeOK'
    BY <1>1, <2>1, <2>2, <2>3 DEF TypeOK, Place
  <2> QED
    BY <2>1, <2>2, <2>3, <2>4
<1>2. e[c] \in Call /\ e[c].obj \in Objects /\ cache \in [Slots -> Cached] /\ Place(c)
      /\ e[c].got \in [Slots -> Nat]
  BY DEF TypeOK, Call
<1>3. ASSUME NEW p, NEW n, Do(c, p, n)
      PROVE  e[c].pc = p /\ e' = [e EXCEPT ![c] = n] /\ cache' \in [Slots -> Cached]
  BY <1>2, <1>3 DEF Do
<1>4. ASSUME NEW hr \in {"S_OK", "S_FALSE", "failed"}, NEW md \in Methods \cup {None},
             e' = [e EXCEPT ![c] = Return(c, hr, md)]
      PROVE  Moved(Return(c, hr, md))
  BY <1>2, <1>4 DEF Return, Call
<1>5. CASE Start(c)
  <2> DEFINE n == [e[c] EXCEPT !.pc = "check"]
  <2>1. e[c].pc = "idle" /\ e' = [e EXCEPT ![c] = n] /\ cache' \in [Slots -> Cached]
    BY <1>3, <1>5 DEF Start
  <2>2. Moved(n)
    BY <1>2, <2>1 DEF Call, Place
  <2> QED
    BY <1>1, <2>1, <2>2
<1>6. CASE Check(c)
  <2> DEFINE n == IF AllKept THEN [e[c] EXCEPT !.pc = "read", !.slot = 4, !.clean = Settled]
                  ELSE [e[c] EXCEPT !.pc = "object"]
  <2>1. e[c].pc = "check" /\ e' = [e EXCEPT ![c] = n] /\ cache' \in [Slots -> Cached]
    BY <1>2, <1>6 DEF Check
  <2>2. CASE AllKept
    <3> DEFINE k == ReadsOn(e[c], Settled)
    <3>1. k \in Call /\ k.pc = "read" /\ k.slot \in Slots
      BY <1>2, <1>6, <2>2, CheckReads DEF Slots
    <3>2. e' = [e EXCEPT ![c] = k]
      BY <1>2, <1>6, <2>2, CheckReads
    <3>3. Moved(k)
      BY <3>1, <3>2
    <3> QED
      BY <1>1, <2>1, <3>3
  <2>3. CASE ~AllKept
    BY <1>2, <2>1, <2>3, <1>1 DEF Call, Place
  <2> QED
    BY <2>2, <2>3
<1>7. CASE GetObjectData(c)
  <2> DEFINE n == [e[c] EXCEPT !.pc = "find"]
  <2>1. CASE e[c].obj.type = None
    <3>1. e' = [e EXCEPT ![c] = Return(c, "failed", None)] /\ cache' \in [Slots -> Cached]
      BY <1>3, <1>7, <2>1 DEF GetObjectData
    <3> QED
      BY <1>1, <1>4, <3>1
  <2>2. CASE e[c].obj.type # None
    <3>1. e[c].pc = "object" /\ e' = [e EXCEPT ![c] = n] /\ cache' \in [Slots -> Cached]
      BY <1>3, <1>7, <2>2 DEF GetObjectData
    <3>2. Moved(n)
      BY <1>2, <2>2, <3>1 DEF Call, Place, Slots
    <3> QED
      BY <1>1, <3>1, <3>2
  <2> QED
    BY <2>1, <2>2
<1>8. CASE Find(c)
  <2>1. e[c].pc = "find" /\ e[c].slot \in Slots /\ e[c].obj.type # None
    BY <1>2, <1>8 DEF Find, Place
  <2>2. CASE Offset(c, e[c].slot) = None
    <3>1. e' = [e EXCEPT ![c] = Return(c, "failed", None)] /\ cache' \in [Slots -> Cached]
      BY <1>3, <1>8, <2>2 DEF Find, Offset
    <3> QED
      BY <1>1, <1>4, <3>1
  <2>3. CASE Offset(c, e[c].slot) # None
    <3>1. PICK token \in BOOLEAN :
            /\ cache' = [cache EXCEPT ![e[c].slot] =
                           IF token THEN [@ EXCEPT !.field = TRUE]
                           ELSE [@ EXCEPT !.offset = Types[e[c].obj.type][e[c].slot]]]
            /\ e' = [e EXCEPT ![c].pc = "rest", ![c].half = token]
      BY <1>8, <2>3 DEF Find, Offset
    <3> DEFINE n == [e[c] EXCEPT !.pc = "rest", !.half = token]
    <3>2. Types[e[c].obj.type][e[c].slot] \in Nat
      BY <1>2, <2>1, OffsetType
    <3>3. cache' \in [Slots -> Cached]
      BY <1>2, <2>1, <3>1, <3>2 DEF Cached
    <3>4. e' = [e EXCEPT ![c] = n]
      BY <1>2, <3>1 DEF TypeOK, Call
    <3>5. n \in Call /\ n.pc = "rest" /\ n.slot = e[c].slot /\ n.obj = e[c].obj
          /\ n.clean = e[c].clean
      BY <1>2 DEF Call
    <3>6. ~e[c].clean
      BY <1>2, <2>1 DEF Place
    <3>7. Moved(n)
      BY <2>1, <2>3, <3>4, <3>5, <3>6 DEF Offset
    <3> QED
      BY <1>1, <3>3, <3>7
  <2> QED
    BY <2>2, <2>3
<1>9. CASE FindRest(c)
  <2> DEFINE f == e[c].slot
             n == [e[c] EXCEPT !.pc = IF f < 4 THEN "find" ELSE "read",
                               !.slot = IF f < 4 THEN f + 1 ELSE 4]
  <2>1. e[c].pc = "rest" /\ f \in Slots /\ e[c].obj.type # None /\ ~e[c].clean
    BY <1>2, <1>9 DEF FindRest, Place
  <2>2. /\ cache' = [cache EXCEPT ![f] =
                       IF e[c].half THEN [@ EXCEPT !.offset = Types[e[c].obj.type][f]]
                       ELSE [@ EXCEPT !.field = TRUE]]
        /\ e' = [e EXCEPT ![c].pc = IF f < 4 THEN "find" ELSE "read",
                          ![c].slot = IF f < 4 THEN f + 1 ELSE 4]
    BY <1>9 DEF FindRest
  <2>3. Types[e[c].obj.type][f] \in Nat
    BY <1>2, <2>1, OffsetType
  <2>4. cache' \in [Slots -> Cached]
    BY <1>2, <2>1, <2>2, <2>3 DEF Cached
  <2>5. e' = [e EXCEPT ![c] = n]
    BY <1>2, <2>2 DEF TypeOK, Call
  <2>6. (IF f < 4 THEN f + 1 ELSE 4) \in Slots
    BY <2>1 DEF Slots
  <2>7. n \in Call /\ n.pc \in {"find", "read"} /\ n.slot \in Slots /\ n.obj = e[c].obj
        /\ n.clean = e[c].clean
    <3> DEFINE pc == IF f < 4 THEN "find" ELSE "read"
               slot == IF f < 4 THEN f + 1 ELSE 4
    <3>1. pc \in {"find", "read"} /\ slot \in Slots /\ slot \in 1 .. 5
      BY <2>6 DEF Slots
    <3> HIDE DEF pc, slot
    <3>2. n = [e[c] EXCEPT !.pc = pc, !.slot = slot]
      BY DEF pc, slot
    <3> HIDE DEF n
    <3> QED
      BY <1>2, <3>1, <3>2 DEF Call
  <2>8. Moved(n)
    BY <2>1, <2>5, <2>7
  <2> QED
    BY <1>1, <2>4, <2>8
<1>10. CASE Read(c)
  <2> DEFINE f == e[c].slot
             v == ValueOf(e[c].obj, f)
             got == [e[c].got EXCEPT ![f] = IF v = Unread THEN None ELSE v]
             n == [e[c] EXCEPT !.got = got, !.pc = IF f = 3 THEN "resolve" ELSE "read",
                               !.slot = IF f = 3 THEN 3 ELSE After[f]]
  <2>1. e[c].pc = "read" /\ f \in Slots /\ cache' \in [Slots -> Cached]
    BY <1>2, <1>3, <1>10 DEF Read, Place
  <2>2. CASE f = 4 /\ got[4] # None
    <3>1. e' = [e EXCEPT ![c] = Return(c, "S_FALSE", None)]
      BY <1>3, <1>10, <2>2 DEF Read
    <3> QED
      BY <1>1, <1>4, <2>1, <3>1
  <2>3. CASE ~(f = 4 /\ got[4] # None)
    <3>1. e' = [e EXCEPT ![c] = n]
      BY <1>3, <1>10, <2>3 DEF Read
    <3>2. v \in Nat
      BY <1>2, ValueType
    <3>3. got \in [Slots -> Nat]
      BY <1>2, <2>1, <3>2 DEF None
    <3>4. (IF f = 3 THEN 3 ELSE After[f]) \in Slots
      BY <2>1 DEF After, Slots
    <3>5. n \in Call /\ n.pc \in {"resolve", "read"} /\ n.slot \in Slots
      <4> DEFINE pc == IF f = 3 THEN "resolve" ELSE "read"
                 slot == IF f = 3 THEN 3 ELSE After[f]
      <4>1. pc \in {"resolve", "read"} /\ slot \in Slots /\ slot \in 1 .. 5
        BY <3>4 DEF Slots
      <4> HIDE DEF pc, slot, got
      <4>2. n = [e[c] EXCEPT !.got = got, !.pc = pc, !.slot = slot]
        BY DEF pc, slot
      <4> HIDE DEF n
      <4> QED
        BY <1>2, <3>3, <4>1, <4>2 DEF Call
    <3>6. Moved(n)
      BY <3>1, <3>5
    <3> QED
      BY <1>1, <2>1, <3>6
  <2> QED
    BY <2>2, <2>3
<1>11. CASE Resolve(c)
  <2> DEFINE md == Method(e[c].got)
  <2>1. e' = [e EXCEPT ![c] = Return(c, IF md = None THEN "failed" ELSE "S_OK", md)]
        /\ cache' \in [Slots -> Cached]
    BY <1>3, <1>11 DEF Resolve
  <2>2. md \in Methods \cup {None}
    BY MethodType
  <2>3. (IF md = None THEN "failed" ELSE "S_OK") \in {"S_OK", "S_FALSE", "failed"}
    OBVIOUS
  <2> QED
    BY <1>1, <1>4, <2>1, <2>2, <2>3
<1> QED
  BY <1>5, <1>6, <1>7, <1>8, <1>9, <1>10, <1>11 DEF CallStep
-----------------------------------------------------------------------------
(* What a call is made to be by a step that moves it on, or makes it       *)
(* return.                                                                 *)
LEMMA Becomes ==
  ASSUME TypeOK, NEW c \in Calls, NEW n, e' = [e EXCEPT ![c] = n]
  PROVE  e'[c] = n
BY DEF TypeOK

(* Nothing that a call at this place has been told is wrong: it was told   *)
(* nothing yet.                                                            *)
LEMMA NothingTold ==
  ASSUME NEW c \in Calls, e[c].pc \notin {"read", "resolve", "returned"}
  PROVE  Trusted(c)
BY DEF Trusted, Reads, Answered

(* A complete cache over which only delegates are looked up stays one.     *)
LEMMA SettledStays ==
  ASSUME DelegateAssumption, TypeOK, \A d \in Calls : Place(d), NEW c \in Calls, CallStep(c),
         Settled
  PROVE  Settled'
<1>1. /\ \A d \in Calls \ {c} : e'[d] = e[d]
      /\ e[c] \in Call /\ e[c].obj \in Objects /\ cache \in [Slots -> Cached] /\ Place(c)
  BY StepPlace DEF TypeOK, Call
<1>2. ASSUME cache' = cache, Filling(c)' => e[c].obj.delegate /\ e'[c].obj = e[c].obj
      PROVE  Settled'
  BY <1>1, <1>2 DEF Settled, Complete, Filling
<1>3. ASSUME Filling(c)
      PROVE  \A f \in Slots : cache[f] = [field |-> TRUE, offset |-> Offset(c, f)]
  <2>1. e[c].obj.delegate
    BY <1>3 DEF Settled
  <2>2. e[c].obj.type = Delegates
    BY <1>1, <2>1, DelegateFacts
  <2> QED
    BY <2>2 DEF Settled, Complete, Offset
<1>4. CASE Start(c)
  BY <1>2, <1>4, Becomes DEF Start, Do, Filling
<1>5. CASE Check(c)
  <2>1. AllKept
    <3>1. \A f \in Slots : cache[f] = [field |-> TRUE, offset |-> Types[Delegates][f]]
      BY DEF Settled, Complete
    <3> HIDE DEF Settled
    <3>2. ASSUME NEW f \in Slots
          PROVE  cache[f].field
      <4>1. cache[f] = [field |-> TRUE, offset |-> Types[Delegates][f]]
        BY <3>1
      <4> QED
        BY <4>1
    <3> QED
      BY <3>2 DEF AllKept
  <2>2. cache' = cache /\ e' = [e EXCEPT ![c] = ReadsOn(e[c], Settled)]
    BY <1>1, <1>5, <2>1, CheckReads DEF Check
  <2>3. e'[c].pc = "read"
    <3> DEFINE k == ReadsOn(e[c], Settled)
    <3>1. k.pc = "read"
      BY <1>1, <1>5, <2>1, CheckReads
    <3> HIDE DEF k
    <3> QED
      BY <2>2, <3>1, Becomes DEF k
  <2> QED
    BY <1>2, <2>2, <2>3 DEF Filling
<1>6. CASE GetObjectData(c)
  <2>1. Filling(c) /\ cache' = cache
    BY <1>6 DEF GetObjectData, Do, Filling
  <2>2. e'[c].obj = e[c].obj
    <3>1. CASE e[c].obj.type = None
      BY <1>1, <1>6, <3>1, Becomes DEF GetObjectData, Do, Return, Call
    <3>2. CASE e[c].obj.type # None
      BY <1>1, <1>6, <3>2, Becomes DEF GetObjectData, Do, Call
    <3> QED
      BY <3>1, <3>2
  <2> QED
    BY <1>2, <2>1, <2>2 DEF Settled
<1>7. CASE Find(c)
  <2>1. Filling(c) /\ e[c].slot \in Slots
    BY <1>1, <1>7 DEF Find, Filling, Place
  <2>2. CASE Offset(c, e[c].slot) = None
    <3>1. cache' = cache /\ e' = [e EXCEPT ![c] = Return(c, "failed", None)]
      BY <1>7, <2>2 DEF Find, Offset, Do
    <3>2. e'[c].pc = "returned"
      <4>1. Return(c, "failed", None).pc = "returned"
        BY <1>1, Returned
      <4>2. e'[c] = Return(c, "failed", None)
        BY <3>1, Becomes
      <4> QED
        BY <4>1, <4>2
    <3> QED
      BY <1>2, <3>1, <3>2 DEF Filling
  <2>3. CASE Offset(c, e[c].slot) # None
    <3>1. PICK token \in BOOLEAN :
            /\ cache' = [cache EXCEPT ![e[c].slot] =
                           IF token THEN [@ EXCEPT !.field = TRUE]
                           ELSE [@ EXCEPT !.offset = Offset(c, e[c].slot)]]
            /\ e' = [e EXCEPT ![c].pc = "rest", ![c].half = token]
      BY <1>7, <2>3 DEF Find, Offset
    <3>2. cache' = cache
      <4>1. Offset(c, e[c].slot) \in Nat
        BY <1>1, <1>7, <2>1, OffsetType DEF Find, Offset, Place
      <4>2. cache[e[c].slot] = [field |-> TRUE, offset |-> Offset(c, e[c].slot)]
        BY <1>3, <2>1
      <4>3. CASE token
        <5>1. cache' = [cache EXCEPT ![e[c].slot].field = TRUE]
          BY <3>1, <4>3
        <5> QED
          BY <1>1, <2>1, <4>1, <4>2, <5>1, FieldStays
      <4>4. CASE ~token
        <5>1. cache' = [cache EXCEPT ![e[c].slot].offset = Offset(c, e[c].slot)]
          BY <3>1, <4>4
        <5> QED
          BY <1>1, <2>1, <4>1, <4>2, <5>1, FieldStays
      <4> QED
        BY <4>3, <4>4
    <3>3. e'[c].obj = e[c].obj
      BY <1>1, <3>1 DEF TypeOK, Call
    <3> QED
      BY <1>2, <2>1, <3>2, <3>3 DEF Settled
  <2> QED
    BY <2>2, <2>3
<1>8. CASE FindRest(c)
  <2> DEFINE f == e[c].slot
  <2>1. Filling(c) /\ f \in Slots
    BY <1>1, <1>8 DEF FindRest, Filling, Place
  <2>2. /\ cache' = [cache EXCEPT ![f] = IF e[c].half THEN [@ EXCEPT !.offset = Offset(c, f)]
                                         ELSE [@ EXCEPT !.field = TRUE]]
        /\ e' = [e EXCEPT ![c].pc = IF f < 4 THEN "find" ELSE "read",
                          ![c].slot = IF f < 4 THEN f + 1 ELSE 4]
    BY <1>8 DEF FindRest, Offset
  <2>3. cache' = cache
    <3>1. Offset(c, f) \in Nat
      BY <1>1, <1>8, <2>1, OffsetType DEF FindRest, Offset, Place
    <3>2. cache[f] = [field |-> TRUE, offset |-> Offset(c, f)]
      BY <1>3, <2>1
    <3>3. CASE e[c].half
      <4>1. cache' = [cache EXCEPT ![f].offset = Offset(c, f)]
        BY <2>2, <3>3
      <4> QED
        BY <1>1, <2>1, <3>1, <3>2, <4>1, FieldStays
    <3>4. CASE ~e[c].half
      <4>1. cache' = [cache EXCEPT ![f].field = TRUE]
        BY <2>2, <3>4
      <4> QED
        BY <1>1, <2>1, <3>1, <3>2, <4>1, FieldStays
    <3> QED
      BY <3>3, <3>4
  <2>4. e'[c].obj = e[c].obj
    BY <1>1, <2>2 DEF TypeOK, Call
  <2> QED
    BY <1>2, <2>1, <2>3, <2>4 DEF Settled
<1>9. CASE Read(c)
  <2>1. cache' = cache /\ e'[c].pc \in {"read", "resolve", "returned"}
    BY <1>1, <1>9, Becomes DEF Read, Do, Return, Call
  <2> QED
    BY <1>2, <2>1 DEF Filling
<1>10. CASE Resolve(c)
  <2>1. cache' = cache /\ e'[c].pc = "returned"
    <3> DEFINE md == Method(e[c].got)
               n == Return(c, IF md = None THEN "failed" ELSE "S_OK", md)
    <3>1. cache' = cache /\ e' = [e EXCEPT ![c] = n]
      BY <1>10 DEF Resolve, Do
    <3>2. n.pc = "returned"
      BY <1>1, Returned
    <3> HIDE DEF n
    <3> QED
      BY <3>1, <3>2, Becomes
  <2> QED
    BY <1>2, <2>1 DEF Filling
<1> QED
  BY <1>4, <1>5, <1>6, <1>7, <1>8, <1>9, <1>10 DEF CallStep
(* What a call is told is right as long as it reads from a cache that is   *)
(* complete.                                                               *)
LEMMA StepTrusted ==
  ASSUME DelegateAssumption, TypeOK, \A d \in Calls : Place(d), NEW c \in Calls, CallStep(c),
         Trusted(c), e[c].pc \in {"read", "resolve"} => Complete
  PROVE  Trusted(c)'
<1>1. e[c] \in Call /\ e[c].obj \in Objects /\ e[c].got \in [Slots -> Nat] /\ Place(c)
  BY DEF TypeOK, Call
<1>2. ASSUME e'[c].pc \notin {"read", "resolve", "returned"}
      PROVE  Trusted(c)'
  BY <1>2 DEF Trusted, Reads, Answered
<1>3. ASSUME e'[c].pc = "read", e'[c].slot = 4
      PROVE  Trusted(c)'
  BY <1>3 DEF Trusted, Reads, Answered, Seen
<1>4. ASSUME NEW hr, NEW md, e' = [e EXCEPT ![c] = Return(c, hr, md)]
      PROVE  /\ e'[c].pc = "returned" /\ e'[c].obj = e[c].obj /\ e'[c].got = e[c].got
             /\ e'[c].hr = hr /\ e'[c].method = md
  <2>1. e'[c] = Return(c, hr, md)
    BY <1>4, Becomes
  <2> QED
    BY <1>1, <2>1, Returned
<1>5. ASSUME NEW hr, NEW md, e' = [e EXCEPT ![c] = Return(c, hr, md)], ~e[c].obj.delegate
      PROVE  Trusted(c)'
  <2>1. e'[c].pc = "returned" /\ e'[c].obj = e[c].obj
    BY <1>4, <1>5
  <2> QED
    BY <1>5, <2>1 DEF Trusted, Reads, Answered
<1>6. CASE Start(c)
  <2>1. e'[c] = [e[c] EXCEPT !.pc = "check"]
    BY <1>6, Becomes DEF Start, Do
  <2>2. e'[c].pc = "check"
    BY <1>1, <2>1 DEF Call
  <2> QED
    BY <1>2, <2>2
<1>7. CASE Check(c)
  <2>1. CASE AllKept
    <3> DEFINE k == ReadsOn(e[c], Settled)
    <3>1. e' = [e EXCEPT ![c] = k]
      BY <1>1, <1>7, <2>1, CheckReads
    <3>2. k.pc = "read" /\ k.slot = 4
      BY <1>1, <1>7, <2>1, CheckReads
    <3> HIDE DEF k
    <3>3. e'[c] = k
      BY <3>1, Becomes
    <3> QED
      BY <1>3, <3>2, <3>3
  <2>2. CASE ~AllKept
    <3>1. e'[c] = [e[c] EXCEPT !.pc = "object"]
      BY <1>7, <2>2, Becomes DEF Check
    <3>2. e'[c].pc = "object"
      BY <1>1, <3>1 DEF Call
    <3> QED
      BY <1>2, <3>2
  <2> QED
    BY <2>1, <2>2
<1>8. CASE GetObjectData(c)
  <2>1. CASE e[c].obj.type = None
    <3>1. ~e[c].obj.delegate
      BY <1>1, <2>1 DEF DelegateAssumption
    <3>2. e' = [e EXCEPT ![c] = Return(c, "failed", None)]
      BY <1>8, <2>1 DEF GetObjectData, Do
    <3> QED
      BY <1>5, <3>1, <3>2
  <2>2. CASE e[c].obj.type # None
    <3>1. e'[c] = [e[c] EXCEPT !.pc = "find"]
      BY <1>8, <2>2, Becomes DEF GetObjectData, Do
    <3>2. e'[c].pc = "find"
      BY <1>1, <3>1 DEF Call
    <3> QED
      BY <1>2, <3>2
  <2> QED
    BY <2>1, <2>2
<1>9. CASE Find(c)
  <2>1. e[c].slot \in Slots
    BY <1>1, <1>9 DEF Find, Place
  <2>2. CASE Offset(c, e[c].slot) = None
    <3>1. ~e[c].obj.delegate
      BY <1>1, <2>1, <2>2, DelegateFacts DEF Offset
    <3>2. e' = [e EXCEPT ![c] = Return(c, "failed", None)]
      BY <1>9, <2>2 DEF Find, Offset, Do
    <3> QED
      BY <1>5, <3>1, <3>2
  <2>3. CASE Offset(c, e[c].slot) # None
    <3>1. PICK token \in BOOLEAN : e' = [e EXCEPT ![c].pc = "rest", ![c].half = token]
      BY <1>9, <2>3 DEF Find, Offset
    <3>2. e'[c].pc = "rest"
      BY <1>1, <3>1 DEF TypeOK, Call
    <3> QED
      BY <1>2, <3>2
  <2> QED
    BY <2>2, <2>3
<1>10. CASE FindRest(c)
  <2>1. e' = [e EXCEPT ![c].pc = IF e[c].slot < 4 THEN "find" ELSE "read",
                       ![c].slot = IF e[c].slot < 4 THEN e[c].slot + 1 ELSE 4]
    BY <1>10 DEF FindRest
  <2>2. /\ e'[c].pc = IF e[c].slot < 4 THEN "find" ELSE "read"
        /\ e'[c].slot = IF e[c].slot < 4 THEN e[c].slot + 1 ELSE 4
    BY <1>1, <2>1 DEF TypeOK, Call
  <2> QED
    BY <1>2, <1>3, <2>2
<1>11. CASE Read(c)
  <2> DEFINE f == e[c].slot
             v == ValueOf(e[c].obj, f)
             got == [e[c].got EXCEPT ![f] = IF v = Unread THEN None ELSE v]
             pc == IF f = 3 THEN "resolve" ELSE "read"
             slot == IF f = 3 THEN 3 ELSE After[f]
  <2>1. e[c].pc = "read" /\ f \in Slots /\ Complete
    BY <1>1, <1>11 DEF Read, Do, Place
  <2>2. CASE f = 4 /\ got[4] # None
    <3>1. e' = [e EXCEPT ![c] = Return(c, "S_FALSE", None)]
      BY <1>11, <2>2 DEF Read, Do
    <3>2. e'[c].pc = "returned" /\ e'[c].obj = e[c].obj /\ e'[c].hr = "S_FALSE"
      BY <1>4, <3>1
    <3>3. ASSUME e[c].obj.delegate
          PROVE  Own(e[c].obj)[4] # None
      BY <1>1, <2>1, <2>2, <3>3, OwnValues
    <3> QED
      BY <3>2, <3>3 DEF Trusted, Reads, Answered, Right
  <2>3. CASE ~(f = 4 /\ got[4] # None)
    <3>1. e'[c] = [e[c] EXCEPT !.got = got, !.pc = pc, !.slot = slot]
      BY <1>11, <2>3, Becomes DEF Read, Do
    <3> HIDE DEF got, pc, slot
    <3>2. e'[c].pc = pc /\ e'[c].slot = slot /\ e'[c].got = got /\ e'[c].obj = e[c].obj
      BY <1>1, <3>1 DEF Call
    <3>3. CASE ~e[c].obj.delegate
      BY <3>2, <3>3 DEF Trusted, Reads, Answered
    <3>4. CASE e[c].obj.delegate
      <4>1. got[f] = Own(e[c].obj)[f] /\ \A g \in Slots \ {f} : got[g] = e[c].got[g]
        BY <1>1, <2>1, <3>4, OwnValues DEF got
      <4>2. /\ \A g \in Seen(c) : e[c].got[g] = Own(e[c].obj)[g]
            /\ 4 \in Seen(c) => e[c].got[4] = None
        BY <2>1, <3>4 DEF Trusted, Reads
      <4>3. Seen(c) = CASE f = 1 -> {4} [] f = 2 -> {4, 1} [] f = 3 -> {4, 1, 2} [] OTHER -> {}
        BY <2>1 DEF Seen
      <4>4. pc \in {"read", "resolve"} /\ (pc = "resolve" <=> f = 3)
        BY DEF pc
      <4>5. slot = CASE f = 4 -> 1 [] f = 1 -> 2 [] f = 2 -> 3 [] OTHER -> 3
        BY <2>1 DEF slot, After, Slots
      <4>6. Seen(c)' = Seen(c) \cup {f} /\ Seen(c) \subseteq Slots
        BY <2>1, <3>2, <4>3, <4>4, <4>5 DEF Seen, Slots
      <4>7. \A g \in Seen(c)' : got[g] = Own(e[c].obj)[g]
        BY <4>1, <4>2, <4>6
      <4>8. 4 \in Seen(c)' => got[4] = None
        <5>1. CASE f = 4
          BY <2>3, <5>1
        <5>2. CASE f # 4
          BY <4>1, <4>2, <4>6, <5>2 DEF Slots
        <5> QED
          BY <5>1, <5>2
      <4> QED
        BY <3>2, <4>4, <4>7, <4>8 DEF Trusted, Reads, Answered
    <3> QED
      BY <3>3, <3>4
  <2> QED
    BY <2>2, <2>3
<1>12. CASE Resolve(c)
  <2> DEFINE md == Method(e[c].got)
             own == Own(e[c].obj)
             hr == IF md = None THEN "failed" ELSE "S_OK"
  <2>1. e[c].pc = "resolve" /\ e' = [e EXCEPT ![c] = Return(c, hr, md)]
    BY <1>12 DEF Resolve, Do
  <2>2. /\ e'[c].pc = "returned" /\ e'[c].obj = e[c].obj /\ e'[c].got = e[c].got
        /\ e'[c].hr = hr /\ e'[c].method = md
    BY <1>4, <2>1
  <2>3. CASE e[c].obj.delegate
    <3>1. e[c].got[1] = own[1] /\ e[c].got[2] = own[2] /\ e[c].got[3] = own[3] /\ own[4] = None
      BY <2>1, <2>3 DEF Trusted, Reads, Seen, Slots
    <3>2. Ask(FromIP, None) = None
      BY DEF DelegateAssumption, Ask
    <3>3. md = IF own[3] # None THEN Ask(Header, own[3])
               ELSE IF own[2] = None THEN None
               ELSE IF Ask(FromIP, own[2]) # None THEN Ask(FromIP, own[2])
               ELSE Ask(Header, own[2])
      BY <3>1 DEF Method
    <3>4. (own[3] = None /\ own[2] = None) => Ask(FromIP, own[2]) = None
      BY <3>2
    <3> HIDE DEF own, md
    <3>5. /\ md \in {Ask(FromIP, IF own[3] # None THEN own[3] ELSE own[2]),
                     Ask(Header, IF own[3] # None THEN own[3] ELSE own[2])}
          /\ own[3] # None => md = Ask(Header, own[3])
      BY <3>3, <3>4
    <3>6. Right(c)'
      BY <2>2, <3>1, <3>5 DEF Right, own
    <3> QED
      BY <2>2, <3>6 DEF Trusted, Reads
  <2>4. CASE ~e[c].obj.delegate
    BY <2>2, <2>4 DEF Trusted, Reads, Answered
  <2> QED
    BY <2>3, <2>4
<1> QED
  BY <1>6, <1>7, <1>8, <1>9, <1>10, <1>11, <1>12 DEF CallStep
-----------------------------------------------------------------------------
(* What a call was told does not depend on what others do.                 *)
LEMMA TrustedStays ==
  ASSUME NEW d \in Calls, Trusted(d), e'[d] = e[d]
  PROVE  Trusted(d)'
BY DEF Trusted, Reads, Seen, Answered, Right

(* A step that leaves the cache as it is, and begins no lookup, keeps what *)
(* holds as long as no lookup meets another call.                          *)
LEMMA QuietStep ==
  ASSUME AloneInv, NEW c \in Calls, \A d \in Calls \ {c} : e'[d] = e[d], cache' = cache,
         Filling(c) => e[c].pc # "rest",
         Filling(c)' => Filling(c) /\ e'[c].pc \in {"object", "find"},
         e'[c].pc = "find" => e'[c].slot = 1,
         e'[c].pc \in {"read", "resolve"} => Complete, Trusted(c)'
  PROVE  AloneInv'
<1>1. Complete' = Complete
  BY DEF Complete
<1>2. Filling(c) => ~cache[4].field
  BY DEF AloneInv, Alone
<1>3. ASSUME cache'[4].field
      PROVE  Complete' \/ \E d \in Calls : Filling(d)'
  <2>1. CASE Complete
    BY <1>1, <2>1
  <2>2. CASE ~Complete
    <3>1. PICK d \in Calls : Filling(d)
      BY <1>3, <2>2 DEF AloneInv
    <3>2. d # c
      BY <1>2, <1>3, <3>1
    <3>3. Filling(d)'
      BY <3>1, <3>2 DEF Filling
    <3> QED
      BY <3>3
  <2> QED
    BY <2>1, <2>2
<1>4. ASSUME NEW d \in Calls, NEW x \in Calls, Filling(d)', Filling(x)'
      PROVE  d = x
  <2>1. Filling(d) /\ Filling(x)
    BY <1>4 DEF Filling
  <2> QED
    BY <2>1 DEF AloneInv, Alone
<1>5. ASSUME NEW d \in Calls \ {c}
      PROVE  Alone(d)'
  <2>1. e'[d] = e[d] /\ Alone(d)
    BY DEF AloneInv
  <2>2. Trusted(d)'
    BY <2>1, TrustedStays DEF Alone
  <2>3. \A x \in Calls : Filling(d)' /\ Filling(x)' => d = x
    BY <1>4
  <2> QED
    BY <1>1, <2>1, <2>2, <2>3 DEF Alone, Filling, Offset
<1>6. Alone(c)'
  <2>1. \A x \in Calls : Filling(c)' /\ Filling(x)' => c = x
    BY <1>4
  <2>2. e'[c].pc # "rest"
    BY DEF Filling
  <2>3. \A f \in Slots : ~(f < 1)
    BY DEF Slots
  <2> QED
    BY <1>1, <1>2, <2>1, <2>2, <2>3 DEF Alone
<1> QED
  BY <1>3, <1>5, <1>6 DEF AloneInv

(* Where nothing else runs, a call that writes to the cache keeps it too.  *)
LEMMA WritingStep ==
  ASSUME AloneInv, NEW c \in Calls, \A d \in Calls \ {c} : e'[d] = e[d] /\ ~Running(d),
         cache'[4].field => Complete' \/ Filling(c)', Alone(c)'
  PROVE  AloneInv'
<1>1. ASSUME NEW d \in Calls \ {c}
      PROVE  Alone(d)'
  <2>1. e'[d] = e[d] /\ e[d].pc \in {"idle", "returned"} /\ Trusted(d)
    BY DEF AloneInv, Alone, Running
  <2>2. Trusted(d)'
    BY <2>1, TrustedStays
  <2> QED
    BY <2>1, <2>2 DEF Alone, Filling
<1> QED
  BY <1>1 DEF AloneInv

(* Whatever a call does without meeting the lookup of another keeps what   *)
(* holds as long as there is no such meeting.                              *)
LEMMA StepAlone ==
  ASSUME DelegateAssumption, TypeOK, \A d \in Calls : Place(d), AloneInv, NEW c \in Calls,
         CallStep(c), ~clash'
  PROVE  AloneInv'
<1>1. /\ \A d \in Calls \ {c} : e'[d] = e[d]
      /\ e[c] \in Call /\ e[c].obj \in Objects /\ cache \in [Slots -> Cached] /\ Place(c)
      /\ cache' \in [Slots -> Cached] /\ Place(c)'
  BY StepPlace DEF TypeOK, Call
<1>2. Trusted(c)' /\ Alone(c)
  BY StepTrusted DEF AloneInv, Alone
<1>3. CASE Start(c)
  <2>1. cache' = cache /\ e[c].pc = "idle" /\ e'[c] = [e[c] EXCEPT !.pc = "check"]
    BY <1>3, Becomes DEF Start, Do
  <2>2. e'[c].pc = "check"
    BY <1>1, <2>1 DEF Call
  <2> QED
    BY <1>1, <1>2, <2>1, <2>2, QuietStep DEF Filling
<1>4. CASE Check(c)
  <2>1. e[c].pc = "check" /\ cache' = cache /\ \A d \in Calls : ~Filling(d)
    BY <1>4 DEF Check
  <2>2. cache[4].field => Complete
    BY <2>1 DEF AloneInv
  <2>3. CASE AllKept
    <3>1. Complete
      BY <2>2, <2>3 DEF AllKept, Slots
    <3>2. e'[c].pc = "read"
      <4> DEFINE k == ReadsOn(e[c], Settled)
      <4>1. k.pc = "read" /\ e' = [e EXCEPT ![c] = k]
        BY <1>1, <1>4, <2>3, CheckReads
      <4> HIDE DEF k
      <4> QED
        BY <4>1, Becomes
    <3> QED
      BY <1>1, <1>2, <2>1, <3>1, <3>2, QuietStep DEF Filling
  <2>4. CASE ~AllKept
    <3>1. e'[c] = [e[c] EXCEPT !.pc = "object"]
      BY <1>4, <2>4, Becomes DEF Check
    <3>2. e'[c].pc = "object"
      BY <1>1, <3>1 DEF Call
    <3>3. ~cache[4].field
      <4>1. Complete => AllKept
        <5> SUFFICES ASSUME Complete, NEW f \in Slots
                     PROVE  cache[f].field
          BY DEF AllKept
        <5>1. cache[f] = [field |-> TRUE, offset |-> Types[Delegates][f]]
          BY DEF Complete
        <5> QED
          BY <5>1
      <4> QED
        BY <2>2, <2>4, <4>1
    <3>4. \A d \in Calls \ {c} : ~Filling(d)'
      BY <1>1, <2>1 DEF Filling
    <3>5. Complete' = Complete
      BY <2>1 DEF Complete
    <3>6. Alone(c)'
      BY <1>2, <2>1, <3>2, <3>3, <3>4 DEF Alone
    <3>7. ASSUME NEW d \in Calls \ {c}
          PROVE  Alone(d)'
      <4>1. e'[d] = e[d] /\ Alone(d) /\ ~Filling(d)'
        BY <1>1, <3>4 DEF AloneInv
      <4>2. Trusted(d)'
        BY <4>1, TrustedStays DEF Alone
      <4>3. e'[d].pc \notin {"find", "rest"}
        BY <4>1 DEF Filling
      <4> QED
        BY <3>5, <4>1, <4>2, <4>3 DEF Alone
    <3> QED
      BY <2>1, <3>3, <3>6, <3>7 DEF AloneInv
  <2> QED
    BY <2>3, <2>4
<1>5. CASE GetObjectData(c)
  <2>1. e[c].pc = "object" /\ e[c].slot = 1 /\ cache' = cache /\ Filling(c)
    BY <1>1, <1>5 DEF GetObjectData, Do, Place, Filling
  <2>2. CASE e[c].obj.type = None
    <3>1. e'[c] = Return(c, "failed", None)
      BY <1>5, <2>2, Becomes DEF GetObjectData, Do
    <3>2. e'[c].pc = "returned"
      BY <1>1, <3>1, Returned
    <3> QED
      BY <1>1, <1>2, <2>1, <3>2, QuietStep DEF Filling
  <2>3. CASE e[c].obj.type # None
    <3>1. e'[c] = [e[c] EXCEPT !.pc = "find"]
      BY <1>5, <2>3, Becomes DEF GetObjectData, Do
    <3>2. e'[c].pc = "find" /\ e'[c].slot = 1
      BY <1>1, <2>1, <3>1 DEF Call
    <3> QED
      BY <1>1, <1>2, <2>1, <3>2, QuietStep DEF Filling
  <2> QED
    BY <2>2, <2>3
<1>6. CASE Find(c)
  <2> DEFINE f == e[c].slot
  <2>1. e[c].pc = "find" /\ f \in Slots /\ Filling(c)
    BY <1>1, <1>6 DEF Find, Place, Filling
  <2>2. CASE Offset(c, f) = None
    <3>1. cache' = cache /\ e'[c] = Return(c, "failed", None)
      BY <1>6, <2>2, Becomes DEF Find, Offset, Do
    <3>2. e'[c].pc = "returned"
      BY <1>1, <3>1, Returned
    <3> QED
      BY <1>1, <1>2, <2>1, <3>1, <3>2, QuietStep DEF Filling
  <2>3. CASE Offset(c, f) # None
    <3>1. PICK token \in BOOLEAN :
            /\ cache' = [cache EXCEPT ![f] = IF token THEN [@ EXCEPT !.field = TRUE]
                                             ELSE [@ EXCEPT !.offset = Offset(c, f)]]
            /\ e' = [e EXCEPT ![c].pc = "rest", ![c].half = token]
      BY <1>6, <2>3 DEF Find, Offset
    <3>2. \A d \in Calls \ {c} : ~Running(d)
      BY <1>6, <2>3 DEF Find, Offset
    <3>3. e'[c].pc = "rest" /\ e'[c].slot = f /\ e'[c].obj = e[c].obj
      BY <1>1, <3>1 DEF TypeOK, Call
    <3>4. e'[c].half <=> token
      BY <1>1, <3>1 DEF TypeOK, Call
    <3>5. \A g \in Slots \ {f} : cache'[g] = cache[g]
      BY <1>1, <3>1
    <3>6. ~cache[4].field
      BY <1>2, <2>1 DEF Alone
    <3>7. cache'[4].field => f = 4 /\ token
      <4>1. CASE f # 4
        BY <3>5, <3>6, <4>1 DEF Slots
      <4>2. CASE f = 4 /\ ~token
        <5>1. cache'[4] = [cache[4] EXCEPT !.offset = Offset(c, f)]
          BY <1>1, <2>1, <3>1, <4>2
        <5>2. cache[4] \in Cached
          BY <1>1, <2>1, <4>2
        <5>3. cache'[4].field = cache[4].field
          BY <5>1, <5>2 DEF Cached
        <5> QED
          BY <3>6, <5>3
      <4> QED
        BY <4>1, <4>2
    <3>8. IF token THEN cache'[f].field ELSE cache'[f].offset = Offset(c, f)
      <4>1. cache[f] \in Cached
        BY <1>1, <2>1
      <4>2. CASE token
        <5>1. cache'[f] = [cache[f] EXCEPT !.field = TRUE]
          BY <1>1, <2>1, <3>1, <4>2
        <5>2. cache'[f].field = TRUE
          BY <4>1, <5>1 DEF Cached
        <5> QED
          BY <4>2, <5>2
      <4>3. CASE ~token
        <5>1. cache'[f] = [cache[f] EXCEPT !.offset = Offset(c, f)]
          BY <1>1, <2>1, <3>1, <4>3
        <5>2. cache'[f].offset = Offset(c, f)
          BY <4>1, <5>1 DEF Cached
        <5> QED
          BY <4>3, <5>2
      <4> QED
        BY <4>2, <4>3
    <3>9. \A g \in Slots : g < f =>
            cache'[g] = [field |-> TRUE, offset |-> Offset(c, g)] /\ Offset(c, g) # None
      <4> TAKE g \in Slots
      <4> HAVE g < f
      <4>1. cache[g] = [field |-> TRUE, offset |-> Offset(c, g)] /\ Offset(c, g) # None
        BY <1>2, <2>1 DEF Alone
      <4>2. cache'[g] = cache[g]
        BY <2>1, <3>5 DEF Slots
      <4> QED
        BY <4>1, <4>2
    <3>10. \A d \in Calls \ {c} : ~Filling(d)'
      BY <1>1, <3>2 DEF Filling, Running
    <3>11. Filling(c)'
      BY <3>3 DEF Filling
    <3>12. \A g : Offset(c, g)' = Offset(c, g)
      BY <3>3 DEF Offset
    <3>13. Alone(c)'
      <4>1. \A d \in Calls : Filling(c)' /\ Filling(d)' => c = d
        BY <3>10
      <4>2. \A g \in Slots : g < e'[c].slot =>
              cache'[g] = [field |-> TRUE, offset |-> Offset(c, g)'] /\ Offset(c, g)' # None
        BY <3>3, <3>9, <3>12
      <4>3. IF e'[c].half THEN cache'[e'[c].slot].field
            ELSE cache'[e'[c].slot].offset = Types[e'[c].obj.type][e'[c].slot]
        BY <3>3, <3>4, <3>8 DEF Offset
      <4>4. cache'[4].field => e'[c].pc = "rest" /\ e'[c].slot = 4 /\ e'[c].half
        BY <3>3, <3>4, <3>7
      <4> QED
        BY <1>2, <3>3, <4>1, <4>2, <4>3, <4>4 DEF Alone, Offset
    <3> QED
      BY <1>1, <3>2, <3>11, <3>13, WritingStep
  <2> QED
    BY <2>2, <2>3
<1>7. CASE FindRest(c)
  <2> DEFINE f == e[c].slot
  <2>1. e[c].pc = "rest" /\ f \in Slots /\ Filling(c) /\ Offset(c, f) # None
        /\ e[c].obj.type # None
    BY <1>1, <1>7 DEF FindRest, Place, Filling
  <2>2. /\ cache' = [cache EXCEPT ![f] = IF e[c].half THEN [@ EXCEPT !.offset = Offset(c, f)]
                                         ELSE [@ EXCEPT !.field = TRUE]]
        /\ e' = [e EXCEPT ![c].pc = IF f < 4 THEN "find" ELSE "read",
                          ![c].slot = IF f < 4 THEN f + 1 ELSE 4]
        /\ \A d \in Calls \ {c} : ~Running(d)
    BY <1>7 DEF FindRest, Offset
  <2>3. /\ e'[c].pc = IF f < 4 THEN "find" ELSE "read"
        /\ e'[c].slot = IF f < 4 THEN f + 1 ELSE 4
        /\ e'[c].obj = e[c].obj
    BY <1>1, <2>2 DEF TypeOK, Call
  <2>4. \A g \in Slots \ {f} : cache'[g] = cache[g]
    BY <1>1, <2>2
  <2>5. cache'[f] = [field |-> TRUE, offset |-> Offset(c, f)]
    <3>1. cache[f] \in Cached /\ cache'[f] \in Cached
      BY <1>1, <2>1
    <3>2. CASE e[c].half
      <4>1. cache'[f] = [cache[f] EXCEPT !.offset = Offset(c, f)]
        BY <1>1, <2>1, <2>2, <3>2
      <4>2. cache[f].field
        BY <1>2, <2>1, <3>2 DEF Alone
      <4>3. cache'[f].field = cache[f].field
        BY <3>1, <4>1 DEF Cached
      <4>4. cache'[f].offset = Offset(c, f)
        BY <3>1, <4>1 DEF Cached
      <4>5. cache[f].field = TRUE
        BY <3>1, <4>2 DEF Cached
      <4>6. cache'[f].field = TRUE
        BY <4>3, <4>5
      <4>7. cache'[f] = [field |-> cache'[f].field, offset |-> cache'[f].offset]
        BY <3>1 DEF Cached
      <4> QED
        BY <4>4, <4>6, <4>7
    <3>3. CASE ~e[c].half
      <4>1. cache'[f] = [cache[f] EXCEPT !.field = TRUE]
        BY <1>1, <2>1, <2>2, <3>3
      <4>2. cache[f].offset = Offset(c, f)
        BY <1>2, <2>1, <3>3 DEF Alone
      <4>3. cache'[f].field = TRUE
        BY <3>1, <4>1 DEF Cached
      <4>4. cache'[f].offset = cache[f].offset
        BY <3>1, <4>1 DEF Cached
      <4>5. cache'[f] = [field |-> cache'[f].field, offset |-> cache'[f].offset]
        BY <3>1 DEF Cached
      <4> QED
        BY <4>2, <4>3, <4>4, <4>5
    <3> QED
      BY <3>2, <3>3
  <2>6. \A g \in Slots : g <= f =>
          cache'[g] = [field |-> TRUE, offset |-> Offset(c, g)] /\ Offset(c, g) # None
    <3> TAKE g \in Slots
    <3> HAVE g <= f
    <3>1. CASE g = f
      BY <2>1, <2>5, <3>1
    <3>2. CASE g # f
      <4>1. g < f
        BY <2>1, <3>2 DEF Slots
      <4>2. cache[g] = [field |-> TRUE, offset |-> Offset(c, g)] /\ Offset(c, g) # None
        BY <1>2, <2>1, <4>1 DEF Alone
      <4>3. cache'[g] = cache[g]
        BY <2>4, <3>2
      <4> QED
        BY <4>2, <4>3
    <3> QED
      BY <3>1, <3>2
  <2>7. \A d \in Calls \ {c} : ~Filling(d)'
    BY <1>1, <2>2 DEF Filling, Running
  <2>8. \A g : Offset(c, g)' = Offset(c, g)
    BY <2>3 DEF Offset
  <2>9. CASE f < 4
    <3>1. e'[c].pc = "find" /\ e'[c].slot = f + 1
      BY <2>3, <2>9
    <3>2. ~cache'[4].field
      <4>1. ~cache[4].field
        BY <1>2, <2>1, <2>9 DEF Alone, Slots
      <4>2. cache'[4] = cache[4]
        BY <2>4, <2>9 DEF Slots
      <4> QED
        BY <4>1, <4>2
    <3>3. Alone(c)'
      <4>1. \A d \in Calls : Filling(c)' /\ Filling(d)' => c = d
        BY <2>7
      <4>2. \A g \in Slots : g < e'[c].slot =>
              cache'[g] = [field |-> TRUE, offset |-> Offset(c, g)'] /\ Offset(c, g)' # None
        <5> TAKE g \in Slots
        <5> HAVE g < e'[c].slot
        <5>1. g <= f
          BY <2>1, <3>1 DEF Slots
        <5> QED
          BY <2>6, <2>8, <5>1
      <4> QED
        BY <1>2, <3>1, <3>2, <4>1, <4>2 DEF Alone
    <3> QED
      BY <1>1, <2>2, <3>2, <3>3, WritingStep
  <2>10. CASE ~(f < 4)
    <3>1. e'[c].pc = "read" /\ f = 4
      BY <2>1, <2>3, <2>10 DEF Slots
    <3>2. \A g \in Slots :
            cache'[g] = [field |-> TRUE, offset |-> Offset(c, g)] /\ Offset(c, g) # None
      <4> TAKE g \in Slots
      <4>1. g <= f
        BY <3>1 DEF Slots
      <4> QED
        BY <2>6, <4>1
    <3>3. e[c].obj.type = Delegates
      <4>1. e[c].obj.type \in DOMAIN Types
        BY <1>1, <2>1, OffsetType
      <4> QED
        BY <3>2, <4>1, AllFour DEF Offset
    <3>4. Complete'
      BY <3>2, <3>3 DEF Complete, Offset
    <3>5. Alone(c)'
      <4>1. ~Filling(c)'
        BY <3>1 DEF Filling
      <4> QED
        BY <1>2, <3>1, <3>4, <4>1 DEF Alone
    <3> QED
      BY <1>1, <2>2, <3>4, <3>5, WritingStep
  <2> QED
    BY <2>9, <2>10
<1>8. CASE Read(c)
  <2>1. e[c].pc = "read" /\ cache' = cache /\ Complete
    BY <1>2, <1>8 DEF Read, Do, Alone
  <2>2. e'[c].pc \in {"read", "resolve", "returned"}
    BY <1>1, <1>8, Becomes DEF Read, Do, Return, Call
  <2> QED
    BY <1>1, <1>2, <2>1, <2>2, QuietStep DEF Filling
<1>9. CASE Resolve(c)
  <2> DEFINE md == Method(e[c].got)
             n == Return(c, IF md = None THEN "failed" ELSE "S_OK", md)
  <2>1. e[c].pc = "resolve" /\ cache' = cache /\ e' = [e EXCEPT ![c] = n]
    BY <1>9 DEF Resolve, Do
  <2>2. n.pc = "returned"
    BY <1>1, Returned
  <2> HIDE DEF n
  <2>3. e'[c].pc = "returned"
    BY <2>1, <2>2, Becomes
  <2> QED
    BY <1>1, <1>2, <2>1, <2>3, QuietStep DEF Filling
<1> QED
  BY <1>3, <1>4, <1>5, <1>6, <1>7, <1>8, <1>9 DEF CallStep
-----------------------------------------------------------------------------
(* A call becomes clean by finding the cache settled, and by nothing else. *)
LEMMA CleanByCheck ==
  ASSUME TypeOK, NEW c \in Calls, CallStep(c), e'[c].clean, ~e[c].clean
  PROVE  Settled /\ e[c].pc = "check"
<1>1. e[c] \in Call
  BY DEF TypeOK
<1>2. ASSUME NEW n, e' = [e EXCEPT ![c] = n], n.clean = e[c].clean
      PROVE  FALSE
  <2>1. e'[c] = n
    BY <1>2, Becomes
  <2> QED
    BY <1>2, <2>1
<1>3. ASSUME NEW hr, NEW md, e' = [e EXCEPT ![c] = Return(c, hr, md)]
      PROVE  FALSE
  <2>1. Return(c, hr, md).clean = e[c].clean
    BY <1>1 DEF Return, Call
  <2> QED
    BY <1>2, <1>3, <2>1
<1>4. CASE Start(c)
  <2>1. [e[c] EXCEPT !.pc = "check"].clean = e[c].clean
    BY <1>1 DEF Call
  <2> QED
    BY <1>2, <1>4, <2>1 DEF Start, Do
<1>5. CASE Check(c)
  <2>1. CASE AllKept
    <3> DEFINE k == ReadsOn(e[c], Settled)
    <3>1. k.clean = Settled /\ e' = [e EXCEPT ![c] = k]
      BY <1>1, <1>5, <2>1, CheckReads
    <3> HIDE DEF k
    <3>2. e'[c] = k
      BY <3>1, Becomes
    <3>3. Settled
      BY <3>1, <3>2
    <3> QED
      BY <1>5, <3>3 DEF Check
  <2>2. CASE ~AllKept
    <3>1. [e[c] EXCEPT !.pc = "object"].clean = e[c].clean
      BY <1>1 DEF Call
    <3> QED
      BY <1>2, <1>5, <2>2, <3>1 DEF Check
  <2> QED
    BY <2>1, <2>2
<1>6. CASE GetObjectData(c)
  <2>1. [e[c] EXCEPT !.pc = "find"].clean = e[c].clean
    BY <1>1 DEF Call
  <2> QED
    BY <1>2, <1>3, <1>6, <2>1 DEF GetObjectData, Do
<1>7. CASE Find(c)
  <2>1. CASE Offset(c, e[c].slot) = None
    <3>1. e' = [e EXCEPT ![c] = Return(c, "failed", None)]
      BY <1>7, <2>1 DEF Find, Offset, Do
    <3> QED
      BY <1>3, <3>1
  <2>2. CASE Offset(c, e[c].slot) # None
    <3>1. PICK token \in BOOLEAN : e' = [e EXCEPT ![c].pc = "rest", ![c].half = token]
      BY <1>7, <2>2 DEF Find, Offset
    <3>2. e'[c].clean = e[c].clean
      BY <1>1, <3>1 DEF TypeOK, Call
    <3> QED
      BY <3>2
  <2> QED
    BY <2>1, <2>2
<1>8. CASE FindRest(c)
  <2>1. e' = [e EXCEPT ![c].pc = IF e[c].slot < 4 THEN "find" ELSE "read",
                       ![c].slot = IF e[c].slot < 4 THEN e[c].slot + 1 ELSE 4]
    BY <1>8 DEF FindRest
  <2>2. e'[c].clean = e[c].clean
    BY <1>1, <2>1 DEF TypeOK, Call
  <2> QED
    BY <2>2
<1>9. CASE Read(c)
  <2> DEFINE f == e[c].slot
             v == ValueOf(e[c].obj, f)
             got == [e[c].got EXCEPT ![f] = IF v = Unread THEN None ELSE v]
             pc == IF f = 3 THEN "resolve" ELSE "read"
             slot == IF f = 3 THEN 3 ELSE After[f]
             n == [e[c] EXCEPT !.got = got, !.pc = pc, !.slot = slot]
  <2>1. e' = [e EXCEPT ![c] = Return(c, "S_FALSE", None)] \/ e' = [e EXCEPT ![c] = n]
    BY <1>9 DEF Read, Do
  <2> HIDE DEF got, pc, slot
  <2>2. n.clean = e[c].clean
    BY <1>1 DEF Call
  <2> HIDE DEF n
  <2> QED
    BY <1>2, <1>3, <2>1, <2>2
<1>10. CASE Resolve(c)
  BY <1>3, <1>10 DEF Resolve, Do
<1> QED
  BY <1>4, <1>5, <1>6, <1>7, <1>8, <1>9, <1>10 DEF CallStep

(* Once a lookup has met another call, it has.                             *)
LEMMA ClashStays ==
  ASSUME NEW c \in Calls, CallStep(c), ~clash'
  PROVE  ~clash
BY DEF CallStep, Start, Check, GetObjectData, Find, FindRest, Read, Resolve, Do

(* Every step preserves the inductive invariant.                           *)
LEMMA NextIInv ==
  ASSUME DelegateAssumption, IInv, [Next]_vars
  PROVE  IInv'
<1>1. CASE Next
  <2>1. PICK c \in Calls : CallStep(c)
    BY <1>1 DEF Next
  <2>2. TypeOK /\ \A d \in Calls : Place(d)
    BY DEF IInv
  <2>3. TypeOK' /\ (\A d \in Calls : Place(d)') /\ \A d \in Calls \ {c} : e'[d] = e[d]
    BY <2>1, <2>2, StepPlace
  <2>4. ASSUME NEW d \in Calls, e'[d].clean
        PROVE  Settled' /\ Trusted(d)'
    <3>1. CASE d # c
      <4>1. Settled /\ Trusted(d) /\ e'[d] = e[d]
        BY <2>3, <2>4, <3>1 DEF IInv, CleanInv
      <4> QED
        BY <2>1, <2>2, <4>1, SettledStays, TrustedStays
    <3>2. CASE d = c /\ e[c].clean
      <4>1. Settled /\ Trusted(c) /\ Complete
        BY <3>2 DEF IInv, CleanInv, Settled
      <4> QED
        BY <2>1, <2>2, <3>2, <4>1, SettledStays, StepTrusted
    <3>3. CASE d = c /\ ~e[c].clean
      <4>1. Settled /\ e[c].pc = "check"
        BY <2>1, <2>2, <2>4, <3>3, CleanByCheck
      <4>2. Trusted(c)
        BY <4>1, NothingTold
      <4> QED
        BY <2>1, <2>2, <3>3, <4>1, <4>2, SettledStays, StepTrusted
    <3> QED
      BY <3>1, <3>2, <3>3
  <2>5. ~clash' => AloneInv'
    BY <2>1, <2>2, ClashStays, StepAlone DEF IInv
  <2> QED
    BY <2>3, <2>4, <2>5 DEF IInv, CleanInv
<1>2. CASE UNCHANGED vars
  <2>1. cache' = cache /\ e' = e /\ clash' = clash
    BY <1>2 DEF vars
  <2>2. Complete' = Complete /\ (Settled => Settled')
    BY <2>1 DEF Complete, Settled, Filling
  <2>3. TypeOK' /\ \A d \in Calls : Place(d)'
    BY <2>1 DEF IInv, TypeOK, Place, Offset
  <2>4. \A d \in Calls : Trusted(d) => Trusted(d)'
    BY <2>1, TrustedStays
  <2>5. CleanInv'
    BY <2>1, <2>2, <2>4 DEF IInv, CleanInv
  <2>6. ~clash' => AloneInv'
    <3> SUFFICES ASSUME AloneInv
                 PROVE  AloneInv'
      BY <2>1 DEF IInv
    <3>1. \A d \in Calls : Alone(d)'
      BY <2>1, <2>2, <2>4 DEF AloneInv, Alone, Filling, Offset
    <3> QED
      BY <2>1, <2>2, <3>1 DEF AloneInv, Filling
  <2> QED
    BY <2>3, <2>5, <2>6 DEF IInv
<1> QED
  BY <1>1, <1>2

(* The inductive invariant holds in every reachable state.                 *)
THEOREM Invariance ==
  ASSUME DelegateAssumption
  PROVE  Spec => []IInv
BY InitIInv, NextIInv, PTL DEF Spec

(* A delegate is answered for by its own fields, whatever was asked about  *)
(* before it, as long as no call looked fields up during another; and      *)
(* whatever overlaps it, if it found the cache complete and only delegates *)
(* being looked up.                                                        *)
THEOREM DelegatesCorrect ==
  ASSUME DelegateAssumption
  PROVE  Spec => []DelegatesRight
<1>1. IInv => DelegatesRight
  BY DEF IInv, CleanInv, AloneInv, Alone, Trusted, DelegatesRight, CleanRight, AloneRight
<1> QED
  BY <1>1, Invariance, PTL

(* A step never takes from a complete cache while only delegates are looked*)
(* up.                                                                     *)
THEOREM CompleteForGood ==
  ASSUME DelegateAssumption
  PROVE  Spec => [][KeepsComplete]_vars
<1>1. ASSUME IInv, Next
      PROVE  KeepsComplete
  <2>1. PICK c \in Calls : CallStep(c)
    BY <1>1 DEF Next
  <2> QED
    BY <1>1, <2>1, SettledStays DEF KeepsComplete, IInv, Settled
<1>2. ASSUME IInv, [Next]_vars
      PROVE  [KeepsComplete]_vars
  BY <1>1, <1>2
<1> QED
  BY <1>2, Invariance, PTL DEF Spec

-----------------------------------------------------------------------------
(* The tables of managed proxies.                                          *)

(* The tables as the numbers of the types in them.                         *)
Last == Len(PrimitiveList)
Indices == 1..Last
Pairs(g, S) == {<<MT[g][PrimitiveList[i]], PrimitiveList[i]>> : i \in S}
Inverses(g, S) == {<<PrimitiveList[i], MT[g][PrimitiveList[i]]>> : i \in S}

(* How a thread got where it is.                                           *)
Way(s) ==
  /\ s.pc \notin {"add", "addInverse"} => s.at = 1
  /\ s.pc = "find" => s.ask.is = "member"
  /\ s.pc \in {"ensure", "table", "inverse", "add", "addInverse", "use"} =>
       s.ask.is = "index" \/ s.ask.sort = "CLASS"

ProxyTypes == ProxyTypeOK /\ \A t \in Threads : Way(scripts[t])

(* The next type that a thread adds for arrays.                            *)
Due(s) == IF s.pc = "addInverse" THEN s.at + 1 ELSE s.at

(* What a thread that fills has put in so far, all of its own target.  The *)
(* old dictionary for fields is there until the line that makes it anew.   *)
Sole(tabs, s) ==
  /\ tabs.mt = Pairs(s.target, {i \in Indices : i < Due(s)})
  /\ s.pc # "inverse" => tabs.inv = Inverses(s.target, {i \in Indices : i < s.at})

Whole(tabs) ==
  \E g \in Targets : tabs.mt = Pairs(g, Indices) /\ tabs.inv = Inverses(g, Indices)

(* Nobody has filled the tables over another: one thread at most is in the *)
(* middle of it, and where none is they are whole.                         *)
Apart ==
  /\ ~tables.mtTorn /\ ~tables.invTorn
  /\ \A t, u \in Threads : Amid(t) /\ Amid(u) => t = u
  /\ \A t \in Threads : Amid(t) => Sole(tables, scripts[t])
  /\ tables.mtMade /\ (\A t \in Threads : ~Amid(t)) => Whole(tables)

ProxyInv ==
  /\ ProxyTypes
  /\ mixed \/ Apart
  /\ \A t \in Threads : Spins(t) => mixed

-----------------------------------------------------------------------------
\* Every number in the list stands for a type of its own, which has a method table.
LEMMA ListFacts ==
  ASSUME ProxyAssumption
  PROVE  /\ Last \in Nat /\ Last >= 1
         /\ \A i \in Indices : PrimitiveList[i] \in Primitives
         /\ \A i, j \in Indices : PrimitiveList[i] = PrimitiveList[j] => i = j
         /\ Primitives = {PrimitiveList[i] : i \in Indices}
         /\ \A g \in Targets : \A c \in Classes : MT[g][c] \in Nat
<1>1. /\ Last \in Nat /\ DOMAIN PrimitiveList = Indices
  BY DEF ProxyAssumption, Last, Indices
<1>2. PICK i \in DOMAIN PrimitiveList : PrimitiveList[i] = "String"
  BY DEF ProxyAssumption, Primitives
<1>3. Last >= 1
  BY <1>1, <1>2 DEF Indices
<1>4. \A g \in Targets : \A c \in Classes : MT[g][c] \in Nat
  BY DEF ProxyAssumption, TargetTables
<1> QED
  BY <1>1, <1>3, <1>4 DEF ProxyAssumption, Primitives

\* A key is in a dictionary if its type has been added.
LEMMA KeyKnown ==
  ASSUME ProxyAssumption, NEW g \in Targets, NEW S \in SUBSET Indices, NEW j \in Indices
  PROVE  /\ (\E x \in Pairs(g, S) : x[1] = MT[g][PrimitiveList[j]]) <=> j \in S
         /\ (\E x \in Inverses(g, S) : x[1] = PrimitiveList[j]) <=> j \in S
<1>1. \A i \in S : MT[g][PrimitiveList[i]] = MT[g][PrimitiveList[j]] => i = j
  BY ListFacts DEF ProxyAssumption, Classes
<1>2. \A i \in S : PrimitiveList[i] = PrimitiveList[j] => i = j
  BY ListFacts
<1>3. (\E x \in Pairs(g, S) : x[1] = MT[g][PrimitiveList[j]]) <=> j \in S
  <2>1. ASSUME NEW x \in Pairs(g, S), x[1] = MT[g][PrimitiveList[j]] PROVE j \in S
    <3>1. PICK i \in S : x = <<MT[g][PrimitiveList[i]], PrimitiveList[i]>>
      BY DEF Pairs
    <3> QED
      BY <1>1, <2>1, <3>1
  <2>2. j \in S => <<MT[g][PrimitiveList[j]], PrimitiveList[j]>> \in Pairs(g, S)
    BY DEF Pairs
  <2>3. <<MT[g][PrimitiveList[j]], PrimitiveList[j]>>[1] = MT[g][PrimitiveList[j]]
    OBVIOUS
  <2> QED
    BY <2>1, <2>2, <2>3
<1>4. (\E x \in Inverses(g, S) : x[1] = PrimitiveList[j]) <=> j \in S
  <2>1. ASSUME NEW x \in Inverses(g, S), x[1] = PrimitiveList[j] PROVE j \in S
    <3>1. PICK i \in S : x = <<PrimitiveList[i], MT[g][PrimitiveList[i]]>>
      BY DEF Inverses
    <3> QED
      BY <1>2, <2>1, <3>1
  <2>2. j \in S => <<PrimitiveList[j], MT[g][PrimitiveList[j]]>> \in Inverses(g, S)
    BY DEF Inverses
  <2>3. <<PrimitiveList[j], MT[g][PrimitiveList[j]]>>[1] = PrimitiveList[j]
    OBVIOUS
  <2> QED
    BY <2>1, <2>2, <2>3
<1> QED
  BY <1>3, <1>4

\* Adding a type adds its number.
LEMMA PairAdded ==
  ASSUME NEW g, NEW S \in SUBSET Indices, NEW j \in Indices
  PROVE  /\ Pairs(g, S) \cup {<<MT[g][PrimitiveList[j]], PrimitiveList[j]>>} = Pairs(g, S \cup {j})
         /\ Inverses(g, S) \cup {<<PrimitiveList[j], MT[g][PrimitiveList[j]]>>} = Inverses(g, S \cup {j})
BY DEF Pairs, Inverses

\* All numbers are all types.
LEMMA PairsFull ==
  ASSUME ProxyAssumption, NEW g \in Targets
  PROVE  Pairs(g, Indices) = FullMT(g) /\ Inverses(g, Indices) = FullInverse(g)
BY ListFacts DEF Pairs, Inverses, FullMT, FullInverse

\* What the invariant says of the tables once nobody fills them.
THEOREM InvSettles ==
  ASSUME ProxyAssumption PROVE ProxyInv => TablesSettle
<1> SUFFICES ASSUME ProxyInv PROVE TablesSettle
  OBVIOUS
<1>1. BothSettle
  <2> SUFFICES ASSUME AtRest, ~mixed
               PROVE  \E g \in Targets : tables.mt = FullMT(g) /\ tables.inv = FullInverse(g)
    BY DEF BothSettle
  <2>1. tables.mtMade /\ \A t \in Threads : ~Amid(t)
    BY DEF AtRest, FillsTables
  <2>2. PICK g \in Targets : tables.mt = Pairs(g, Indices) /\ tables.inv = Inverses(g, Indices)
    BY <2>1 DEF ProxyInv, Apart, Whole
  <2> QED
    BY <2>2, PairsFull
<1>2. TornByTwo
  BY DEF TornByTwo, ProxyInv, Apart, Spins
<1> QED
  BY <1>1, <1>2 DEF TablesSettle, ProxyInv, ProxyTypes

-----------------------------------------------------------------------------
(* What a step does to its thread and leaves of the others.                *)
LEMMA StepFacts ==
  ASSUME ProxyTypes, NEW t \in Threads, NEW f \in Script, Step(t, f)
  PROVE  /\ scripts' \in [Threads -> Script] /\ scripts'[t] = f
         /\ \A u \in Threads : u # t => scripts'[u] = scripts[u]
BY DEF Step, ProxyTypes, ProxyTypeOK

\* What a thread is like that has been answered.
LEMMA EndsFacts ==
  ASSUME ProxyTypes, NEW t \in Threads, NEW a \in Answers
  PROVE  /\ Ends(t, a) \in Script
         /\ Ends(t, a).pc = "answered" /\ Ends(t, a).at = 1 /\ Ends(t, a).ask = scripts[t].ask
         /\ Ends(t, a).target = scripts[t].target /\ Ends(t, a).answer \in {a, Refused}
<1>1. scripts[t] \in Script /\ 1 \in 1..Len(PrimitiveList)
  BY DEF ProxyTypes, ProxyTypeOK, Script
<1>2. Refused \in Answers
  BY DEF Answers
<1> DEFINE b == IF scripts[t].ask.is = "member" /\ a = Raised("Argument") THEN Refused ELSE a
<1>3. b \in Answers /\ b \in {a, Refused}
  BY <1>2
<1> HIDE DEF b
<1>4. Ends(t, a) = [scripts[t] EXCEPT !.pc = "answered", !.at = 1, !.answer = b]
  BY DEF Ends, b
<1> QED
  BY <1>1, <1>3, <1>4 DEF Script

\* What Convert makes of a field is an answer that fits its sort.
LEMMA ConvertedFacts ==
  ASSUME NEW s \in DOMAIN CorFieldType \ {"CLASS"}, NEW a \in Converted(CorFieldType[s]),
         NEW ask, ask.is = "member", ask.sort = s
  PROVE  a \in Answers /\ Fits(ask, a)
<1>1. s \in {"BOOLEAN", "CHAR", "I1", "U1", "I4", "U8"}
  BY DEF CorFieldType
<1>2. CASE s = "CHAR"
  BY <1>2 DEF Converted, CorFieldType, Answers, Fits, Raised, Answer
<1>3. CASE s = "U8"
  BY <1>3 DEF Converted, CorFieldType, Answers, Fits, Meaning, Raised, Answer, Proxy
<1>4. CASE s \in {"BOOLEAN", "I1", "U1", "I4"}
  BY <1>4 DEF Converted, CorFieldType, Answers, Fits, Meaning, Value, Answer
<1> QED
  BY <1>1, <1>2, <1>3, <1>4

\* What a text or a proxy is made of, and what fails, are answers.
LEMMA PlainAnswers ==
  ASSUME ProxyAssumption
  PROVE  /\ \A x \in {"Argument", "NullReference", "KeyNotFound", "NotSupported",
                      "InvalidOperation", "COM", "IndexOutOfRange"} :
              Raised(x) \in Answers /\ \A ask : Fits(ask, Raised(x))
         /\ {Proxy, Bytes, String, Refused} \subseteq Answers
         /\ \A ask : Fits(ask, Refused)
         /\ \A type \in Primitives : Value(type) \in Answers
         /\ \A null \in BOOLEAN : Text(null) \subseteq Answers /\ Reference(null) \subseteq Answers
<1>1. \A x \in {"Argument", "NullReference", "KeyNotFound", "NotSupported",
                "InvalidOperation", "COM", "IndexOutOfRange"} :
        Raised(x) \in Answers /\ \A ask : Fits(ask, Raised(x))
  BY DEF Answers, Fits, Raised, Answer
<1>2. \A type \in Primitives : Value(type) \in Answers
  BY DEF Answers
<1>3. {Proxy, Bytes, String, Refused} \subseteq Answers
  BY <1>2 DEF Answers, String, ProxyAssumption
<1>4. \A ask : Fits(ask, Refused)
  BY DEF Fits, Refused, Answer
<1>5. \A null \in BOOLEAN : Text(null) \subseteq Answers /\ Reference(null) \subseteq Answers
  BY <1>1, <1>3 DEF Text, Reference
<1> QED
  BY <1>1, <1>2, <1>3, <1>4, <1>5

\* What a reference is answered with fits, but for tables that are spoilt.
LEMMA MemberFacts ==
  ASSUME ProxyAssumption, ProxyTypes, NEW t \in Threads, NEW a, scripts[t].ask.is = "member",
         scripts[t].ask.sort = "CLASS", a \in Member(scripts[t].ask, MT[scripts[t].target][scripts[t].ask.of])
  PROVE  a \in Answers /\ (Fits(scripts[t].ask, a) \/ Spoilt(t))
<1> DEFINE ask == scripts[t].ask
           own == MT[scripts[t].target]
<1>1. ask \in Access /\ scripts[t].target \in Targets /\ ask.of \in Classes /\ "String" \in Classes
  BY DEF ProxyTypes, ProxyTypeOK, Script, ProxyAssumption, Access, Classes
<1>2. own[ask.of] = own["String"] => ask.of = "String"
  BY <1>1 DEF ProxyAssumption
<1>3. Meaning(ask) = ask.of
  BY DEF Meaning
<1>0. ask.is = "member" /\ ask.sort = "CLASS"
  OBVIOUS
<1> HIDE DEF ask, own
<1>4. CASE a \in {Raised("NullReference"), Raised("KeyNotFound"), Raised("COM"), Raised("Argument")}
  BY <1>4, PlainAnswers DEF ask
<1>5. CASE a \notin {Raised("NullReference"), Raised("KeyNotFound"), Raised("COM"), Raised("Argument")}
  <2>1. (\E x \in tables.inv : x[1] = "String")
        /\ \/ <<"String", own[ask.of]>> \in tables.inv /\ a = String
           \/ <<"String", own[ask.of]>> \notin tables.inv /\ a = Proxy
    BY <1>5 DEF Member, Text, Reference, ask, own
  <2>2. a \in Answers
    BY <2>1, PlainAnswers
  <2> SUFFICES Fits(ask, a) \/ Spoilt(t)
    BY <2>2 DEF ask
  <2>3. CASE a = String /\ <<"String", own[ask.of]>> \in tables.inv
    <3>1. CASE own[ask.of] = own["String"]
      BY <1>2, <1>3, <2>3, <3>1 DEF Fits, String, Value, Answer
    <3>2. CASE own[ask.of] # own["String"]
      BY <2>3, <3>2 DEF Spoilt, own
    <3> QED
      BY <3>1, <3>2
  <2>4. CASE a = Proxy /\ <<"String", own[ask.of]>> \notin tables.inv
    <3>1. PICK x \in tables.inv : x[1] = "String"
      BY <2>1
    <3>2. x = <<"String", x[2]>>
      BY <3>1 DEF ProxyTypes, ProxyTypeOK, Tables
    <3>3. CASE x[2] # own["String"]
      BY <3>1, <3>3 DEF Spoilt, own
    <3>4. CASE x[2] = own["String"]
      <4>1. ask.of # "String"
        BY <2>4, <3>2, <3>4
      <4> QED
        BY <1>0, <1>3, <2>4, <4>1 DEF Fits, Proxy, Answer
    <3> QED
      BY <3>3, <3>4
  <2> QED
    BY <2>1, <2>3, <2>4
<1> QED
  BY <1>4, <1>5 DEF ask

\* What an element is read as is an answer: a failure, or a value of that type.
LEMMA IndexAsFacts ==
  ASSUME ProxyAssumption, NEW ask, ask.null \in BOOLEAN, NEW type \in Primitives, NEW a \in IndexAs(ask, type)
  PROVE  a \in Answers /\ ((\A any : Fits(any, a)) \/ a = Value(type))
<1>1. CASE a \in {Raised("COM"), Raised("InvalidOperation"), Raised("NotSupported")}
  BY <1>1, PlainAnswers
<1>2. CASE a \notin {Raised("COM"), Raised("InvalidOperation"), Raised("NotSupported")}
  <2>1. a = Value(type)
    BY <1>2 DEF IndexAs, Text, String
  <2> QED
    BY <2>1, PlainAnswers
<1> QED
  BY <1>1, <1>2

\* What an element is answered with fits, but for tables that are spoilt.
LEMMA IndexFacts ==
  ASSUME ProxyAssumption, ProxyTypes, NEW t \in Threads, NEW a, scripts[t].ask.is = "index",
         a \in Index(scripts[t].ask, MT[scripts[t].target][scripts[t].ask.of])
  PROVE  a \in Answers /\ (Fits(scripts[t].ask, a) \/ Spoilt(t))
<1> DEFINE ask == scripts[t].ask
           own == MT[scripts[t].target]
           known == {x[2] : x \in {y \in tables.mt : y[1] = own[ask.of]}}
<1>1. ask \in Access /\ scripts[t].target \in Targets /\ ask.of \in Classes /\ ask.null \in BOOLEAN
  BY DEF ProxyTypes, ProxyTypeOK, Script, ProxyAssumption, Access
<1>2. Meaning(ask) = ask.of /\ ask.is = "index"
  BY DEF Meaning
<1>3. CASE a = Bytes
  BY <1>2, <1>3, PlainAnswers DEF Fits, Bytes, Answer
<1>4. CASE a # Bytes
  <2>1. PICK type \in known : a \in IndexAs(ask, type)
    BY <1>4 DEF Index
  <2>2. PICK x \in tables.mt : x[1] = own[ask.of] /\ x[2] = type
    OBVIOUS
  <2>3. type \in Primitives
    BY <2>2 DEF ProxyTypes, ProxyTypeOK, Tables
  <2> HIDE DEF known
  <2>4. a \in Answers /\ (Fits(ask, a) \/ a = Value(type))
    BY <1>1, <2>1, <2>3, IndexAsFacts
  <2>5. CASE own[type] # own[ask.of]
    BY <2>2, <2>4, <2>5 DEF Spoilt
  <2>6. CASE own[type] = own[ask.of]
    <3>1. type = ask.of
      BY <1>1, <2>3, <2>6 DEF ProxyAssumption, Classes
    <3>2. Fits(ask, Value(type))
      BY <1>2, <3>1 DEF Fits, Value, Answer
    <3> QED
      BY <2>4, <3>2
  <2> QED
    BY <2>5, <2>6
<1> QED
  BY <1>3, <1>4

\* What a search may come to that misses or fails, and one of a torn dictionary, are answers.
LEMMA SearchFacts ==
  ASSUME ProxyAssumption, NEW ask \in Access
  PROVE  /\ \A a \in Missed(ask) : a \in Answers /\ Fits(ask, a)
         /\ \A a \in AnyFound(ask) : a \in Answers
<1>1. \A a \in Missed(ask) : a \in Answers /\ Fits(ask, a)
  <2>1. ask.is # "member" => ask.is = "index"
    BY DEF Access
  <2>2. ask.is = "index" => Fits(ask, Bytes)
    BY DEF Fits, Bytes, Answer
  <2> QED
    BY <2>1, <2>2, PlainAnswers DEF Missed
<1>2. \A a \in AnyFound(ask) : a \in Answers
  <2>1. ask.null \in BOOLEAN
    BY DEF Access
  <2> QED
    BY <2>1, PlainAnswers, IndexAsFacts DEF AnyFound
<1> QED
  BY <1>1, <1>2

-----------------------------------------------------------------------------
\* A step that leaves the tables alone keeps the types.
LEMMA OnlyTypes ==
  ASSUME ProxyTypes, NEW t \in Threads, NEW f \in Script, Way(f), Only(t, f)
  PROVE  ProxyTypes'
<1>1. /\ scripts' \in [Threads -> Script] /\ scripts'[t] = f
      /\ \A u \in Threads : u # t => scripts'[u] = scripts[u]
  BY StepFacts DEF Only
<1>2. \A u \in Threads : Way(scripts'[u])
  BY <1>1 DEF ProxyTypes
<1> QED
  BY <1>1, <1>2 DEF Only, ProxyTypes, ProxyTypeOK

\* So does one that changes them.
LEMMA FillsTypes ==
  ASSUME ProxyTypes, NEW t \in Threads, NEW f \in Script, Way(f), NEW tabs \in Tables, Fills(t, tabs, f)
  PROVE  ProxyTypes'
<1>1. /\ scripts' \in [Threads -> Script] /\ scripts'[t] = f
      /\ \A u \in Threads : u # t => scripts'[u] = scripts[u]
  BY StepFacts DEF Fills
<1>2. \A u \in Threads : Way(scripts'[u])
  BY <1>1 DEF ProxyTypes
<1>3. mixed' \in BOOLEAN
  BY DEF Fills, ProxyTypes, ProxyTypeOK
<1> QED
  BY <1>1, <1>2, <1>3 DEF Fills, ProxyTypes, ProxyTypeOK

\* The answers of the steps that give some.
LEMMA Answering ==
  ASSUME ProxyAssumption, ProxyTypes, NEW t \in Threads, NEW a,
         Only(t, Ends(t, a)) \/ (\E tabs \in Tables : Fills(t, tabs, Ends(t, a))),
         a \in Answers
  PROVE  ProxyTypes'
<1>1. Ends(t, a) \in Script /\ Way(Ends(t, a))
  BY EndsFacts DEF Way
<1> QED
  BY <1>1, OnlyTypes, FillsTypes

\* An answer that fits is one that AnswersFit takes.
LEMMA AnswerGiven ==
  ASSUME ProxyTypes, NEW t \in Threads, NEW a \in Answers, Only(t, Ends(t, a)),
         Fits(scripts[t].ask, a) \/ Spoilt(t)
  PROVE  AnswersFit
<1>1. /\ scripts'[t] = Ends(t, a)
      /\ \A u \in Threads : u # t => scripts'[u] = scripts[u]
  BY EndsFacts, StepFacts DEF Only
<1>2. Ends(t, a).answer \in {a, Refused}
  BY EndsFacts
<1>3. Fits(scripts[t].ask, Refused)
  BY DEF Fits, Refused, Answer
<1>4. Fits(scripts[t].ask, scripts'[t].answer) \/ Spoilt(t)
  BY <1>1, <1>2, <1>3
<1> QED
  BY <1>1, <1>4 DEF AnswersFit

\* FindMember and Use answer with what fits, but for tables that are spoilt.
LEMMA FindTypes ==
  ASSUME ProxyAssumption, ProxyTypes, NEW t \in Threads, FindMember(t)
  PROVE  ProxyTypes' /\ AnswersFit
<1> DEFINE s == scripts[t].ask.sort
<1>1. scripts[t] \in Script /\ scripts[t].at \in 1..Len(PrimitiveList) /\ scripts[t].pc = "find"
  BY DEF FindMember, ProxyTypes, ProxyTypeOK, Script
<1>2. scripts[t].ask.is = "member" /\ scripts[t].at = 1 /\ s \in Sorts
  BY <1>1 DEF ProxyTypes, Way, Script, ProxyAssumption, Access
<1>3. CASE s = "CLASS"
  <2>1. Only(t, [scripts[t] EXCEPT !.pc = "ensure"])
    BY <1>3 DEF FindMember
  <2>2. [scripts[t] EXCEPT !.pc = "ensure"] \in Script /\ [scripts[t] EXCEPT !.pc = "ensure"].pc = "ensure"
        /\ Way([scripts[t] EXCEPT !.pc = "ensure"])
    <3> DEFINE f == [scripts[t] EXCEPT !.pc = "ensure"]
    <3>1. f \in Script /\ f.pc = "ensure" /\ f.at = 1 /\ f.ask = scripts[t].ask
      BY <1>1, <1>2 DEF Script
    <3> HIDE DEF f
    <3>2. Way(f)
      BY <1>3, <3>1 DEF Way
    <3> QED
      BY <3>1, <3>2 DEF f
  <2>3. ProxyTypes'
    BY <2>1, <2>2, OnlyTypes
  <2>4. \A u \in Threads : scripts[u].pc # "answered" => scripts'[u].pc # "answered"
    BY <2>1, <2>2, StepFacts DEF Only
  <2> QED
    BY <2>3, <2>4 DEF AnswersFit
<1>4. CASE s # "CLASS"
  <2>1. PICK a \in (IF s \in DOMAIN CorFieldType THEN Converted(CorFieldType[s]) ELSE {Raised("Argument")}) :
          Only(t, Ends(t, a))
    BY <1>4 DEF FindMember
  <2>2. a \in Answers /\ Fits(scripts[t].ask, a)
    <3>1. CASE s \in DOMAIN CorFieldType
      BY <1>2, <1>4, <2>1, <3>1, ConvertedFacts
    <3>2. CASE s \notin DOMAIN CorFieldType
      BY <2>1, <3>2 DEF Answers, Fits, Raised, Answer
    <3> QED
      BY <3>1, <3>2
  <2>3. ProxyTypes'
    BY <2>1, <2>2, Answering
  <2>4. AnswersFit
    BY <2>1, <2>2, AnswerGiven
  <2> QED
    BY <2>3, <2>4
<1> QED
  BY <1>3, <1>4

\* A search that does not end keeps the types, and answers nobody.
LEMMA SpinsTypes ==
  ASSUME ProxyAssumption, ProxyTypes, NEW t \in Threads, Only(t, [scripts[t] EXCEPT !.pc = "spins"]),
         scripts[t].at = 1
  PROVE  ProxyTypes' /\ AnswersFit /\ scripts'[t].pc = "spins"
<1> DEFINE f == [scripts[t] EXCEPT !.pc = "spins"]
<1>1. f \in Script /\ f.pc = "spins" /\ f.at = 1
  BY DEF ProxyTypes, ProxyTypeOK, Script
<1>2. Only(t, f)
  OBVIOUS
<1> HIDE DEF f
<1>3. Way(f)
  BY <1>1 DEF Way
<1>4. ProxyTypes'
  BY <1>1, <1>2, <1>3, OnlyTypes
<1>5. scripts'[t] = f /\ \A u \in Threads : u # t => scripts'[u] = scripts[u]
  BY <1>1, <1>2, StepFacts DEF Only
<1> QED
  BY <1>1, <1>4, <1>5 DEF AnswersFit

\* Use reads the tables, and answers with what fits, or does not end in a torn one.
LEMMA UseTypes ==
  ASSUME ProxyAssumption, ProxyTypes, NEW t \in Threads, Use(t)
  PROVE  /\ ProxyTypes' /\ AnswersFit
         /\ scripts[t].pc = "use" /\ tables' = tables /\ mixed' = mixed
         /\ \A u \in Threads : u # t => scripts'[u] = scripts[u]
         /\ \/ scripts'[t].pc = "answered"
            \/ scripts'[t].pc = "spins" /\ (tables.mtTorn \/ tables.invTorn)
<1> DEFINE ask == scripts[t].ask
           addr == MT[scripts[t].target][ask.of]
           torn == IF ask.is = "member" THEN tables.invTorn ELSE tables.mtTorn
           beside == IF ask.is = "member" THEN AddsInverseBeside(t) ELSE AddsBeside(t)
           found == IF torn THEN AnyFound(ask) ELSE IF ask.is = "member" THEN Member(ask, addr)
                    ELSE Index(ask, addr)
           missed == IF torn \/ beside THEN Missed(ask) ELSE {}
<1>1. scripts[t].pc = "use" /\ scripts[t].at = 1 /\ ask \in Access
  BY DEF Use, ProxyTypes, ProxyTypeOK, Script, ProxyAssumption, Way
<1>2. ASSUME NEW a \in found \cup missed
      PROVE  a \in Answers /\ (Fits(ask, a) \/ Spoilt(t))
  <2>1. CASE a \in missed
    BY <1>1, <2>1, SearchFacts
  <2>2. CASE a \in found /\ torn
    BY <1>1, <2>2, SearchFacts DEF Spoilt
  <2>3. CASE a \in found /\ ~torn /\ ask.is = "member"
    <3>1. ask.sort = "CLASS"
      BY <1>1, <2>3 DEF ProxyTypes, Way
    <3> QED
      BY <2>3, <3>1, MemberFacts
  <2>4. CASE a \in found /\ ~torn /\ ask.is # "member"
    <3>1. ask.is = "index"
      BY <1>1, <2>4 DEF Access
    <3> QED
      BY <2>4, <3>1, IndexFacts
  <2> QED
    BY <1>2, <2>1, <2>2, <2>3, <2>4
<1>3. \/ \E a \in found \cup missed : Only(t, Ends(t, a))
      \/ torn /\ Only(t, [scripts[t] EXCEPT !.pc = "spins"])
  BY DEF Use
<1>4. CASE torn /\ Only(t, [scripts[t] EXCEPT !.pc = "spins"])
  <2>1. ProxyTypes' /\ AnswersFit /\ scripts'[t].pc = "spins"
    BY <1>1, <1>4, SpinsTypes
  <2>2. \A u \in Threads : u # t => scripts'[u] = scripts[u]
    BY <1>4 DEF Only, Step, ProxyTypes, ProxyTypeOK
  <2> QED
    BY <1>1, <1>4, <2>1, <2>2 DEF Only
<1>5. CASE \E a \in found \cup missed : Only(t, Ends(t, a))
  <2>1. PICK a \in found \cup missed : Only(t, Ends(t, a))
    BY <1>5
  <2>2. a \in Answers /\ (Fits(ask, a) \/ Spoilt(t))
    BY <1>2, <2>1
  <2> HIDE DEF found, missed
  <2>3. ProxyTypes' /\ AnswersFit
    BY <2>1, <2>2, Answering, AnswerGiven
  <2>4. scripts'[t].pc = "answered" /\ \A u \in Threads : u # t => scripts'[u] = scripts[u]
    BY <2>1, <2>2, EndsFacts, StepFacts DEF Only
  <2> QED
    BY <1>1, <2>1, <2>3, <2>4 DEF Only
<1> QED
  BY <1>3, <1>4, <1>5

\* A question leads to a field, or at once to the tables.
LEMMA AskTypes ==
  ASSUME ProxyAssumption, ProxyTypes, NEW t \in Threads, AskFor(t)
  PROVE  ProxyTypes'
<1>1. scripts[t] \in Script /\ scripts[t].pc \in {"idle", "answered"} /\ scripts[t].at = 1
  BY DEF AskFor, ProxyTypes, ProxyTypeOK, Way
<1>2. PICK g \in Targets, a \in Accesses :
        Only(t, [scripts[t] EXCEPT !.pc = IF a.is = "member" THEN "find" ELSE "ensure", !.target = g, !.ask = a])
  BY DEF AskFor
<1> DEFINE p == IF a.is = "member" THEN "find" ELSE "ensure"
           f == [scripts[t] EXCEPT !.pc = p, !.target = g, !.ask = a]
<1>3. p \in {"find", "ensure"} /\ (p = "find" => a.is = "member") /\ (p = "ensure" => a.is = "index")
  BY DEF ProxyAssumption, Access
<1> HIDE DEF p
<1>4. f \in Script /\ f.pc = p /\ f.ask = a /\ f.at = 1
  BY <1>1, <1>3 DEF Script
<1>5. Only(t, f)
  BY <1>2 DEF p
<1> HIDE DEF f
<1>6. Way(f)
  BY <1>3, <1>4 DEF Way
<1> QED
  BY <1>4, <1>5, <1>6, OnlyTypes

\* EnsureInit only looks whether there is a table.
LEMMA EnsureTypes ==
  ASSUME ProxyAssumption, ProxyTypes, NEW t \in Threads, EnsureInit(t)
  PROVE  ProxyTypes'
<1>1. scripts[t] \in Script /\ scripts[t].pc = "ensure" /\ Way(scripts[t])
  BY DEF EnsureInit, ProxyTypes, ProxyTypeOK
<1> DEFINE p == IF tables.mtMade THEN "use" ELSE "table"
           f == [scripts[t] EXCEPT !.pc = p]
<1>2. p \in {"use", "table"}
  OBVIOUS
<1>3. Only(t, f)
  BY DEF EnsureInit
<1> HIDE DEF p
<1>4. f \in Script /\ f.pc = p /\ f.at = scripts[t].at /\ f.ask = scripts[t].ask
  BY <1>1, <1>2 DEF Script
<1> HIDE DEF f
<1>5. Way(f)
  BY <1>1, <1>2, <1>4 DEF Way
<1> QED
  BY <1>3, <1>4, <1>5, OnlyTypes

-----------------------------------------------------------------------------
(* What a step of InitMethodTables does.  It fails, or goes on.            *)
Filled(t, tabs, p, n) ==
  \E f \in Script : /\ Fills(t, tabs, f) /\ f.pc = p /\ f.at = n
                    /\ f.target = scripts[t].target /\ f.ask = scripts[t].ask

\* A step of InitMethodTables keeps the types.
LEMMA FilledTypes ==
  ASSUME ProxyAssumption, ProxyTypes, NEW t \in Threads, FillsTables(t),
         NEW tabs \in Tables, NEW p, NEW n, Filled(t, tabs, p, n),
         p \in {"inverse", "add", "addInverse", "use", "answered", "spins"},
         p \notin {"add", "addInverse"} => n = 1
  PROVE  ProxyTypes'
<1>1. PICK f \in Script : /\ Fills(t, tabs, f) /\ f.pc = p /\ f.at = n
                          /\ f.target = scripts[t].target /\ f.ask = scripts[t].ask
  BY DEF Filled
<1>2. Way(scripts[t])
  BY DEF ProxyTypes
<1>3. Way(f)
  BY <1>1, <1>2 DEF Way, FillsTables, Amid
<1> QED
  BY <1>1, <1>3, FillsTypes

(* The rest of what is to be known of a step that fills.                   *)
LEMMA FilledFacts ==
  ASSUME ProxyTypes, NEW t \in Threads, NEW tabs, NEW p, NEW n, Filled(t, tabs, p, n)
  PROVE  /\ tables' = tabs /\ loaded' = loaded
         /\ scripts'[t].pc = p /\ scripts'[t].at = n /\ scripts'[t].target = scripts[t].target
         /\ \A u \in Threads : u # t => scripts'[u] = scripts[u]
         /\ mixed' = (mixed \/ (\E u \in Threads \ {t} : Amid(u)) \/ (scripts[t].pc = "add" /\ ~IsLoaded(t)))
BY StepFacts DEF Filled, Fills

\* A step to a record that agrees with the thread but for where it is.
LEMMA GoesTo ==
  ASSUME ProxyTypes, NEW t \in Threads, NEW tabs, NEW n \in Indices,
         NEW p \in {"inverse", "add", "addInverse", "use", "spins"},
         NEW f, f = [scripts[t] EXCEPT !.pc = p, !.at = n], Fills(t, tabs, f)
  PROVE  Filled(t, tabs, p, n)
<1>1. /\ f \in Script /\ f.pc = p /\ f.at = n
      /\ f.target = scripts[t].target /\ f.ask = scripts[t].ask
  BY DEF ProxyTypes, ProxyTypeOK, Script, Indices, Last
<1> QED
  BY <1>1 DEF Filled

\* A step that leaves its place in the list alone is one to the same place.
LEMMA SamePlace ==
  ASSUME ProxyTypes, NEW t \in Threads, NEW p
  PROVE  /\ [scripts[t] EXCEPT !.pc = p] = [scripts[t] EXCEPT !.pc = p, !.at = scripts[t].at]
         /\ scripts[t].at \in Indices /\ scripts[t].target \in Targets
BY DEF ProxyTypes, ProxyTypeOK, Script, Indices, Last

\* An exception ends the filling, and the access is refused or fails.
LEMMA FailureFills ==
  ASSUME ProxyAssumption, ProxyTypes, NEW t \in Threads, NEW tabs,
         NEW x \in {"Argument", "IndexOutOfRange"}, Fills(t, tabs, Ends(t, Raised(x)))
  PROVE  Filled(t, tabs, "answered", 1) /\ AnswersFit
<1>1. Raised(x) \in Answers /\ \A ask : Fits(ask, Raised(x)) /\ Fits(ask, Refused)
  BY PlainAnswers
<1>2. Filled(t, tabs, "answered", 1)
  BY <1>1, EndsFacts DEF Filled
<1>3. /\ scripts'[t] = Ends(t, Raised(x))
      /\ \A u \in Threads : u # t => scripts'[u] = scripts[u]
  BY <1>1, EndsFacts, StepFacts DEF Fills
<1>4. Fits(scripts[t].ask, scripts'[t].answer)
  BY <1>1, <1>3, EndsFacts
<1> QED
  BY <1>2, <1>3, <1>4 DEF AnswersFit

\* A step that goes on answers nobody.
LEMMA GoingOnFits ==
  ASSUME ProxyTypes, NEW t \in Threads, NEW tabs, NEW p, NEW n, Filled(t, tabs, p, n), p # "answered"
  PROVE  AnswersFit
BY FilledFacts DEF AnswersFit

(* An Add that tears its dictionary, or comes to a torn one, ends, or goes *)
(* on, which next stands for.                                              *)
LEMMA TearFills ==
  ASSUME ProxyAssumption, ProxyTypes, NEW t \in Threads, NEW tabs, NEW p \in {"add", "addInverse", "use"},
         NEW n \in Indices, NEW next, next = [scripts[t] EXCEPT !.pc = p, !.at = n],
         NEW f \in AfterTear(t, next), Fills(t, tabs, f)
  PROVE  /\ AnswersFit
         /\ \/ Filled(t, tabs, "answered", 1) \/ Filled(t, tabs, "spins", 1) \/ Filled(t, tabs, p, n)
<1>0. 1 \in Indices
  BY ListFacts DEF Indices
<1>1. CASE f = next
  BY <1>1, GoesTo, GoingOnFits
<1>2. CASE f = [scripts[t] EXCEPT !.pc = "spins", !.at = 1]
  BY <1>0, <1>2, GoesTo, GoingOnFits
<1>3. CASE f \in {Ends(t, Raised("Argument")), Ends(t, Raised("IndexOutOfRange"))}
  BY <1>3, FailureFills
<1> QED
  BY <1>1, <1>2, <1>3 DEF AfterTear

-----------------------------------------------------------------------------
(* Where a step that fills leaves the tables not mixed: nobody else is in  *)
(* the middle of it, before or after, and the type that it adds is loaded. *)
LEMMA Lone ==
  ASSUME ProxyInv, NEW t \in Threads, NEW tabs, NEW p, NEW n, Filled(t, tabs, p, n), ~mixed'
  PROVE  /\ ~mixed /\ Apart
         /\ \A u \in Threads : u # t => ~Amid(u) /\ ~Amid(u)'
         /\ ~AddsBeside(t) /\ ~AddsInverseBeside(t)
         /\ scripts[t].pc = "add" => IsLoaded(t)
<1>1. ProxyTypes
  BY DEF ProxyInv
<1>2. /\ \A u \in Threads : u # t => ~Amid(u) /\ scripts'[u] = scripts[u]
      /\ ~mixed /\ (scripts[t].pc = "add" => IsLoaded(t))
  BY <1>1, FilledFacts
<1> QED
  BY <1>2 DEF ProxyInv, Amid, AddsBeside, AddsInverseBeside

(* A step that fills keeps the invariant if it leaves the tables as its    *)
(* place in the list says, or whole, unless they are mixed after it.       *)
LEMMA FillingKeeps ==
  ASSUME ProxyAssumption, ProxyInv, NEW t \in Threads, FillsTables(t),
         NEW tabs \in Tables, NEW p, NEW n, Filled(t, tabs, p, n),
         p \in {"inverse", "add", "addInverse", "use", "answered", "spins"},
         p \notin {"add", "addInverse"} => n = 1,
         \/ mixed'
         \/ /\ ~tabs.mtTorn /\ ~tabs.invTorn
            /\ \/ p \in {"inverse", "add", "addInverse"} /\ Sole(tabs, scripts'[t])
               \/ p = "use" /\ Whole(tabs)
  PROVE  ProxyInv'
<1>1. ProxyTypes
  BY DEF ProxyInv
<1>2. ProxyTypes'
  BY <1>1, FilledTypes
<1>3. /\ tables' = tabs /\ scripts'[t].pc = p
      /\ \A u \in Threads : u # t => scripts'[u] = scripts[u]
      /\ mixed => mixed'
  BY <1>1, FilledFacts
<1>4. ASSUME ~mixed' PROVE Apart'
  <2>1. \A u \in Threads : u # t => ~Amid(u)'
    BY <1>4, Lone
  <2>2. Amid(t)' <=> p \in {"inverse", "add", "addInverse"}
    BY <1>3 DEF Amid
  <2>3. ~tables'.mtTorn /\ ~tables'.invTorn
    BY <1>3, <1>4
  <2>4. \A u \in Threads : Amid(u)' => Sole(tables', scripts'[u])
    BY <1>3, <1>4, <2>1, <2>2
  <2>5. (\A u \in Threads : ~Amid(u)') => Whole(tables')
    BY <1>3, <1>4, <2>2
  <2> HIDE DEF Amid
  <2> QED
    BY <2>1, <2>3, <2>4, <2>5 DEF Apart, Sole, Whole
<1>5. \A u \in Threads : Spins(u)' => mixed'
  BY <1>3 DEF Spins, ProxyInv
<1> QED
  BY <1>2, <1>4, <1>5 DEF ProxyInv

(* What the thread in the middle of it knows of the tables.                *)
LEMMA OwnSoFar ==
  ASSUME ProxyInv, NEW t \in Threads, Amid(t), ~mixed
  PROVE  ~tables.mtTorn /\ ~tables.invTorn /\ Sole(tables, scripts[t])
BY DEF ProxyInv, Apart

\* The first line makes the dictionary for arrays anew.
LEMMA NewTableKeeps ==
  ASSUME ProxyAssumption, ProxyInv, NEW t \in Threads, NewTable(t)
  PROVE  ProxyInv' /\ AnswersFit
<1> DEFINE tabs == [tables EXCEPT !.mtMade = TRUE, !.mt = {}, !.mtTorn = FALSE]
<1>1. ProxyTypes /\ scripts[t].pc = "table" /\ scripts[t].at = 1 /\ FillsTables(t)
  BY DEF NewTable, ProxyInv, ProxyTypes, Way, FillsTables
<1>2. tabs \in Tables /\ tabs.mt = {} /\ ~tabs.mtTorn /\ tabs.invTorn = tables.invTorn
  BY <1>1 DEF ProxyTypes, ProxyTypeOK, Tables
<1>3. Fills(t, tabs, [scripts[t] EXCEPT !.pc = "inverse"])
  BY DEF NewTable
<1> HIDE DEF tabs
<1>4. Filled(t, tabs, "inverse", 1)
  BY <1>1, <1>3, SamePlace, GoesTo
<1>5. scripts'[t].pc = "inverse" /\ scripts'[t].at = 1 /\ scripts'[t].target = scripts[t].target
  BY <1>1, <1>4, FilledFacts
<1>6. Pairs(scripts'[t].target, {i \in Indices : i < 1}) = {}
  BY DEF Pairs, Indices
<1>7. Sole(tabs, scripts'[t])
  BY <1>2, <1>5, <1>6 DEF Sole, Due
<1>8. ~mixed' => ~tabs.invTorn
  BY <1>2, <1>4, Lone DEF Apart
<1> QED
  BY <1>1, <1>2, <1>4, <1>7, <1>8, FillingKeeps, GoingOnFits

\* The second one makes the dictionary for fields anew.
LEMMA NewInverseKeeps ==
  ASSUME ProxyAssumption, ProxyInv, NEW t \in Threads, NewInverse(t)
  PROVE  ProxyInv' /\ AnswersFit
<1> DEFINE tabs == [tables EXCEPT !.invMade = TRUE, !.inv = {}, !.invTorn = FALSE]
<1>1. ProxyTypes /\ scripts[t].pc = "inverse" /\ scripts[t].at = 1 /\ FillsTables(t) /\ Amid(t)
  BY DEF NewInverse, ProxyInv, ProxyTypes, Way, FillsTables, Amid
<1>2. tabs \in Tables /\ tabs.inv = {} /\ tabs.mt = tables.mt /\ ~tabs.invTorn /\ tabs.mtTorn = tables.mtTorn
  BY <1>1 DEF ProxyTypes, ProxyTypeOK, Tables
<1>3. Fills(t, tabs, [scripts[t] EXCEPT !.pc = "add"])
  BY DEF NewInverse
<1> HIDE DEF tabs
<1>4. Filled(t, tabs, "add", 1)
  BY <1>1, <1>3, SamePlace, GoesTo
<1>5. scripts'[t].pc = "add" /\ scripts'[t].at = 1 /\ scripts'[t].target = scripts[t].target
  BY <1>1, <1>4, FilledFacts
<1>6. Inverses(scripts'[t].target, {i \in Indices : i < 1}) = {}
  BY DEF Inverses, Indices
<1>7. ~mixed' => Sole(tabs, scripts'[t]) /\ ~tabs.mtTorn
  <2> SUFFICES ASSUME ~mixed' PROVE Sole(tabs, scripts'[t]) /\ ~tabs.mtTorn
    OBVIOUS
  <2>1. ~tables.mtTorn /\ Sole(tables, scripts[t])
    BY <1>1, <1>4, Lone, OwnSoFar
  <2> QED
    BY <1>1, <1>2, <1>5, <1>6, <2>1 DEF Sole, Due
<1> QED
  BY <1>1, <1>2, <1>4, <1>7, FillingKeeps, GoingOnFits

\* Add for arrays: fails, tears what others tear with it, or puts in one type.
LEMMA AddKeeps ==
  ASSUME ProxyAssumption, ProxyInv, NEW t \in Threads, Add(t)
  PROVE  ProxyInv' /\ AnswersFit
<1> DEFINE n == scripts[t].at
           g == scripts[t].target
           known == \E x \in tables.mt : x[1] = MTOf(t)
           tabs == [tables EXCEPT !.mt = @ \cup {<<MTOf(t), TypeOf(t)>>}]
           next == [scripts[t] EXCEPT !.pc = "addInverse"]
           tore == [tables EXCEPT !.mt = {}, !.mtTorn = TRUE]
<1>1. /\ ProxyTypes /\ scripts[t].pc = "add" /\ FillsTables(t) /\ Amid(t)
      /\ n \in Indices /\ g \in Targets /\ next = [scripts[t] EXCEPT !.pc = "addInverse", !.at = n]
  BY SamePlace DEF Add, ProxyInv, FillsTables, Amid
<1>2. tables \in Tables /\ tore \in Tables
  BY <1>1 DEF ProxyTypes, ProxyTypeOK, Tables
<1>3. \/ (known \/ ~IsLoaded(t)) /\ Fills(t, tables, Ends(t, Raised("Argument")))
      \/ ~known /\ ~tables.mtTorn /\ Fills(t, tabs, next)
      \/ (tables.mtTorn \/ AddsBeside(t)) /\ \E f \in AfterTear(t, next) : Fills(t, tore, f)
  BY DEF Add
<1>4. CASE (known \/ ~IsLoaded(t)) /\ Fills(t, tables, Ends(t, Raised("Argument")))
  <2>1. Filled(t, tables, "answered", 1) /\ AnswersFit
    BY <1>1, <1>4, FailureFills
  <2>2. mixed'
    <3> SUFFICES ASSUME ~mixed' PROVE FALSE
      OBVIOUS
    <3>1. ~mixed /\ IsLoaded(t)
      BY <1>1, <2>1, Lone
    <3>2. tables.mt = Pairs(g, {i \in Indices : i < n})
      BY <1>1, <3>1, OwnSoFar DEF Sole, Due
    <3>3. {i \in Indices : i < n} \in SUBSET Indices /\ n \notin {i \in Indices : i < n}
      BY <1>1 DEF Indices
    <3>4. ~\E x \in Pairs(g, {i \in Indices : i < n}) : x[1] = MT[g][PrimitiveList[n]]
      BY <1>1, <3>3, KeyKnown
    <3>5. ~known
      BY <3>2, <3>4 DEF MTOf, TypeOf
    <3> QED
      BY <1>4, <3>1, <3>5
  <2> QED
    BY <1>1, <1>2, <2>1, <2>2, FillingKeeps
<1>5. CASE ~known /\ ~tables.mtTorn /\ Fills(t, tabs, next)
  <2>1. Filled(t, tabs, "addInverse", n)
    BY <1>1, <1>5, GoesTo
  <2>2. <<MTOf(t), TypeOf(t)>> \in Nat \X Primitives
    BY <1>1, ListFacts DEF MTOf, TypeOf, Classes
  <2>3. /\ tabs \in Tables /\ tabs.mt = tables.mt \cup {<<MTOf(t), TypeOf(t)>>} /\ tabs.inv = tables.inv
        /\ tabs.mtTorn = tables.mtTorn /\ tabs.invTorn = tables.invTorn
    BY <1>2, <2>2 DEF Tables
  <2>4. scripts'[t].pc = "addInverse" /\ scripts'[t].at = n /\ scripts'[t].target = g
    BY <1>1, <2>1, FilledFacts
  <2>5. ~mixed' => ~tabs.invTorn /\ Sole(tabs, scripts'[t])
    <3> SUFFICES ASSUME ~mixed' PROVE ~tabs.invTorn /\ Sole(tabs, scripts'[t])
      OBVIOUS
    <3> DEFINE before == {i \in Indices : i < n}
    <3>1. /\ ~tables.invTorn /\ tables.mt = Pairs(g, before)
          /\ tables.inv = Inverses(g, before)
      BY <1>1, <2>1, Lone, OwnSoFar DEF Sole, Due
    <3>2. before \cup {n} = {i \in Indices : i < n + 1}
      BY <1>1 DEF Indices
    <3>3. tabs.mt = Pairs(g, {i \in Indices : i < n + 1})
      BY <1>1, <2>3, <3>1, <3>2, PairAdded DEF MTOf, TypeOf
    <3> QED
      BY <2>3, <2>4, <3>1, <3>3 DEF Sole, Due
  <2> HIDE DEF tabs, next, n, g
  <2> QED
    BY <1>1, <1>5, <2>1, <2>3, <2>5, FillingKeeps, GoingOnFits
<1>6. CASE (tables.mtTorn \/ AddsBeside(t)) /\ \E f \in AfterTear(t, next) : Fills(t, tore, f)
  <2>1. /\ AnswersFit
        /\ \/ Filled(t, tore, "answered", 1) \/ Filled(t, tore, "spins", 1) \/ Filled(t, tore, "addInverse", n)
    BY <1>1, <1>6, TearFills
  <2>2. mixed'
    BY <1>6, <2>1, Lone DEF Apart
  <2> HIDE DEF tore, n
  <2> QED
    BY <1>1, <1>2, <2>1, <2>2, FillingKeeps
<1> QED
  BY <1>3, <1>4, <1>5, <1>6

\* Where the loop goes after one type: to the next, or to the end.
LEMMA NextType ==
  ASSUME ProxyAssumption, ProxyTypes, NEW t \in Threads, scripts[t].pc = "addInverse"
  PROVE  \/ /\ scripts[t].at < Last /\ scripts[t].at + 1 \in Indices
            /\ AfterInverse(t) = [scripts[t] EXCEPT !.pc = "add", !.at = scripts[t].at + 1]
         \/ /\ scripts[t].at = Last /\ 1 \in Indices
            /\ AfterInverse(t) = [scripts[t] EXCEPT !.pc = "use", !.at = 1]
<1>1. scripts[t] \in Script /\ scripts[t].at \in Indices /\ Last \in Nat /\ Last >= 1
  BY SamePlace, ListFacts DEF ProxyTypes, ProxyTypeOK
<1>2. CASE scripts[t].at < Last
  <2>1. scripts[t].at + 1 \in Indices
    BY <1>1, <1>2 DEF Indices
  <2>2. AfterInverse(t) = [scripts[t] EXCEPT !.pc = "add", !.at = scripts[t].at + 1]
    BY <1>1, <1>2 DEF AfterInverse, Last, Script
  <2> QED
    BY <1>2, <2>1, <2>2
<1>3. CASE ~(scripts[t].at < Last)
  <2>1. scripts[t].at = Last /\ 1 \in Indices
    BY <1>1, <1>3 DEF Indices
  <2>2. AfterInverse(t) = [scripts[t] EXCEPT !.pc = "use", !.at = 1]
    BY <1>3 DEF AfterInverse, Last
  <2> QED
    BY <2>1, <2>2
<1> QED
  BY <1>2, <1>3

\* Add for fields: fails, tears what others tear with it, or puts in one type.
LEMMA AddInverseKeeps ==
  ASSUME ProxyAssumption, ProxyInv, NEW t \in Threads, AddInverse(t)
  PROVE  ProxyInv' /\ AnswersFit
<1> DEFINE n == scripts[t].at
           g == scripts[t].target
           known == \E x \in tables.inv : x[1] = TypeOf(t)
           tabs == [tables EXCEPT !.inv = @ \cup {<<TypeOf(t), MTOf(t)>>}]
           next == AfterInverse(t)
           tore == [tables EXCEPT !.inv = {}, !.invTorn = TRUE]
<1>1. /\ ProxyTypes /\ scripts[t].pc = "addInverse" /\ FillsTables(t) /\ Amid(t)
      /\ n \in Indices /\ g \in Targets
  BY SamePlace DEF AddInverse, ProxyInv, FillsTables, Amid
<1>2. tables \in Tables /\ tore \in Tables
  BY <1>1 DEF ProxyTypes, ProxyTypeOK, Tables
<1>3. \/ known /\ Fills(t, tables, Ends(t, Raised("Argument")))
      \/ ~known /\ ~tables.invTorn /\ Fills(t, tabs, next)
      \/ (tables.invTorn \/ AddsInverseBeside(t)) /\ \E f \in AfterTear(t, next) : Fills(t, tore, f)
  BY DEF AddInverse
<1>4. CASE known /\ Fills(t, tables, Ends(t, Raised("Argument")))
  <2>1. Filled(t, tables, "answered", 1) /\ AnswersFit
    BY <1>1, <1>4, FailureFills
  <2>2. mixed'
    <3> SUFFICES ASSUME ~mixed' PROVE FALSE
      OBVIOUS
    <3>1. tables.inv = Inverses(g, {i \in Indices : i < n})
      BY <1>1, <2>1, Lone, OwnSoFar DEF Sole
    <3>2. {i \in Indices : i < n} \in SUBSET Indices /\ n \notin {i \in Indices : i < n}
      BY <1>1 DEF Indices
    <3>3. ~\E x \in Inverses(g, {i \in Indices : i < n}) : x[1] = PrimitiveList[n]
      BY <1>1, <3>2, KeyKnown
    <3>4. ~known
      BY <3>1, <3>3 DEF TypeOf
    <3> QED
      BY <1>4, <3>4
  <2> QED
    BY <1>1, <1>2, <2>1, <2>2, FillingKeeps
<1>5. CASE ~known /\ ~tables.invTorn /\ Fills(t, tabs, next)
  <2>1. <<TypeOf(t), MTOf(t)>> \in Primitives \X Nat
    BY <1>1, ListFacts DEF MTOf, TypeOf, Classes
  <2>2. /\ tabs \in Tables /\ tabs.inv = tables.inv \cup {<<TypeOf(t), MTOf(t)>>} /\ tabs.mt = tables.mt
        /\ tabs.mtTorn = tables.mtTorn /\ tabs.invTorn = tables.invTorn
    BY <1>2, <2>1 DEF Tables
  <2>3. ASSUME NEW p, NEW k, Filled(t, tabs, p, k), ~mixed'
        PROVE  /\ ~tabs.mtTorn /\ ~tabs.invTorn
               /\ tabs.mt = Pairs(g, {i \in Indices : i < n + 1})
               /\ tabs.inv = Inverses(g, {i \in Indices : i < n + 1})
    <3> DEFINE before == {i \in Indices : i < n}
    <3>1. /\ ~tables.mtTorn /\ ~tables.invTorn
          /\ tables.mt = Pairs(g, {i \in Indices : i < n + 1}) /\ tables.inv = Inverses(g, before)
      BY <1>1, <2>3, Lone, OwnSoFar DEF Sole, Due
    <3>2. before \cup {n} = {i \in Indices : i < n + 1}
      BY <1>1 DEF Indices
    <3>3. tabs.inv = Inverses(g, {i \in Indices : i < n + 1})
      BY <1>1, <2>2, <3>1, <3>2, PairAdded DEF MTOf, TypeOf
    <3> QED
      BY <2>2, <3>1, <3>3
  <2>4. CASE n < Last /\ n + 1 \in Indices /\ next = [scripts[t] EXCEPT !.pc = "add", !.at = n + 1]
    <3>1. Filled(t, tabs, "add", n + 1)
      BY <1>1, <1>5, <2>4, GoesTo
    <3>2. scripts'[t].pc = "add" /\ scripts'[t].at = n + 1 /\ scripts'[t].target = g
      BY <1>1, <3>1, FilledFacts
    <3>3. ~mixed' => ~tabs.mtTorn /\ ~tabs.invTorn /\ Sole(tabs, scripts'[t])
      BY <2>3, <3>1, <3>2 DEF Sole, Due
    <3> HIDE DEF tabs, next, n, g
    <3> QED
      BY <1>1, <2>2, <3>1, <3>3, FillingKeeps, GoingOnFits
  <2>5. CASE n = Last /\ 1 \in Indices /\ next = [scripts[t] EXCEPT !.pc = "use", !.at = 1]
    <3>1. Filled(t, tabs, "use", 1)
      BY <1>1, <1>5, <2>5, GoesTo
    <3>2. {i \in Indices : i < n + 1} = Indices
      BY <2>5, ListFacts DEF Indices
    <3>3. ~mixed' => ~tabs.mtTorn /\ ~tabs.invTorn /\ Whole(tabs)
      BY <1>1, <2>3, <3>1, <3>2 DEF Whole
    <3> HIDE DEF tabs, next, n, g
    <3> QED
      BY <1>1, <2>2, <3>1, <3>3, FillingKeeps, GoingOnFits
  <2> QED
    BY <1>1, <2>4, <2>5, NextType
<1>6. CASE (tables.invTorn \/ AddsInverseBeside(t)) /\ \E f \in AfterTear(t, next) : Fills(t, tore, f)
  <2>1. \E p \in {"add", "addInverse", "use"}, k \in Indices :
          next = [scripts[t] EXCEPT !.pc = p, !.at = k] /\ (p \notin {"add", "addInverse"} => k = 1)
    BY <1>1, NextType
  <2>2. PICK p \in {"add", "addInverse", "use"}, k \in Indices :
          next = [scripts[t] EXCEPT !.pc = p, !.at = k] /\ (p \notin {"add", "addInverse"} => k = 1)
    BY <2>1
  <2>3. /\ AnswersFit
        /\ \/ Filled(t, tore, "answered", 1) \/ Filled(t, tore, "spins", 1) \/ Filled(t, tore, p, k)
    BY <1>1, <1>6, <2>2, TearFills
  <2>4. mixed'
    BY <1>6, <2>3, Lone DEF Apart
  <2> HIDE DEF tore, next
  <2> QED
    BY <1>1, <1>2, <2>2, <2>3, <2>4, FillingKeeps
<1> QED
  BY <1>3, <1>4, <1>5, <1>6

-----------------------------------------------------------------------------
(* A step that leaves the tables alone, of a thread that is not in the     *)
(* middle of filling them and does not come to be, or of none at all.      *)
LEMMA OthersKeep ==
  ASSUME ProxyInv, ProxyTypes', tables' = tables, mixed' = mixed,
         \A u \in Threads : \/ scripts'[u] = scripts[u]
                            \/ ~Amid(u) /\ ~Amid(u)' /\ (Spins(u)' => mixed)
  PROVE  ProxyInv'
<1>1. \A u \in Threads : Amid(u)' <=> Amid(u)
  BY DEF Amid
<1>2. \A u \in Threads : Amid(u) => scripts'[u] = scripts[u]
  OBVIOUS
<1>3. ASSUME Apart PROVE Apart'
  <2>1. \A u \in Threads : Amid(u)' => Sole(tables, scripts'[u])
    BY <1>1, <1>2, <1>3 DEF Apart
  <2>2. tables.mtMade /\ (\A u \in Threads : ~Amid(u)') => Whole(tables)
    BY <1>1, <1>3 DEF Apart
  <2>3. \A u, v \in Threads : Amid(u)' /\ Amid(v)' => u = v
    BY <1>1, <1>3 DEF Apart
  <2>4. ~tables.mtTorn /\ ~tables.invTorn
    BY <1>3 DEF Apart
  <2> QED
    BY <2>1, <2>2, <2>3, <2>4 DEF Apart, Sole, Whole
<1>4. \A u \in Threads : Spins(u)' => mixed'
  BY DEF ProxyInv, Spins
<1> QED
  BY <1>3, <1>4 DEF ProxyInv

\* Every step of a thread keeps the invariant, and answers with what fits.
LEMMA ThreadKeeps ==
  ASSUME ProxyAssumption, ProxyInv, NEW t \in Threads, AskFor(t) \/ Thread(t)
  PROVE  ProxyInv' /\ AnswersFit
<1>1. ProxyTypes /\ scripts[t] \in Script
  BY DEF ProxyInv, ProxyTypes, ProxyTypeOK
<1>2. ASSUME NEW f \in Script, Only(t, f), ~Amid(t), f.pc \in {"find", "ensure", "use", "table", "answered"}
      PROVE  /\ ProxyTypes' => ProxyInv'
             /\ f.pc # "answered" => AnswersFit
  <2>1. /\ tables' = tables /\ mixed' = mixed /\ scripts'[t] = f
        /\ \A u \in Threads : u # t => scripts'[u] = scripts[u]
    BY <1>1, <1>2, StepFacts DEF Only
  <2>2. ~Amid(t)' /\ ~Spins(t)'
    BY <1>2, <2>1 DEF Amid, Spins
  <2>3. ProxyTypes' => ProxyInv'
    BY <1>2, <2>1, <2>2, OthersKeep
  <2>4. f.pc # "answered" => AnswersFit
    BY <2>1 DEF AnswersFit
  <2> QED
    BY <2>3, <2>4
<1>3. CASE AskFor(t)
  <2>1. PICK g \in Targets, a \in Accesses :
          Only(t, [scripts[t] EXCEPT !.pc = IF a.is = "member" THEN "find" ELSE "ensure", !.target = g, !.ask = a])
    BY <1>3 DEF AskFor
  <2> DEFINE f == [scripts[t] EXCEPT !.pc = IF a.is = "member" THEN "find" ELSE "ensure", !.target = g, !.ask = a]
  <2>2. f \in Script /\ f.pc \in {"find", "ensure"}
    BY <1>1 DEF Script
  <2>3. Only(t, f)
    BY <2>1
  <2> HIDE DEF f
  <2>4. ~Amid(t)
    BY <1>3 DEF AskFor, Amid
  <2> QED
    BY <1>1, <1>2, <1>3, <2>2, <2>3, <2>4, AskTypes
<1>4. CASE FindMember(t)
  <2>1. ProxyTypes' /\ AnswersFit
    BY <1>1, <1>4, FindTypes
  <2>2. ~Amid(t)
    BY <1>4 DEF FindMember, Amid
  <2>3. \E f \in Script : Only(t, f) /\ f.pc \in {"ensure", "answered"}
    <3>1. CASE scripts[t].ask.sort = "CLASS"
      <4>1. Only(t, [scripts[t] EXCEPT !.pc = "ensure"])
        BY <1>4, <3>1 DEF FindMember
      <4>2. [scripts[t] EXCEPT !.pc = "ensure"] \in Script /\ [scripts[t] EXCEPT !.pc = "ensure"].pc = "ensure"
        BY <1>1 DEF Script
      <4> QED
        BY <4>1, <4>2
    <3>2. CASE scripts[t].ask.sort # "CLASS"
      <4>1. PICK a : /\ Only(t, Ends(t, a))
                     /\ a \in (IF scripts[t].ask.sort \in DOMAIN CorFieldType
                               THEN Converted(CorFieldType[scripts[t].ask.sort]) ELSE {Raised("Argument")})
        BY <1>4, <3>2 DEF FindMember
      <4>2. scripts[t].ask.is = "member"
        BY <1>1, <1>4 DEF FindMember, ProxyTypes, Way
      <4>3. a \in Answers
        <5>1. CASE scripts[t].ask.sort \in DOMAIN CorFieldType
          BY <3>2, <4>1, <4>2, <5>1, ConvertedFacts
        <5>2. CASE scripts[t].ask.sort \notin DOMAIN CorFieldType
          BY <4>1, <5>2, PlainAnswers
        <5> QED
          BY <5>1, <5>2
      <4> QED
        BY <1>1, <4>1, <4>3, EndsFacts
    <3> QED
      BY <3>1, <3>2
  <2> QED
    BY <1>2, <2>1, <2>2, <2>3
<1>5. CASE EnsureInit(t)
  <2>1. ProxyTypes' /\ ~Amid(t)
    BY <1>1, <1>5, EnsureTypes DEF EnsureInit, Amid
  <2> DEFINE f == [scripts[t] EXCEPT !.pc = IF tables.mtMade THEN "use" ELSE "table"]
  <2>2. f \in Script /\ f.pc \in {"use", "table"}
    BY <1>1 DEF Script
  <2>3. Only(t, f)
    BY <1>5 DEF EnsureInit
  <2> HIDE DEF f
  <2> QED
    BY <1>2, <2>1, <2>2, <2>3
<1>6. CASE NewTable(t) \/ NewInverse(t) \/ Add(t) \/ AddInverse(t)
  BY <1>6, NewTableKeeps, NewInverseKeeps, AddKeeps, AddInverseKeeps
<1>7. CASE Use(t)
  <2>1. /\ ProxyTypes' /\ AnswersFit
        /\ scripts[t].pc = "use" /\ tables' = tables /\ mixed' = mixed
        /\ \A u \in Threads : u # t => scripts'[u] = scripts[u]
        /\ \/ scripts'[t].pc = "answered"
           \/ scripts'[t].pc = "spins" /\ (tables.mtTorn \/ tables.invTorn)
    BY <1>1, <1>7, UseTypes
  <2>2. Spins(t)' => mixed
    BY <2>1 DEF Spins, ProxyInv, Apart
  <2>3. ~Amid(t) /\ ~Amid(t)'
    BY <2>1 DEF Amid
  <2>4. ProxyInv'
    BY <2>1, <2>2, <2>3, OthersKeep
  <2> QED
    BY <2>1, <2>4
<1> QED
  BY <1>3, <1>4, <1>5, <1>6, <1>7 DEF Thread

\* What leaves tables and scripts alone keeps the invariant, and answers nobody.
LEMMA RestKeeps ==
  ASSUME ProxyInv, tables' = tables, scripts' = scripts, mixed' = mixed, loaded' \in [Targets -> SUBSET Primitives]
  PROVE  ProxyInv' /\ AnswersFit
<1>1. ProxyTypes' /\ AnswersFit
  BY DEF ProxyInv, ProxyTypes, ProxyTypeOK, AnswersFit, Way
<1> QED
  BY <1>1, OthersKeep

\* Every step keeps the invariant, and answers with what fits.
LEMMA ProxyNextInv ==
  ASSUME ProxyAssumption, ProxyInv, [ProxyNext]_proxyVars
  PROVE  ProxyInv' /\ AnswersFit
<1>1. loaded \in [Targets -> SUBSET Primitives]
  BY DEF ProxyInv, ProxyTypes, ProxyTypeOK
<1>2. CASE \E t \in Threads : AskFor(t) \/ Thread(t)
  BY <1>2, ThreadKeeps
<1>3. CASE \E g \in Targets : Load(g)
  BY <1>1, <1>3, RestKeeps DEF Load
<1>4. CASE UNCHANGED proxyVars
  BY <1>1, <1>4, RestKeeps DEF proxyVars
<1> QED
  BY <1>2, <1>3, <1>4 DEF ProxyNext

\* Nothing is made at first, and nobody has asked.
LEMMA ProxyInitInv ==
  ASSUME ProxyAssumption, ProxyInit
  PROVE  ProxyInv
<1> DEFINE h == CHOOSE g \in Targets : TRUE
           b == CHOOSE a \in Accesses : TRUE
<1>1. h \in Targets /\ b \in Accesses
  BY DEF ProxyAssumption
<1>2. 1 \in 1..Len(PrimitiveList) /\ Refused \in Answers
  BY ListFacts DEF Last, Indices, Answers
<1>3. scripts \in [Threads -> {[pc |-> "idle", target |-> h, ask |-> b, at |-> 1, answer |-> Refused]}]
  BY DEF ProxyInit
<1> HIDE DEF h, b
<1>4. \A t \in Threads : scripts[t] = [pc |-> "idle", target |-> h, ask |-> b, at |-> 1, answer |-> Refused]
  BY <1>3
<1>5. [pc |-> "idle", target |-> h, ask |-> b, at |-> 1, answer |-> Refused] \in Script
  BY <1>1, <1>2 DEF Script
<1>6. scripts \in [Threads -> Script] /\ \A t \in Threads : scripts[t].pc = "idle" /\ scripts[t].at = 1
  BY <1>3, <1>4, <1>5
<1>7. /\ tables = [mtMade |-> FALSE, mt |-> {}, mtTorn |-> FALSE,
                   invMade |-> FALSE, inv |-> {}, invTorn |-> FALSE]
      /\ mixed = FALSE
  BY DEF ProxyInit
<1>8. tables \in Tables /\ mixed \in BOOLEAN
  BY <1>7 DEF Tables
<1>9. loaded \in [Targets -> SUBSET Primitives]
  BY DEF ProxyInit, ProxyAssumption
<1>10. ProxyTypes
  BY <1>6, <1>8, <1>9 DEF ProxyTypes, ProxyTypeOK, Way
<1>11. \A t \in Threads : ~Amid(t) /\ ~Spins(t)
  BY <1>6 DEF Amid, Spins
<1>12. ~tables.mtTorn /\ ~tables.invTorn /\ ~tables.mtMade
  BY <1>7
<1> QED
  BY <1>10, <1>11, <1>12 DEF ProxyInv, Apart

(* In every reachable state the tables of managed proxies hold, as long as *)
(* no two fillings have overlapped and no type was missing, what the one   *)
(* thread in the middle of it has added so far, or all types of one target;*)
(* and only where they have overlapped does a search not end.              *)
THEOREM ProxyInvariance ==
  ASSUME ProxyAssumption
  PROVE  ProxySpec => []ProxyInv
BY ProxyInitInv, ProxyNextInv, PTL DEF ProxySpec

(* InitMethodTables leaves both dictionaries with all types of one target  *)
(* if no two threads run it at the same time and the types were loaded, and*)
(* nothing is torn then: for any list of types and any number of threads.  *)
(* Of two that run it at the same time it claims nothing.                  *)
THEOREM TablesFilled ==
  ASSUME ProxyAssumption
  PROVE  ProxySpec => []TablesSettle
BY InvSettles, ProxyInvariance, PTL

(* ReadTypedField, Member and Index answer with what the field or the      *)
(* element is, refuse, or rely on a table of another target or on one that *)
(* two threads have torn: whatever threads fill the tables meanwhile.      *)
THEOREM ScriptsAnswered ==
  ASSUME ProxyAssumption
  PROVE  ProxySpec => [][AnswersFit]_proxyVars
<1>1. ProxyInv /\ [ProxyNext]_proxyVars => [AnswersFit]_proxyVars
  BY ProxyNextInv
<1> QED
  BY <1>1, ProxyInvariance, PTL DEF ProxySpec
=============================================================================
