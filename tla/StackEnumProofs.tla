-------------------------- MODULE StackEnumProofs --------------------------
(***************************************************************************)
(* Proofs about EnumStackObjects, for every set of target images, every    *)
(* way the target may change, every stack and every batch size.            *)
(***************************************************************************)
EXTENDS StackEnum, WalkProofs, CallbackProofs

(***************************************************************************)
(* The inductive invariant.  That the words are reported in order does not *)
(* follow from itself: every word found must lie before the one the scan   *)
(* has reached, which must lie in the range while it is looked at.  That a *)
(* refused enumeration loses nothing rests on the wrapper's empty buffer,  *)
(* since EnumStackObjects then returns without a flush.                    *)
(***************************************************************************)
Control ==
  /\ result = "none" <=> spc # "returned"
  /\ spc \in {"start", "snapshot"} => found = <<>>
  /\ (stopped /\ spc # "returned") => spc = "stopped"
  /\ spc = "stopped" => stopped /\ buffer = <<>>
  /\ result = "S_FALSE" => stopped

Scan ==
  /\ from <= addr
  /\ spc = "check" => addr < base /\ ptr # Null
  /\ spc \in {"scan", "check"} => \A i \in DOMAIN found : found[i].slot < addr

Delivered == received \o (IF result = "S_OK" THEN <<>> ELSE buffer) = found

InOrder ==
  \A i \in DOMAIN found :
    /\ from <= found[i].slot /\ found[i].slot < base
    /\ \A j \in 1 .. i - 1 : found[j].slot < found[i].slot

Batches ==
  /\ result # "S_OK" => AllFull
  /\ LastShort

IInv ==
  /\ TypeOK
  /\ Control
  /\ Scan
  /\ Waiting
  /\ Delivered
  /\ InOrder
  /\ Batches

(* The initial state satisfies the inductive invariant.                   *)
LEMMA InitIInv ==
  ASSUME Init
  PROVE  IInv
<1> USE StackAssumption, ImagesAssumption
<1>1. /\ found = <<>> /\ ranges = <<>> /\ addr = 0 /\ from = 0 /\ base = 0 /\ ptr = Null
      /\ spc = "start" /\ result = "none" /\ request \in Requests
      /\ buffer = <<>> /\ received = <<>> /\ calls = <<>> /\ stopped = FALSE
  BY DEF Init, CallbackInit
<1>2. WalkTypeOK
  BY WalkInitType DEF Init
<1>3. CallbackTypeOK(Item) /\ Waiting /\ AllFull
  BY CallbackInitEffect DEF Init
<1>4. ranges \in Seq([begin: Bound, end: Bound]) /\ found \in Seq(Item)
  BY <1>1, EmptySeq
<1>5. TypeOK
  BY <1>1, <1>2, <1>3, <1>4 DEF TypeOK, Slots
<1>6. DOMAIN found = {}
  BY <1>1
<1>7. Control /\ Scan /\ InOrder
  BY <1>1, <1>6 DEF Control, Scan, InOrder
<1>8. Delivered
  BY <1>1 DEF Delivered
<1>9. Batches
  BY <1>1, <1>3 DEF Batches, LastShort
<1> QED
  BY <1>3, <1>5, <1>7, <1>8, <1>9 DEF IInv

(* The words of what was found are numbers. *)
LEMMA FoundSlots ==
  ASSUME TypeOK
  PROVE  /\ DOMAIN found = 1 .. Len(found) /\ Len(found) \in Nat
         /\ \A i \in DOMAIN found : found[i].slot \in Nat
<1>1. found \in Seq(Item)
  BY DEF TypeOK
<1>2. DOMAIN found = 1 .. Len(found) /\ Len(found) \in Nat
  BY <1>1
<1>3. ASSUME NEW i \in DOMAIN found
      PROVE  found[i].slot \in Nat
  <2>1. found[i] \in Item
    BY <1>1, <1>3
  <2> QED
    BY <2>1 DEF Item, Slots
<1> QED
  BY <1>2, <1>3

(* The steps of the walk: the scan has not begun and does not notice. *)
LEMMA WalkKeepsIInv ==
  ASSUME IInv, Walk
  PROVE  IInv'
<1>1. /\ WalkStep
      /\ UNCHANGED <<request, spc, ranges, addr, from, base, ptr, found, result>>
      /\ UNCHANGED <<isBatch, buffer, received, calls, stopped>>
  BY DEF Walk, callbackVars, scanVars
<1>2. TypeOK'
  BY <1>1, WalkStepType DEF IInv, TypeOK, CallbackTypeOK
<1>3. Control' /\ Scan' /\ Waiting' /\ Delivered' /\ InOrder' /\ Batches'
  BY <1>1 DEF IInv, Control, Scan, Waiting, Delivered, InOrder, Batches, AllFull, LastShort
<1> QED
  BY <1>2, <1>3 DEF IInv

(* A segment's bounds are noted and the walk goes on. *)
LEMMA NoteKeepsIInv ==
  ASSUME IInv, NoteSegment
  PROVE  IInv'
<1>1. /\ ResumeWalk
      /\ ranges' = Append(ranges, [begin |-> segData.begin, end |-> segData.allocated])
      /\ UNCHANGED <<request, spc, addr, from, base, ptr, found, result>>
      /\ UNCHANGED <<isBatch, buffer, received, calls, stopped>>
  BY DEF NoteSegment, callbackVars
<1>2. ranges' \in Seq([begin: Bound, end: Bound])
  BY <1>1, SegmentBounds DEF IInv, TypeOK
<1>3. WalkTypeOK'
  BY <1>1, CallbackReturnType DEF IInv, TypeOK
<1>4. TypeOK'
  BY <1>1, <1>2, <1>3 DEF IInv, TypeOK, CallbackTypeOK
<1>5. Control' /\ Scan' /\ Waiting' /\ Delivered' /\ InOrder' /\ Batches'
  BY <1>1 DEF IInv, Control, Scan, Waiting, Delivered, InOrder, Batches, AllFull, LastShort
<1> QED
  BY <1>4, <1>5 DEF IInv

(* Where the scan begins and ends: at slots, whatever was asked for.       *)
LEMMA StartKeepsIInv ==
  ASSUME IInv, Start
  PROVE  IInv'
<1> USE StackAssumption DEF IInv
<1>1. mem \in Images /\ request \in Requests
  BY DEF TypeOK, WalkTypeOK
<1>2. Stacks[mem] \in Stack /\ request \in Request
  BY <1>1
<1>3. /\ ScanFrom(request, Stacks[mem]) \in Slots
      /\ ScanBase(request, Stacks[mem]) \in Slots
  BY <1>2 DEF ScanFrom, ScanBase, Stack, Request
<1>4. /\ UNCHANGED <<walkVars, mem, request, ranges, ptr, found>>
      /\ UNCHANGED <<isBatch, buffer, received, calls, stopped>>
      /\ spc = "start" /\ found = <<>> /\ DOMAIN found = {}
  BY DEF Start, callbackVars, Control
<1>5. \/ spc' = "returned" /\ result' = "E_FAIL" /\ UNCHANGED <<addr, from, base>>
      \/ /\ spc' = "snapshot" /\ result' = result
         /\ addr' = ScanFrom(request, Stacks[mem]) /\ from' = addr'
         /\ base' = ScanBase(request, Stacks[mem])
  BY DEF Start
<1>6. TypeOK'
  BY <1>3, <1>4, <1>5 DEF TypeOK, WalkTypeOK, CallbackTypeOK, walkVars
<1>7. Scan'
  <2>1. addr' \in Nat
    BY <1>6 DEF TypeOK, Slots
  <2> QED
    BY <1>4, <1>5, <2>1 DEF Scan
<1>8. Control' /\ InOrder' /\ Waiting' /\ Delivered' /\ Batches'
  BY <1>4, <1>5 DEF Control, InOrder, Waiting, Delivered, Batches, AllFull, LastShort
<1> QED
  BY <1>6, <1>7, <1>8

(* The word that is read next is inside the range of the scan. *)
LEMMA ReadKeepsIInv ==
  ASSUME IInv, ReadSlot \/ NotAnObject
  PROVE  IInv'
<1> USE StackAssumption DEF IInv
<1>1. /\ UNCHANGED <<walkVars, mem, request, ranges, from, base, found, result>>
      /\ UNCHANGED <<isBatch, buffer, received, calls, stopped>>
      /\ spc \in {"scan", "check"}
      /\ addr < base
  BY DEF ReadSlot, NotAnObject, callbackVars, Scan
<1>2. \/ spc' = "scan" /\ addr' = addr + 1 /\ ptr' = ptr
      \/ spc' = "check" /\ addr' = addr /\ ptr' \in Addr /\ ptr' # Null
  <2>1. CASE NotAnObject
    BY <2>1 DEF NotAnObject
  <2>2. CASE ReadSlot
    <3>1. mem \in Images /\ addr \in Slots
      BY DEF TypeOK, WalkTypeOK
    <3>2. Stacks[mem].slots[addr] \in Addr \cup {Null}
      BY <3>1 DEF Stack
    <3> QED
      BY <2>2, <3>2 DEF ReadSlot, InRanges
  <2> QED
    BY <2>1, <2>2
<1>3. /\ addr \in Nat /\ base \in Nat /\ from \in Nat /\ base <= LastSlot /\ LastSlot \in Nat
      /\ \A i \in DOMAIN found : found[i].slot \in Nat
  BY FoundSlots DEF TypeOK, Slots
<1>4. addr' \in Slots
  BY <1>1, <1>2, <1>3 DEF Slots
<1>5. TypeOK'
  BY <1>1, <1>2, <1>4 DEF TypeOK, WalkTypeOK, CallbackTypeOK, walkVars
<1>6. Scan'
  BY <1>1, <1>2, <1>3 DEF Scan
<1>7. Control'
  BY <1>1, <1>2 DEF Control
<1>8. InOrder' /\ Waiting' /\ Delivered' /\ Batches'
  BY <1>1 DEF InOrder, Waiting, Delivered, Batches, AllFull, LastShort
<1> QED
  BY <1>5, <1>6, <1>7, <1>8

(* The object in the word goes to the wrapper: it comes after all others.  *)
LEMMA VisitKeepsIInv ==
  ASSUME IInv, VisitObject
  PROVE  IInv'
<1> USE StackAssumption DEF IInv
<1> DEFINE item == [slot |-> addr, obj |-> ptr]
<1>1. PICK reply \in BOOLEAN :
        /\ Wrap(item, reply)
        /\ IF reply THEN spc' = "scan" /\ addr' = addr + 1
                    ELSE spc' = "stopped" /\ addr' = addr
  BY DEF VisitObject
<1>2. /\ UNCHANGED <<walkVars, mem, request, ranges, from, base, ptr, result>>
      /\ found' = Append(found, item)
      /\ spc = "check" /\ addr < base /\ result = "none" /\ ~stopped
  BY DEF VisitObject, Scan, Control
<1>3. /\ addr \in Nat /\ base \in Nat /\ from \in Nat /\ base <= LastSlot /\ LastSlot \in Nat
      /\ found \in Seq(Item)
  BY DEF TypeOK, Slots
<1>4. item \in Item
  BY <1>2 DEF TypeOK, Scan, Item
<1>5. /\ CallbackTypeOK(Item)' /\ Waiting' /\ (AllFull => AllFull')
      /\ received' \o buffer' = Append(received \o buffer, item)
      /\ stopped' = (stopped \/ ~reply)
      /\ ~reply => buffer' = <<>>
  BY <1>1, <1>4, WrapEffect DEF TypeOK
<1>6. addr' \in Slots
  BY <1>1, <1>2, <1>3 DEF Slots
<1>7. found' \in Seq(Item)
  BY <1>2, <1>3, <1>4
<1>8. TypeOK'
  BY <1>1, <1>2, <1>5, <1>6, <1>7 DEF TypeOK, WalkTypeOK, walkVars
<1>9. Control'
  BY <1>1, <1>2, <1>5 DEF Control
<1>10. Delivered'
  BY <1>2, <1>5 DEF Delivered
<1>11. Batches'
  BY <1>2, <1>5 DEF Batches, AllFull, LastShort
<1>12. /\ DOMAIN found' = DOMAIN found \cup {Len(found) + 1}
       /\ \A i \in DOMAIN found : found'[i] = found[i] /\ found[i].slot < addr
                                 /\ found[i].slot \in Nat
       /\ found'[Len(found) + 1] = item
       /\ item.slot = addr
       /\ DOMAIN found = 1 .. Len(found) /\ Len(found) \in Nat
  <2>1. /\ DOMAIN found = 1 .. Len(found) /\ Len(found) \in Nat
        /\ \A i \in DOMAIN found : found[i].slot \in Nat /\ found[i].slot < addr
    BY <1>2, FoundSlots DEF Scan
  <2> HIDE DEF item
  <2>2. DOMAIN found' = 1 .. Len(found) + 1
    BY <1>2, <1>3, <1>4
  <2>3. \A i \in DOMAIN found : found'[i] = found[i]
    BY <1>2, <1>3, <1>4, <2>1
  <2>4. found'[Len(found) + 1] = item
    BY <1>2, <1>3, <1>4
  <2>5. item.slot = addr
    BY DEF item
  <2>6. DOMAIN found' = DOMAIN found \cup {Len(found) + 1}
    BY <2>1, <2>2
  <2> QED
    BY <2>1, <2>3, <2>4, <2>5, <2>6
<1> HIDE DEF item
<1>13. Scan'
  BY <1>1, <1>2, <1>3, <1>12 DEF Scan
<1>14. InOrder'
  <2> SUFFICES ASSUME NEW i \in DOMAIN found'
               PROVE  /\ from <= found'[i].slot /\ found'[i].slot < base
                      /\ \A j \in 1 .. i - 1 : found'[j].slot < found'[i].slot
    BY <1>2 DEF InOrder
  <2>1. CASE i \in DOMAIN found
    <3>1. \A j \in 1 .. i - 1 : j \in DOMAIN found
      BY <1>12, <2>1
    <3> QED
      BY <1>12, <2>1, <3>1 DEF InOrder
  <2>2. CASE i = Len(found) + 1
    <3>1. \A j \in 1 .. i - 1 : j \in DOMAIN found
      BY <1>12, <2>2
    <3>2. found'[i].slot = addr /\ from <= addr /\ addr < base
      BY <1>2, <1>12, <2>2 DEF Scan
    <3> QED
      BY <1>12, <3>1, <3>2
  <2> QED
    BY <1>12, <2>1, <2>2
<1> QED
  BY <1>5, <1>8, <1>9, <1>10, <1>11, <1>13, <1>14

(* The end of the scan: the flush hands over what is left. *)
LEMMA FinishKeepsIInv ==
  ASSUME IInv, Finish
  PROVE  IInv' /\ received' = found
<1> USE DEF IInv
<1>1. /\ Flush /\ spc' = "returned" /\ result' = "S_OK" /\ result = "none"
      /\ UNCHANGED <<walkVars, mem, request, ranges, addr, from, base, ptr, found>>
  BY DEF Finish, Control
<1>2. /\ CallbackTypeOK(Item)' /\ Waiting' /\ (AllFull => LastShort')
      /\ received' = received \o buffer
  BY <1>1, FlushEffect DEF TypeOK
<1>3. received' = found /\ received' \o <<>> = received'
  BY <1>1, <1>2 DEF Delivered, CallbackTypeOK
<1>4. TypeOK' /\ Control' /\ Scan' /\ InOrder'
  BY <1>1, <1>2 DEF TypeOK, WalkTypeOK, walkVars, Control, Scan, InOrder
<1>5. Delivered' /\ Batches'
  BY <1>1, <1>2, <1>3 DEF Delivered, Batches
<1> QED
  BY <1>2, <1>3, <1>4, <1>5

(* Every step preserves the inductive invariant.                          *)
LEMMA NextIInv ==
  ASSUME IInv, [Next]_vars
  PROVE  IInv'
<1> USE DEF IInv, Waiting, InOrder, Batches, AllFull, LastShort
<1>1. CASE Start
  BY <1>1, StartKeepsIInv
<1>2. CASE Walk
  BY <1>2, WalkKeepsIInv
<1>3. CASE NoteSegment
  BY <1>3, NoteKeepsIInv
<1>4. CASE EndSnapshot
  <2>1. found = <<>> /\ DOMAIN found = {}
    BY <1>4 DEF EndSnapshot, Control
  <2> QED
    BY <1>4, <2>1 DEF EndSnapshot, TypeOK, WalkTypeOK, CallbackTypeOK, walkVars,
                      callbackVars, Control, Scan, Delivered
<1>5. CASE ReadSlot \/ NotAnObject
  BY <1>5, ReadKeepsIInv
<1>6. CASE VisitObject
  BY <1>6, VisitKeepsIInv
<1>7. CASE Stopped
  BY <1>7 DEF Stopped, TypeOK, WalkTypeOK, CallbackTypeOK, walkVars, callbackVars,
              Control, Scan, Delivered
<1>8. CASE Finish
  BY <1>8, FinishKeepsIInv
<1>9. CASE TargetRuns
  <2>1. WalkTypeOK' /\ UNCHANGED scanVars /\ UNCHANGED callbackVars
    BY <1>9, MutateType DEF TargetRuns, TypeOK
  <2> QED
    BY <2>1 DEF TypeOK, CallbackTypeOK, scanVars, callbackVars, Control, Scan, Delivered
<1>10. CASE UNCHANGED vars
  BY <1>10 DEF vars, TypeOK, WalkTypeOK, CallbackTypeOK, walkVars, scanVars, callbackVars,
               Control, Scan, Delivered
<1> QED
  BY <1>1, <1>2, <1>3, <1>4, <1>5, <1>6, <1>7, <1>8, <1>9, <1>10 DEF Next, EnumStep

(* The inductive invariant holds. *)
THEOREM Invariance == Spec => []IInv
<1>1. Init => IInv
  BY InitIInv
<1>2. IInv /\ [Next]_vars => IInv'
  BY NextIInv
<1> QED
  BY <1>1, <1>2, PTL DEF Spec

(* Every item handed over is of a word of the scan's range, in increasing  *)
(* order and none twice, and what was found is what was handed over.       *)
THEOREM OrderCorrect == Spec => []InSlotOrder
<1>1. IInv => InSlotOrder
  BY DEF IInv, Delivered, InOrder, InSlotOrder
<1> QED
  BY <1>1, Invariance, PTL

(* Only the last call of a successful enumeration is a shorter batch. *)
THEOREM BatchesCorrect == Spec => []Batches
<1>1. IInv => Batches
  BY DEF IInv
<1> QED
  BY <1>1, Invariance, PTL

-----------------------------------------------------------------------------
(* The enumeration keeps the contract of its consumers: every step of it   *)
(* is a step of ObjectStream or changes nothing the consumer can see.      *)
THEOREM Refinement == Spec => StreamSpec
<1>1. Init => Stream!Init
  BY DEF Init, CallbackInit, Stream!Init
<1>2. ASSUME IInv, [Next]_vars
      PROVE  [Stream!Next]_(Stream!vars)
  <2> USE <1>2 DEF IInv, Stream!vars
  <2>1. CASE VisitObject
    <3> DEFINE item == [slot |-> addr, obj |-> ptr]
    <3>1. PICK reply \in BOOLEAN : Wrap(item, reply)
      BY <2>1 DEF VisitObject
    <3>2. item \in Item
      BY <2>1 DEF VisitObject, TypeOK, Scan, Item
    <3>3. /\ received' \o buffer' = Append(received \o buffer, item)
          /\ stopped' \in BOOLEAN
          /\ \/ received' = received /\ stopped' = stopped
             \/ received' = Append(received \o buffer, item)
      BY <3>1, <3>2, WrapEffect DEF TypeOK, CallbackTypeOK
    <3>4. /\ ~stopped /\ result = "none" /\ result' = result
          /\ found' = Append(found, item) /\ found = received \o buffer
      BY <2>1 DEF VisitObject, Control, Delivered
    <3> HIDE DEF item
    <3>5. Stream!Find(item)
      BY <3>3, <3>4 DEF Stream!Find
    <3> QED
      BY <3>2, <3>5 DEF Stream!Next
  <2>2. CASE Finish
    <3>1. /\ result = "none" /\ ~stopped /\ result' = "S_OK" /\ found' = found
      BY <2>2 DEF Finish, Control
    <3>2. received' = found /\ stopped' \in BOOLEAN
      BY <2>2, FinishKeepsIInv DEF TypeOK, CallbackTypeOK
    <3> QED
      BY <3>1, <3>2 DEF Stream!Succeed, Stream!Next
  <2>3. CASE Stopped
    BY <2>3 DEF Stopped, Control, callbackVars, Stream!Stop, Stream!Next
  <2>4. CASE Start \/ EndSnapshot
    <3>1. /\ UNCHANGED <<found, received, stopped>> /\ ~stopped /\ result = "none"
          /\ result' \in {result, "E_FAIL"}
      BY <2>4 DEF Start, EndSnapshot, Control, callbackVars
    <3> QED
      BY <3>1 DEF Stream!Fail, Stream!Next
  <2>5. CASE Walk \/ NoteSegment \/ ReadSlot \/ NotAnObject \/ TargetRuns \/ UNCHANGED vars
    BY <2>5 DEF Walk, NoteSegment, ReadSlot, NotAnObject, TargetRuns, vars, callbackVars,
                scanVars
  <2> QED
    BY <2>1, <2>2, <2>3, <2>4, <2>5 DEF Next, EnumStep
<1> QED
  BY <1>1, <1>2, Invariance, PTL DEF Spec, StreamSpec, Stream!Spec

-----------------------------------------------------------------------------
(***************************************************************************)
(* One part of RootsReported: in a target that stands still, as a dump     *)
(* does, nothing is reported that its word does not hold or that is        *)
(* outside the heap, whichever reads fail, and whether the enumeration     *)
(* succeeds, fails or is stopped.                                          *)
(***************************************************************************)

\* b and e are the bounds of a segment of m.
BoundsIn(m, b, e) == \E t \in SegIds : BoundsOf(m, t, b, e)

\* The word holds the object, which is inside the heap.
Held(r) == Stacks[mem].slots[r.slot] = r.obj /\ InHeap(mem, r.obj)

NothingElse ==
  mem.life = "still" =>
    \A r \in ToSet(received) : from <= r.slot /\ r.slot < base /\ Held(r)

StillInv ==
  mem.life = "still" =>
    /\ WalkCurrent
    /\ \A i \in DOMAIN ranges : BoundsIn(mem, ranges[i].begin, ranges[i].end)
    /\ spc = "check" => Held([slot |-> addr, obj |-> ptr])
    /\ \A i \in DOMAIN found : Held(found[i])

(* Between two noted bounds is inside the heap. *)
LEMMA InRangesInHeap ==
  ASSUME TypeOK, NEW p, InRanges(p),
         \A i \in DOMAIN ranges : BoundsIn(mem, ranges[i].begin, ranges[i].end)
  PROVE  InHeap(mem, p)
BY DEF InRanges, BoundsIn, BoundsOf, InHeap

(* The bounds that are noted are those of a segment. *)
LEMMA NoteKeepsStill ==
  ASSUME IInv, StillInv, NoteSegment
  PROVE  StillInv'
<1> SUFFICES ASSUME mem.life = "still"
             PROVE  StillInv'
  BY DEF NoteSegment, ResumeWalk, StillInv
<1> DEFINE bounds == [begin |-> segData.begin, end |-> segData.allocated]
<1>1. /\ wpc = "callback" /\ mem' = mem /\ spc = "snapshot" /\ found = <<>>
      /\ ResumeWalk /\ UNCHANGED <<spc, found>>
      /\ ranges' = Append(ranges, bounds)
  BY DEF NoteSegment, ResumeWalk, IInv, Control
<1>2. BoundsIn(mem, bounds.begin, bounds.end)
  BY <1>1 DEF StillInv, WalkCurrent, BoundsIn
<1>3. bounds \in [begin: Bound, end: Bound] /\ ranges \in Seq([begin: Bound, end: Bound])
  BY SegmentBounds DEF IInv, TypeOK
<1> HIDE DEF bounds
<1>4. ASSUME NEW i \in DOMAIN ranges'
      PROVE  BoundsIn(mem, ranges'[i].begin, ranges'[i].end)
  <2>1. CASE i \in DOMAIN ranges
    <3>1. ranges'[i] = ranges[i]
      BY <1>1, <1>3, <2>1
    <3> QED
      BY <2>1, <3>1 DEF StillInv
  <2>2. CASE i = Len(ranges) + 1
    <3>1. ranges'[i] = bounds
      BY <1>1, <1>3, <2>2
    <3> QED
      BY <1>2, <3>1
  <2>3. i \in DOMAIN ranges \/ i = Len(ranges) + 1
    BY <1>1, <1>3
  <2> QED
    BY <2>1, <2>2, <2>3
<1>5. WalkCurrent'
  BY <1>1, CallbackKeepsCurrent DEF StillInv
<1>6. \A i \in DOMAIN ranges' : BoundsIn(mem', ranges'[i].begin, ranges'[i].end)
  BY <1>1, <1>4
<1> QED
  BY <1>1, <1>5, <1>6 DEF StillInv

(* What is found is what the word held when it was read. *)
LEMMA VisitKeepsStill ==
  ASSUME IInv, StillInv, VisitObject
  PROVE  StillInv'
<1> SUFFICES ASSUME mem.life = "still"
             PROVE  StillInv'
  BY DEF VisitObject, StillInv
<1> DEFINE item == [slot |-> addr, obj |-> ptr]
<1>1. /\ spc = "check" /\ found' = Append(found, item)
      /\ UNCHANGED <<mem, walkVars, ranges>> /\ spc' # "check"
  BY DEF VisitObject
<1>2. Held(item) /\ found \in Seq(Item)
  BY <1>1 DEF StillInv, IInv, TypeOK
<1> HIDE DEF item
<1>3. ASSUME NEW i \in DOMAIN found'
      PROVE  Held(found'[i])
  <2>1. CASE i \in DOMAIN found
    <3>1. found'[i] = found[i]
      BY <1>1, <1>2, <2>1
    <3> QED
      BY <2>1, <3>1 DEF StillInv
  <2>2. CASE i = Len(found) + 1
    BY <1>1, <1>2, <2>2
  <2>3. i \in DOMAIN found \/ i = Len(found) + 1
    BY <1>1, <1>2
  <2> QED
    BY <2>1, <2>2, <2>3
<1>4. WalkCurrent'
  BY <1>1 DEF StillInv, WalkCurrent, walkVars
<1>5. \A i \in DOMAIN ranges' : BoundsIn(mem', ranges'[i].begin, ranges'[i].end)
  BY <1>1 DEF StillInv
<1>6. (\A i \in DOMAIN found : Held(found[i]))'
  BY <1>1, <1>3 DEF Held
<1> QED
  BY <1>1, <1>4, <1>5, <1>6 DEF StillInv

(* Whatever reaches the consumer in a target that stands still is in a     *)
(* word of the range, and inside the heap.                                 *)
THEOREM NothingElseReported ==
  ASSUME StillStays
  PROVE  Spec => []NothingElse
<1>1. Init => StillInv
  <2> SUFFICES ASSUME Init
               PROVE  StillInv
    OBVIOUS
  <2>1. found = <<>> /\ ranges = <<>> /\ spc = "start" /\ wpc = "begin" /\ gcs = NoDetails
    BY DEF Init, WalkInit
  <2> QED
    BY <2>1 DEF StillInv, WalkCurrent
<1>2. ASSUME IInv, StillInv, [Next]_vars
      PROVE  StillInv'
  <2> USE <1>2
  <2>1. CASE VisitObject
    BY <2>1, VisitKeepsStill
  <2>2. CASE NoteSegment
    BY <2>2, NoteKeepsStill
  <2>3. CASE ReadSlot
    <3> SUFFICES ASSUME mem.life = "still"
                 PROVE  StillInv'
      BY <2>3 DEF ReadSlot, StillInv
    <3>1. /\ UNCHANGED <<mem, walkVars, ranges, found>>
          /\ \/ /\ spc' = "check" /\ addr' = addr
                /\ ptr' = Stacks[mem].slots[addr] /\ InRanges(ptr')
             \/ spc' = "scan"
      BY <2>3 DEF ReadSlot
    <3>2. InRanges(ptr') => InHeap(mem, ptr')
      BY InRangesInHeap DEF StillInv, IInv
    <3> QED
      BY <3>1, <3>2 DEF StillInv, WalkCurrent, walkVars, Held
  <2>4. CASE Walk
    <3>1. /\ UNCHANGED <<spc, ranges, found, addr, ptr>> /\ WalkStep /\ mem' = mem
      BY <2>4 DEF Walk, scanVars, WalkStep, BeginWalk, ListHeaps, NextHeap, NoMoreHeaps,
                  ReadSegment, SegmentUnreadable, EndOfHeap
    <3>2. mem.life = "still" => WalkCurrent'
      BY <3>1, WalkKeepsCurrent DEF StillInv, IInv, TypeOK
    <3>3. \A r : Held(r) <=> Held(r)'
      BY <3>1 DEF Held
    <3> QED
      BY <3>1, <3>2, <3>3 DEF StillInv
  <2>5. CASE TargetRuns
    <3>1. mem'.life # "still"
      BY <2>5, StillStays, MutateLive DEF TargetRuns
    <3> QED
      BY <3>1 DEF StillInv
  <2>6. CASE Start \/ EndSnapshot \/ NotAnObject \/ Stopped \/ Finish \/ UNCHANGED vars
    <3>1. /\ UNCHANGED <<mem, walkVars, ranges, found>>
          /\ spc' # "check" \/ UNCHANGED <<spc, addr, ptr>>
      BY <2>6 DEF Start, EndSnapshot, NotAnObject, Stopped, Finish, vars, scanVars
    <3> QED
      BY <3>1 DEF StillInv, WalkCurrent, walkVars, Held
  <2> QED
    BY <2>1, <2>2, <2>3, <2>4, <2>5, <2>6 DEF Next, EnumStep
<1>3. ASSUME IInv, StillInv
      PROVE  NothingElse
  <2> SUFFICES ASSUME mem.life = "still", NEW r \in ToSet(received)
               PROVE  from <= r.slot /\ r.slot < base /\ Held(r)
    BY DEF NothingElse
  <2>1. received \in Seq(Item) /\ buffer \in Seq(Item)
    BY <1>3 DEF IInv, TypeOK, CallbackTypeOK
  <2>2. PICK i \in DOMAIN received : r = received[i]
    BY DEF ToSet
  <2>3. i \in DOMAIN found /\ found[i] = received[i]
    BY <1>3, <2>1 DEF IInv, Delivered
  <2> QED
    BY <1>3, <2>2, <2>3 DEF IInv, InOrder, StillInv
<1> QED
  BY <1>1, <1>2, <1>3, Invariance, PTL DEF Spec
-----------------------------------------------------------------------------
(***************************************************************************)
(* The other part: no root is missed.  While the bounds are noted, every   *)
(* object of a segment that the walk has shown lies between noted bounds;  *)
(* once the walk has succeeded, so does every root; and while the words    *)
(* are read every root of a word that was passed has been found.           *)
(***************************************************************************)

(* What the theorem needs of the stacks and of a target that allocates: an *)
(* object that a walk comes across is one for IsValidObject, and what      *)
(* lasts lies, from the first state on, between the bounds of its segment. *)
ObjectsValid == \A m \in Images : m.life # "moving" => Expected(m) \subseteq Stacks[m].valid

LastingBounded(g) ==
  \A t \in SegIds : \A o \in g.objects[t] :
    g.seg[t].begin <= o /\ o < EndIn(g, g.heaps[1], t)

First(g) ==
  g \in Images /\ g.life = "growing" /\ FirstOfGrowth(g) /\ LastingBounded(g)

RootsAssumption ==
  /\ StillStays /\ OneHeap /\ ObjectsBounded /\ ObjectsValid
  /\ GrowthStays
  /\ (\E m \in Images : m.life = "growing") => \E g \in Images : First(g)

\* The roots that the enumeration owes its caller.
RootsOwed ==
  {r \in Roots(mem, from, base) :
     mem.life = "growing" =>
       \A m \in {n \in Images : n.life = "growing"} : r \in Roots(m, from, base)}

Noted(S) == \A a \in S : InRanges(a)

Before == spc \in {"start", "snapshot"}

Snapshot ==
  /\ Before => whr # "S_FALSE" /\ (wpc = "returned" => whr # "none")
  /\ spc = "snapshot" => addr = from

StillNoted ==
  (mem.life = "still" /\ Before) =>
    \E V \in SUBSET SegIds : Shown(V) /\ Noted(ObjectsIn(mem, V))

LastingNoted ==
  (mem.life = "growing" /\ Before) =>
    \A g \in Images : First(g) =>
      \E V \in SUBSET SegIds : Kept(g, V) /\ Noted(ObjectsIn(g, V))

\* The scan will come to the root r or has found it.
RootAhead(r) ==
  /\ InRanges(r.obj)
  /\ r.slot < addr => r \in ToSet(found)
  /\ (spc = "check" /\ r.slot = addr) => ptr = r.obj

ScanRoots ==
  mem.life # "moving" =>
    /\ spc \in {"scan", "check"} => \A r \in RootsOwed : RootAhead(r)
    /\ result = "S_OK" => RootsOwed \subseteq ToSet(found)

RootsInv == Snapshot /\ StillNoted /\ LastingNoted /\ ScanRoots

(* The objects of one more segment. *)
LEMMA ObjectsOfMore ==
  ASSUME NEW m, NEW V, NEW t, NEW X, X = V \cup {t}
  PROVE  ObjectsIn(m, X) = ObjectsIn(m, V) \cup m.objects[t]
BY DEF ObjectsIn

(* A root that is owed is a word's object, whatever the target was last.   *)
LEMMA RootFacts ==
  ASSUME TypeOK, NEW r \in RootsOwed
  PROVE  /\ r.slot \in Slots /\ from <= r.slot /\ r.slot < base
         /\ r.obj = Stacks[mem].slots[r.slot]
         /\ r.obj \in Expected(mem)
         /\ r = [slot |-> r.slot, obj |-> r.obj]
<1>1. r \in Roots(mem, from, base)
  BY DEF RootsOwed
<1>2. PICK s \in Slots : /\ r = [slot |-> s, obj |-> Stacks[mem].slots[s]]
                         /\ from <= s /\ s < base
                         /\ Stacks[mem].slots[s] \in Expected(mem)
  BY <1>1 DEF Roots
<1> QED
  BY <1>2

(* What is noted stays noted. *)
LEMMA NotedStays ==
  ASSUME NEW S, Noted(S), TypeOK,
         UNCHANGED ranges \/ (\E d \in [begin: Bound, end: Bound] : ranges' = Append(ranges, d))
  PROVE  Noted(S)'
<1>1. ranges \in Seq([begin: Bound, end: Bound])
  BY DEF TypeOK
<1>2. \A i \in DOMAIN ranges : i \in DOMAIN ranges' /\ ranges'[i] = ranges[i]
  BY <1>1
<1> QED
  BY <1>2 DEF Noted, InRanges

(* The objects of the segment whose bounds are noted lie between them.     *)
LEMMA NoteCovers ==
  ASSUME TypeOK, NoteSegment, NEW S, S \subseteq Addr,
         \A o \in S : segData.begin <= o /\ o < segData.allocated
  PROVE  Noted(S)'
<1> DEFINE bounds == [begin |-> segData.begin, end |-> segData.allocated]
<1>1. /\ ranges' = Append(ranges, bounds) /\ ranges \in Seq([begin: Bound, end: Bound])
      /\ bounds \in [begin: Bound, end: Bound]
  BY SegmentBounds DEF NoteSegment, TypeOK
<1>2. bounds.begin = segData.begin /\ bounds.end = segData.allocated
      /\ segData.begin \in Nat /\ segData.allocated \in Nat
  BY SegmentBounds DEF TypeOK, Bound
<1> HIDE DEF bounds
<1>3. Len(ranges) + 1 \in DOMAIN ranges' /\ ranges'[Len(ranges) + 1] = bounds
  BY <1>1
<1>4. ASSUME NEW o \in S
      PROVE  o # Null /\ o >= bounds.begin /\ o <= bounds.end
  <2>1. o \in Addr /\ o \in Nat
    BY <1>4 DEF Addr
  <2> QED
    BY <1>2, <1>4, <2>1, ImagesAssumption
<1> QED
  BY <1>3, <1>4 DEF Noted, InRanges

(* What the proofs below use of the target. *)
LEMMA TargetFacts ==
  ASSUME TypeOK
  PROVE  /\ mem \in Images /\ mem \in Image /\ WalkTypeOK
         /\ mem.life \in {"still", "growing", "moving"}
         /\ mem.objects \in [SegIds -> SUBSET Addr]
BY ImagesAssumption DEF TypeOK, WalkTypeOK, Image

(* What is known of the first image of a growing target.                  *)
LEMMA FirstFacts ==
  ASSUME TypeOK, mem.life = "growing", NEW g \in Images, First(g)
  PROVE  /\ g \in Image /\ Extends(g, mem) /\ Len(g.heaps) = 1
         /\ g.objects \in [SegIds -> SUBSET Addr]
BY TargetFacts DEF First, FirstOfGrowth, Extends, Image

(* A segment's bounds are noted: what it holds is inside from now on. *)
LEMMA NoteKeepsRoots ==
  ASSUME RootsAssumption, IInv, RootsInv, NoteSegment
  PROVE  RootsInv'
<1> USE DEF IInv
<1>1. /\ spc = "snapshot" /\ ResumeWalk /\ wpc' = "segment" /\ wpc = "callback"
      /\ result = "none"
      /\ UNCHANGED <<mem, whr, spc, addr, from, base, ptr, found, result>>
  BY DEF NoteSegment, ResumeWalk, Control
<1>2. \E d \in [begin: Bound, end: Bound] : ranges' = Append(ranges, d)
  BY SegmentBounds DEF NoteSegment, TypeOK
<1>3. StillNoted'
  <2> SUFFICES ASSUME mem.life = "still"
               PROVE  (\E X \in SUBSET SegIds : Shown(X) /\ Noted(ObjectsIn(mem, X)))'
    BY <1>1 DEF StillNoted
  <2>1. PICK V \in SUBSET SegIds : Shown(V) /\ Noted(ObjectsIn(mem, V))
    BY <1>1 DEF RootsInv, StillNoted, Before
  <2>2. /\ seg \in SegIds
        /\ \A o \in mem.objects[seg] : segData.begin <= o /\ o < segData.allocated
    <3>1. PICK i \in 1 .. Len(mem.heaps) :
            /\ seg \in SegmentsOfHeap(mem, mem.heaps[i])
            /\ segData.allocated = EndIn(mem, mem.heaps[i], seg)
      BY <1>1, <2>1, TargetFacts, ShownMember
    <3>2. seg \in SegIds /\ segData.begin = mem.seg[seg].begin
      <4>1. seg \in SegIds /\ segData = WithAllocated(seg, mem.seg[seg])
        BY <1>1, <2>1 DEF Shown
      <4>2. mem.seg[seg] \in SegmentInfo
        BY <4>1, TargetFacts DEF Image
      <4> QED
        BY <4>1, <4>2 DEF WithAllocated, SegmentInfo
    <3> QED
      BY <3>1, <3>2, TargetFacts DEF RootsAssumption, ObjectsBounded
  <2>3. PICK X \in SUBSET SegIds : X = V \cup {seg}
    BY <2>2
  <2>4. Shown(X)'
    BY <1>1, <2>1, <2>3, TargetFacts, ShownGoesOn
  <2>5. \A a \in ObjectsIn(mem, V) : InRanges(a)'
    BY <1>2, <2>1, NotedStays DEF Noted
  <2>6. \A a \in mem.objects[seg] : InRanges(a)'
    <3>1. mem.objects[seg] \subseteq Addr
      BY <2>2, TargetFacts
    <3> QED
      BY <2>2, <3>1, NoteCovers DEF Noted
  <2>7. \A a \in ObjectsIn(mem, X) : InRanges(a)'
    BY <2>3, <2>5, <2>6, ObjectsOfMore
  <2>8. Noted(ObjectsIn(mem, X))'
    BY <1>1, <2>7 DEF Noted, ObjectsIn
  <2> QED
    BY <2>4, <2>8
<1>4. LastingNoted'
  <2> SUFFICES ASSUME mem.life = "growing", NEW g \in Images, First(g)
               PROVE  (\E X \in SUBSET SegIds : Kept(g, X) /\ Noted(ObjectsIn(g, X)))'
    BY <1>1 DEF LastingNoted
  <2>1. PICK V \in SUBSET SegIds : Kept(g, V) /\ Noted(ObjectsIn(g, V))
    BY <1>1 DEF RootsInv, LastingNoted, Before
  <2>2. /\ seg \in SegIds
        /\ segData.begin = g.seg[seg].begin
        /\ EndIn(g, g.heaps[1], seg) <= segData.allocated
    BY <1>1, <2>1 DEF Kept
  <2>3. g \in Image /\ Len(g.heaps) = 1 /\ g.objects[seg] \subseteq Addr
    BY <2>2, FirstFacts
  <2>4. PICK X \in SUBSET SegIds : X = V \cup {seg}
    BY <2>2
  <2>5. Kept(g, X)'
    BY <1>1, <2>1, <2>3, <2>4, KeptGoesOn
  <2>6. \A a \in ObjectsIn(g, V) : InRanges(a)'
    BY <1>2, <2>1, NotedStays DEF Noted
  <2>7. \A a \in g.objects[seg] : InRanges(a)'
    <3>1. EndIn(g, g.heaps[1], seg) \in Nat /\ segData.allocated \in Nat
      BY <2>2, <2>3, FirstHeap, SegmentBounds
         DEF EndIn, Image, HeapDetails, SegmentInfo, Bound, TypeOK
    <3>2. \A o \in g.objects[seg] : segData.begin <= o /\ o < segData.allocated
      <4> TAKE o \in g.objects[seg]
      <4>1. o \in Nat /\ g.seg[seg].begin <= o /\ o < EndIn(g, g.heaps[1], seg)
        BY <2>2, <2>3 DEF First, LastingBounded, Addr
      <4> QED
        BY <2>2, <3>1, <4>1
    <3> QED
      BY <2>3, <3>2, NoteCovers DEF Noted
  <2>8. \A a \in ObjectsIn(g, X) : InRanges(a)'
    BY <2>4, <2>6, <2>7, ObjectsOfMore
  <2>9. Noted(ObjectsIn(g, X))'
    BY <2>8 DEF Noted, ObjectsIn
  <2> QED
    BY <2>5, <2>9
<1>5. Snapshot' /\ ScanRoots'
  BY <1>1 DEF RootsInv, Snapshot, ScanRoots, Before
<1> QED
  BY <1>3, <1>4, <1>5 DEF RootsInv

(* The walk goes on to the next segment. *)
LEMMA WalkKeepsRoots ==
  ASSUME RootsAssumption, IInv, RootsInv, Walk
  PROVE  RootsInv'
<1> USE DEF IInv
<1>1. /\ spc = "snapshot" /\ WalkStep /\ mem' = mem /\ result = "none"
      /\ UNCHANGED <<spc, ranges, addr, from, base, ptr, found, result>>
  BY DEF Walk, scanVars, Control, WalkStep, BeginWalk, ListHeaps, NextHeap, NoMoreHeaps,
         ReadSegment, SegmentUnreadable, EndOfHeap
<1>2. \A a : InRanges(a) => InRanges(a)'
  BY <1>1 DEF InRanges
<1>3. StillNoted'
  <2> SUFFICES ASSUME mem.life = "still"
               PROVE  (\E V \in SUBSET SegIds : Shown(V) /\ Noted(ObjectsIn(mem, V)))'
    BY <1>1 DEF StillNoted
  <2>1. PICK V \in SUBSET SegIds : Shown(V) /\ Noted(ObjectsIn(mem, V))
    BY <1>1 DEF RootsInv, StillNoted, Before
  <2>2. Shown(V)'
    BY <1>1, <2>1, TargetFacts, ShownStep DEF RootsAssumption
  <2>3. Noted(ObjectsIn(mem, V))'
    BY <1>1, <1>2, <2>1 DEF Noted, ObjectsIn
  <2> QED
    BY <2>2, <2>3
<1>4. LastingNoted'
  <2> SUFFICES ASSUME mem.life = "growing", NEW g \in Images, First(g)
               PROVE  (\E V \in SUBSET SegIds : Kept(g, V) /\ Noted(ObjectsIn(g, V)))'
    BY <1>1 DEF LastingNoted
  <2>1. PICK V \in SUBSET SegIds : Kept(g, V) /\ Noted(ObjectsIn(g, V))
    BY <1>1 DEF RootsInv, LastingNoted, Before
  <2>2. Kept(g, V)'
    BY <1>1, <2>1, TargetFacts, FirstFacts, KeptStep
  <2>3. Noted(ObjectsIn(g, V))'
    BY <1>2, <2>1 DEF Noted, ObjectsIn
  <2> QED
    BY <2>2, <2>3
<1>5. Snapshot'
  BY <1>1, WalkStepEffect DEF RootsInv, Snapshot, Before
<1>6. ScanRoots'
  BY <1>1 DEF RootsInv, ScanRoots
<1> QED
  BY <1>3, <1>4, <1>5, <1>6 DEF RootsInv

(* Once the walk has succeeded every root lies between noted bounds.       *)
LEMMA EndKeepsRoots ==
  ASSUME RootsAssumption, IInv, RootsInv, EndSnapshot
  PROVE  RootsInv'
<1> USE DEF IInv
<1>1. /\ spc = "snapshot" /\ wpc = "returned" /\ addr = from /\ found = <<>>
      /\ UNCHANGED <<mem, walkVars, ranges, addr, from, base, ptr, found>>
      /\ \/ whr = "E_FAIL" /\ spc' = "returned" /\ result' = "E_FAIL"
         \/ whr # "E_FAIL" /\ spc' = "scan" /\ result' = "none"
  BY DEF EndSnapshot, RootsInv, Snapshot, Control
<1>2. Snapshot' /\ StillNoted' /\ LastingNoted'
  BY <1>1 DEF Snapshot, StillNoted, LastingNoted, Before
<1>3. ASSUME whr # "E_FAIL", mem.life # "moving", NEW r \in RootsOwed
      PROVE  RootAhead(r)'
  <2>1. whr = "S_OK"
    BY <1>1, <1>3 DEF RootsInv, Snapshot, Before, TypeOK, WalkTypeOK
  <2>2. InRanges(r.obj)
    <3>1. CASE mem.life = "still"
      <4>1. PICK V \in SUBSET SegIds : Shown(V) /\ Noted(ObjectsIn(mem, V))
        BY <1>1, <3>1 DEF RootsInv, StillNoted, Before
      <4>2. ObjectsIn(mem, V) = Expected(mem)
        BY <1>1, <2>1, <4>1 DEF Shown, SegmentsOfFirst, Expected
      <4> QED
        BY <4>1, <4>2, RootFacts DEF Noted
    <3>2. CASE mem.life = "growing"
      <4>1. PICK g \in Images : First(g)
        BY <3>2, TargetFacts DEF RootsAssumption
      <4>2. PICK V \in SUBSET SegIds : Kept(g, V) /\ Noted(ObjectsIn(g, V))
        BY <1>1, <3>2, <4>1 DEF RootsInv, LastingNoted, Before
      <4>3. SegmentsOfHeap(g, g.heaps[1]) \subseteq V
        BY <1>1, <2>1, <4>2 DEF Kept
      <4>4. r \in Roots(g, from, base)
        BY <3>2, <4>1 DEF RootsOwed, First
      <4>5. r.obj \in Expected(g)
        BY <4>4 DEF Roots
      <4>6. Expected(g) \subseteq ObjectsIn(g, V)
        <5>1. Len(g.heaps) = 1
          BY <3>2, <4>1, FirstFacts
        <5>2. 1 .. Len(g.heaps) = {1}
          BY <5>1
        <5> QED
          BY <4>3, <5>2 DEF Expected, ObjectsIn
      <4> QED
        BY <4>2, <4>5, <4>6 DEF Noted
    <3> QED
      BY <1>3, <3>1, <3>2, TargetFacts
  <2>3. ~(r.slot < addr)
    <3>1. r.slot \in Nat /\ from \in Nat /\ from <= r.slot
      BY RootFacts DEF TypeOK, Slots
    <3> QED
      BY <1>1, <3>1
  <2> QED
    BY <1>1, <1>3, <2>2, <2>3 DEF RootAhead, InRanges
<1>4. ScanRoots'
  <2>1. RootsOwed' = RootsOwed
    BY <1>1 DEF RootsOwed
  <2> QED
    BY <1>1, <1>3, <2>1 DEF ScanRoots
<1> QED
  BY <1>2, <1>4 DEF RootsInv

(* A word that is passed holds no root, or its root has been found.        *)
LEMMA ScanKeepsRoots ==
  ASSUME RootsAssumption, IInv, RootsInv, ReadSlot \/ NotAnObject \/ VisitObject
  PROVE  RootsInv'
<1> USE DEF IInv
<1>1. /\ spc \in {"scan", "check"} /\ result = "none" /\ result' = "none"
      /\ ~Before' /\ UNCHANGED <<mem, ranges, from, base>>
  BY DEF ReadSlot, NotAnObject, VisitObject, Control, Before
<1>2. Snapshot' /\ StillNoted' /\ LastingNoted'
  BY <1>1 DEF Snapshot, StillNoted, LastingNoted, Before
<1>3. ASSUME mem.life # "moving", spc' \in {"scan", "check"}, NEW r \in RootsOwed
      PROVE  RootAhead(r)'
  <2>1. /\ InRanges(r.obj) /\ InRanges(r.obj)'
        /\ r.slot < addr => r \in ToSet(found)
        /\ (spc = "check" /\ r.slot = addr) => ptr = r.obj
    BY <1>1, <1>3 DEF RootsInv, ScanRoots, RootAhead, InRanges
  <2>2. /\ r.slot \in Nat /\ addr \in Nat /\ r.obj = Stacks[mem].slots[r.slot]
        /\ r.obj \in Expected(mem) /\ r = [slot |-> r.slot, obj |-> r.obj]
    BY RootFacts DEF TypeOK, Slots
  <2>3. CASE ReadSlot
    <3>1. /\ spc = "scan" /\ found' = found
          /\ \/ ptr' = Stacks[mem].slots[addr] /\ addr' = addr /\ spc' = "check"
             \/ ~InRanges(Stacks[mem].slots[addr]) /\ addr' = addr + 1 /\ spc' = "scan"
      BY <2>3 DEF ReadSlot
    <3>2. r.slot < addr' => r \in ToSet(found)
      BY <2>1, <2>2, <3>1
    <3>3. (spc' = "check" /\ r.slot = addr') => ptr' = r.obj
      BY <2>2, <3>1
    <3> QED
      BY <2>1, <3>1, <3>2, <3>3 DEF RootAhead
  <2>4. CASE NotAnObject
    <3>1. /\ spc = "check" /\ found' = found /\ addr' = addr + 1 /\ spc' = "scan"
          /\ ptr \notin Stacks[mem].valid
      BY <2>4 DEF NotAnObject
    <3>2. r.slot # addr
      BY <1>3, <2>1, <2>2, <3>1, TargetFacts DEF RootsAssumption, ObjectsValid
    <3>3. r.slot < addr' => r \in ToSet(found)
      BY <2>1, <2>2, <3>1, <3>2
    <3> QED
      BY <2>1, <3>1, <3>3 DEF RootAhead
  <2>5. CASE VisitObject
    <3> DEFINE item == [slot |-> addr, obj |-> ptr]
    <3>1. /\ spc = "check" /\ found' = Append(found, item) /\ addr' = addr + 1
          /\ spc' = "scan"
      BY <1>3, <2>5 DEF VisitObject
    <3>2. r.slot = addr => r = item
      BY <2>1, <2>2, <3>1
    <3>3. found \in Seq(Item) /\ item \in Item
      BY <2>5 DEF VisitObject, TypeOK, Scan, Item
    <3> HIDE DEF item
    <3>4. ToSet(found') = ToSet(found) \cup {item}
      <4>1. /\ Len(found) \in Nat /\ DOMAIN found = 1 .. Len(found)
            /\ DOMAIN found' = 1 .. Len(found) + 1
            /\ found'[Len(found) + 1] = item
            /\ \A i \in DOMAIN found : found'[i] = found[i]
        BY <3>1, <3>3
      <4>2. DOMAIN found' = DOMAIN found \cup {Len(found) + 1}
        BY <4>1
      <4> QED
        BY <4>1, <4>2 DEF ToSet
    <3>5. r.slot < addr' => r \in ToSet(found')
      BY <2>1, <2>2, <3>1, <3>2, <3>4
    <3> QED
      BY <2>1, <3>1, <3>5 DEF RootAhead
  <2> QED
    BY <2>3, <2>4, <2>5
<1>4. ScanRoots'
  <2>1. RootsOwed' = RootsOwed
    BY <1>1 DEF RootsOwed
  <2> QED
    BY <1>1, <1>3, <2>1 DEF ScanRoots
<1> QED
  BY <1>2, <1>4 DEF RootsInv

(* Whatever the target does, what is owed was owed before.                 *)
LEMMA TargetKeepsRoots ==
  ASSUME RootsAssumption, IInv, IInv', RootsInv, TargetRuns
  PROVE  RootsInv'
<1> USE DEF IInv
<1>1. /\ Mutate /\ UNCHANGED walkVars
      /\ UNCHANGED <<spc, ranges, addr, from, base, ptr, found, result>>
  BY DEF TargetRuns, scanVars, Mutate
<1>2. /\ mem.life # "still" /\ mem'.life # "still"
      /\ mem'.life = "growing" => mem.life = "growing"
  BY <1>1, MutateLive, MutateGrowing DEF RootsAssumption
<1>3. Snapshot' /\ StillNoted'
  BY <1>1, <1>2 DEF RootsInv, Snapshot, StillNoted, Before, walkVars
<1>4. \A a : InRanges(a) => InRanges(a)'
  BY <1>1 DEF InRanges
<1>5. LastingNoted'
  <2> SUFFICES ASSUME mem.life = "growing", Before, NEW g \in Images, First(g)
               PROVE  (\E V \in SUBSET SegIds : Kept(g, V) /\ Noted(ObjectsIn(g, V)))'
    BY <1>1, <1>2 DEF LastingNoted, Before
  <2>1. PICK V \in SUBSET SegIds : Kept(g, V) /\ Noted(ObjectsIn(g, V))
    BY DEF RootsInv, LastingNoted
  <2>2. Kept(g, V)'
    BY <1>1, <2>1, KeptStays
  <2>3. Noted(ObjectsIn(g, V))'
    BY <1>4, <2>1 DEF Noted, ObjectsIn
  <2> QED
    BY <2>2, <2>3
<1>6. ScanRoots'
  <2> SUFFICES ASSUME mem.life = "growing", mem'.life = "growing"
               PROVE  ScanRoots'
    <3>1. mem'.life \in {"still", "growing", "moving"}
      BY ImagesAssumption DEF TypeOK, WalkTypeOK, Image
    <3> QED
      BY <1>2, <3>1 DEF ScanRoots
  <2>1. RootsOwed' \subseteq RootsOwed
    BY <1>1, TargetFacts DEF RootsOwed
  <2>2. \A r : RootAhead(r) => RootAhead(r)'
    BY <1>1, <1>4 DEF RootAhead
  <2> QED
    BY <1>1, <2>1, <2>2 DEF RootsInv, ScanRoots
<1> QED
  BY <1>3, <1>5, <1>6 DEF RootsInv

(* Every step preserves RootsInv.                                         *)
LEMMA NextKeepsRoots ==
  ASSUME RootsAssumption, IInv, RootsInv, [Next]_vars
  PROVE  RootsInv'
<1> USE DEF IInv
<1>1. CASE Start
  <2>1. /\ UNCHANGED <<mem, walkVars, ranges, ptr, found>> /\ spc = "start" /\ result = "none"
        /\ \/ spc' = "snapshot" /\ addr' = from' /\ result' = result
           \/ spc' = "returned" /\ result' = "E_FAIL"
    BY <1>1 DEF Start, Control
  <2>2. \A a : InRanges(a) => InRanges(a)'
    BY <2>1 DEF InRanges
  <2>3. StillNoted'
    <3> SUFFICES ASSUME mem.life = "still"
                 PROVE  (\E V \in SUBSET SegIds : Shown(V) /\ Noted(ObjectsIn(mem, V)))'
      BY <2>1 DEF StillNoted
    <3>1. PICK V \in SUBSET SegIds : Shown(V) /\ Noted(ObjectsIn(mem, V))
      BY <2>1 DEF RootsInv, StillNoted, Before
    <3>2. Shown(V)' /\ Noted(ObjectsIn(mem, V))'
      BY <2>1, <2>2, <3>1, ShownStays DEF Noted, ObjectsIn
    <3> QED
      BY <3>2
  <2>4. LastingNoted'
    <3> SUFFICES ASSUME mem.life = "growing", NEW g \in Images, First(g)
                 PROVE  (\E V \in SUBSET SegIds : Kept(g, V) /\ Noted(ObjectsIn(g, V)))'
      BY <2>1 DEF LastingNoted
    <3>1. PICK V \in SUBSET SegIds : Kept(g, V) /\ Noted(ObjectsIn(g, V))
      BY <2>1 DEF RootsInv, LastingNoted, Before
    <3>2. Kept(g, V)' /\ Noted(ObjectsIn(g, V))'
      BY <2>1, <2>2, <3>1, KeptStays DEF Noted, ObjectsIn
    <3> QED
      BY <3>2
  <2>5. Snapshot' /\ ScanRoots'
    BY <2>1 DEF RootsInv, Snapshot, ScanRoots, Before, walkVars
  <2> QED
    BY <2>3, <2>4, <2>5 DEF RootsInv
<1>2. CASE Walk
  BY <1>2, WalkKeepsRoots
<1>3. CASE NoteSegment
  BY <1>3, NoteKeepsRoots
<1>4. CASE EndSnapshot
  BY <1>4, EndKeepsRoots
<1>5. CASE ReadSlot \/ NotAnObject \/ VisitObject
  BY <1>5, ScanKeepsRoots
<1>6. CASE Stopped
  BY <1>6 DEF Stopped, RootsInv, Snapshot, StillNoted, LastingNoted, ScanRoots, Before
<1>7. CASE Finish
  <2>1. /\ spc = "scan" /\ addr >= base /\ spc' = "returned"
        /\ UNCHANGED <<mem, from, base, found>>
    BY <1>7 DEF Finish
  <2>2. ASSUME mem.life # "moving", NEW r \in RootsOwed
        PROVE  r \in ToSet(found)
    <3>1. r.slot \in Nat /\ addr \in Nat /\ base \in Nat /\ r.slot < base
      BY RootFacts DEF TypeOK, Slots
    <3>2. r.slot < addr
      BY <2>1, <3>1
    <3> QED
      BY <2>1, <2>2, <3>2 DEF RootsInv, ScanRoots, RootAhead
  <2>3. RootsOwed' = RootsOwed
    BY <2>1 DEF RootsOwed
  <2> QED
    BY <2>1, <2>2, <2>3 DEF RootsInv, Snapshot, StillNoted, LastingNoted, ScanRoots, Before
<1>8. CASE TargetRuns
  BY <1>8, NextIInv, TargetKeepsRoots
<1>9. CASE UNCHANGED vars
  <2>1. /\ UNCHANGED <<mem, walkVars, spc, ranges, addr, from, base, ptr, found, result>>
    BY <1>9 DEF vars, scanVars
  <2>2. \A V : (Shown(V) => Shown(V)') /\ (\A g : Kept(g, V) => Kept(g, V)')
    BY <2>1, ShownStays, KeptStays
  <2>3. \A a : InRanges(a) => InRanges(a)'
    BY <2>1 DEF InRanges
  <2>4. \A m, V : ObjectsIn(m, V)' = ObjectsIn(m, V)
    BY DEF ObjectsIn
  <2>5. StillNoted' /\ LastingNoted'
    BY <2>1, <2>2, <2>3 DEF RootsInv, StillNoted, LastingNoted, Before, Noted, ObjectsIn
  <2>6. RootsOwed' = RootsOwed
    BY <2>1 DEF RootsOwed
  <2>7. Snapshot' /\ ScanRoots'
    BY <2>1, <2>3, <2>6 DEF RootsInv, Snapshot, ScanRoots, RootAhead, Before, walkVars
  <2> QED
    BY <2>5, <2>7 DEF RootsInv
<1> QED
  BY <1>1, <1>2, <1>3, <1>4, <1>5, <1>6, <1>7, <1>8, <1>9 DEF Next, EnumStep

(* A successful enumeration reports every root of its range, of a target   *)
(* that stands still, and nothing else, and the lasting ones of a target   *)
(* that allocates.                                                         *)
THEOREM RootsFound ==
  ASSUME RootsAssumption
  PROVE  Spec => []RootsReported
<1>1. Init => RootsInv
  <2> SUFFICES ASSUME Init
               PROVE  RootsInv
    OBVIOUS
  <2>1. /\ spc = "start" /\ result = "none" /\ wpc = "begin" /\ whr = "none"
    BY DEF Init, WalkInit
  <2>2. Shown({}) /\ \A g : Kept(g, {})
    BY ShownInit, KeptInit DEF Init
  <2>3. \A m : Noted(ObjectsIn(m, {}))
    BY DEF Noted, ObjectsIn
  <2> QED
    BY <2>1, <2>2, <2>3 DEF RootsInv, Snapshot, StillNoted, LastingNoted, ScanRoots
<1>2. IInv /\ RootsInv /\ [Next]_vars => RootsInv'
  BY NextKeepsRoots
<1>3. IInv /\ NothingElse /\ RootsInv => RootsReported
  <2> SUFFICES ASSUME IInv, NothingElse, RootsInv, result = "S_OK", ~stopped
               PROVE  /\ mem.life = "still" =>
                           /\ Roots(mem, from, base) \subseteq ToSet(received)
                           /\ \A r \in ToSet(received) :
                                /\ from <= r.slot /\ r.slot < base
                                /\ Stacks[mem].slots[r.slot] = r.obj
                                /\ InHeap(mem, r.obj)
                      /\ mem.life = "growing" => Lasting(from, base) \subseteq ToSet(received)
    BY DEF RootsReported
  <2>1. received = found
    BY DEF IInv, Delivered, TypeOK, CallbackTypeOK
  <2>2. mem.life # "moving" => RootsOwed \subseteq ToSet(received)
    BY <2>1 DEF RootsInv, ScanRoots
  <2>3. mem.life = "still" => RootsOwed = Roots(mem, from, base)
    BY DEF RootsOwed
  <2>4. mem.life = "growing" => RootsOwed = Lasting(from, base)
    BY DEF RootsOwed, Lasting
  <2> QED
    BY <2>2, <2>3, <2>4 DEF NothingElse, Held
<1>4. Spec => []NothingElse
  BY NothingElseReported DEF RootsAssumption
<1> QED
  BY <1>1, <1>2, <1>3, <1>4, Invariance, PTL DEF Spec
=============================================================================
