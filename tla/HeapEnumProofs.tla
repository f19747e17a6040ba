--------------------------- MODULE HeapEnumProofs ---------------------------
(***************************************************************************)
(* Proofs about EnumHeapObjects, for every set of target images, every way *)
(* the target may change, every batch size and every word size.            *)
(***************************************************************************)
EXTENDS HeapEnum, WalkProofs, CallbackProofs, FiniteSetTheorems

(* Align answers an address: rounding up to a word keeps a natural number. *)
LEMMA AlignNat ==
  ASSUME NEW a \in Nat
  PROVE  Align(a) \in Nat
<1> WordSize \in Nat \ {0}
  BY WordAssumption
<1> DEFINE b == a + (WordSize - 1)
<1>1. b \in Nat
  OBVIOUS
<1>2. b \div WordSize \in Nat
  BY <1>1
<1> HIDE DEF b
<1>3. (b \div WordSize) * WordSize \in Nat
  BY <1>2
<1> QED
  BY <1>3 DEF Align, b

(* The scan reads only addresses inside the modelled heap. *)
LEMMA ScanInHeap ==
  ASSUME TypeOK, curr < segData.allocated
  PROVE  curr \in Addr
BY ImagesAssumption DEF TypeOK, WalkTypeOK, SegmentInfo, Bound, Addr

-----------------------------------------------------------------------------
(***************************************************************************)
(* The inductive invariant.  Delivery alone is not inductive: that an      *)
(* aborted enumeration has nothing left to flush, and that it is always    *)
(* the walk's S_FALSE that ends it, is what keeps the flush from calling a *)
(* stopped consumer.                                                       *)
(***************************************************************************)
Control ==
  /\ result = "none" <=> epc # "returned"
  /\ epc = "start" => ~stopped
  /\ epc = "scan" => wpc = "callback"
  /\ epc # "returned" => (stopped <=> whr = "S_FALSE")
  /\ whr = "S_FALSE" => wpc = "returned"
  /\ (stopped /\ epc # "returned") => buffer = <<>>
  /\ result = "E_FAIL" => ~stopped
  /\ wpc = "returned" => whr # "none"
  /\ result = "S_OK" => wpc = "returned" /\ whr # "E_FAIL"
  /\ whr = "S_FALSE" => stopped

(* Until the enumeration succeeds, and flushes the wrapper, every call of   *)
(* a batch consumer was a full batch.                                      *)
Batches ==
  /\ result # "S_OK" => AllFull
  /\ FullBatches

IInv ==
  /\ TypeOK
  /\ Control
  /\ Waiting
  /\ Delivery
  /\ Batches

(* The initial state satisfies the inductive invariant.                   *)
LEMMA InitIInv ==
  ASSUME Init
  PROVE  IInv
<1>1. WalkTypeOK
  BY WalkInitType DEF Init
<1>2. CallbackTypeOK(Addr) /\ Waiting /\ AllFull
  BY CallbackInitEffect DEF Init
<1>3. /\ found = <<>> /\ found0 = 0 /\ curr = 0 /\ epc = "start" /\ result = "none"
      /\ buffer = <<>> /\ received = <<>> /\ calls = <<>>
  BY DEF Init, CallbackInit
<1>4. found \in Seq(Addr) /\ found0 \in 0 .. Len(found)
  BY <1>3
<1>5. TypeOK
  BY <1>1, <1>2, <1>3, <1>4 DEF TypeOK
<1>6. Control
  BY DEF Init, WalkInit, CallbackInit, Control
<1>7. Delivery
  BY <1>2, <1>3 DEF Delivery, Waiting
<1>8. Batches
  BY <1>2, <1>3 DEF Batches, FullBatches
<1> QED
  BY <1>2, <1>5, <1>6, <1>7, <1>8 DEF IInv

(* The steps of the walk: nothing of the consumer's side changes.          *)
LEMMA WalkKeepsIInv ==
  ASSUME IInv, Walk
  PROVE  IInv'
<1>1. /\ epc = "walk" /\ WalkStep
      /\ UNCHANGED <<epc, curr, found, found0, result>>
      /\ UNCHANGED <<isBatch, buffer, received, calls, stopped>>
  BY DEF Walk, callbackVars, enumVars
<1>2. TypeOK'
  <2>1. WalkTypeOK'
    BY <1>1, WalkStepType DEF IInv, TypeOK
  <2> QED
    BY <1>1, <2>1 DEF IInv, TypeOK, CallbackTypeOK
<1>3. /\ wpc # "returned"
      /\ \/ whr' = whr /\ wpc' # "returned"
         \/ wpc' = "returned" /\ whr' \in {"S_OK", "E_FAIL"}
  BY <1>1, WalkStepEffect
<1>4. Control'
  BY <1>1, <1>3 DEF IInv, Control
<1>5. Waiting' /\ Delivery' /\ Batches'
  BY <1>1 DEF IInv, Waiting, Delivery, Batches, AllFull, FullBatches
<1> QED
  BY <1>2, <1>4, <1>5 DEF IInv

(* Handing an object to the batching callback keeps the inductive         *)
(* invariant.                                                             *)
LEMMA VisitKeepsIInv ==
  ASSUME IInv, VisitObject
  PROVE  IInv'
<1> USE ImagesAssumption DEF IInv, VisitObject
<1>1. curr \in Addr
  BY ScanInHeap
<1>2. PICK reply \in BOOLEAN :
        /\ Wrap(curr, reply)
        /\ IF reply
             THEN /\ curr' = Align(curr + mem.size[curr])
                  /\ UNCHANGED <<mem, walkVars, epc>>
             ELSE /\ AbortWalk
                  /\ epc' = "walk"
                  /\ UNCHANGED curr
  OBVIOUS
<1>3. /\ CallbackTypeOK(Addr)' /\ Waiting' /\ (AllFull => AllFull')
      /\ received' \o buffer' = Append(received \o buffer, curr)
      /\ stopped' = (stopped \/ ~reply)
      /\ ~reply => buffer' = <<>>
  BY <1>1, <1>2, WrapEffect DEF TypeOK
<1>4. /\ wpc = "callback" /\ ~stopped /\ result = "none" /\ epc = "scan"
      /\ found' = Append(found, curr) /\ found0' = found0 /\ result' = result
  BY DEF Control
<1>5. WalkTypeOK'
  <2>1. CASE reply
    BY <1>2, <2>1 DEF TypeOK, WalkTypeOK, walkVars
  <2>2. CASE ~reply
    BY <1>2, <2>2, CallbackReturnType DEF TypeOK
  <2> QED
    BY <2>1, <2>2
<1>6. curr' \in Nat
  <2>1. mem.size[curr] \in Nat
    BY <1>1 DEF TypeOK, WalkTypeOK, Image
  <2>2. curr + mem.size[curr] \in Nat /\ curr \in Nat
    BY <2>1 DEF TypeOK
  <2>3. Align(curr + mem.size[curr]) \in Nat
    BY <2>2, AlignNat
  <2> QED
    BY <1>2, <2>2, <2>3
<1>7. TypeOK'
  BY <1>1, <1>2, <1>3, <1>4, <1>5, <1>6 DEF TypeOK
<1>8. Control'
  BY <1>2, <1>3, <1>4 DEF Control, AbortWalk, WalkReturn, walkVars
<1>9. Delivery'
  BY <1>3, <1>4 DEF Waiting, Delivery
<1>10. Batches'
  <2>1. AllFull'
    BY <1>3, <1>4 DEF Batches
  <2> QED
    BY <1>4, <2>1 DEF Batches, AllFull, FullBatches
<1> QED
  BY <1>3, <1>7, <1>8, <1>9, <1>10

(* The last flush and the return of EnumHeapObjects keep it.              *)
LEMMA FinishKeepsIInv ==
  ASSUME IInv, Finish
  PROVE  IInv'
<1> USE DEF IInv, Finish
<1>1. result = "none" /\ received \o buffer = found /\ AllFull
  BY DEF Control, Delivery, Batches
<1>2. CASE whr = "E_FAIL"
  <2>1. /\ UNCHANGED <<isBatch, buffer, received, calls, stopped>>
        /\ result' = "E_FAIL" /\ epc' = "returned"
        /\ UNCHANGED walkVars /\ UNCHANGED <<mem, curr, found, found0>>
    BY <1>2 DEF callbackVars
  <2>2. TypeOK' /\ Control'
    BY <1>2, <2>1 DEF TypeOK, WalkTypeOK, CallbackTypeOK, Control, walkVars
  <2>3. Waiting' /\ Delivery'
    BY <1>1, <2>1 DEF Waiting, Delivery
  <2>4. Batches'
    BY <1>1, <2>1 DEF Batches, FullBatches, AllFull
  <2> QED
    BY <2>2, <2>3, <2>4
<1>3. CASE whr # "E_FAIL"
  <2>1. /\ Flush /\ result' = "S_OK" /\ epc' = "returned"
        /\ UNCHANGED walkVars /\ UNCHANGED <<mem, curr, found, found0>>
    BY <1>3
  <2>2. /\ CallbackTypeOK(Addr)' /\ Waiting'
        /\ received' = received \o buffer /\ (AllFull => LastShort')
    BY <2>1, FlushEffect DEF TypeOK
  <2>3. stopped => stopped'
    BY <2>1, FlushEffect DEF TypeOK, Control
  <2>4. TypeOK' /\ Control'
    BY <1>3, <2>1, <2>2, <2>3 DEF TypeOK, WalkTypeOK, Control, walkVars
  <2>5. Delivery'
    BY <1>1, <2>1, <2>2 DEF Delivery
  <2>6. Batches'
    BY <1>1, <2>1, <2>2 DEF Batches, FullBatches, LastShort
  <2> QED
    BY <2>2, <2>4, <2>5, <2>6
<1> QED
  BY <1>2, <1>3

(* Every step preserves the inductive invariant.                          *)
LEMMA NextIInv ==
  ASSUME IInv, [Next]_vars
  PROVE  IInv'
<1> USE ImagesAssumption DEF IInv, Batches, AllFull, FullBatches
<1>1. CASE Start
  BY <1>1 DEF Start, TypeOK, WalkTypeOK, CallbackTypeOK, Control, Waiting, Delivery,
              walkVars, callbackVars
<1>2. CASE Walk
  BY <1>2, WalkKeepsIInv
<1>3. CASE EnterSegment
  BY <1>3 DEF EnterSegment, TypeOK, WalkTypeOK, CallbackTypeOK, Control, Waiting,
              Delivery, walkVars, callbackVars, SegmentInfo, Bound
<1>4. CASE SkipWord
  BY <1>4, WordAssumption DEF SkipWord, TypeOK, WalkTypeOK, CallbackTypeOK, Control,
              Waiting, Delivery, walkVars, callbackVars
<1>5. CASE VisitObject
  BY <1>5, VisitKeepsIInv
<1>6. CASE LeaveSegment
  <2>1. WalkTypeOK'
    BY <1>6, CallbackReturnType DEF LeaveSegment, TypeOK
  <2>2. whr' = whr /\ wpc = "callback" /\ wpc' = "segment"
    BY <1>6 DEF LeaveSegment, ResumeWalk
  <2> QED
    BY <1>6, <2>1, <2>2 DEF LeaveSegment, TypeOK, CallbackTypeOK, Control, Waiting,
              Delivery, callbackVars
<1>7. CASE Finish
  BY <1>7, FinishKeepsIInv
<1>8. CASE TargetRuns
  BY <1>8 DEF TargetRuns, Mutate, TypeOK, WalkTypeOK, CallbackTypeOK, Control, Waiting,
              Delivery, walkVars, callbackVars, enumVars
<1>9. CASE UNCHANGED vars
  BY <1>9 DEF vars, TypeOK, WalkTypeOK, CallbackTypeOK, Control, Waiting,
              Delivery, walkVars, callbackVars, enumVars
<1> QED
  BY <1>1, <1>2, <1>3, <1>4, <1>5, <1>6, <1>7, <1>8, <1>9 DEF Next, EnumStep

(* The inductive invariant holds in every reachable state of an           *)
(* enumeration of the heap.                                               *)
THEOREM Invariance == Spec => []IInv
<1>1. Init => IInv
  BY InitIInv
<1>2. IInv /\ [Next]_vars => IInv'
  BY NextIInv
<1> QED
  BY <1>1, <1>2, PTL DEF Spec

(* The type invariant of EnumHeapObjects: in particular the scan never     *)
(* reads outside the segments of the target, however the target moves.     *)
THEOREM TypeCorrect == Spec => []TypeOK
<1>1. IInv => TypeOK
  BY DEF IInv
<1> QED
  BY <1>1, Invariance, PTL

(* Nothing is lost, repeated or reordered between scan and consumer.       *)
THEOREM DeliveryCorrect == Spec => []Delivery
<1>1. IInv => Delivery
  BY DEF IInv
<1> QED
  BY <1>1, Invariance, PTL

(* A batch consumer gets full batches but for the last call of an          *)
(* enumeration that succeeds.                                              *)
THEOREM BatchesCorrect == Spec => []FullBatches
<1>1. IInv => FullBatches
  BY DEF IInv, Batches
<1> QED
  BY <1>1, Invariance, PTL

(* A consumer that failed a call is never called again.                    *)
THEOREM AbortCorrect == Spec => AbortIsFinal
<1>1. ASSUME IInv, [Next]_vars
      PROVE  [stopped => UNCHANGED <<received, calls>>]_vars
  <2> SUFFICES ASSUME stopped, Next
               PROVE  UNCHANGED <<received, calls>>
    BY <1>1
  <2> USE <1>1 DEF IInv
  <2>1. CASE VisitObject
    BY <2>1 DEF VisitObject, Control
  <2>2. CASE Finish
    <3>1. buffer = <<>>
      BY <2>2 DEF Control, Finish
    <3> QED
      BY <2>2, <3>1 DEF Finish, Flush, callbackVars
  <2>3. CASE Start \/ Walk \/ EnterSegment \/ SkipWord \/ LeaveSegment \/ TargetRuns
    BY <2>3 DEF Start, Walk, EnterSegment, SkipWord, LeaveSegment, TargetRuns, callbackVars
  <2> QED
    BY <2>1, <2>2, <2>3 DEF Next, EnumStep
<1> QED
  BY <1>1, Invariance, PTL DEF Spec, AbortIsFinal

-----------------------------------------------------------------------------
(* The enumeration keeps the contract of its consumers: every step of it   *)
(* is a step of ObjectStream or changes nothing the consumer can see.      *)
THEOREM Refinement == Spec => StreamSpec
<1>1. Init => Stream!Init
  BY DEF Init, CallbackInit, Stream!Init
<1>2. ASSUME IInv, [Next]_vars
      PROVE  [Stream!Next]_(Stream!vars)
  <2> USE <1>2 DEF IInv, Stream!vars
  <2>1. CASE VisitObject
    <3>1. curr \in Addr
      BY <2>1, ScanInHeap DEF VisitObject
    <3>2. PICK reply \in BOOLEAN : Wrap(curr, reply)
      BY <2>1 DEF VisitObject
    <3>3. /\ stopped' = (stopped \/ ~reply)
          /\ ~reply => buffer' = <<>>
          /\ received' \o buffer' = Append(received \o buffer, curr)
          /\ received' \in Seq(Addr)
          /\ stopped' \in BOOLEAN
          /\ \/ received' = received /\ stopped' = stopped
             \/ received' = Append(received \o buffer, curr)
      BY <3>1, <3>2, WrapEffect DEF TypeOK, CallbackTypeOK
    <3>4. /\ ~stopped /\ result = "none" /\ result' = result
          /\ found' = Append(found, curr)
          /\ found = received \o buffer
      BY <2>1 DEF VisitObject, Control, Delivery
    <3>5. Stream!Find(curr)
      BY <3>3, <3>4 DEF Stream!Find
    <3> QED
      BY <3>1, <3>5 DEF Stream!Next
  <2>2. CASE Finish
    <3>1. result = "none" /\ found' = found
      BY <2>2 DEF Finish, Control
    <3>2. CASE whr = "E_FAIL"
      <4>1. Stream!Fail
        BY <2>2, <3>1, <3>2 DEF Finish, Control, callbackVars, Stream!Fail
      <4> QED
        BY <4>1 DEF Stream!Next
    <3>3. CASE whr # "E_FAIL" /\ stopped
      <4>1. Stream!Stop
        BY <2>2, <3>1, <3>3 DEF Finish, Control, Flush, callbackVars, Stream!Stop
      <4> QED
        BY <4>1 DEF Stream!Next
    <3>4. CASE whr # "E_FAIL" /\ ~stopped
      <4>1. result' = "S_OK" /\ Flush
        BY <2>2, <3>4 DEF Finish
      <4>2. received' = found' /\ stopped' \in BOOLEAN
        BY <2>2, <4>1, FinishKeepsIInv DEF Delivery, TypeOK, CallbackTypeOK
      <4>3. Stream!Succeed
        BY <3>1, <3>4, <4>1, <4>2 DEF Stream!Succeed
      <4> QED
        BY <4>3 DEF Stream!Next
    <3> QED
      BY <3>2, <3>3, <3>4
  <2>3. CASE Start
    <3>1. CASE mem.globals
      BY <2>3, <3>1 DEF Start, callbackVars
    <3>2. CASE ~mem.globals
      <4>1. Stream!Fail
        BY <2>3, <3>2 DEF Start, Control, callbackVars, Stream!Fail
      <4> QED
        BY <4>1 DEF Stream!Next
    <3> QED
      BY <3>1, <3>2
  <2>4. CASE Walk \/ EnterSegment \/ SkipWord \/ LeaveSegment \/ TargetRuns
    BY <2>4 DEF Walk, EnterSegment, SkipWord, LeaveSegment, TargetRuns, callbackVars, enumVars
  <2>5. CASE UNCHANGED vars
    BY <2>5 DEF vars, callbackVars, enumVars
  <2> QED
    BY <2>1, <2>2, <2>3, <2>4, <2>5 DEF Next, EnumStep
<1> QED
  BY <1>1, <1>2, Invariance, PTL DEF Spec, StreamSpec, Stream!Spec
-----------------------------------------------------------------------------
(* Align never moves back. *)
LEMMA AlignForward ==
  ASSUME NEW a \in Nat
  PROVE  a <= Align(a)
<1> WordSize \in Nat \ {0}
  BY WordAssumption
<1> DEFINE b == a + (WordSize - 1)
           q == b \div WordSize
           r == b % WordSize
<1>1. b \in Nat
  OBVIOUS
<1>2. q \in Int /\ r \in 0 .. WordSize - 1 /\ b = WordSize * q + r
  BY <1>1
<1>3. WordSize * q = q * WordSize /\ WordSize * q \in Int
  BY <1>2
<1> HIDE DEF q, r
<1>4. a <= WordSize * q
  BY <1>2, <1>3
<1> QED
  BY <1>3, <1>4 DEF Align, q

ScanInv ==
  /\ epc = "scan" => segData.begin <= curr
  /\ ScanForward

(* The scan has not left its segment to the left, and ScanForward. *)
LEMMA ScanInvariance == Spec => []ScanInv
<1>1. Init => ScanInv
  BY DEF Init, ScanInv, ScanForward
<1>2. ASSUME IInv, IInv', ScanInv, [Next]_vars
      PROVE  ScanInv'
  <2> SUFFICES ASSUME epc' = "scan"
               PROVE  ScanInv'
    BY DEF ScanInv, ScanForward
  <2> USE <1>2, ImagesAssumption DEF IInv
  <2>1. CASE EnterSegment
    <3>1. found0' = Len(found') /\ Len(found') \in Nat /\ curr' = segData'.begin
      BY <2>1 DEF EnterSegment, TypeOK, walkVars
    <3>2. curr' \in Nat /\ \A i \in found0' + 1 .. Len(found') : FALSE
      BY <3>1 DEF TypeOK
    <3> QED
      BY <3>1, <3>2 DEF ScanInv, ScanForward
  <2>2. CASE SkipWord
    <3>1. /\ epc = "scan" /\ curr' = curr + WordSize /\ WordSize \in Nat /\ curr \in Nat
          /\ UNCHANGED <<segData, found, found0>>
          /\ segData.begin \in Nat /\ found \in Seq(Nat) /\ found0 \in 0 .. Len(found)
      BY <2>2, WordAssumption
         DEF SkipWord, TypeOK, WalkTypeOK, walkVars, SegmentInfo, Bound, Addr
    <3>2. \A i \in found0 + 1 .. Len(found) : found[i] \in Nat
      BY <3>1
    <3>3. segData.begin <= curr /\ ScanForward
      BY <3>1 DEF ScanInv
    <3> HIDE <1>2, ImagesAssumption DEF IInv
    <3> QED
      BY <3>1, <3>2, <3>3 DEF ScanInv, ScanForward
  <2>3. CASE VisitObject
    <3>1. PICK reply \in BOOLEAN :
            IF reply THEN /\ curr' = Align(curr + mem.size[curr])
                          /\ UNCHANGED <<mem, walkVars, epc>>
                     ELSE /\ AbortWalk
                          /\ epc' = "walk"
                          /\ UNCHANGED curr
      BY <2>3 DEF VisitObject
    <3>2. /\ curr \in Addr /\ epc = "scan" /\ curr < segData.allocated
          /\ found' = Append(found, curr) /\ found0' = found0
      BY <2>3, ScanInHeap DEF VisitObject
    <3>3. mem.size[curr] \in Nat \ {0}
      BY <2>3, <3>2 DEF VisitObject, TypeOK, WalkTypeOK, Image
    <3>4. reply /\ segData' = segData
      BY <3>1, <2>3 DEF walkVars
    <3>5. curr < curr' /\ curr \in Nat /\ curr' \in Nat
      <4>1. curr + mem.size[curr] \in Nat /\ curr \in Nat
        BY <3>3 DEF TypeOK
      <4>2. curr' = Align(curr + mem.size[curr])
        BY <3>1, <3>4
      <4>3. curr' \in Nat /\ curr + mem.size[curr] <= curr'
        BY <4>1, <4>2, AlignForward, AlignNat
      <4>4. curr < curr + mem.size[curr]
        BY <3>3, <4>1
      <4> QED
        BY <4>1, <4>3, <4>4
    <3>6. /\ found \in Seq(Nat) /\ found0 \in 0 .. Len(found)
          /\ segData.begin \in Nat
      BY DEF TypeOK, WalkTypeOK, SegmentInfo, Bound, Addr
    <3>7. \A i \in found0 + 1 .. Len(found) :
            /\ found'[i] = found[i] /\ found[i] \in Nat
            /\ segData.begin <= found[i] /\ found[i] < curr
            /\ found[i] < segData.allocated
      BY <3>2, <3>6 DEF ScanInv, ScanForward
    <3>8. Len(found') = Len(found) + 1 /\ found'[Len(found')] = curr
      BY <3>2, <3>6
    <3>9. segData.begin <= curr
      BY <3>2 DEF ScanInv
    <3>10. \A i, j \in found0 + 1 .. Len(found) : i < j => found[i] < found[j]
      BY <3>2 DEF ScanInv, ScanForward
    <3>11. \A i \in found0' + 1 .. Len(found') :
             i \in found0 + 1 .. Len(found) \/ i = Len(found')
      BY <3>2, <3>6, <3>8
    <3>12. segData.allocated \in Nat
      BY DEF TypeOK, WalkTypeOK, SegmentInfo, Bound
    <3>13. \A i \in found0' + 1 .. Len(found') :
             /\ segData'.begin <= found'[i]
             /\ found'[i] < curr'
             /\ found'[i] < segData'.allocated
      <4> TAKE i \in found0' + 1 .. Len(found')
      <4>1. CASE i \in found0 + 1 .. Len(found)
        <5>1. /\ found'[i] = found[i] /\ found[i] \in Nat
              /\ segData.begin <= found[i] /\ found[i] < curr
              /\ found[i] < segData.allocated
          BY <3>7, <4>1
        <5>2. found[i] < curr'
          BY <3>5, <5>1
        <5> QED
          BY <3>4, <5>1, <5>2
      <4>2. CASE i = Len(found')
        BY <3>2, <3>4, <3>5, <3>8, <3>9, <3>12, <4>2
      <4> QED
        BY <3>11, <4>1, <4>2
    <3>14. \A i, j \in found0' + 1 .. Len(found') : i < j => found'[i] < found'[j]
      BY <3>2, <3>5, <3>6, <3>7, <3>8, <3>10, <3>11
    <3>15. segData'.begin <= curr'
      BY <3>4, <3>5, <3>6, <3>9
    <3> QED
      BY <3>13, <3>14, <3>15 DEF ScanInv, ScanForward
  <2>4. CASE Start \/ Walk \/ LeaveSegment \/ Finish
    BY <2>4 DEF Start, Walk, LeaveSegment, Finish, enumVars
  <2>5. CASE TargetRuns
    BY <2>5 DEF TargetRuns, Mutate, walkVars, enumVars, ScanInv, ScanForward
  <2>6. CASE UNCHANGED vars
    BY <2>6 DEF vars, walkVars, enumVars, ScanInv, ScanForward
  <2> QED
    BY <2>1, <2>2, <2>3, <2>4, <2>5, <2>6 DEF Next, EnumStep
<1> QED
  BY <1>1, <1>2, Invariance, PTL DEF Spec

(* While a segment is scanned, the objects found in it are at increasing   *)
(* addresses, whatever the target does in between.                         *)
THEOREM ScanForwardCorrect == Spec => []ScanForward
<1>1. ScanInv => ScanForward
  BY DEF ScanInv
<1> QED
  BY <1>1, ScanInvariance, PTL

-----------------------------------------------------------------------------
(***************************************************************************)
(* The scan of a segment finds its objects, all of them and nothing else.  *)
(* This is what a heap that is scanned for objects must look like: a       *)
(* segment begins at a word boundary and holds object after object, each   *)
(* at a word boundary; nothing but an object, or what is inside of one,    *)
(* looks like an object.                                                   *)
(***************************************************************************)
Aligned(a) == \E k \in 0 .. a : a = k * WordSize

Inside(m, t, x) == \E o \in m.objects[t] : o < x /\ x < o + m.size[o]

WellFormed(m, t) ==
  /\ Aligned(m.seg[t].begin)
  /\ \A o \in m.objects[t] :
       /\ Aligned(o) /\ m.seg[t].begin <= o /\ m.size[o] # NoObject
       /\ \A p \in m.objects[t] : o < p => o + m.size[o] <= p
  /\ \A e \in Bound : BoundsOf(m, t, m.seg[t].begin, e) =>
       \A x \in Addr :
         (m.seg[t].begin <= x /\ x < e /\ Aligned(x) /\ m.size[x] # NoObject) =>
            x \in m.objects[t] \/ Inside(m, t, x)

HeapWellFormed ==
  \A m \in Images : m.life = "still" => \A t \in SegIds : WellFormed(m, t)

\* What the scan of the current segment has found, and what is there to find
\* before the address a.
ScanFound == {found[i] : i \in found0 + 1 .. Len(found)}
ObjectsBefore(a) == {o \in mem.objects[seg] : o < a}

ScanExact ==
  (mem.life = "still" /\ epc = "scan") =>
    /\ Aligned(curr)
    /\ ~Inside(mem, seg, curr)
    /\ ScanFound = ObjectsBefore(curr)

StillInv ==
  mem.life = "still" =>
    /\ WalkCurrent
    /\ \A i \in DOMAIN found : found[i] \in ObjectsIn(mem, SegIds)

(* A segment that is scanned to its end has been found whole: the objects  *)
(* found in it are those that lie before its end as it was read.           *)
SegmentsWhole ==
  [][(LeaveSegment /\ mem.life = "still") =>
       ScanFound = ObjectsBefore(segData.allocated)]_vars

(* Nothing is reported that is not an object. *)
OnlyObjects ==
  mem.life = "still" => ToSet(received) \subseteq ObjectsIn(mem, SegIds)

(* Multiples of a word keep their order. *)
LEMMA WordsOrdered ==
  ASSUME NEW i \in Nat, NEW j \in Nat, i <= j
  PROVE  i * WordSize <= j * WordSize
<1>1. WordSize \in Nat
  BY WordAssumption
<1>2. PICK d \in Nat : j = i + d
  <2>1. j - i \in Nat /\ j = i + (j - i)
    OBVIOUS
  <2> QED
    BY <2>1
<1>3. (i + d) * WordSize = i * WordSize + d * WordSize
  BY <1>1
<1>4. d * WordSize \in Nat /\ i * WordSize \in Nat
  BY <1>1
<1> QED
  BY <1>2, <1>3, <1>4

(* There is nothing between a word boundary and the next. *)
LEMMA NextWord ==
  ASSUME NEW a \in Nat, NEW b \in Nat, Aligned(a), Aligned(b), a < b
  PROVE  a + WordSize <= b
<1>1. PICK p \in 0 .. a : a = p * WordSize
  BY DEF Aligned
<1>2. PICK q \in 0 .. b : b = q * WordSize
  BY DEF Aligned
<1>3. WordSize \in Nat /\ p \in Nat /\ q \in Nat
  BY WordAssumption
<1>4. p < q
  <2> SUFFICES ASSUME q <= p
               PROVE  FALSE
    BY <1>3
  <2>1. q * WordSize <= p * WordSize
    BY <1>3, WordsOrdered
  <2> QED
    BY <1>1, <1>2, <2>1
<1>5. (p + 1) * WordSize <= q * WordSize
  BY <1>3, <1>4, WordsOrdered
<1>6. (p + 1) * WordSize = p * WordSize + WordSize
  BY <1>3
<1> QED
  BY <1>1, <1>2, <1>3, <1>5, <1>6

(* A number of words is an aligned address. *)
LEMMA WordsAligned ==
  ASSUME NEW k \in Nat
  PROVE  Aligned(k * WordSize)
<1>1. PICK v \in Nat : WordSize = v + 1
  <2>1. WordSize - 1 \in Nat /\ WordSize = (WordSize - 1) + 1
    BY WordAssumption
  <2> QED
    BY <2>1
<1>2. k * (v + 1) = k * v + k /\ k * v \in Nat
  BY <1>1
<1>3. k \in 0 .. k * WordSize
  BY <1>1, <1>2
<1> QED
  BY <1>3 DEF Aligned

(* Align gives a multiple of the word size.                               *)
LEMMA AlignAligned ==
  ASSUME NEW a \in Nat
  PROVE  Aligned(Align(a))
<1>1. WordSize \in Nat \ {0}
  BY WordAssumption
<1> DEFINE b == a + (WordSize - 1)
<1>2. b \in Nat
  BY <1>1
<1> HIDE DEF b
<1>3. b \div WordSize \in Nat
  BY <1>1, <1>2
<1> QED
  BY <1>3, WordsAligned DEF Align, b

(* Align does not move past a word boundary.                               *)
LEMMA AlignBefore ==
  ASSUME NEW a \in Nat, NEW b \in Nat, Aligned(b), a <= b
  PROVE  Align(a) <= b
<1>1. PICK k \in 0 .. b : b = k * WordSize
  BY DEF Aligned
<1>2. WordSize \in Nat \ {0} /\ k \in Nat
  BY <1>1, WordAssumption
<1> DEFINE c == a + (WordSize - 1)
           q == c \div WordSize
           r == c % WordSize
<1>3. c \in Nat /\ c < b + WordSize /\ q \in Nat
  BY <1>2
<1>4. r \in 0 .. WordSize - 1 /\ c = WordSize * q + r
  BY <1>2, <1>3
<1>5. WordSize * q = q * WordSize /\ q * WordSize \in Nat
  BY <1>2, <1>3
<1> HIDE DEF c, q, r
<1>6. q <= k
  <2> SUFFICES ASSUME k + 1 <= q
               PROVE  FALSE
    BY <1>2, <1>3
  <2>1. (k + 1) * WordSize <= q * WordSize
    BY <1>2, <1>3, WordsOrdered
  <2>2. (k + 1) * WordSize = k * WordSize + WordSize /\ k * WordSize \in Nat
    BY <1>2
  <2> QED
    BY <1>1, <1>2, <1>3, <1>4, <1>5, <2>1, <2>2
<1>7. q * WordSize <= k * WordSize
  BY <1>2, <1>3, <1>6, WordsOrdered
<1> QED
  BY <1>1, <1>7 DEF Align, c, q

(* The word after an aligned address is aligned.                          *)
LEMMA NextAligned ==
  ASSUME NEW a \in Nat, Aligned(a)
  PROVE  Aligned(a + WordSize)
<1>1. PICK k \in 0 .. a : a = k * WordSize
  BY DEF Aligned
<1>2. k + 1 \in Nat /\ WordSize \in Nat
  BY WordAssumption
<1>3. (k + 1) * WordSize = a + WordSize
  BY <1>1, <1>2
<1> QED
  BY <1>2, <1>3, WordsAligned

(* What the proofs below use of the segment that the client is shown. *)
LEMMA Scanned ==
  ASSUME HeapWellFormed, IInv, StillInv, mem.life = "still", wpc = "callback"
  PROVE  /\ seg \in SegIds /\ WellFormed(mem, seg)
         /\ BoundsOf(mem, seg, segData.begin, segData.allocated)
         /\ segData.begin = mem.seg[seg].begin
         /\ segData.begin \in Bound /\ segData.allocated \in Bound
         /\ mem.objects[seg] \subseteq Addr
         /\ \A o \in mem.objects[seg] : mem.size[o] \in Nat \ {0}
<1>1. mem \in Images /\ WalkTypeOK
  BY DEF IInv, TypeOK, WalkTypeOK
<1>2. seg \in SegIds /\ BoundsOf(mem, seg, segData.begin, segData.allocated)
  BY <1>1 DEF StillInv, WalkCurrent
<1>3. WellFormed(mem, seg)
  BY <1>1, <1>2 DEF HeapWellFormed
<1>4. segData.begin \in Bound /\ segData.allocated \in Bound
  BY <1>1, SegmentBounds
<1>5. mem.objects[seg] \subseteq Addr /\ mem.size \in [Addr -> (Nat \ {0}) \cup {NoObject}]
  BY <1>1, <1>2, ImagesAssumption DEF Image
<1>6. \A o \in mem.objects[seg] : mem.size[o] \in Nat \ {0}
  BY <1>3, <1>5 DEF WellFormed
<1> QED
  BY <1>2, <1>3, <1>4, <1>5, <1>6 DEF BoundsOf

(* At a word where no object is the scan passes nothing over. *)
LEMMA SkipExact ==
  ASSUME HeapWellFormed, IInv, StillInv, ScanExact, SkipWord, mem.life = "still"
  PROVE  ScanExact'
<1> DEFINE next == curr + WordSize
<1>1. /\ epc = "scan" /\ wpc = "callback"
      /\ curr' = next /\ mem.size[curr] = NoObject
      /\ UNCHANGED <<mem, walkVars, found, found0>>
  BY DEF SkipWord, IInv, Control
<1>2. /\ WellFormed(mem, seg) /\ mem.objects[seg] \subseteq Addr
      /\ \A o \in mem.objects[seg] : mem.size[o] \in Nat \ {0}
  BY <1>1, Scanned
<1>3. curr \in Nat /\ WordSize \in Nat \ {0} /\ next \in Nat /\ curr < next
  BY WordAssumption DEF IInv, TypeOK
<1>4. Aligned(curr) /\ ~Inside(mem, seg, curr) /\ ScanFound = ObjectsBefore(curr)
  BY <1>1 DEF ScanExact
<1>5. \A o \in mem.objects[seg] : o < next => o < curr
  <2> TAKE o \in mem.objects[seg]
  <2>1. o \in Nat /\ Aligned(o) /\ o # curr
    BY <1>1, <1>2 DEF WellFormed, Addr
  <2>2. curr < o => next <= o
    BY <1>3, <1>4, <2>1, NextWord
  <2> HIDE DEF next
  <2> QED
    BY <1>3, <2>1, <2>2
<1>6. Aligned(next)
  BY <1>3, <1>4, NextAligned
<1> HIDE DEF next
<1>7. ~Inside(mem, seg, next)
  <2> SUFFICES ASSUME NEW o \in mem.objects[seg], o < next, next < o + mem.size[o]
               PROVE  FALSE
    BY DEF Inside
  <2>1. o \in Nat /\ o + mem.size[o] \in Nat
    BY <1>2 DEF Addr
  <2>2. o < curr /\ curr < o + mem.size[o]
    BY <1>3, <1>5, <2>1
  <2> QED
    BY <1>4, <2>2 DEF Inside
<1>8. ObjectsBefore(next) = ObjectsBefore(curr)
  <2>1. \A o \in mem.objects[seg] : o < curr => o < next
    BY <1>2, <1>3 DEF Addr
  <2> QED
    BY <1>5, <2>1 DEF ObjectsBefore
<1>9. ScanFound' = ScanFound /\ ObjectsBefore(next) = {o \in mem'.objects[seg'] : o < next}
  BY <1>1 DEF ScanFound, ObjectsBefore, walkVars
<1> QED
  BY <1>1, <1>4, <1>6, <1>7, <1>8, <1>9 DEF ScanExact, ObjectsBefore, walkVars

(* The object that is found is one of the segment, and there is none up to *)
(* where the scan goes on.                                                 *)
LEMMA VisitExact ==
  ASSUME HeapWellFormed, IInv, ScanInv, StillInv, ScanExact, VisitObject, mem.life = "still"
  PROVE  curr \in mem.objects[seg] /\ ScanExact'
<1> DEFINE next == Align(curr + mem.size[curr])
<1>1. /\ epc = "scan" /\ wpc = "callback"
      /\ curr < segData.allocated /\ mem.size[curr] # NoObject
      /\ found' = Append(found, curr) /\ found0' = found0 /\ curr \in Addr
  BY ScanInHeap DEF VisitObject, IInv, Control
<1>2. /\ seg \in SegIds /\ WellFormed(mem, seg) /\ mem.objects[seg] \subseteq Addr
      /\ BoundsOf(mem, seg, segData.begin, segData.allocated)
      /\ segData.begin = mem.seg[seg].begin /\ segData.allocated \in Bound
      /\ \A o \in mem.objects[seg] : mem.size[o] \in Nat \ {0}
  BY <1>1, Scanned
<1>3. Aligned(curr) /\ ~Inside(mem, seg, curr) /\ ScanFound = ObjectsBefore(curr)
  BY <1>1 DEF ScanExact
<1>4. curr \in mem.objects[seg]
  BY <1>1, <1>2, <1>3 DEF WellFormed, ScanInv
<1>5. /\ curr \in Nat /\ curr + mem.size[curr] \in Nat
      /\ curr < curr + mem.size[curr]
  BY <1>1, <1>2, <1>4 DEF Addr
<1>6. next \in Nat /\ curr + mem.size[curr] <= next /\ curr < next /\ Aligned(next)
  BY <1>5, AlignNat, AlignForward, AlignAligned
<1>7. \A o \in mem.objects[seg] :
        /\ o < curr => o + mem.size[o] <= curr
        /\ curr < o => next <= o
  <2> TAKE o \in mem.objects[seg]
  <2>1. o \in Nat /\ Aligned(o)
    BY <1>2 DEF WellFormed, Addr
  <2>2. /\ o < curr => o + mem.size[o] <= curr
        /\ curr < o => curr + mem.size[curr] <= o
    BY <1>2, <1>4 DEF WellFormed
  <2> QED
    BY <1>5, <2>1, <2>2, AlignBefore
<1> HIDE DEF next
<1>8. ~Inside(mem, seg, next)
  <2> SUFFICES ASSUME NEW o \in mem.objects[seg], o < next, next < o + mem.size[o]
               PROVE  FALSE
    BY DEF Inside
  <2>1. o \in Nat /\ o + mem.size[o] \in Nat
    BY <1>2 DEF Addr
  <2>2. CASE o < curr
    BY <1>5, <1>6, <1>7, <2>1, <2>2
  <2>3. CASE o = curr
    BY <1>5, <1>6, <2>3
  <2>4. CASE curr < o
    BY <1>6, <1>7, <2>1, <2>4
  <2> QED
    BY <1>5, <2>1, <2>2, <2>3, <2>4
<1>9. ObjectsBefore(next) = ObjectsBefore(curr) \cup {curr}
  <2>1. \A o \in mem.objects[seg] : o < next <=> (o < curr \/ o = curr)
    <3> TAKE o \in mem.objects[seg]
    <3>1. o \in Nat
      BY <1>2 DEF Addr
    <3> QED
      BY <1>5, <1>6, <1>7, <3>1
  <2> QED
    BY <1>4, <2>1 DEF ObjectsBefore
<1>10. ScanFound' = ScanFound \cup {curr}
  <2>1. found \in Seq(Addr) /\ found0 \in 0 .. Len(found)
    BY DEF IInv, TypeOK
  <2>2. /\ found0' + 1 .. Len(found') = (found0 + 1 .. Len(found)) \cup {Len(found) + 1}
        /\ \A i \in found0 + 1 .. Len(found) : found'[i] = found[i]
        /\ found'[Len(found) + 1] = curr
    BY <1>1, <2>1
  <2> QED
    BY <2>2 DEF ScanFound
<1>11. epc' = "scan" => curr' = next /\ UNCHANGED <<mem, walkVars>>
  BY DEF VisitObject, next
<1> QED
  BY <1>3, <1>4, <1>6, <1>8, <1>9, <1>10, <1>11 DEF ScanExact, ObjectsBefore, walkVars

(* The scan begins with nothing found, before the first object. *)
LEMMA EnterExact ==
  ASSUME HeapWellFormed, IInv, StillInv, EnterSegment, mem.life = "still"
  PROVE  ScanExact'
<1>1. /\ wpc = "callback" /\ curr' = segData.begin /\ found0' = Len(found)
      /\ UNCHANGED <<mem, walkVars, found>>
  BY DEF EnterSegment
<1>2. /\ WellFormed(mem, seg) /\ segData.begin = mem.seg[seg].begin
      /\ segData.begin \in Nat /\ mem.objects[seg] \subseteq Nat
  BY <1>1, Scanned DEF Bound, Addr
<1>3. \A o \in mem.objects[seg] : ~(o < segData.begin)
  BY <1>2 DEF WellFormed
<1>4. /\ Aligned(segData.begin) /\ ~Inside(mem, seg, segData.begin)
      /\ ObjectsBefore(segData.begin) = {}
  BY <1>2, <1>3 DEF WellFormed, Inside, ObjectsBefore
<1>5. ScanFound' = {}
  <2>1. Len(found) \in Nat
    BY DEF IInv, TypeOK
  <2> QED
    BY <1>1, <2>1 DEF ScanFound
<1> QED
  BY <1>1, <1>4, <1>5 DEF ScanExact, ObjectsBefore, walkVars

(* In a dump every step keeps the scan exact: what has been found of a    *)
(* segment is its objects below the address reached.                      *)
LEMMA NextExact ==
  ASSUME StillStays, HeapWellFormed, IInv, ScanInv, StillInv, ScanExact, [Next]_vars
  PROVE  StillInv' /\ ScanExact'
<1>1. CASE TargetRuns
  BY <1>1, MutateLive DEF TargetRuns, StillInv, ScanExact
<1>2. CASE ~TargetRuns /\ mem.life # "still"
  <2>1. mem' = mem
    BY <1>2 DEF Next, EnumStep, Start, Walk, WalkStep, BeginWalk, ListHeaps, NextHeap,
                NoMoreHeaps, ReadSegment, SegmentUnreadable, EndOfHeap, EnterSegment, SkipWord,
                VisitObject, AbortWalk, LeaveSegment, ResumeWalk, Finish, vars
  <2> QED
    BY <1>2, <2>1 DEF StillInv, ScanExact
<1>3. CASE VisitObject /\ mem.life = "still"
  <2>1. curr \in mem.objects[seg] /\ ScanExact'
    BY <1>3, VisitExact
  <2>2. seg \in SegIds
    BY <1>3, Scanned DEF VisitObject, IInv, Control
  <2>3. mem' = mem /\ WalkCurrent'
    <3>1. mem' = mem /\ (UNCHANGED walkVars \/ AbortWalk)
      BY <1>3 DEF VisitObject, AbortWalk
    <3> QED
      BY <1>3, <3>1, CallbackKeepsCurrent DEF StillInv, WalkCurrent, walkVars
  <2>4. \A i \in DOMAIN found' : found'[i] \in ObjectsIn(mem, SegIds)
    <3>1. found' = Append(found, curr) /\ found \in Seq(Addr)
      BY <1>3 DEF VisitObject, IInv, TypeOK
    <3>2. curr \in ObjectsIn(mem, SegIds)
      BY <2>1, <2>2 DEF ObjectsIn
    <3>3. ASSUME NEW i \in DOMAIN found'
          PROVE  found'[i] \in ObjectsIn(mem, SegIds)
      <4>1. CASE i \in DOMAIN found
        <5>1. found'[i] = found[i]
          BY <3>1, <4>1
        <5> QED
          BY <1>3, <4>1, <5>1 DEF StillInv
      <4>2. CASE i = Len(found) + 1
        <5>1. found'[i] = curr
          BY <3>1, <4>2
        <5> QED
          BY <3>2, <5>1
      <4>3. i \in DOMAIN found \/ i = Len(found) + 1
        BY <3>1
      <4> QED
        BY <4>1, <4>2, <4>3
    <3> QED
      BY <3>3
  <2> QED
    BY <2>1, <2>3, <2>4 DEF StillInv
<1>4. CASE EnterSegment /\ mem.life = "still"
  BY <1>4, EnterExact DEF EnterSegment, StillInv, WalkCurrent, walkVars
<1>5. CASE SkipWord /\ mem.life = "still"
  BY <1>5, SkipExact DEF SkipWord, StillInv, WalkCurrent, walkVars
<1>6. CASE Walk /\ mem.life = "still"
  <2>1. mem' = mem /\ found' = found /\ epc' = "walk"
    BY <1>6 DEF Walk, enumVars, WalkStep, BeginWalk, ListHeaps, NextHeap, NoMoreHeaps,
                ReadSegment, SegmentUnreadable, EndOfHeap
  <2>2. WalkCurrent'
    BY <1>6, WalkKeepsCurrent DEF Walk, StillInv, IInv, TypeOK
  <2> QED
    BY <1>6, <2>1, <2>2 DEF StillInv, ScanExact
<1>7. CASE LeaveSegment /\ mem.life = "still"
  <2>1. mem' = mem /\ found' = found /\ epc' = "walk" /\ ResumeWalk
    BY <1>7 DEF LeaveSegment, ResumeWalk
  <2>2. WalkCurrent'
    BY <1>7, <2>1, CallbackKeepsCurrent DEF StillInv
  <2> QED
    BY <1>7, <2>1, <2>2 DEF StillInv, ScanExact
<1>8. CASE (Start \/ Finish) /\ mem.life = "still"
  BY <1>8 DEF Start, Finish, StillInv, ScanExact, WalkCurrent, walkVars
<1>9. CASE UNCHANGED vars /\ mem.life = "still"
  BY <1>9 DEF vars, walkVars, enumVars, StillInv, ScanExact, WalkCurrent, ScanFound, ObjectsBefore
<1> QED
  BY <1>1, <1>2, <1>3, <1>4, <1>5, <1>6, <1>7, <1>8, <1>9 DEF Next, EnumStep

(* In a dump the scan of every segment is exact, throughout.              *)
LEMMA ExactInvariance ==
  ASSUME StillStays, HeapWellFormed
  PROVE  Spec => [](IInv /\ ScanInv /\ StillInv /\ ScanExact)
<1>1. Init => StillInv /\ ScanExact
  <2> SUFFICES ASSUME Init
               PROVE  StillInv /\ ScanExact
    OBVIOUS
  <2>1. found = <<>> /\ epc = "start" /\ wpc = "begin" /\ gcs = NoDetails
    BY DEF Init, WalkInit
  <2> QED
    BY <2>1 DEF StillInv, ScanExact, WalkCurrent
<1>2. IInv /\ ScanInv /\ StillInv /\ ScanExact /\ [Next]_vars => StillInv' /\ ScanExact'
  BY NextExact
<1> QED
  BY <1>1, <1>2, Invariance, ScanInvariance, PTL DEF Spec

(* In a dump, a segment that is scanned to its end has been found whole.   *)
THEOREM SegmentsFoundWhole ==
  ASSUME StillStays, HeapWellFormed
  PROVE  Spec => SegmentsWhole
<1>1. ASSUME IInv, ScanInv, StillInv, ScanExact, LeaveSegment, mem.life = "still"
      PROVE  ScanFound = ObjectsBefore(segData.allocated)
  <2> USE <1>1
  <2>1. /\ epc = "scan" /\ curr >= segData.allocated /\ wpc = "callback"
        /\ curr \in Nat
    BY DEF LeaveSegment, IInv, Control, TypeOK
  <2>2. /\ segData.allocated \in Nat /\ mem.objects[seg] \subseteq Nat
    BY <2>1, Scanned DEF Bound, Addr
  <2>3. ScanFound = ObjectsBefore(curr)
    BY <2>1 DEF ScanExact
  <2>4. \A o \in ScanFound : o < segData.allocated
    BY <2>1 DEF ScanFound, ScanInv, ScanForward
  <2>5. \A o \in mem.objects[seg] : o < segData.allocated => o < curr
    BY <2>1, <2>2
  <2> QED
    BY <2>3, <2>4, <2>5 DEF ObjectsBefore
<1>2. IInv /\ ScanInv /\ StillInv /\ ScanExact /\ [Next]_vars =>
        [(LeaveSegment /\ mem.life = "still") =>
           ScanFound = ObjectsBefore(segData.allocated)]_vars
  BY <1>1
<1> QED
  BY <1>2, ExactInvariance, PTL DEF Spec, SegmentsWhole

(* In a dump, only objects are reported. *)
THEOREM OnlyObjectsReported ==
  ASSUME StillStays, HeapWellFormed
  PROVE  Spec => []OnlyObjects
<1>1. ASSUME IInv, StillInv
      PROVE  OnlyObjects
  <2> SUFFICES ASSUME mem.life = "still", NEW o \in ToSet(received)
               PROVE  o \in ObjectsIn(mem, SegIds)
    BY DEF OnlyObjects
  <2>1. received \in Seq(Addr) /\ buffer \in Seq(Addr) /\ found \in Seq(Addr)
    BY <1>1 DEF IInv, TypeOK, CallbackTypeOK
  <2>2. PICK i \in DOMAIN received : o = received[i]
    BY DEF ToSet
  <2>3. i \in DOMAIN found /\ found[i] = received[i]
    BY <1>1, <2>1 DEF IInv, Delivery
  <2> QED
    BY <1>1, <2>2, <2>3 DEF StillInv
<1> QED
  BY <1>1, ExactInvariance, PTL

-----------------------------------------------------------------------------
(***************************************************************************)
(* A successful enumeration of a dump that was not stopped reports all of  *)
(* the heap that can be read, and each object once.  The scan finds what   *)
(* the segments hold that the walk has shown, and the walk shows them all. *)
(***************************************************************************)

\* What was found before the scan of the current segment began.
FoundBefore == {found[i] : i \in 1 .. found0}

Complete ==
  (mem.life = "still" /\ ~stopped) =>
     \E V \in SUBSET SegIds :
        /\ Shown(V)
        /\ epc = "scan" => FoundBefore = ObjectsIn(mem, V)
        /\ epc # "scan" => ToSet(found) = ObjectsIn(mem, V)

Once ==
  (mem.life = "still" /\ ~stopped) =>
     \A i, j \in 1 .. Len(found) : i < j => found[i] # found[j]

\* Where nothing is hidden, every object is in a segment of the only heap.
AllLinked ==
  \A m \in Images : (m.life = "still" /\ ~m.server) =>
    LET h == m.heap[m.heaps[1]]
        lists == SegmentList(m, h.gen2) \cup SegmentList(m, h.gen3)
    IN  /\ h.gen2 # Null
        /\ (\A t \in lists : m.seg[t].ok) => \A t \in SegIds \ lists : m.objects[t] = {}

(* The objects of one segment more.                                       *)
LEMMA ObjectsOfMore ==
  ASSUME NEW m, NEW V, NEW t
  PROVE  ObjectsIn(m, V \cup {t}) = ObjectsIn(m, V) \cup m.objects[t]
BY DEF ObjectsIn

\* All that was found is what was found before and in the current segment.
LEMMA AllFound ==
  ASSUME TypeOK
  PROVE  ToSet(found) = FoundBefore \cup ScanFound
<1>1. found \in Seq(Addr) /\ found0 \in 0 .. Len(found)
  BY DEF TypeOK
<1>2. 1 .. Len(found) = (1 .. found0) \cup (found0 + 1 .. Len(found))
  BY <1>1
<1>3. DOMAIN found = 1 .. Len(found)
  BY <1>1
<1> QED
  BY <1>2, <1>3 DEF ToSet, FoundBefore, ScanFound

(* A segment that is scanned to its end has been found whole.              *)
LEMMA FoundWhole ==
  ASSUME HeapWellFormed, ObjectsBounded, IInv, ScanInv, StillInv, ScanExact,
         LeaveSegment, mem.life = "still", NEW V, Shown(V)
  PROVE  seg \in SegIds /\ ScanFound = mem.objects[seg]
<1>1. /\ epc = "scan" /\ curr >= segData.allocated /\ wpc = "callback" /\ curr \in Nat
      /\ mem \in Images /\ WalkTypeOK
  BY DEF LeaveSegment, IInv, Control, TypeOK, WalkTypeOK
<1>2. segData.allocated \in Nat /\ mem.objects[seg] \subseteq Nat
  BY <1>1, Scanned DEF Bound, Addr
<1>3. ScanFound = ObjectsBefore(curr)
  BY <1>1 DEF ScanExact
<1>4. seg \in SegIds /\ \A o \in mem.objects[seg] : o < segData.allocated
  BY <1>1, ShownMember DEF ObjectsBounded
<1>5. \A o \in mem.objects[seg] : o < curr
  BY <1>1, <1>2, <1>4
<1> QED
  BY <1>3, <1>4, <1>5 DEF ObjectsBefore

(* The walk, the client's turn, and the wrapper keep Complete.             *)
LEMMA NextComplete ==
  ASSUME StillStays, HeapWellFormed, OneHeap, ObjectsBounded,
         IInv, ScanInv, StillInv, ScanExact, Complete, [Next]_vars
  PROVE  Complete'
<1> SUFFICES ASSUME mem'.life = "still", ~stopped'
             PROVE  Complete'
  BY DEF Complete
<1>1. CASE TargetRuns
  BY <1>1, MutateLive DEF TargetRuns
<1>2. CASE ~TargetRuns
  <2>1. mem' = mem /\ mem.life = "still" /\ mem \in Images /\ WalkTypeOK
    BY <1>2 DEF Next, EnumStep, Start, Walk, WalkStep, BeginWalk, ListHeaps, NextHeap,
                NoMoreHeaps, ReadSegment, SegmentUnreadable, EndOfHeap, EnterSegment, SkipWord,
                VisitObject, AbortWalk, LeaveSegment, ResumeWalk, Finish, vars, IInv, TypeOK,
                WalkTypeOK
  <2>2. CASE Walk
    <3>1. WalkStep /\ UNCHANGED <<epc, found, found0, stopped>> /\ epc = "walk"
      BY <2>2 DEF Walk, callbackVars, enumVars
    <3>2. PICK V \in SUBSET SegIds : Shown(V) /\ ToSet(found) = ObjectsIn(mem, V)
      BY <2>1, <3>1 DEF Complete
    <3>3. Shown(V)'
      BY <2>1, <3>1, <3>2, ShownStep
    <3> QED
      BY <2>1, <3>1, <3>2, <3>3 DEF Complete
  <2>3. CASE LeaveSegment
    <3>1. /\ epc = "scan" /\ epc' = "walk" /\ wpc = "callback" /\ ResumeWalk
          /\ UNCHANGED <<found, stopped>>
      BY <2>3 DEF LeaveSegment, ResumeWalk, callbackVars
    <3>2. PICK V \in SUBSET SegIds : Shown(V) /\ FoundBefore = ObjectsIn(mem, V)
      BY <2>1, <3>1 DEF Complete
    <3>3. seg \in SegIds /\ ScanFound = mem.objects[seg]
      BY <2>1, <2>3, <3>2, FoundWhole
    <3>4. PICK X \in SUBSET SegIds : X = V \cup {seg}
      BY <3>3
    <3>5. Shown(X)'
      BY <2>1, <3>1, <3>2, <3>4, ShownGoesOn
    <3>6. ToSet(found) = ObjectsIn(mem, X)
      BY <3>2, <3>3, <3>4, AllFound, ObjectsOfMore DEF IInv
    <3> QED
      BY <2>1, <3>1, <3>5, <3>6 DEF Complete
  <2>4. CASE VisitObject
    <3>1. /\ epc = "scan" /\ found' = Append(found, curr) /\ found0' = found0
          /\ curr \in Addr
      BY <2>4, ScanInHeap DEF VisitObject, IInv
    <3>2. PICK reply \in BOOLEAN :
            /\ Wrap(curr, reply)
            /\ reply => UNCHANGED <<walkVars, epc>>
            /\ ~reply => AbortWalk
      BY <2>4 DEF VisitObject
    <3>3. stopped' = (stopped \/ ~reply)
      BY <3>1, <3>2, WrapEffect DEF IInv, TypeOK
    <3>4. reply /\ ~stopped
      BY <3>3
    <3>5. UNCHANGED <<walkVars, epc>>
      BY <3>2, <3>4
    <3>6. PICK V \in SUBSET SegIds : Shown(V) /\ FoundBefore = ObjectsIn(mem, V)
      BY <2>1, <3>1, <3>4 DEF Complete
    <3>7. FoundBefore' = FoundBefore
      <4>1. found \in Seq(Addr) /\ found0 \in 0 .. Len(found)
        BY DEF IInv, TypeOK
      <4>2. \A i \in 1 .. found0 : found'[i] = found[i]
        BY <3>1, <4>1
      <4> QED
        BY <3>1, <4>2 DEF FoundBefore
    <3>8. Shown(V)'
      BY <2>1, <3>5, <3>6, ShownStays DEF walkVars
    <3> QED
      BY <2>1, <3>1, <3>5, <3>6, <3>7, <3>8 DEF Complete
  <2>5. CASE Start \/ EnterSegment \/ SkipWord \/ Finish \/ UNCHANGED vars
    <3>1. \/ UNCHANGED <<walkVars, found>> /\ epc' # "scan"
          \/ EnterSegment \/ SkipWord \/ UNCHANGED vars
      BY <2>5 DEF Start, Finish
    <3>2. UNCHANGED <<walkVars, found>>
      BY <2>5 DEF Start, Finish, EnterSegment, SkipWord, vars, enumVars
    <3>3. ~stopped
      <4>1. CASE Finish
        <5>1. stopped => buffer = <<>>
          BY <4>1 DEF Finish, IInv, Control
        <5>2. UNCHANGED callbackVars \/ (stopped => stopped')
          BY <4>1, <5>1, FlushEffect DEF Finish, IInv, TypeOK
        <5> QED
          BY <5>2 DEF callbackVars
      <4> QED
        BY <2>5, <4>1 DEF Start, EnterSegment, SkipWord, vars, callbackVars
    <3>4. PICK V \in SUBSET SegIds :
            /\ Shown(V)
            /\ epc = "scan" => FoundBefore = ObjectsIn(mem, V)
            /\ epc # "scan" => ToSet(found) = ObjectsIn(mem, V)
      BY <2>1, <3>3 DEF Complete
    <3>5. Shown(V)'
      BY <2>1, <3>2, <3>4, ShownStays
    <3>6. CASE EnterSegment
      <4>1. epc # "scan" /\ epc' = "scan" /\ found0' = Len(found)
        BY <3>6 DEF EnterSegment
      <4>2. FoundBefore' = ToSet(found)
        <5>1. DOMAIN found = 1 .. Len(found)
          BY DEF IInv, TypeOK
        <5> QED
          BY <3>2, <4>1, <5>1 DEF FoundBefore, ToSet
      <4> QED
        BY <2>1, <3>4, <3>5, <4>1, <4>2 DEF Complete
    <3>7. CASE SkipWord \/ UNCHANGED vars
      <4>1. UNCHANGED <<epc, found0>>
        BY <3>7 DEF SkipWord, vars, enumVars
      <4> QED
        BY <2>1, <3>2, <3>4, <3>5, <4>1 DEF Complete, FoundBefore
    <3>8. CASE Start \/ Finish
      <4>1. epc # "scan" /\ epc' # "scan"
        BY <3>8 DEF Start, Finish
      <4> QED
        BY <2>1, <3>2, <3>4, <3>5, <4>1 DEF Complete
    <3> QED
      BY <2>5, <3>6, <3>7, <3>8
  <2> QED
    BY <1>2, <2>2, <2>3, <2>4, <2>5 DEF Next, EnumStep
<1> QED
  BY <1>1, <1>2

(* No object is found twice when no segment is shown twice. *)
LEMMA NextOnce ==
  ASSUME StillStays, HeapWellFormed, ListsApart,
         IInv, ScanInv, StillInv, ScanExact, Complete, Once, [Next]_vars
  PROVE  Once'
<1> SUFFICES ASSUME mem'.life = "still", ~stopped'
             PROVE  \A i, j \in 1 .. Len(found') : i < j => found'[i] # found'[j]
  BY DEF Once
<1>1. CASE TargetRuns
  BY <1>1, MutateLive DEF TargetRuns
<1>2. CASE VisitObject
  <2> mem' = mem
    BY <1>2 DEF VisitObject, AbortWalk
  <2>1. /\ epc = "scan" /\ wpc = "callback" /\ mem.life = "still" /\ mem \in Images
        /\ found' = Append(found, curr) /\ curr \in Addr /\ WalkTypeOK
    BY <1>2, ScanInHeap DEF VisitObject, IInv, Control, TypeOK, WalkTypeOK
  <2>2. ~stopped
    BY <1>2, <2>1, WrapEffect DEF VisitObject, IInv, TypeOK
  <2>3. PICK V \in SUBSET SegIds : Shown(V) /\ FoundBefore = ObjectsIn(mem, V)
    BY <2>1, <2>2 DEF Complete
  <2>4. seg \notin V /\ seg \in SegIds
    BY <2>1, <2>3, ShownOnce, ShownMember
  <2>5. curr \in mem.objects[seg]
    BY <1>2, <2>1, VisitExact
  <2>6. curr \notin FoundBefore
    <3>1. \A t \in V : mem.objects[t] \cap mem.objects[seg] = {}
      BY <2>1, <2>4 DEF ListsApart
    <3> QED
      BY <2>3, <2>5, <3>1 DEF ObjectsIn
  <2>7. found \in Seq(Addr) /\ found0 \in 0 .. Len(found)
    BY DEF IInv, TypeOK
  <2>8. \A i \in found0 + 1 .. Len(found) : found[i] < curr
    BY <2>1 DEF ScanInv, ScanForward
  <2>9. \A i \in 1 .. Len(found) : found[i] # curr
    <3> TAKE i \in 1 .. Len(found)
    <3>1. CASE i <= found0
      BY <2>6, <2>7, <3>1 DEF FoundBefore
    <3>2. CASE i > found0
      <4>1. i \in found0 + 1 .. Len(found)
        <5>1. Len(found) \in Nat /\ found0 \in Nat /\ i \in Nat /\ i <= Len(found)
          BY <2>7
        <5> QED
          BY <3>2, <5>1
      <4>2. found[i] \in Addr /\ Addr \subseteq Nat
        BY <2>7, ImagesAssumption DEF Addr
      <4> QED
        BY <2>1, <2>8, <4>1, <4>2
    <3> QED
      BY <2>7, <3>1, <3>2
  <2>10. \A i, j \in 1 .. Len(found) : i < j => found[i] # found[j]
    BY <2>1, <2>2 DEF Once
  <2>11. /\ Len(found') = Len(found) + 1 /\ found'[Len(found) + 1] = curr
         /\ \A i \in 1 .. Len(found) : found'[i] = found[i]
    BY <2>1, <2>7
  <2> QED
    BY <2>7, <2>9, <2>10, <2>11
<1>3. CASE ~TargetRuns /\ ~VisitObject
  <2>1. mem' = mem /\ found' = found
    BY <1>3 DEF Next, EnumStep, Start, Walk, WalkStep, BeginWalk, ListHeaps, NextHeap,
                NoMoreHeaps, ReadSegment, SegmentUnreadable, EndOfHeap, EnterSegment, SkipWord,
                LeaveSegment, ResumeWalk, Finish, vars, enumVars
  <2>2. ~stopped
    <3>1. CASE Finish
      <4>1. stopped => buffer = <<>>
        BY <3>1 DEF Finish, IInv, Control
      <4>2. UNCHANGED callbackVars \/ (stopped => stopped')
        BY <3>1, <4>1, FlushEffect DEF Finish, IInv, TypeOK
      <4> QED
        BY <4>2 DEF callbackVars
    <3> QED
      BY <1>3, <3>1 DEF Next, EnumStep, Start, Walk, EnterSegment, SkipWord, LeaveSegment,
                        vars, callbackVars
  <2> QED
    BY <2>1, <2>2 DEF Once
<1> QED
  BY <1>1, <1>2, <1>3

StillWhole == mem.life = "still" => WholeWalk

(* In a dump of one heap every step keeps what was found equal to the     *)
(* objects of the segments shown.                                         *)
LEMMA NextWhole ==
  ASSUME StillStays, OneHeap, IInv, Complete, StillWhole, [Next]_vars
  PROVE  StillWhole'
<1> SUFFICES ASSUME mem'.life = "still"
             PROVE  WholeWalk'
  BY DEF StillWhole
<1>1. CASE TargetRuns
  BY <1>1, MutateLive DEF TargetRuns
<1>2. CASE Walk
  <2>1. /\ WalkStep /\ mem' = mem /\ epc = "walk"
    BY <1>2 DEF Walk, WalkStep, BeginWalk, ListHeaps, NextHeap, NoMoreHeaps, ReadSegment,
                SegmentUnreadable, EndOfHeap
  <2>2. ~stopped
    BY <2>1, WalkStepEffect DEF IInv, Control
  <2>3. PICK V \in SUBSET SegIds : Shown(V)
    BY <2>1, <2>2 DEF Complete
  <2> QED
    BY <2>1, <2>3, WholeStep DEF IInv, TypeOK, StillWhole
<1>3. CASE LeaveSegment \/ VisitObject
  <2>1. /\ mem' = mem /\ wpc = "callback"
        /\ UNCHANGED walkVars \/ (wpc' \in {"segment", "returned"} /\ server' = server
                                  /\ (wpc' = "returned" => whr' = "S_FALSE"))
    BY <1>3 DEF LeaveSegment, ResumeWalk, VisitObject, AbortWalk, WalkReturn, IInv, Control
  <2> QED
    BY <2>1 DEF StillWhole, WholeWalk, WholeHeap, walkVars
<1>4. CASE Start \/ EnterSegment \/ SkipWord \/ Finish \/ UNCHANGED vars
  <2>1. mem' = mem /\ UNCHANGED walkVars
    BY <1>4 DEF Start, EnterSegment, SkipWord, Finish, vars
  <2> QED
    BY <2>1 DEF StillWhole, WholeWalk, WholeHeap, walkVars
<1> QED
  BY <1>1, <1>2, <1>3, <1>4 DEF Next, EnumStep

(* What the theorem needs a dump to be. *)
DumpAssumption ==
  StillStays /\ HeapWellFormed /\ OneHeap /\ ObjectsBounded /\ ListsApart /\ AllLinked

(* In a dump the walk is complete and shows every segment once, and what  *)
(* was found follows it, throughout.                                      *)
LEMMA CompleteInvariance ==
  ASSUME DumpAssumption
  PROVE  Spec => [](IInv /\ Complete /\ Once /\ StillWhole)
<1> USE DEF DumpAssumption
<1>1. Init => Complete /\ Once /\ StillWhole
  <2> SUFFICES ASSUME Init
               PROVE  Complete /\ Once /\ StillWhole
    OBVIOUS
  <2>1. found = <<>> /\ epc = "start" /\ wpc = "begin"
    BY DEF Init, WalkInit
  <2>2. Shown({}) /\ ToSet(found) = {} /\ ObjectsIn(mem, {}) = {}
    BY <2>1, ShownInit DEF Init, ToSet, ObjectsIn
  <2>3. Complete
    BY <2>1, <2>2 DEF Complete
  <2> QED
    BY <2>1, <2>3 DEF Once, StillWhole, WholeWalk
<1>2. IInv /\ ScanInv /\ StillInv /\ ScanExact /\ Complete /\ Once /\ StillWhole /\ [Next]_vars
        => Complete' /\ Once' /\ StillWhole'
  BY NextComplete, NextOnce, NextWhole
<1> QED
  BY <1>1, <1>2, ExactInvariance, PTL DEF Spec

(* A heap of which nothing is hidden holds every object. *)
LEMMA WholeHeapHoldsAll ==
  ASSUME OneHeap, AllLinked, TypeOK, mem.life = "still", ~mem.server,
         WholeHeap(mem.heaps[1])
  PROVE  Expected(mem) = ObjectsIn(mem, SegIds)
<1> DEFINE h == mem.heap[mem.heaps[1]]
           lists == SegmentList(mem, h.gen2) \cup SegmentList(mem, h.gen3)
<1>1. /\ mem \in Images /\ Len(mem.heaps) = 1
  BY DEF OneHeap, TypeOK, WalkTypeOK
<1>2. /\ h.gen2 # Null
      /\ (\A t \in lists : mem.seg[t].ok) => \A t \in SegIds \ lists : mem.objects[t] = {}
  BY <1>1 DEF AllLinked
<1>3. SegmentsOfHeap(mem, mem.heaps[1]) = lists
  BY <1>2 DEF WholeHeap
<1>4. \A t \in SegmentsOfHeap(mem, mem.heaps[1]) : mem.seg[t].ok
  BY DEF SegmentsOfHeap
<1>5. lists \subseteq SegIds
  BY DEF SegmentList
<1>6. UNION {SegmentsOfHeap(mem, mem.heaps[i]) : i \in 1 .. Len(mem.heaps)} = lists
  <2>1. 1 .. Len(mem.heaps) = {1}
    BY <1>1
  <2> HIDE DEF lists
  <2> QED
    BY <1>3, <2>1
<1>7. \A t \in SegIds \ lists : mem.objects[t] = {}
  BY <1>2, <1>3, <1>4
<1> HIDE DEF lists, h
<1>8. ObjectsIn(mem, lists) = ObjectsIn(mem, SegIds)
  BY <1>5, <1>7 DEF ObjectsIn
<1> QED
  BY <1>6, <1>8 DEF Expected

(* EnumHeapObjects reports the whole heap of a dump, each object once.     *)
THEOREM DumpReported ==
  ASSUME DumpAssumption
  PROVE  Spec => []ReportsADump
<1>1. ASSUME IInv, Complete, Once, StillWhole, result = "S_OK", ~stopped, mem.life = "still"
      PROVE  /\ ToSet(received) = Expected(mem)
             /\ Len(received) = Cardinality(Expected(mem))
             /\ ~mem.server => Expected(mem) = ObjectsIn(mem, SegIds)
  <2> USE <1>1
  <2>1. received = found /\ epc = "returned" /\ found \in Seq(Addr)
    BY DEF IInv, Delivery, Control, TypeOK
  <2>2. wpc = "returned" /\ whr = "S_OK"
    BY DEF IInv, Control, TypeOK, WalkTypeOK
  <2>3. PICK V \in SUBSET SegIds : Shown(V) /\ ToSet(found) = ObjectsIn(mem, V)
    BY <2>1 DEF Complete
  <2>4. ToSet(found) = Expected(mem)
    BY <2>2, <2>3 DEF Shown, SegmentsOfFirst, Expected
  <2>5. Len(found) = Cardinality(ToSet(found))
    <3>1. found \in [1 .. Len(found) -> ToSet(found)]
      BY <2>1 DEF ToSet
    <3>2. \A t \in ToSet(found) : \E i \in 1 .. Len(found) : found[i] = t
      BY <2>1 DEF ToSet
    <3>3. \A i, j \in 1 .. Len(found) : found[i] = found[j] => i = j
      <4>1. \A i, j \in 1 .. Len(found) : i < j \/ j < i \/ i = j
        BY <2>1
      <4> QED
        BY <4>1 DEF Once
    <3>4. found \in Bijection(1 .. Len(found), ToSet(found))
      BY <3>1, <3>2, <3>3 DEF Bijection, Injection, Surjection, IsInjective
    <3>5. ExistsBijection(1 .. Len(found), ToSet(found)) /\ Len(found) \in Nat
      BY <2>1, <3>4 DEF ExistsBijection
    <3> QED
      BY <3>5, FS_CountingElements
  <2>6. ~mem.server => Expected(mem) = ObjectsIn(mem, SegIds)
    BY <2>2, WholeHeapHoldsAll DEF StillWhole, WholeWalk, DumpAssumption, IInv
  <2> QED
    BY <2>1, <2>4, <2>5, <2>6
<1>2. IInv /\ Complete /\ Once /\ StillWhole => ReportsADump
  BY <1>1 DEF ReportsADump
<1> QED
  BY <1>2, CompleteInvariance, PTL
-----------------------------------------------------------------------------
(***************************************************************************)
(* A target that allocates meanwhile.  What lasts, from its first state on,*)
(* is found although other objects are written, next to it, while the scan *)
(* is under way: the scan stays at word boundaries and outside of what     *)
(* lasts, and does not jump over any of it.                                *)
(***************************************************************************)

\* Objects that last begin at a word boundary, in the segment, before its end.
LastingFormed(g) ==
  \A t \in SegIds :
    /\ Aligned(g.seg[t].begin)
    /\ \A o \in g.objects[t] :
         /\ Aligned(o) /\ g.seg[t].begin <= o /\ g.size[o] # NoObject
         /\ o < EndIn(g, g.heaps[1], t)

\* Whatever looks like an object outside of one that lasts, as that one itself
\* does, ends before the next one that lasts.
LastingApart(g) ==
  \A m \in Images : m.life = "growing" =>
    \A t \in SegIds : \A x \in Addr :
      (/\ g.seg[t].begin <= x /\ Aligned(x)
       /\ m.size[x] # NoObject /\ ~Inside(g, t, x)) =>
         \A o \in g.objects[t] : x < o => x + m.size[x] <= o

First(g) ==
  /\ g \in Images /\ g.life = "growing" /\ FirstOfGrowth(g)
  /\ LastingFormed(g) /\ LastingApart(g)

GrowthAssumption ==
  /\ GrowthStays
  /\ (\E m \in Images : m.life = "growing") => \E g \in Images : First(g)

ScanKeeps(g) ==
  /\ Aligned(curr)
  /\ ~Inside(g, seg, curr)
  /\ \A o \in g.objects[seg] : o < curr => o \in ScanFound

Keeps(g) ==
  (mem.life = "growing" /\ ~stopped) =>
     \E V \in SUBSET SegIds :
        /\ Kept(g, V)
        /\ epc = "scan" => ObjectsIn(g, V) \subseteq FoundBefore /\ ScanKeeps(g)
        /\ epc # "scan" => ObjectsIn(g, V) \subseteq ToSet(found)

(* What the proofs below use of the segment that is scanned. *)
LEMMA LastingObjects ==
  ASSUME NEW g, First(g), IInv, mem.life = "growing", NEW V, Kept(g, V), wpc = "callback"
  PROVE  /\ mem \in Images /\ mem \in Image /\ Extends(g, mem) /\ g \in Image
         /\ seg \in SegIds /\ segData.begin = g.seg[seg].begin
         /\ segData.begin \in Nat /\ segData.allocated \in Nat
         /\ \A o \in g.objects[seg] :
              /\ o \in Nat /\ Aligned(o) /\ segData.begin <= o /\ o < segData.allocated
              /\ g.size[o] \in Nat \ {0} /\ mem.size[o] = g.size[o]
              /\ o + g.size[o] \in Nat
<1>1. mem \in Images /\ mem \in Image /\ WalkTypeOK /\ g \in Image /\ g \in Images
  BY ImagesAssumption DEF IInv, TypeOK, WalkTypeOK, First
<1>2. Extends(g, mem) /\ Len(g.heaps) = 1
  BY <1>1 DEF First, FirstOfGrowth, Extends
<1>3. /\ seg \in SegIds /\ segData.begin = g.seg[seg].begin
      /\ EndIn(g, g.heaps[1], seg) <= segData.allocated
  BY DEF Kept
<1>4. segData.begin \in Nat /\ segData.allocated \in Nat
  BY <1>1, SegmentBounds DEF Bound
<1>5. EndIn(g, g.heaps[1], seg) \in Nat
  BY <1>1, <1>2, <1>3, FirstHeap DEF EndIn, Image, HeapDetails, SegmentInfo, Bound
<1>6. g.objects[seg] \subseteq Addr /\ g.size \in [Addr -> (Nat \ {0}) \cup {NoObject}]
  BY <1>1, <1>3 DEF Image
<1>7. ASSUME NEW o \in g.objects[seg]
      PROVE  /\ o \in Nat /\ Aligned(o) /\ segData.begin <= o /\ o < segData.allocated
             /\ g.size[o] \in Nat \ {0} /\ mem.size[o] = g.size[o]
             /\ o + g.size[o] \in Nat
  <2>1. /\ Aligned(o) /\ g.seg[seg].begin <= o /\ g.size[o] # NoObject
        /\ o < EndIn(g, g.heaps[1], seg)
    BY <1>3 DEF First, LastingFormed
  <2>2. o \in Nat /\ g.size[o] \in Nat \ {0}
    BY <1>6, <2>1, ImagesAssumption DEF Addr
  <2>3. mem.size[o] = g.size[o]
    BY <1>2, <1>3 DEF Extends
  <2>4. o + g.size[o] \in Nat
    BY <2>2
  <2>5. o < segData.allocated
    BY <1>3, <1>4, <1>5, <2>1, <2>2
  <2> QED
    BY <1>3, <2>1, <2>2, <2>3, <2>4, <2>5
<1> QED
  BY <1>1, <1>2, <1>3, <1>4, <1>7

(* A word without an object is none that lasts. *)
LEMMA SkipKeeps ==
  ASSUME NEW g, First(g), IInv, mem.life = "growing", NEW V, Kept(g, V), SkipWord, ScanKeeps(g)
  PROVE  ScanKeeps(g)'
<1> DEFINE next == curr + WordSize
<1>1. /\ wpc = "callback" /\ curr' = next /\ mem.size[curr] = NoObject
      /\ UNCHANGED <<seg, found, found0>>
  BY DEF SkipWord, IInv, Control, walkVars
<1>2. \A o \in g.objects[seg] :
        /\ o \in Nat /\ Aligned(o) /\ o + g.size[o] \in Nat
        /\ g.size[o] \in Nat \ {0} /\ mem.size[o] = g.size[o]
  BY <1>1, LastingObjects
<1>3. curr \in Nat /\ WordSize \in Nat \ {0} /\ next \in Nat /\ curr < next
  BY WordAssumption DEF IInv, TypeOK
<1>4. Aligned(curr) /\ Aligned(next)
  BY <1>3, NextAligned DEF ScanKeeps
<1>5. \A o \in g.objects[seg] : o < next => o < curr
  <2> TAKE o \in g.objects[seg]
  <2>1. o \in Nat /\ Aligned(o) /\ o # curr
    BY <1>1, <1>2, ImagesAssumption
  <2>2. curr < o => next <= o
    BY <1>3, <1>4, <2>1, NextWord
  <2> HIDE DEF next
  <2> QED
    BY <1>3, <2>1, <2>2
<1> HIDE DEF next
<1>6. ~Inside(g, seg, next)
  <2> SUFFICES ASSUME NEW o \in g.objects[seg], o < next, next < o + g.size[o]
               PROVE  FALSE
    BY DEF Inside
  <2>1. o < curr /\ curr < o + g.size[o]
    BY <1>2, <1>3, <1>5
  <2> QED
    BY <2>1 DEF ScanKeeps, Inside
<1>7. ScanFound' = ScanFound
  BY <1>1 DEF ScanFound
<1> QED
  BY <1>1, <1>4, <1>5, <1>6, <1>7 DEF ScanKeeps, Inside

(* What is found, be it one that lasts or not, ends before the next that   *)
(* lasts.                                                                  *)
LEMMA VisitKeeps ==
  ASSUME NEW g, First(g), IInv, ScanInv, mem.life = "growing", NEW V, Kept(g, V), ScanKeeps(g),
         VisitObject, epc' = "scan"
  PROVE  ScanKeeps(g)'
<1> DEFINE next == Align(curr + mem.size[curr])
<1>1. /\ wpc = "callback" /\ curr' = next /\ mem.size[curr] # NoObject /\ curr \in Addr
      /\ found' = Append(found, curr) /\ UNCHANGED <<seg, found0>> /\ epc = "scan"
  BY ScanInHeap DEF VisitObject, IInv, Control, walkVars
<1>2. /\ mem \in Images /\ mem \in Image /\ seg \in SegIds /\ segData.begin = g.seg[seg].begin
      /\ \A o \in g.objects[seg] :
           /\ o \in Nat /\ Aligned(o) /\ o + g.size[o] \in Nat /\ mem.size[o] = g.size[o]
  BY <1>1, LastingObjects
<1>3. /\ curr \in Nat /\ curr + mem.size[curr] \in Nat /\ curr < curr + mem.size[curr]
  BY <1>1, <1>2, ImagesAssumption DEF Image, Addr
<1>4. next \in Nat /\ curr + mem.size[curr] <= next /\ curr < next /\ Aligned(next)
  BY <1>3, AlignNat, AlignForward, AlignAligned
<1>5. \A o \in g.objects[seg] : curr < o => next <= o
  <2>1. segData.begin <= curr /\ Aligned(curr) /\ ~Inside(g, seg, curr)
    BY <1>1 DEF ScanInv, ScanKeeps
  <2>2. \A o \in g.objects[seg] : curr < o => curr + mem.size[curr] <= o
    BY <1>1, <1>2, <2>1 DEF First, LastingApart
  <2> QED
    BY <1>2, <1>3, <2>2, AlignBefore
<1> HIDE DEF next
<1>6. ~Inside(g, seg, next)
  <2> SUFFICES ASSUME NEW o \in g.objects[seg], o < next, next < o + g.size[o]
               PROVE  FALSE
    BY DEF Inside
  <2>1. o \in Nat /\ o + g.size[o] \in Nat
    BY <1>2
  <2>2. CASE o < curr
    <3>1. curr < o + g.size[o]
      BY <1>3, <1>4, <2>1
    <3> QED
      BY <2>2, <3>1 DEF ScanKeeps, Inside
  <2>3. CASE o = curr
    <3>1. o + g.size[o] <= next
      BY <1>2, <1>4, <2>3
    <3> QED
      BY <1>4, <2>1, <3>1
  <2>4. CASE curr < o
    BY <1>4, <1>5, <2>1, <2>4
  <2> QED
    BY <1>3, <2>1, <2>2, <2>3, <2>4
<1>7. ScanFound' = ScanFound \cup {curr}
  <2>1. found \in Seq(Addr) /\ found0 \in 0 .. Len(found)
    BY DEF IInv, TypeOK
  <2>2. /\ found0' + 1 .. Len(found') = (found0 + 1 .. Len(found)) \cup {Len(found) + 1}
        /\ \A i \in found0 + 1 .. Len(found) : found'[i] = found[i]
        /\ found'[Len(found) + 1] = curr
    BY <1>1, <2>1
  <2> QED
    BY <2>2 DEF ScanFound
<1>8. \A o \in g.objects[seg] : o < next => o \in ScanFound'
  <2> TAKE o \in g.objects[seg]
  <2>1. o \in Nat /\ (curr < o => next <= o) /\ (o < curr => o \in ScanFound)
    BY <1>2, <1>5 DEF ScanKeeps
  <2> QED
    BY <1>3, <1>4, <1>7, <2>1
<1> QED
  BY <1>1, <1>4, <1>6, <1>8 DEF ScanKeeps, Inside

(* The scan begins before everything that lasts in the segment, *)
LEMMA EnterKeeps ==
  ASSUME NEW g, First(g), IInv, mem.life = "growing", NEW V, Kept(g, V), EnterSegment
  PROVE  ScanKeeps(g)'
<1>1. wpc = "callback" /\ curr' = segData.begin /\ UNCHANGED seg
  BY DEF EnterSegment, walkVars
<1>2. /\ seg \in SegIds /\ segData.begin = g.seg[seg].begin /\ segData.begin \in Nat
      /\ \A o \in g.objects[seg] : o \in Nat /\ segData.begin <= o
  BY <1>1, LastingObjects
<1>3. Aligned(segData.begin)
  BY <1>2 DEF First, LastingFormed
<1>4. \A o \in g.objects[seg] : ~(o < segData.begin)
  BY <1>2
<1> QED
  BY <1>1, <1>3, <1>4 DEF ScanKeeps, Inside

(* and ends behind it. *)
LEMMA LeaveKeeps ==
  ASSUME NEW g, First(g), IInv, mem.life = "growing", NEW V, Kept(g, V), LeaveSegment,
         ScanKeeps(g)
  PROVE  g.objects[seg] \subseteq ScanFound
<1>1. wpc = "callback" /\ curr >= segData.allocated /\ curr \in Nat
  BY DEF LeaveSegment, IInv, Control, TypeOK
<1>2. /\ segData.allocated \in Nat
      /\ \A o \in g.objects[seg] : o \in Nat /\ o < segData.allocated
  BY <1>1, LastingObjects
<1>3. \A o \in g.objects[seg] : o < curr
  BY <1>1, <1>2
<1> QED
  BY <1>3 DEF ScanKeeps

(* While the target grows every step keeps, among what was found, the     *)
(* objects that the first image had in the segments shown.                *)
LEMMA NextKeeps ==
  ASSUME GrowthStays, IInv, ScanInv, NEW g, First(g), Keeps(g), [Next]_vars
  PROVE  Keeps(g)'
<1> SUFFICES ASSUME mem'.life = "growing", ~stopped'
             PROVE  Keeps(g)'
  BY DEF Keeps
<1>1. mem.life = "growing"
  <2>1. CASE TargetRuns
    BY <2>1, MutateGrowing DEF TargetRuns
  <2>2. CASE ~TargetRuns
    <3>1. mem' = mem
      BY <2>2 DEF Next, EnumStep, Start, Walk, WalkStep, BeginWalk, ListHeaps, NextHeap,
                  NoMoreHeaps, ReadSegment, SegmentUnreadable, EndOfHeap, EnterSegment, SkipWord,
                  VisitObject, AbortWalk, LeaveSegment, ResumeWalk, Finish, vars
    <3> QED
      BY <3>1
  <2> QED
    BY <2>1, <2>2
<1>2. ~stopped
  <2>1. CASE VisitObject
    <3>1. curr \in Addr
      BY <2>1, ScanInHeap DEF VisitObject, IInv
    <3> QED
      BY <2>1, <3>1, WrapEffect DEF VisitObject, IInv, TypeOK
  <2>2. CASE Finish
    <3>1. stopped => buffer = <<>>
      BY <2>2 DEF Finish, IInv, Control
    <3>2. UNCHANGED callbackVars \/ (stopped => stopped')
      BY <2>2, <3>1, FlushEffect DEF Finish, IInv, TypeOK
    <3> QED
      BY <3>2 DEF callbackVars
  <2> QED
    BY <2>1, <2>2 DEF Next, EnumStep, Start, Walk, EnterSegment, SkipWord, LeaveSegment,
                      TargetRuns, vars, callbackVars
<1>3. mem \in Images /\ Extends(g, mem) /\ g \in Image /\ Len(g.heaps) = 1 /\ WalkTypeOK
  BY <1>1 DEF IInv, TypeOK, WalkTypeOK, First, FirstOfGrowth, Extends
<1>4. PICK V \in SUBSET SegIds :
        /\ Kept(g, V)
        /\ epc = "scan" => ObjectsIn(g, V) \subseteq FoundBefore /\ ScanKeeps(g)
        /\ epc # "scan" => ObjectsIn(g, V) \subseteq ToSet(found)
  BY <1>1, <1>2 DEF Keeps
<1>5. CASE Walk
  <2>1. WalkStep /\ UNCHANGED <<epc, found>> /\ epc = "walk"
    BY <1>5 DEF Walk, enumVars
  <2>2. Kept(g, V)'
    BY <1>3, <1>4, <2>1, KeptStep
  <2> QED
    BY <1>4, <2>1, <2>2 DEF Keeps
<1>6. CASE LeaveSegment
  <2>1. epc = "scan" /\ epc' = "walk" /\ ResumeWalk /\ found' = found
    BY <1>6 DEF LeaveSegment
  <2>2. seg \in SegIds
    BY <1>4, <2>1 DEF ResumeWalk, Kept
  <2>3. PICK X \in SUBSET SegIds : X = V \cup {seg}
    BY <2>2
  <2>4. Kept(g, X)'
    BY <1>3, <1>4, <2>1, <2>3, KeptGoesOn
  <2>5. g.objects[seg] \subseteq ScanFound
    BY <1>1, <1>4, <1>6, <2>1, LeaveKeeps
  <2>6. ObjectsIn(g, X) \subseteq ToSet(found)
    <3>1. ObjectsIn(g, X) = ObjectsIn(g, V) \cup g.objects[seg]
      BY <2>3, ObjectsOfMore
    <3>2. ToSet(found) = FoundBefore \cup ScanFound
      BY AllFound DEF IInv
    <3> QED
      BY <1>4, <2>1, <2>5, <3>1, <3>2
  <2> QED
    BY <2>1, <2>4, <2>6 DEF Keeps
<1>7. CASE VisitObject
  <2>1. /\ epc = "scan" /\ found' = Append(found, curr) /\ found0' = found0 /\ curr \in Addr
    BY <1>7, ScanInHeap DEF VisitObject, IInv
  <2>2. PICK reply \in BOOLEAN : Wrap(curr, reply) /\ (reply => UNCHANGED <<walkVars, epc>>)
    BY <1>7 DEF VisitObject
  <2>3. reply
    BY <2>1, <2>2, WrapEffect DEF IInv, TypeOK
  <2>4. Kept(g, V)' /\ epc' = "scan"
    BY <1>4, <2>1, <2>2, <2>3, KeptStays
  <2>5. ScanKeeps(g)'
    BY <1>1, <1>4, <1>7, <2>1, <2>4, VisitKeeps
  <2>6. FoundBefore' = FoundBefore
    <3>1. found \in Seq(Addr) /\ found0 \in 0 .. Len(found)
      BY DEF IInv, TypeOK
    <3>2. \A i \in 1 .. found0 : found'[i] = found[i]
      BY <2>1, <3>1
    <3> QED
      BY <2>1, <3>2 DEF FoundBefore
  <2> QED
    BY <1>4, <2>1, <2>4, <2>5, <2>6 DEF Keeps
<1>8. CASE EnterSegment
  <2>1. epc # "scan" /\ epc' = "scan" /\ found0' = Len(found) /\ UNCHANGED <<walkVars, found>>
    BY <1>8 DEF EnterSegment
  <2>2. Kept(g, V)' /\ ScanKeeps(g)'
    BY <1>1, <1>4, <1>8, <2>1, KeptStays, EnterKeeps
  <2>3. FoundBefore' = ToSet(found)
    <3>1. DOMAIN found = 1 .. Len(found)
      BY DEF IInv, TypeOK
    <3> QED
      BY <2>1, <3>1 DEF FoundBefore, ToSet
  <2> QED
    BY <1>4, <2>1, <2>2, <2>3 DEF Keeps
<1>9. CASE SkipWord
  <2>1. epc = "scan" /\ UNCHANGED <<epc, walkVars, found, found0>>
    BY <1>9 DEF SkipWord
  <2>2. Kept(g, V)' /\ ScanKeeps(g)'
    BY <1>1, <1>4, <1>9, <2>1, KeptStays, SkipKeeps
  <2> QED
    BY <1>4, <2>1, <2>2 DEF Keeps, FoundBefore
<1>10. CASE Start \/ Finish \/ TargetRuns \/ UNCHANGED vars
  <2>1. /\ UNCHANGED <<walkVars, found, found0, curr>>
        /\ UNCHANGED epc \/ (epc # "scan" /\ epc' # "scan")
    BY <1>10 DEF Start, Finish, TargetRuns, Mutate, vars, enumVars
  <2>2. Kept(g, V)' /\ UNCHANGED seg
    BY <1>4, <2>1, KeptStays DEF walkVars
  <2>3. ScanKeeps(g) => ScanKeeps(g)'
    BY <2>1, <2>2 DEF ScanKeeps, Inside, ScanFound
  <2> QED
    BY <1>4, <2>1, <2>2, <2>3 DEF Keeps, FoundBefore
<1> QED
  BY <1>5, <1>6, <1>7, <1>8, <1>9, <1>10 DEF Next, EnumStep

(* What lasts in a target that allocates is reported. *)
THEOREM LastingReported ==
  ASSUME GrowthAssumption
  PROVE  Spec => []ReportsTheLasting
<1>1. CASE \A m \in Images : m.life # "growing"
  <2>1. IInv => ReportsTheLasting
    BY <1>1 DEF IInv, TypeOK, WalkTypeOK, ReportsTheLasting
  <2> QED
    BY <2>1, Invariance, PTL
<1>2. CASE \E m \in Images : m.life = "growing"
  <2>1. PICK g \in Images : First(g)
    BY <1>2 DEF GrowthAssumption
  <2>2. Init => Keeps(g)
    <3> SUFFICES ASSUME Init
                 PROVE  Keeps(g)
      OBVIOUS
    <3>1. Kept(g, {}) /\ ObjectsIn(g, {}) = {} /\ epc = "start"
      BY KeptInit DEF Init, ObjectsIn
    <3> QED
      BY <3>1 DEF Keeps
  <2>3. IInv /\ ScanInv /\ Keeps(g) /\ [Next]_vars => Keeps(g)'
    BY <2>1, NextKeeps DEF GrowthAssumption
  <2>4. ASSUME IInv, Keeps(g), result = "S_OK", ~stopped, mem.life = "growing"
        PROVE  Lasting \subseteq ToSet(received)
    <3> USE <2>4
    <3>1. /\ received = found /\ epc = "returned" /\ wpc = "returned" /\ whr = "S_OK"
      BY DEF IInv, Delivery, Control, TypeOK, WalkTypeOK
    <3>2. PICK V \in SUBSET SegIds : Kept(g, V) /\ ObjectsIn(g, V) \subseteq ToSet(found)
      BY <3>1 DEF Keeps
    <3>3. SegmentsOfHeap(g, g.heaps[1]) \subseteq V
      BY <3>1, <3>2 DEF Kept
    <3>4. Len(g.heaps) = 1
      BY <2>1 DEF First, FirstOfGrowth, Extends
    <3>5. Expected(g) = ObjectsIn(g, SegmentsOfHeap(g, g.heaps[1]))
      <4>1. UNION {SegmentsOfHeap(g, g.heaps[i]) : i \in 1 .. Len(g.heaps)}
              = SegmentsOfHeap(g, g.heaps[1])
        <5>1. 1 .. Len(g.heaps) = {1}
          BY <3>4
        <5> QED
          BY <5>1
      <4> QED
        BY <4>1 DEF Expected
    <3>6. Lasting \subseteq Expected(g)
      BY <2>1 DEF Lasting, First
    <3> QED
      BY <3>1, <3>2, <3>3, <3>5, <3>6 DEF ObjectsIn
  <2>5. IInv /\ Keeps(g) => ReportsTheLasting
    BY <2>4 DEF ReportsTheLasting
  <2> QED
    BY <2>2, <2>3, <2>5, Invariance, ScanInvariance, PTL DEF Spec
<1> QED
  BY <1>1, <1>2

(* EnumHeapObjects reports the heap: all of a dump, and of a target that   *)
(* allocates what lasts.                                                   *)
THEOREM HeapReported ==
  ASSUME DumpAssumption, GrowthAssumption
  PROVE  Spec => []ReportsTheHeap
<1>1. ReportsADump /\ ReportsTheLasting => ReportsTheHeap
  BY DEF ReportsTheHeap
<1> QED
  BY <1>1, DumpReported, LastingReported, PTL
=============================================================================
