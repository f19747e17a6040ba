------------------------------ MODULE HeapEnum ------------------------------
(***************************************************************************)
(* CSDbgExt::EnumHeapObjects (SDbgExt/SDbgExt_EnumHeapObjects.cpp): the    *)
(* client of the segment walk that scans every segment for objects and     *)
(* hands them to the consumer through the callback wrapper.                *)
(***************************************************************************)
EXTENDS SegmentWalk, EnumCallback, FiniteSets, SequencesExt

CONSTANT WordSize     (* the size of a pointer                             *)

ASSUME WordAssumption == WordSize \in Nat \ {0}

VARIABLES
  epc,       (* where EnumHeapObjects is                                   *)
  curr,      (* currObj: the address the scan of the segment has reached   *)
  found,     (* every object the scan came across, in order                *)
  found0,    (* Len(found) when the scan of the current segment began      *)
  result     (* what EnumHeapObjects returned                              *)

enumVars == <<epc, curr, found, found0, result>>
vars == <<mem, walkVars, callbackVars, enumVars>>

Init ==
  /\ WalkInit
  /\ CallbackInit
  /\ epc = "start"
  /\ curr = 0
  /\ found = <<>>
  /\ found0 = 0
  /\ result = "none"

\* Slips of Align: no rounding, and rounding down.
AlignNot(a) == a
AlignDown(a) == (a \div WordSize) * WordSize

\* The macro Align: the first word boundary at or after a.
Align(a) == ((a + (WordSize - 1)) \div WordSize) * WordSize

-----------------------------------------------------------------------------
TargetRuns ==
  /\ epc # "returned"
  /\ Mutate
  /\ UNCHANGED <<callbackVars, enumVars>>

(* GetUsefulGlobals: on failure nothing is enumerated. *)
Start ==
  /\ epc = "start"
  /\ \/ mem.globals /\ epc' = "walk" /\ UNCHANGED result
     \/ ~mem.globals /\ epc' = "returned" /\ result' = "E_FAIL"
  /\ UNCHANGED <<mem, walkVars, callbackVars, curr, found, found0>>

Walk ==
  /\ epc = "walk"
  /\ WalkStep
  /\ UNCHANGED <<callbackVars, enumVars>>

(* heapCb is called with the segment. *)
EnterSegment ==
  /\ epc = "walk"
  /\ wpc = "callback"
  /\ epc' = "scan"
  /\ curr' = segData.begin
  /\ found0' = Len(found)
  /\ UNCHANGED <<mem, walkVars, callbackVars, found, result>>

\* A slip: the scan waits for an object that does not come.
SkipWordStays == epc = "scan" /\ UNCHANGED vars

(* GetObjectData fails: the scan moves on by one word. *)
SkipWord ==
  /\ epc = "scan"
  /\ curr < segData.allocated
  /\ mem.size[curr] = NoObject
  /\ curr' = curr + WordSize
  /\ UNCHANGED <<mem, walkVars, callbackVars, epc, found, found0, result>>

(* GetObjectData succeeds: the object goes to the wrapper.  When that      *)
(* answers a failure heapCb returns FALSE, which the adaptor turns into    *)
(* E_ABORT and the walk into S_FALSE.                                      *)
VisitObject ==
  /\ epc = "scan"
  /\ curr < segData.allocated
  /\ mem.size[curr] # NoObject
  /\ found' = Append(found, curr)
  /\ \E reply \in BOOLEAN :
       /\ Wrap(curr, reply)
       /\ IF reply
            THEN /\ curr' = Align(curr + mem.size[curr])
                 /\ UNCHANGED <<mem, walkVars, epc>>
            ELSE /\ AbortWalk
                 /\ epc' = "walk"
                 /\ UNCHANGED curr
  /\ UNCHANGED <<found0, result>>

(* The end of the segment: heapCb returns TRUE. *)
LeaveSegment ==
  /\ epc = "scan"
  /\ curr >= segData.allocated
  /\ epc' = "walk"
  /\ ResumeWalk
  /\ UNCHANGED <<callbackVars, curr, found, found0, result>>

(* EnumHeapSegments has returned.  A failure is passed on and the wrapper  *)
(* goes out of scope with what it holds; otherwise, S_FALSE included, the  *)
(* wrapper is flushed and the result is S_OK.                              *)
Finish ==
  /\ epc = "walk"
  /\ wpc = "returned"
  /\ epc' = "returned"
  /\ \/ whr = "E_FAIL" /\ result' = "E_FAIL" /\ UNCHANGED callbackVars
     \/ whr # "E_FAIL" /\ result' = "S_OK" /\ Flush
  /\ UNCHANGED <<mem, walkVars, curr, found, found0>>

EnumStep ==
  \/ Start \/ Walk \/ EnterSegment \/ SkipWord
  \/ VisitObject \/ LeaveSegment \/ Finish

Next == EnumStep \/ TargetRuns

Spec == Init /\ [][Next]_vars

(* The enumeration is one thread that nothing blocks once the consumer's   *)
(* Callback returns.                                                       *)
FairSpec == Spec /\ WF_vars(EnumStep)

-----------------------------------------------------------------------------
TypeOK ==
  /\ WalkTypeOK
  /\ CallbackTypeOK(Addr)
  /\ epc \in {"start", "walk", "scan", "returned"}
  /\ curr \in Nat
  /\ found \in Seq(Addr)
  /\ found0 \in 0 .. Len(found)
  /\ result \in {"none", "S_OK", "E_FAIL"}

(* Nothing the scan found is lost, repeated or reordered on its way through*)
(* the buffer: what the consumer has plus what is buffered is exactly what *)
(* was found; a successful enumeration leaves nothing behind, a failed one *)
(* at most an incomplete batch (EnumHeapObjects returns before the flush). *)
Delivery ==
  /\ result # "S_OK" => /\ received \o buffer = found
                        /\ Len(buffer) < MaxBatch
  /\ result = "S_OK" => received = found

(* A batch consumer gets full batches, and a shorter one only as the last  *)
(* call of a successful enumeration.                                       *)
FullBatches ==
  isBatch => \A i \in 1 .. Len(calls) :
               calls[i] # MaxBatch => i = Len(calls) /\ result = "S_OK"

(* A consumer that has failed a call is not called again: neither by the   *)
(* rest of the segment, nor by the remaining heaps, nor by the flush that  *)
(* EnumHeapObjects makes even after an abort.                              *)
AbortIsFinal == [][stopped => UNCHANGED <<received, calls>>]_vars

(* Whatever the target does meanwhile, the scan of a segment only moves    *)
(* forward: the objects found in it are at increasing addresses, all       *)
(* before the current one and inside the segment as it was read.           *)
ScanForward ==
  epc = "scan" =>
    /\ \A i \in found0 + 1 .. Len(found) :
         /\ segData.begin <= found[i]
         /\ found[i] < curr
         /\ found[i] < segData.allocated
    /\ \A i, j \in found0 + 1 .. Len(found) : i < j => found[i] < found[j]

\* The objects that are there from first to last while the target allocates.
Lasting ==
  {a \in Addr : \A m \in {n \in Images : n.life = "growing"} : a \in Expected(m)}

(* In a target that stands still, a successful enumeration that was not    *)
(* stopped reports every object of the segments that could be read, each   *)
(* once, and nothing that is not an object.  For a workstation heap that   *)
(* is every object: an unreadable segment makes the enumeration fail.  For *)
(* a server heap an unreadable segment silently hides the rest of its heap.*)
ReportsADump ==
  (result = "S_OK" /\ ~stopped /\ mem.life = "still") =>
    /\ ToSet(received) = Expected(mem)
    /\ Len(received) = Cardinality(Expected(mem))
    /\ ~mem.server => Expected(mem) = ObjectsIn(mem, SegIds)

(* While the target allocates but collects nothing, the objects that were  *)
(* there all along are reported.                                           *)
ReportsTheLasting ==
  (result = "S_OK" /\ ~stopped /\ mem.life = "growing") => Lasting \subseteq ToSet(received)

ReportsTheHeap == ReportsADump /\ ReportsTheLasting

(* The enumeration of a target that stands still returns.                  *)
Terminates == mem.life = "still" => <>(result # "none")

(* EnumHeapObjects keeps the contract of its consumers. *)
Stream == INSTANCE ObjectStream WITH Object <- Addr
StreamSpec == Stream!Spec
=============================================================================
