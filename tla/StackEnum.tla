----------------------------- MODULE StackEnum -----------------------------
(***************************************************************************)
(* CSDbgExt::EnumStackObjects and its ByThreadObj and ByStackParams parts  *)
(* (SDbgExt/SDbgExt_EnumStackObjects.cpp), entered from managed code for a *)
(* thread or from the !dumpstackobjects command for a range of addresses   *)
(* (SDbgExt/DumpStackObjects.cpp).                                         *)
(*                                                                         *)
(* The first client of the segment walk only notes the bounds of every     *)
(* segment; then the words of the stack are read one by one, and those     *)
(* that point between noted bounds at a valid object go to the consumer.   *)
(* The heap, the stack and the bounds are read at different times.         *)
(***************************************************************************)
EXTENDS SegmentWalk, EnumCallback, SequencesExt

CONSTANTS
  LastSlot,  (* the address of the last stack word, as a word number       *)
  Stacks,    (* [Images -> Stack]: the thread in each state of the target  *)
  Requests   (* what the client may ask for                                *)

Slots == 0 .. LastSlot

(* What can be read of the thread.  found: FindThreadByCorThreadId,        *)
(* GetThreadData and GetThreadStack (or the TEB) answer.  sp: the stack    *)
(* pointer of the context, 0 when GetThreadContext fails.  slots: Null for *)
(* a word that holds 0 or cannot be read.  valid: IsValidObject.           *)
Stack ==
  [found: BOOLEAN, base: Slots, limit: Slots, sp: Slots,
   slots: [Slots -> Addr \cup {Null}], valid: SUBSET Addr]

(* by: the entry point.  tokens: the number of arguments of the command,   *)
(* base and limit their values where they are given.                       *)
Request == [by: {"thread", "command"}, tokens: 0 .. 3, base: Slots, limit: Slots]

ASSUME StackAssumption ==
  /\ LastSlot \in Nat
  /\ Stacks \in [Images -> Stack]
  /\ Requests \subseteq Request

VARIABLES
  request,   (* what the client asked for                                  *)
  spc,       (* where the enumeration is                                   *)
  ranges,    (* the bounds of the segments                                 *)
  addr,      (* the word the scan has reached                              *)
  from, base,(* the first word of the scan and the end of it               *)
  ptr,       (* stackPtr                                                   *)
  found,     (* every object the scan came across, in order                *)
  result     (* what the enumeration returned                              *)

scanVars == <<request, spc, ranges, addr, from, base, ptr, found, result>>
vars == <<mem, walkVars, callbackVars, scanVars>>

Item == [slot: Slots, obj: Addr]

Init ==
  /\ WalkInit
  /\ CallbackInit
  /\ request \in Requests
  /\ spc = "start"
  /\ ranges = <<>>
  /\ addr = 0
  /\ from = 0
  /\ base = 0
  /\ ptr = Null
  /\ found = <<>>
  /\ result = "none"

-----------------------------------------------------------------------------
TargetRuns ==
  /\ spc # "returned"
  /\ Mutate
  /\ UNCHANGED <<callbackVars, scanVars>>

(* Where the command's arguments are taken: three of them, a limit that is *)
(* not 0.  Two print the usage and are dropped, one is not looked at.      *)
LimitsGiven(r) == r.tokens = 3 /\ r.limit # 0

(* The first word of the scan.  GetArchRegisters stores the stack pointer  *)
(* in the command's stackLimit whatever was there.                         *)
ScanFrom(r, t) == IF r.by = "command" THEN t.sp ELSE t.limit

ScanBase(r, t) == IF r.by = "command" /\ LimitsGiven(r) THEN r.base ELSE t.base

NeedsThread(r) == r.by = "thread" \/ ~LimitsGiven(r)

Start ==
  /\ spc = "start"
  /\ LET t == Stacks[mem] IN
     \/ /\ NeedsThread(request)
        /\ ~t.found
        /\ spc' = "returned"
        /\ result' = "E_FAIL"
        /\ UNCHANGED <<addr, from, base>>
     \/ /\ NeedsThread(request) => t.found
        /\ spc' = "snapshot"
        /\ addr' = ScanFrom(request, t)
        /\ from' = addr'
        /\ base' = ScanBase(request, t)
        /\ UNCHANGED result
  /\ UNCHANGED <<mem, walkVars, callbackVars, request, ranges, ptr, found>>

Walk ==
  /\ spc = "snapshot"
  /\ WalkStep
  /\ UNCHANGED <<callbackVars, scanVars>>

(* buildHeapSnapshotCb never refuses a segment. *)
NoteSegment ==
  /\ spc = "snapshot"
  /\ wpc = "callback"
  /\ ranges' = Append(ranges, [begin |-> segData.begin, end |-> segData.allocated])
  /\ ResumeWalk
  /\ UNCHANGED <<callbackVars, request, spc, addr, from, base, ptr, found, result>>

EndSnapshot ==
  /\ spc = "snapshot"
  /\ wpc = "returned"
  /\ IF whr = "E_FAIL"
       THEN spc' = "returned" /\ result' = "E_FAIL"
       ELSE spc' = "scan" /\ UNCHANGED result
  /\ UNCHANGED <<mem, walkVars, callbackVars, request, ranges, addr, from, base, ptr, found>>

\* A slip: only the first segment is looked at.
InFirstRange(p) ==
  ranges # <<>> /\ p # Null /\ p >= ranges[1].begin /\ p <= ranges[1].end

\* The end of a range counts as inside.
InRanges(p) ==
  p # Null /\ \E i \in DOMAIN ranges : p >= ranges[i].begin /\ p <= ranges[i].end

ReadSlot ==
  /\ spc = "scan"
  /\ addr < base
  /\ LET p == Stacks[mem].slots[addr] IN
     IF InRanges(p)
       THEN ptr' = p /\ spc' = "check" /\ UNCHANGED addr
       ELSE addr' = addr + 1 /\ UNCHANGED <<ptr, spc>>
  /\ UNCHANGED <<mem, walkVars, callbackVars, request, ranges, from, base, found, result>>

\* A slip: the scan does not get past a word that is not an object.
NotAnObjectStays == spc = "check" /\ UNCHANGED vars

NotAnObject ==
  /\ spc = "check"
  /\ ptr \notin Stacks[mem].valid
  /\ spc' = "scan"
  /\ addr' = addr + 1
  /\ UNCHANGED <<mem, walkVars, callbackVars, request, ranges, from, base, ptr, found, result>>

(* IsValidObject; what GetObjectData then answers is not looked at, and    *)
(* the object goes to the wrapper with the address of its word.            *)
VisitObject ==
  /\ spc = "check"
  /\ ptr \in Stacks[mem].valid
  /\ LET item == [slot |-> addr, obj |-> ptr] IN
     /\ found' = Append(found, item)
     /\ \E reply \in BOOLEAN :
          /\ Wrap(item, reply)
          /\ IF reply THEN spc' = "scan" /\ addr' = addr + 1
                      ELSE spc' = "stopped" /\ UNCHANGED addr
  /\ UNCHANGED <<mem, walkVars, request, ranges, from, base, ptr, result>>

(* The wrapper failed: S_FALSE, and no flush. *)
Stopped ==
  /\ spc = "stopped"
  /\ spc' = "returned"
  /\ result' = "S_FALSE"
  /\ UNCHANGED <<mem, walkVars, callbackVars, request, ranges, addr, from, base, ptr, found>>

Finish ==
  /\ spc = "scan"
  /\ addr >= base
  /\ Flush
  /\ spc' = "returned"
  /\ result' = "S_OK"
  /\ UNCHANGED <<mem, walkVars, request, ranges, addr, from, base, ptr, found>>

EnumStep ==
  \/ Start \/ Walk \/ NoteSegment \/ EndSnapshot
  \/ ReadSlot \/ NotAnObject \/ VisitObject \/ Stopped \/ Finish

Next == EnumStep \/ TargetRuns

Spec == Init /\ [][Next]_vars

(* One thread, which nothing blocks once the consumer's Callback returns.  *)
FairSpec == Spec /\ WF_vars(EnumStep)

-----------------------------------------------------------------------------
TypeOK ==
  /\ WalkTypeOK
  /\ CallbackTypeOK(Item)
  /\ request \in Requests
  /\ spc \in {"start", "snapshot", "scan", "check", "stopped", "returned"}
  /\ ranges \in Seq([begin: Bound, end: Bound])
  /\ addr \in Slots /\ from \in Slots /\ base \in Slots
  /\ ptr \in Addr \cup {Null}
  /\ found \in Seq(Item)
  /\ result \in {"none", "S_OK", "S_FALSE", "E_FAIL"}

\* The words from f up to b that hold a root: the address of an object in a
\* segment a walk gets to read.
Roots(m, f, b) ==
  {[slot |-> s, obj |-> Stacks[m].slots[s]] : s \in
     {s \in Slots : /\ f <= s /\ s < b
                    /\ Stacks[m].slots[s] \in Expected(m)}}

\* Between the bounds of a segment, or one past its end.
InHeap(m, a) ==
  \E t \in SegIds :
    /\ m.seg[t].begin <= a
    /\ \/ a <= m.seg[t].allocated
       \/ \E h \in HeapIds : m.heap[h].gen0 = t /\ a <= m.heap[h].alloc

\* The roots that are there from first to last while the target allocates.
Lasting(f, b) ==
  {r \in Roots(mem, f, b) :
     \A m \in {n \in Images : n.life = "growing"} : r \in Roots(m, f, b)}

(* In a target that stands still, a successful enumeration that was not    *)
(* stopped reports every root of the range it was given, and nothing that  *)
(* its word does not hold or that is outside the heap: a value that only   *)
(* looks like an object has to be inside, as the bounds that were noted    *)
(* are those of this heap.  While the target allocates and the thread      *)
(* pushes and pops, the roots that were there all along are reported.      *)
RootsReported ==
  (result = "S_OK" /\ ~stopped) =>
    /\ mem.life = "still" =>
         /\ Roots(mem, from, base) \subseteq ToSet(received)
         /\ \A r \in ToSet(received) :
              /\ from <= r.slot /\ r.slot < base
              /\ Stacks[mem].slots[r.slot] = r.obj
              /\ InHeap(mem, r.obj)
    /\ mem.life = "growing" => Lasting(from, base) \subseteq ToSet(received)

(* Whatever the target does, the words are reported in increasing order,   *)
(* none twice, each inside the range of the scan; what is reported is what *)
(* was found, less the batch that waits in the wrapper.                    *)
InSlotOrder ==
  /\ TypeOK
  /\ received \o (IF result = "S_OK" THEN <<>> ELSE buffer) = found
  /\ \A i \in DOMAIN found :
       /\ from <= found[i].slot /\ found[i].slot < base
       /\ \A j \in 1 .. i - 1 : found[j].slot < found[i].slot

(* The enumeration of a target that stands still returns.                  *)
Terminates == mem.life = "still" => <>(result # "none")

(* EnumStackObjects keeps the contract of its consumers: the same as       *)
(* EnumHeapObjects although it answers a refusal with S_FALSE.             *)
Stream == INSTANCE ObjectStream WITH Object <- Item
StreamSpec == Stream!Spec

(* The usage line of the command: Usage: !DumpStackObjects [-alt]          *)
(* [stackBase [stackLimit]].  A command given both limits scans them.      *)
ScansTheGivenLimits ==
  (request.by = "command" /\ request.tokens >= 2 /\ result = "S_OK" /\ ~stopped) =>
     Roots(mem, request.limit, request.base) \subseteq ToSet(received)
=============================================================================
