---------------------------- MODULE SegmentWalk ----------------------------
(***************************************************************************)
(* ClrProcess::EnumHeapSegments and its Server, Workstation and Impl parts *)
(* (SDbgCore/src/ClrProcess_Heap.cpp).                                     *)
(*                                                                         *)
(* The walk reads the target's GC heaps through the DAC, one read at a     *)
(* time, and calls the client back once per segment.  The target is an     *)
(* Image: a dump never changes; a process attached with                    *)
(* DEBUG_ATTACH_NONINVASIVE_NO_SUSPEND changes between any two reads       *)
(* (Mutate).  What the walk keeps between reads are C++ locals: the        *)
(* details of the heap (gcs), the segment pointer (seg) and the last       *)
(* segment read (segData).                                                 *)
(*                                                                         *)
(* A client takes a step of its own while wpc = "callback", then either    *)
(* resumes the walk (ResumeWalk) or refuses the segment (AbortWalk).       *)
(***************************************************************************)
EXTENDS Naturals, Sequences, FiniteSets

CONSTANTS
  SegIds,    (* addresses of GC segments                                   *)
  HeapIds,   (* addresses of GC heaps (one for a workstation GC)           *)
  Null,      (* the NULL address                                           *)
  NoObject,  (* GetObjectData fails at this address                        *)
  Top,       (* the last byte address of the modelled heap                 *)
  Images,    (* the states of the target that the DAC can be asked about   *)
  Steps      (* pairs of Images: how the target may change under the walk  *)

Addr     == 0 .. Top
Bound    == 0 .. Top + 1          \* an end address is one past the last byte
SegOrNil == SegIds \cup {Null}

\* GetGCHeapDetails or GetGCHeapStaticData, with the call's success as ok.
HeapDetails ==
  [ok: BOOLEAN, gen0: SegOrNil, gen2: SegOrNil, gen3: SegOrNil, alloc: Bound]

\* GetHeapSegmentData, with the call's success as ok.
SegmentInfo ==
  [ok: BOOLEAN, begin: Bound, allocated: Bound, next: SegOrNil]

(***************************************************************************)
(* What the DAC answers in one state of the target.  objects is what the   *)
(* garbage collector put in each segment, and life what the target does    *)
(* during the call: nothing, as in a dump, or it allocates, or it moves    *)
(* objects too.  The code never reads these two, the properties do.        *)
(***************************************************************************)
Image ==
  [globals: BOOLEAN, ok: BOOLEAN,            \* GetUsefulGlobals; GetGCHeapData
   server: BOOLEAN, listed: BOOLEAN,         \* ServerMode; GetGCHeapList
   heaps: Seq(HeapIds),
   heap: [HeapIds -> HeapDetails],
   seg: [SegIds -> SegmentInfo],
   size: [Addr -> (Nat \ {0}) \cup {NoObject}],   \* GetObjectData
   objects: [SegIds -> SUBSET Addr], life: {"still", "growing", "moving"}]

ASSUME ImagesAssumption ==
  /\ Top \in Nat
  /\ Null \notin SegIds \cup HeapIds \cup Addr
  /\ NoObject \notin Nat
  /\ Images \subseteq Image
  /\ \A m \in Images : m.heaps # <<>>

VARIABLES
  mem,       (* the target                                                 *)
  wpc,       (* where EnumHeapSegments is                                  *)
  server,    (* gcData.ServerMode as it was read                           *)
  todo,      (* heaps: those the server loop has not started               *)
  gcs,       (* gcsData: the details of the heap being walked              *)
  seg,       (* currSegment                                                *)
  loh,       (* visitedLOHSegment                                          *)
  segData,   (* segData: the segment last read                             *)
  whr        (* what EnumHeapSegments returned                             *)

walkVars == <<wpc, server, todo, gcs, seg, loh, segData, whr>>

NoDetails == [ok |-> FALSE, gen0 |-> Null, gen2 |-> Null, gen3 |-> Null, alloc |-> 0]
NoSegment == [ok |-> FALSE, begin |-> 0, allocated |-> 0, next |-> Null]

WalkInit ==
  /\ mem \in Images
  /\ wpc = "begin"
  /\ server = FALSE
  /\ todo = <<>>
  /\ gcs = NoDetails
  /\ seg = Null
  /\ loh = FALSE
  /\ segData = NoSegment
  /\ whr = "none"

WalkReturn(hr) ==
  /\ wpc' = "returned"
  /\ whr' = hr

-----------------------------------------------------------------------------
(* The target runs between two reads. *)
Mutate ==
  /\ \E m \in Images : <<mem, m>> \in Steps /\ mem' = m
  /\ UNCHANGED walkVars

(* EnumHeapSegments: one GetGCHeapData decides between the two collectors. *)
BeginWalk ==
  /\ wpc = "begin"
  /\ \/ /\ ~mem.ok
        /\ WalkReturn("E_FAIL")
        /\ UNCHANGED <<server, todo>>
     \/ /\ mem.ok
        /\ server' = mem.server
        /\ wpc' = IF mem.server THEN "list" ELSE "details"
        /\ todo' = IF mem.server THEN <<>> ELSE <<Head(mem.heaps)>>
        /\ UNCHANGED whr
  /\ UNCHANGED <<mem, gcs, seg, loh, segData>>

(* EnumHeapSegmentsServer asks for the number of heaps again, and fills a  *)
(* vector of that many.  Neither result is looked at: the count stays 0 or *)
(* the vector keeps its zeroes.                                            *)
HeapList ==
  IF ~mem.ok THEN <<>>
  ELSE IF mem.listed THEN mem.heaps
  ELSE [i \in 1 .. Len(mem.heaps) |-> Null]

ListHeaps ==
  /\ wpc = "list"
  /\ todo' = HeapList
  /\ wpc' = "details"
  /\ UNCHANGED <<mem, server, gcs, seg, loh, segData, whr>>

HasDetails(h) == h \in HeapIds /\ mem.heap[h].ok

(* The details of the next heap (the only one of a workstation GC).        *)
NextHeap ==
  /\ wpc = "details"
  /\ todo # <<>>
  /\ LET h == Head(todo) IN
     \/ /\ ~HasDetails(h)
        /\ WalkReturn("E_FAIL")
        /\ UNCHANGED <<todo, gcs, seg, loh>>
     \/ /\ HasDetails(h)
        /\ gcs' = mem.heap[h]
        /\ seg' = mem.heap[h].gen2
        /\ loh' = FALSE
        /\ todo' = Tail(todo)
        /\ wpc' = "segment"
        /\ UNCHANGED whr
  /\ UNCHANGED <<mem, server, segData>>

NoMoreHeaps ==
  /\ wpc = "details"
  /\ todo = <<>>
  /\ WalkReturn("S_OK")
  /\ UNCHANGED <<mem, server, todo, gcs, seg, loh, segData>>

\* A slip: the ephemeral segment is left as it was read.
WithAllocatedStale(s, d) == d

\* The allocation context of the ephemeral segment is in the heap, not in
\* the segment.
WithAllocated(s, d) ==
  IF s = gcs.gen0 THEN [d EXCEPT !.allocated = gcs.alloc] ELSE d

(* One turn of the loop of EnumHeapSegmentsImpl, up to the callback. *)
ReadSegment ==
  /\ wpc = "segment"
  /\ seg # Null
  /\ mem.seg[seg].ok
  /\ segData' = WithAllocated(seg, mem.seg[seg])
  /\ wpc' = "callback"
  /\ UNCHANGED <<mem, server, todo, gcs, seg, loh, whr>>

(* GetHeapSegmentData fails: Impl returns the failure; the workstation     *)
(* caller passes it on, the server caller looks for S_FALSE only and goes  *)
(* on with the next heap.                                                  *)
SegmentUnreadable ==
  /\ wpc = "segment"
  /\ seg # Null
  /\ ~mem.seg[seg].ok
  /\ IF server
       THEN wpc' = "details" /\ UNCHANGED whr
       ELSE WalkReturn("E_FAIL")
  /\ UNCHANGED <<mem, server, todo, gcs, seg, loh, segData>>

EndOfHeap ==
  /\ wpc = "segment"
  /\ seg = Null
  /\ wpc' = "details"
  /\ UNCHANGED <<mem, server, todo, gcs, seg, loh, segData, whr>>

(* The callback succeeded: the next segment, and once the list of          *)
(* generation 2 is exhausted, the list of large objects.                   *)
ResumeWalk ==
  /\ wpc = "callback"
  /\ IF segData.next = Null /\ ~loh
       THEN seg' = gcs.gen3 /\ loh' = TRUE
       ELSE seg' = segData.next /\ UNCHANGED loh
  /\ wpc' = "segment"
  /\ UNCHANGED <<mem, server, todo, gcs, segData, whr>>

(* The callback failed. *)
AbortWalk ==
  /\ wpc = "callback"
  /\ WalkReturn("S_FALSE")
  /\ UNCHANGED <<mem, server, todo, gcs, seg, loh, segData>>

WalkStep ==
  \/ BeginWalk \/ ListHeaps \/ NextHeap \/ NoMoreHeaps
  \/ ReadSegment \/ SegmentUnreadable \/ EndOfHeap

-----------------------------------------------------------------------------
(* What a walk should come across, said without its loops.               *)

\* S holds s and with every segment that can be read the next one.
Closed(m, s, S) ==
  /\ {s} \ {Null} \subseteq S
  /\ \A t \in S : m.seg[t].ok => {m.seg[t].next} \ {Null} \subseteq S

\* The segments on the list that starts at s, up to the first unreadable one.
SegmentList(m, s) == {t \in SegIds : \A S \in SUBSET SegIds : Closed(m, s, S) => t \in S}

\* The segments of heap h that a walk gets to read: large objects come after
\* the other generations, so an unreadable segment there hides them.
SegmentsOfHeap(m, h) ==
  LET soh == SegmentList(m, m.heap[h].gen2)
      los == SegmentList(m, m.heap[h].gen3)
      readable(S) == {t \in S : m.seg[t].ok}
  IN  IF soh # {} /\ soh = readable(soh) THEN soh \cup readable(los) ELSE readable(soh)

ObjectsIn(m, segs) == UNION {m.objects[t] : t \in segs}

Expected(m) ==
  ObjectsIn(m, UNION {SegmentsOfHeap(m, m.heaps[i]) : i \in 1 .. Len(m.heaps)})

-----------------------------------------------------------------------------
WalkTypeOK ==
  /\ mem \in Images
  /\ wpc \in {"begin", "list", "details", "segment", "callback", "returned"}
  /\ server \in BOOLEAN
  /\ todo \in Seq(HeapIds \cup {Null})
  /\ gcs \in HeapDetails
  /\ seg \in SegOrNil
  /\ loh \in BOOLEAN
  /\ segData \in SegmentInfo
  /\ whr \in {"none", "S_OK", "S_FALSE", "E_FAIL"}

=============================================================================
