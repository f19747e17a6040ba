----------------------------- MODULE WalkProofs -----------------------------
(***************************************************************************)
(* What every client of the segment walk may rely on, for every set of     *)
(* target images and every way the target may change under the walk.       *)
(***************************************************************************)
EXTENDS SegmentWalk, SequenceTheorems, TLAPS

(* A walk that has not begun. *)
LEMMA WalkInitType ==
  ASSUME WalkInit
  PROVE  WalkTypeOK
<1> USE ImagesAssumption
<1>1. todo \in Seq(HeapIds \cup {Null})
  BY EmptySeq DEF WalkInit
<1>2. gcs \in HeapDetails /\ segData \in SegmentInfo /\ seg \in SegOrNil
  BY DEF WalkInit, NoDetails, NoSegment, HeapDetails, SegmentInfo, SegOrNil, Bound
<1> QED
  BY <1>1, <1>2 DEF WalkInit, WalkTypeOK

(* The target changes and the walk does not notice. *)
LEMMA MutateType ==
  ASSUME WalkTypeOK, Mutate
  PROVE  WalkTypeOK' /\ whr' = whr /\ wpc' = wpc
BY DEF Mutate, WalkTypeOK, walkVars

(* One step of the segment walk keeps its part of the type invariant. *)
LEMMA WalkStepType ==
  ASSUME WalkTypeOK, WalkStep
  PROVE  WalkTypeOK'
<1> USE ImagesAssumption DEF WalkTypeOK, WalkReturn
<1> mem \in Image
  OBVIOUS
<1>1. CASE BeginWalk
  <2>1. mem.heaps \in Seq(HeapIds) /\ mem.heaps # <<>> /\ mem.server \in BOOLEAN
    BY DEF Image
  <2>2. Head(mem.heaps) \in HeapIds \cup {Null}
    BY <2>1
  <2>3. <<Head(mem.heaps)>> \in Seq(HeapIds \cup {Null})
    BY <2>2
  <2>4. <<>> \in Seq(HeapIds \cup {Null})
    OBVIOUS
  <2>5. todo' \in {todo, <<>>, <<Head(mem.heaps)>>} /\ server' \in BOOLEAN
    BY <1>1, <2>1 DEF BeginWalk
  <2>6. todo' \in Seq(HeapIds \cup {Null}) /\ server' \in BOOLEAN
    BY <2>3, <2>4, <2>5
  <2> QED
    BY <1>1, <2>6 DEF BeginWalk
<1>2. CASE ListHeaps
  <2>1. HeapList \in Seq(HeapIds \cup {Null})
    BY DEF HeapList, Image
  <2> QED
    BY <1>2, <2>1 DEF ListHeaps
<1>3. CASE NextHeap
  <2>1. /\ mem.heap \in [HeapIds -> HeapDetails]
        /\ Tail(todo) \in Seq(HeapIds \cup {Null})
    BY <1>3 DEF Image, NextHeap
  <2> QED
    BY <1>3, <2>1 DEF NextHeap, HasDetails, HeapDetails
<1>4. CASE NoMoreHeaps
  BY <1>4 DEF NoMoreHeaps
<1>5. CASE ReadSegment
  <2>1. mem.seg[seg] \in SegmentInfo /\ gcs.alloc \in Bound
    BY <1>5 DEF ReadSegment, Image, SegOrNil, HeapDetails
  <2>2. WithAllocated(seg, mem.seg[seg]) \in SegmentInfo
    BY <2>1 DEF WithAllocated, SegmentInfo
  <2> QED
    BY <1>5, <2>2 DEF ReadSegment
<1>6. CASE SegmentUnreadable
  BY <1>6 DEF SegmentUnreadable
<1>7. CASE EndOfHeap
  BY <1>7 DEF EndOfHeap
<1> QED
  BY <1>1, <1>2, <1>3, <1>4, <1>5, <1>6, <1>7 DEF WalkStep

(* Answering the segment callback keeps it, too. *)
LEMMA CallbackReturnType ==
  ASSUME WalkTypeOK, ResumeWalk \/ AbortWalk
  PROVE  WalkTypeOK'
BY DEF WalkTypeOK, ResumeWalk, AbortWalk, WalkReturn, HeapDetails, SegmentInfo

(* One step of the walk: it has not returned, does not answer for the      *)
(* client, and when it returns it is not with the S_FALSE of a refusal.    *)
LEMMA WalkStepEffect ==
  ASSUME WalkStep
  PROVE  /\ wpc \notin {"callback", "returned"}
         /\ \/ whr' = whr /\ wpc' # "returned"
            \/ wpc' = "returned" /\ whr' \in {"S_OK", "E_FAIL"}
BY DEF WalkStep, BeginWalk, ListHeaps, NextHeap, NoMoreHeaps, ReadSegment,
       SegmentUnreadable, EndOfHeap, WalkReturn

(* The bounds of the segment that the client is shown. *)
LEMMA SegmentBounds ==
  ASSUME WalkTypeOK
  PROVE  segData.begin \in Bound /\ segData.allocated \in Bound
BY DEF WalkTypeOK, SegmentInfo

-----------------------------------------------------------------------------
(* b and e are the bounds of segment t of m: the end of an ephemeral       *)
(* segment is in its heap.                                                 *)
BoundsOf(m, t, b, e) ==
  /\ b = m.seg[t].begin
  /\ \/ e = m.seg[t].allocated
     \/ \E h \in HeapIds : m.heap[h].gen0 = t /\ e = m.heap[h].alloc

(* What the walk has read is what the target holds now. *)
WalkCurrent ==
  /\ gcs = NoDetails \/ \E h \in HeapIds : gcs = mem.heap[h]
  /\ wpc = "callback" =>
       seg \in SegIds /\ BoundsOf(mem, seg, segData.begin, segData.allocated)

\* A dump does not become a live target, nor the other way round.
StillStays == \A p \in Steps : "still" \notin {p[1].life, p[2].life}

(* A target that runs is not a dump. *)
LEMMA MutateLive ==
  ASSUME StillStays, Mutate
  PROVE  mem.life # "still" /\ mem'.life # "still"
<1>1. PICK m \in Images : <<mem, m>> \in Steps /\ mem' = m
  BY DEF Mutate
<1>2. "still" \notin {<<mem, m>>[1].life, <<mem, m>>[2].life}
  BY <1>1 DEF StillStays
<1> QED
  BY <1>1, <1>2

(* Nothing that the walk does makes what it has read out of date: only the *)
(* target can.                                                             *)
LEMMA WalkKeepsCurrent ==
  ASSUME WalkTypeOK, WalkCurrent, WalkStep
  PROVE  WalkCurrent'
<1> USE ImagesAssumption DEF WalkCurrent
<1>1. mem' = mem
  BY DEF WalkStep, BeginWalk, ListHeaps, NextHeap, NoMoreHeaps, ReadSegment,
         SegmentUnreadable, EndOfHeap
<1>2. CASE ReadSegment
  <2>1. /\ seg \in SegIds /\ gcs' = gcs /\ mem.seg \in [SegIds -> SegmentInfo]
        /\ segData' = WithAllocated(seg, mem.seg[seg])
    BY <1>2 DEF ReadSegment, WalkTypeOK, SegOrNil, Image
  <2>2. BoundsOf(mem, seg, segData'.begin, segData'.allocated)
    <3>1. CASE seg = gcs.gen0
      <4>1. PICK h \in HeapIds : gcs = mem.heap[h]
        BY <2>1, <3>1 DEF NoDetails
      <4>2. segData'.begin = mem.seg[seg].begin /\ segData'.allocated = gcs.alloc
        BY <2>1, <3>1 DEF WithAllocated, SegmentInfo
      <4> QED
        BY <2>1, <3>1, <4>1, <4>2 DEF BoundsOf
    <3>2. CASE seg # gcs.gen0
      BY <2>1, <3>2 DEF WithAllocated, BoundsOf
    <3> QED
      BY <3>1, <3>2
  <2>3. seg' = seg
    BY <1>2 DEF ReadSegment
  <2> QED
    BY <1>1, <2>1, <2>2, <2>3
<1>3. CASE NextHeap
  BY <1>1, <1>3 DEF NextHeap, HasDetails, WalkReturn
<1>4. CASE BeginWalk \/ ListHeaps \/ NoMoreHeaps \/ SegmentUnreadable \/ EndOfHeap
  BY <1>1, <1>4 DEF BeginWalk, ListHeaps, NoMoreHeaps, SegmentUnreadable, EndOfHeap, WalkReturn
<1> QED
  BY <1>2, <1>3, <1>4 DEF WalkStep

(* Nor does the client. *)
LEMMA CallbackKeepsCurrent ==
  ASSUME WalkCurrent, ResumeWalk \/ AbortWalk
  PROVE  WalkCurrent'
BY DEF WalkCurrent, ResumeWalk, AbortWalk, WalkReturn
-----------------------------------------------------------------------------
(***************************************************************************)
(* Which segments a walk of a dump has shown to its client.                *)
(***************************************************************************)
ReadableIn(S) == {t \in S : mem.seg[t].ok}

\* A numbering of the segments along their lists: there is one when no list
\* runs into itself.
Numbering == [SegIds -> 0 .. Cardinality(SegIds)]
Numbers(m, r) ==
  \A t \in SegIds : (m.seg[t].ok /\ m.seg[t].next # Null) => r[t] < r[m.seg[t].next]

\* The walk of the list that starts at s has shown the segments of V and
\* stands before n, which is not one of them if no list runs into itself.
Underway(V, s, n) ==
  /\ V \subseteq ReadableIn(SegmentList(mem, s))
  /\ n \in SegmentList(mem, s) \cup {Null}
  /\ {s} \ {Null} \subseteq V \cup {n}
  /\ \A t \in V : {mem.seg[t].next} \ {Null} \subseteq V \cup {n}
  /\ n # Null => \A r \in Numbering : Numbers(mem, r) => \A t \in V : r[t] < r[n]

\* The walk of the current heap has shown the segments of V: some of its
\* generation 2, or all of it and some of its large objects.
ShownOfHeap(V) ==
  \/ /\ ~loh
     /\ Underway(V, gcs.gen2, seg)
     /\ seg = Null => V = {} /\ gcs.gen2 = Null
  \/ /\ loh
     /\ \E L \in SUBSET SegIds :
          LET soh == SegmentList(mem, gcs.gen2)
          IN  /\ soh # {} /\ soh = ReadableIn(soh)
              /\ V = soh \cup L
              /\ Underway(L, gcs.gen3, seg)

\* The heaps whose walk has begun; those that remain are the last of the list.
Begun == Len(mem.heaps) - Len(todo)

Listed ==
  /\ Len(todo) <= Len(mem.heaps)
  /\ \A i \in 1 .. Len(todo) : todo[i] = mem.heaps[Begun + i]

SegmentsOfFirst(k) == UNION {SegmentsOfHeap(mem, mem.heaps[i]) : i \in 1 .. k}

\* The walk has shown the segments of V, all of them once it has succeeded.
Shown(V) ==
  /\ wpc \in {"begin", "list"} => V = {}
  /\ wpc = "list" => mem.ok
  /\ wpc = "details" =>
       \/ Listed /\ V = SegmentsOfFirst(Begun)
       \/ todo # <<>> /\ Head(todo) = Null
  /\ wpc \in {"segment", "callback"} =>
       /\ Listed /\ Begun >= 1 /\ gcs = mem.heap[mem.heaps[Begun]]
       /\ \E W \in SUBSET SegIds : V = SegmentsOfFirst(Begun - 1) \cup W /\ ShownOfHeap(W)
  /\ wpc = "callback" =>
       seg \in SegIds /\ mem.seg[seg].ok /\ segData = WithAllocated(seg, mem.seg[seg])
  /\ (wpc = "returned" /\ whr = "S_OK") => V = SegmentsOfFirst(Len(mem.heaps))

\* Nothing of heap h is hidden behind a segment that cannot be read.
WholeHeap(h) ==
  mem.heap[h].gen2 # Null =>
    SegmentsOfHeap(mem, h) =
      SegmentList(mem, mem.heap[h].gen2) \cup SegmentList(mem, mem.heap[h].gen3)

\* The walk of a workstation heap succeeds only when nothing is hidden.
WholeWalk ==
  /\ wpc \notin {"begin", "returned"} => server = mem.server
  /\ wpc = "list" => server
  /\ (/\ ~mem.server
      /\ (wpc = "details" /\ todo = <<>>) \/ (wpc = "returned" /\ whr = "S_OK")) =>
        WholeHeap(mem.heaps[1])

(***************************************************************************)
(* What a dump must look like for that: a workstation target has one heap; *)
(* the objects of a segment lie between its bounds; and, for each segment  *)
(* to be shown once, lists do not run into themselves or each other.       *)
(***************************************************************************)
OneHeap == \A m \in Images : (m.life = "still" /\ ~m.server) => Len(m.heaps) = 1

EndIn(m, h, t) == IF t = m.heap[h].gen0 THEN m.heap[h].alloc ELSE m.seg[t].allocated

ObjectsBounded ==
  \A m \in Images : m.life = "still" =>
    \A i \in 1 .. Len(m.heaps) : \A t \in SegmentsOfHeap(m, m.heaps[i]) :
      \A o \in m.objects[t] : m.seg[t].begin <= o /\ o < EndIn(m, m.heaps[i], t)

ListsApart ==
  \A m \in Images : m.life = "still" =>
    /\ \E r \in Numbering : Numbers(m, r)
    /\ \A i \in 1 .. Len(m.heaps) :
         /\ LET h == m.heap[m.heaps[i]]
            IN  SegmentList(m, h.gen2) \cap SegmentList(m, h.gen3) = {}
         /\ \A j \in 1 .. i - 1 :
              SegmentsOfHeap(m, m.heaps[i]) \cap SegmentsOfHeap(m, m.heaps[j]) = {}
    /\ \A t, u \in SegIds : t # u => m.objects[t] \cap m.objects[u] = {}

(* What is on a list: where it starts, what follows a segment of it that   *)
(* can be read, and nothing else.                                          *)
LEMMA ListBasics ==
  ASSUME NEW m \in Image, NEW s \in SegOrNil
  PROVE  /\ SegmentList(m, s) \subseteq SegIds
         /\ {s} \ {Null} \subseteq SegmentList(m, s)
         /\ \A t \in SegmentList(m, s) :
              m.seg[t].ok => {m.seg[t].next} \ {Null} \subseteq SegmentList(m, s)
         /\ \A S \in SUBSET SegIds : Closed(m, s, S) => SegmentList(m, s) \subseteq S
<1>1. m.seg \in [SegIds -> SegmentInfo]
  BY DEF Image
<1>2. {s} \ {Null} \subseteq SegmentList(m, s)
  BY DEF SegmentList, Closed, SegOrNil
<1>3. ASSUME NEW t \in SegmentList(m, s), m.seg[t].ok, m.seg[t].next # Null
      PROVE  m.seg[t].next \in SegmentList(m, s)
  <2>1. t \in SegIds
    BY <1>3 DEF SegmentList
  <2>2. m.seg[t].next \in SegIds
    BY <1>1, <1>3, <2>1 DEF SegmentInfo, SegOrNil
  <2>3. \A S \in SUBSET SegIds : Closed(m, s, S) => m.seg[t].next \in S
    BY <1>3 DEF SegmentList, Closed
  <2> QED
    BY <2>2, <2>3 DEF SegmentList
<1>4. SegmentList(m, s) \subseteq SegIds
      /\ \A S \in SUBSET SegIds : Closed(m, s, S) => SegmentList(m, s) \subseteq S
  BY DEF SegmentList
<1> QED
  BY <1>2, <1>3, <1>4

(* The walk of a list before its first segment, *)
LEMMA UnderwayStarts ==
  ASSUME mem \in Image, NEW s \in SegOrNil
  PROVE  Underway({}, s, s)
BY ListBasics DEF Underway, SegOrNil

(* past one more of its segments, *)
LEMMA UnderwayGoesOn ==
  ASSUME mem \in Image, NEW s \in SegOrNil, NEW V, NEW n \in SegIds,
         Underway(V, s, n), mem.seg[n].ok
  PROVE  Underway(V \cup {n}, s, mem.seg[n].next)
<1>1. n \in SegmentList(mem, s)
  BY ImagesAssumption DEF Underway
<1>2. mem.seg[n].next \in SegmentList(mem, s) \cup {Null}
  BY <1>1, ListBasics
<1>3. ASSUME mem.seg[n].next # Null, NEW r \in Numbering, Numbers(mem, r), NEW t \in V \cup {n}
      PROVE  r[t] < r[mem.seg[n].next]
  <2>1. mem.seg[n].next \in SegIds /\ V \subseteq SegIds
    BY <1>2, <1>3, ListBasics DEF Underway, ReadableIn
  <2>2. r[n] < r[mem.seg[n].next] /\ (t # n => r[t] < r[n])
    BY <1>3, ImagesAssumption DEF Numbers, Underway
  <2>3. r[n] \in Nat /\ r[t] \in Nat /\ r[mem.seg[n].next] \in Nat
    BY <1>3, <2>1 DEF Numbering
  <2> QED
    BY <2>2, <2>3
<1> QED
  BY <1>1, <1>2, <1>3 DEF Underway, ReadableIn

(* at its end, *)
LEMMA UnderwayEnds ==
  ASSUME mem \in Image, NEW s \in SegOrNil, NEW V, Underway(V, s, Null)
  PROVE  V = SegmentList(mem, s) /\ ReadableIn(V) = V
<1>1. V \subseteq SegIds /\ V \subseteq SegmentList(mem, s) /\ \A t \in V : mem.seg[t].ok
  BY ListBasics DEF Underway, ReadableIn
<1>2. Closed(mem, s, V)
  BY DEF Closed, Underway
<1>3. SegmentList(mem, s) \subseteq V
  BY <1>1, <1>2, ListBasics
<1> QED
  BY <1>1, <1>3 DEF ReadableIn

(* nowhere twice, *)
LEMMA UnderwayOnce ==
  ASSUME mem \in Image, NEW s, NEW V, NEW n \in SegIds, Underway(V, s, n),
         \E r \in Numbering : Numbers(mem, r)
  PROVE  n \notin V
<1>1. PICK r \in Numbering : Numbers(mem, r)
  OBVIOUS
<1>2. \A t \in V : r[t] < r[n]
  BY <1>1, ImagesAssumption DEF Underway
<1>3. r[n] \in Nat
  BY <1>1 DEF Numbering
<1> QED
  BY <1>2, <1>3

(* and at a segment that cannot be read.                                   *)
LEMMA UnderwayBreaksOff ==
  ASSUME mem \in Image, NEW s \in SegOrNil, NEW V, NEW n \in SegIds,
         Underway(V, s, n), ~mem.seg[n].ok
  PROVE  /\ V = ReadableIn(SegmentList(mem, s))
         /\ n \in SegmentList(mem, s)
<1>1. n \in SegmentList(mem, s) /\ SegmentList(mem, s) \subseteq SegIds
  BY ImagesAssumption, ListBasics DEF Underway
<1>2. V \subseteq SegmentList(mem, s) /\ \A t \in V : mem.seg[t].ok
  BY DEF Underway, ReadableIn
<1>3. Closed(mem, s, V \cup {n})
  BY DEF Closed, Underway
<1>4. V \cup {n} \in SUBSET SegIds
  BY <1>1, <1>2
<1>5. SegmentList(mem, s) \subseteq V \cup {n}
  BY <1>3, <1>4, ListBasics
<1> QED
  BY <1>1, <1>2, <1>5 DEF ReadableIn

-----------------------------------------------------------------------------
(* What the proofs below know of the heap that is being walked.            *)
Walking(h) == h \in HeapIds /\ mem \in Image /\ gcs = mem.heap[h] /\ seg \in SegOrNil

(* The heads of the two lists of the heap that is walked are segments or  *)
(* null.                                                                  *)
LEMMA HeapLists ==
  ASSUME NEW h, Walking(h)
  PROVE  gcs.gen2 \in SegOrNil /\ gcs.gen3 \in SegOrNil
BY DEF Walking, Image, HeapDetails

(* The segments of a heap, in the terms of the walk. *)
LEMMA HeapSegments ==
  ASSUME NEW h, Walking(h)
  PROVE  LET soh == SegmentList(mem, gcs.gen2)
             los == SegmentList(mem, gcs.gen3)
         IN  /\ soh = {} => SegmentsOfHeap(mem, h) = {}
             /\ soh # ReadableIn(soh) => SegmentsOfHeap(mem, h) = ReadableIn(soh)
             /\ (soh # {} /\ soh = ReadableIn(soh)) =>
                  SegmentsOfHeap(mem, h) = soh \cup ReadableIn(los)
<1> DEFINE soh == SegmentList(mem, mem.heap[h].gen2)
           los == SegmentList(mem, mem.heap[h].gen3)
<1>1. SegmentsOfHeap(mem, h) =
        IF soh # {} /\ soh = ReadableIn(soh) THEN soh \cup ReadableIn(los) ELSE ReadableIn(soh)
  BY DEF SegmentsOfHeap, ReadableIn
<1>2. ReadableIn({}) = {}
  BY DEF ReadableIn
<1>3. gcs = mem.heap[h]
  BY DEF Walking
<1> HIDE DEF soh, los
<1> QED
  BY <1>1, <1>2, <1>3 DEF soh, los

(* The walk of a heap is over at its end, *)
LEMMA HeapEnds ==
  ASSUME NEW h, Walking(h), NEW W, ShownOfHeap(W), seg = Null
  PROVE  W = SegmentsOfHeap(mem, h) /\ WholeHeap(h)
<1>1. /\ gcs.gen2 \in SegOrNil /\ gcs.gen3 \in SegOrNil /\ mem \in Image
      /\ gcs = mem.heap[h]
  BY HeapLists DEF Walking
<1>2. CASE ~loh
  <2>1. W = {} /\ Underway(W, gcs.gen2, Null) /\ gcs.gen2 = Null
    BY <1>2 DEF ShownOfHeap
  <2>2. SegmentList(mem, gcs.gen2) = {}
    BY <1>1, <2>1, UnderwayEnds
  <2> QED
    BY <1>1, <2>1, <2>2, HeapSegments DEF WholeHeap
<1>3. CASE loh
  <2>1. PICK L \in SUBSET SegIds :
          /\ SegmentList(mem, gcs.gen2) # {}
          /\ SegmentList(mem, gcs.gen2) = ReadableIn(SegmentList(mem, gcs.gen2))
          /\ W = SegmentList(mem, gcs.gen2) \cup L
          /\ Underway(L, gcs.gen3, Null)
    BY <1>3 DEF ShownOfHeap
  <2>2. L = SegmentList(mem, gcs.gen3) /\ ReadableIn(L) = L
    BY <1>1, <2>1, UnderwayEnds
  <2> QED
    BY <1>1, <2>1, <2>2, HeapSegments DEF WholeHeap
<1> QED
  BY <1>2, <1>3

(* and when a segment cannot be read.                                      *)
LEMMA HeapBreaksOff ==
  ASSUME NEW h, Walking(h), NEW W, ShownOfHeap(W), seg # Null, ~mem.seg[seg].ok
  PROVE  W = SegmentsOfHeap(mem, h)
<1>1. gcs.gen2 \in SegOrNil /\ gcs.gen3 \in SegOrNil /\ mem \in Image /\ seg \in SegIds
  BY HeapLists DEF Walking, SegOrNil
<1>2. CASE ~loh
  <2>1. Underway(W, gcs.gen2, seg)
    BY <1>2 DEF ShownOfHeap
  <2>2. /\ W = ReadableIn(SegmentList(mem, gcs.gen2))
        /\ seg \in SegmentList(mem, gcs.gen2)
    BY <1>1, <2>1, UnderwayBreaksOff
  <2>3. seg \notin ReadableIn(SegmentList(mem, gcs.gen2))
    BY DEF ReadableIn
  <2> QED
    BY <2>2, <2>3, HeapSegments
<1>3. CASE loh
  <2>1. PICK L \in SUBSET SegIds :
          /\ SegmentList(mem, gcs.gen2) # {}
          /\ SegmentList(mem, gcs.gen2) = ReadableIn(SegmentList(mem, gcs.gen2))
          /\ W = SegmentList(mem, gcs.gen2) \cup L
          /\ Underway(L, gcs.gen3, seg)
    BY <1>3 DEF ShownOfHeap
  <2>2. L = ReadableIn(SegmentList(mem, gcs.gen3))
    BY <1>1, <2>1, UnderwayBreaksOff
  <2> QED
    BY <2>1, <2>2, HeapSegments
<1> QED
  BY <1>2, <1>3

(* A segment that the client is shown is one of the heap. *)
LEMMA HeapHolds ==
  ASSUME NEW h, Walking(h), NEW W, ShownOfHeap(W), seg # Null, mem.seg[seg].ok
  PROVE  seg \in SegmentsOfHeap(mem, h)
<1> DEFINE soh == SegmentList(mem, gcs.gen2)
           los == SegmentList(mem, gcs.gen3)
<1>1. CASE ~loh
  <2>1. seg \in soh
    BY <1>1 DEF ShownOfHeap, Underway
  <2>2. seg \in ReadableIn(soh)
    BY <2>1 DEF ReadableIn
  <2> HIDE DEF soh
  <2>3. soh = ReadableIn(soh) \/ soh # ReadableIn(soh)
    OBVIOUS
  <2> QED
    BY <2>1, <2>2, <2>3, HeapSegments DEF soh
<1>2. CASE loh
  <2>1. soh # {} /\ soh = ReadableIn(soh) /\ seg \in los
    BY <1>2 DEF ShownOfHeap, Underway
  <2>2. seg \in ReadableIn(los)
    BY <2>1 DEF ReadableIn
  <2> QED
    BY <2>1, <2>2, HeapSegments
<1> QED
  BY <1>1, <1>2

(* The client's answer takes the walk past the segment it was shown.       *)
LEMMA HeapGoesOn ==
  ASSUME NEW h, Walking(h), NEW W, NEW U, U = W \cup {seg}, ShownOfHeap(W), seg # Null,
         mem.seg[seg].ok, segData = WithAllocated(seg, mem.seg[seg]), ResumeWalk
  PROVE  ShownOfHeap(U)'
<1>1. gcs.gen2 \in SegOrNil /\ gcs.gen3 \in SegOrNil /\ mem \in Image /\ seg \in SegIds
  BY HeapLists DEF Walking, SegOrNil
<1>2. mem.seg[seg] \in SegmentInfo /\ segData.next = mem.seg[seg].next
  BY <1>1 DEF WithAllocated, Image, SegmentInfo
<1>3. UNCHANGED <<mem, gcs>>
  BY DEF ResumeWalk
<1>4. CASE ~loh /\ segData.next # Null
  <2>1. Underway(U, gcs.gen2, segData.next)
    BY <1>1, <1>2, <1>4, UnderwayGoesOn DEF ShownOfHeap
  <2>2. seg' = segData.next /\ ~loh'
    BY <1>4 DEF ResumeWalk
  <2> QED
    BY <1>3, <1>4, <2>1, <2>2 DEF ShownOfHeap, Underway, ReadableIn
<1>5. CASE ~loh /\ segData.next = Null
  <2>1. Underway(U, gcs.gen2, Null)
    BY <1>1, <1>2, <1>5, UnderwayGoesOn DEF ShownOfHeap
  <2>2. U = SegmentList(mem, gcs.gen2) /\ ReadableIn(U) = U /\ U # {}
    BY <1>1, <2>1, UnderwayEnds
  <2>3. seg' = gcs.gen3 /\ loh'
    BY <1>5 DEF ResumeWalk
  <2>4. Underway({}, gcs.gen3, gcs.gen3)
    BY <1>1, UnderwayStarts
  <2>5. Underway({}, gcs.gen3, seg)'
    BY <1>3, <2>3, <2>4 DEF Underway, ReadableIn
  <2> QED
    BY <1>3, <2>2, <2>3, <2>5 DEF ShownOfHeap, ReadableIn
<1>6. CASE loh
  <2>1. PICK L \in SUBSET SegIds :
          /\ SegmentList(mem, gcs.gen2) # {}
          /\ SegmentList(mem, gcs.gen2) = ReadableIn(SegmentList(mem, gcs.gen2))
          /\ W = SegmentList(mem, gcs.gen2) \cup L
          /\ Underway(L, gcs.gen3, seg)
    BY <1>6 DEF ShownOfHeap
  <2>2. Underway(L \cup {seg}, gcs.gen3, segData.next)
    BY <1>1, <1>2, <2>1, UnderwayGoesOn
  <2>3. seg' = segData.next /\ loh'
    BY <1>6 DEF ResumeWalk
  <2>4. PICK M \in SUBSET SegIds : M = L \cup {seg}
    BY <1>1
  <2>5. U = SegmentList(mem, gcs.gen2) \cup M
    BY <2>1, <2>4
  <2>6. Underway(M, gcs.gen3, seg)'
    BY <1>3, <2>2, <2>3, <2>4 DEF Underway, ReadableIn
  <2> QED
    BY <1>3, <2>1, <2>3, <2>5, <2>6 DEF ShownOfHeap, ReadableIn
<1> QED
  BY <1>4, <1>5, <1>6

-----------------------------------------------------------------------------
(* The segments of the first k heaps: none of none, and one heap more     *)
(* each time.                                                             *)
LEMMA FirstHeaps ==
  /\ SegmentsOfFirst(0) = {}
  /\ \A k \in Nat \ {0} :
       SegmentsOfFirst(k) = SegmentsOfFirst(k - 1) \cup SegmentsOfHeap(mem, mem.heaps[k])
<1>1. SegmentsOfFirst(0) = {}
  BY DEF SegmentsOfFirst
<1>2. ASSUME NEW k \in Nat \ {0}
      PROVE  SegmentsOfFirst(k) = SegmentsOfFirst(k - 1) \cup SegmentsOfHeap(mem, mem.heaps[k])
  <2>1. 1 .. k = (1 .. k - 1) \cup {k}
    OBVIOUS
  <2> QED
    BY <2>1 DEF SegmentsOfFirst
<1> QED
  BY <1>1, <1>2

(* What the heap that is being walked is, and what was shown before it.    *)
LEMMA WalkedHeap ==
  ASSUME WalkTypeOK, NEW V, Shown(V), wpc \in {"segment", "callback"}
  PROVE  /\ Begun \in 1 .. Len(mem.heaps) /\ Walking(mem.heaps[Begun])
         /\ SegmentsOfFirst(Begun) =
              SegmentsOfFirst(Begun - 1) \cup SegmentsOfHeap(mem, mem.heaps[Begun])
<1>1. mem \in Image /\ mem.heaps \in Seq(HeapIds) /\ todo \in Seq(HeapIds \cup {Null})
  BY ImagesAssumption DEF WalkTypeOK, Image
<1>2. Begun \in Int /\ Begun >= 1 /\ Begun <= Len(mem.heaps) /\ gcs = mem.heap[mem.heaps[Begun]]
  BY <1>1 DEF Shown, Begun
<1>3. mem.heaps[Begun] \in HeapIds
  BY <1>1, <1>2
<1> QED
  BY <1>1, <1>2, <1>3, FirstHeaps DEF Walking, WalkTypeOK

(* A walk that has not begun has shown nothing. *)
LEMMA ShownInit ==
  ASSUME WalkInit
  PROVE  Shown({})
BY DEF WalkInit, Shown

(* While the walk waits for its client, what has been shown stays what it is. *)
LEMMA ShownStays ==
  ASSUME UNCHANGED <<mem, walkVars>>, NEW V, Shown(V)
  PROVE  Shown(V)'
<1>1. UNCHANGED <<mem, wpc, todo, gcs, seg, loh, segData, whr>>
  BY DEF walkVars
<1>2. \A L, s, n : Underway(L, s, n)' <=> Underway(L, s, n)
  BY <1>1 DEF Underway, ReadableIn
<1>3. \A W : ShownOfHeap(W) => ShownOfHeap(W)'
  BY <1>1, <1>2 DEF ShownOfHeap, ReadableIn
<1>4. Begun' = Begun /\ \A k : SegmentsOfFirst(k)' = SegmentsOfFirst(k)
  BY <1>1 DEF Begun, SegmentsOfFirst
<1>5. SegmentsOfFirst(Begun - 1)' = SegmentsOfFirst(Begun - 1)
  BY <1>1 DEF Begun, SegmentsOfFirst
<1>6. SegmentsOfFirst(Begun)' = SegmentsOfFirst(Begun)
      /\ SegmentsOfFirst(Len(mem.heaps))' = SegmentsOfFirst(Len(mem.heaps))
  BY <1>1 DEF Begun, SegmentsOfFirst
<1>7. Listed' <=> Listed
  BY <1>1 DEF Listed, Begun
<1>8. (segData = WithAllocated(seg, mem.seg[seg]))' <=> segData = WithAllocated(seg, mem.seg[seg])
  BY <1>1 DEF WithAllocated
<1> QED
  BY <1>1, <1>3, <1>4, <1>5, <1>6, <1>7, <1>8 DEF Shown

(* The heaps are found. *)
LEMMA ShownLists ==
  ASSUME OneHeap, WalkTypeOK, mem.life = "still", NEW V, Shown(V), BeginWalk \/ ListHeaps
  PROVE  Shown(V)'
<1>1. /\ mem \in Images /\ mem.heaps \in Seq(HeapIds) /\ mem.heaps # <<>>
      /\ mem' = mem /\ V = {}
  BY ImagesAssumption DEF WalkTypeOK, Image, BeginWalk, ListHeaps, Shown
<1>2. ASSUME todo' = mem.heaps, wpc' = "details"
      PROVE  Shown(V)'
  <2>1. Begun' = 0 /\ Listed'
    BY <1>1, <1>2 DEF Begun, Listed
  <2>2. SegmentsOfFirst(0)' = {}
    BY FirstHeaps, <1>1 DEF SegmentsOfFirst
  <2>3. SegmentsOfFirst(Begun)' = {}
    BY <2>1, <2>2 DEF SegmentsOfFirst
  <2> QED
    BY <1>1, <1>2, <2>1, <2>3 DEF Shown
<1>3. CASE BeginWalk
  <2>1. CASE mem.ok /\ ~mem.server
    <3>1. Len(mem.heaps) = 1
      BY <1>1, <2>1 DEF OneHeap
    <3>2. mem.heaps = <<Head(mem.heaps)>>
      BY <1>1, <3>1
    <3> QED
      BY <1>2, <1>3, <2>1, <3>2 DEF BeginWalk
  <2>2. CASE ~mem.ok \/ mem.server
    BY <1>1, <1>3, <2>2 DEF BeginWalk, WalkReturn, Shown
  <2> QED
    BY <2>1, <2>2
<1>4. CASE ListHeaps
  <2>1. mem.ok
    BY <1>4 DEF ListHeaps, Shown
  <2>2. CASE mem.listed
    BY <1>2, <1>4, <2>1, <2>2 DEF ListHeaps, HeapList
  <2>3. CASE ~mem.listed
    <3>1. todo' = [i \in 1 .. Len(mem.heaps) |-> Null] /\ wpc' = "details"
      BY <1>4, <2>1, <2>3 DEF ListHeaps, HeapList
    <3>2. Len(mem.heaps) \in Nat \ {0}
      BY <1>1, EmptySeq
    <3>3. todo' # <<>> /\ Head(todo') = Null
      BY <3>1, <3>2
    <3> QED
      BY <1>1, <3>1, <3>3 DEF Shown
  <2> QED
    BY <2>2, <2>3
<1> QED
  BY <1>3, <1>4

(* A heap is begun. *)
LEMMA ShownBegins ==
  ASSUME WalkTypeOK, mem.life = "still", NEW V, Shown(V), NextHeap
  PROVE  Shown(V)'
<1>1. /\ mem \in Image /\ mem.heaps \in Seq(HeapIds) /\ mem' = mem
      /\ todo \in Seq(HeapIds \cup {Null}) /\ todo # <<>> /\ wpc = "details"
  BY ImagesAssumption DEF WalkTypeOK, Image, NextHeap
<1>2. CASE ~HasDetails(Head(todo))
  BY <1>2 DEF NextHeap, WalkReturn, Shown
<1>3. CASE HasDetails(Head(todo))
  <2>1. Listed /\ V = SegmentsOfFirst(Begun)
    BY <1>1, <1>3, ImagesAssumption DEF HasDetails, Shown
  <2>2. /\ gcs' = mem.heap[Head(todo)] /\ seg' = gcs'.gen2 /\ loh' = FALSE
        /\ todo' = Tail(todo) /\ wpc' = "segment" /\ Head(todo) \in HeapIds
    BY <1>3 DEF NextHeap, HasDetails
  <2>3. /\ Len(todo') = Len(todo) - 1 /\ Len(todo) \in Nat \ {0} /\ Len(mem.heaps) \in Nat
        /\ \A i \in 1 .. Len(todo') : todo'[i] = todo[i + 1]
        /\ Head(todo) = todo[1]
    BY <1>1, <2>2
  <2>4. Begun' = Begun + 1 /\ Begun \in Nat
    BY <1>1, <2>1, <2>3 DEF Begun, Listed
  <2>5. Listed' /\ gcs' = mem.heap[mem.heaps[Begun']]
    <3>1. \A i \in 1 .. Len(todo') : todo'[i] = mem.heaps[Begun' + i]
      <4> TAKE i \in 1 .. Len(todo')
      <4>1. i \in Nat /\ i + 1 \in 1 .. Len(todo) /\ todo'[i] = todo[i + 1]
        BY <2>3
      <4>2. todo[i + 1] = mem.heaps[Begun + (i + 1)]
        BY <2>1, <4>1 DEF Listed
      <4>3. Begun + (i + 1) = Begun' + i
        BY <2>4, <4>1
      <4> QED
        BY <4>1, <4>2, <4>3
    <3>2. Head(todo) = mem.heaps[Begun + 1]
      BY <2>1, <2>3 DEF Listed
    <3> QED
      BY <1>1, <2>1, <2>2, <2>3, <2>4, <3>1, <3>2 DEF Listed
  <2>6. ShownOfHeap({})'
    <3>1. gcs'.gen2 \in SegOrNil
      BY <1>1, <2>2 DEF Image, HeapDetails
    <3>2. Underway({}, gcs'.gen2, gcs'.gen2)
      BY <1>1, <3>1, UnderwayStarts
    <3>3. Underway({}, gcs.gen2, seg)'
      BY <1>1, <2>2, <3>2 DEF Underway, ReadableIn
    <3> QED
      BY <2>2, <3>3 DEF ShownOfHeap
  <2>7. V = SegmentsOfFirst(Begun - 1)' \cup {}
    BY <1>1, <2>1, <2>4 DEF SegmentsOfFirst
  <2>8. (\E W \in SUBSET SegIds : V = SegmentsOfFirst(Begun - 1) \cup W /\ ShownOfHeap(W))'
    BY <2>6, <2>7
  <2> QED
    BY <1>1, <2>2, <2>4, <2>5, <2>8 DEF Shown
<1> QED
  BY <1>2, <1>3

(* A heap is done with: all of its segments have been shown. *)
LEMMA ShownEnds ==
  ASSUME WalkTypeOK, mem.life = "still", NEW V, Shown(V), EndOfHeap \/ SegmentUnreadable
  PROVE  Shown(V)'
<1>1. wpc = "segment" /\ UNCHANGED <<mem, todo>>
  BY DEF EndOfHeap, SegmentUnreadable
<1>2. PICK W \in SUBSET SegIds : V = SegmentsOfFirst(Begun - 1) \cup W /\ ShownOfHeap(W)
  BY <1>1 DEF Shown
<1>3. W = SegmentsOfHeap(mem, mem.heaps[Begun])
  BY <1>1, <1>2, WalkedHeap, HeapEnds, HeapBreaksOff DEF EndOfHeap, SegmentUnreadable
<1>4. V = SegmentsOfFirst(Begun) /\ Listed
  BY <1>1, <1>2, <1>3, WalkedHeap DEF Shown
<1>5. Listed' /\ V = SegmentsOfFirst(Begun)'
  BY <1>1, <1>4 DEF Listed, Begun, SegmentsOfFirst
<1>6. wpc' = "details" \/ (wpc' = "returned" /\ whr' = "E_FAIL")
  BY DEF EndOfHeap, SegmentUnreadable, WalkReturn
<1> QED
  BY <1>5, <1>6 DEF Shown

(* Every step of the walk: what has been shown stays what it is.           *)
LEMMA ShownStep ==
  ASSUME OneHeap, WalkTypeOK, mem.life = "still", NEW V, Shown(V), WalkStep
  PROVE  Shown(V)'
<1>1. CASE NoMoreHeaps
  <2>1. Listed /\ V = SegmentsOfFirst(Begun) /\ Begun = Len(mem.heaps)
    <3>1. wpc = "details" /\ todo = <<>>
      BY <1>1 DEF NoMoreHeaps
    <3>2. mem.heaps \in Seq(HeapIds)
      BY ImagesAssumption DEF WalkTypeOK, Image
    <3> QED
      BY <3>1, <3>2 DEF Shown, Begun
  <2> QED
    BY <1>1, <2>1 DEF NoMoreHeaps, WalkReturn, Shown, SegmentsOfFirst
<1>2. CASE ReadSegment
  <2>1. /\ wpc = "segment" /\ UNCHANGED <<mem, todo, gcs, seg, loh>> /\ wpc' = "callback"
        /\ seg \in SegIds /\ mem.seg[seg].ok /\ segData' = WithAllocated(seg, mem.seg[seg])
    BY <1>2 DEF ReadSegment, WalkTypeOK, SegOrNil
  <2>2. PICK W \in SUBSET SegIds : V = SegmentsOfFirst(Begun - 1) \cup W /\ ShownOfHeap(W)
    BY <2>1 DEF Shown
  <2>3. V = SegmentsOfFirst(Begun - 1)' \cup W /\ ShownOfHeap(W)'
    BY <2>1, <2>2 DEF SegmentsOfFirst, Begun, ShownOfHeap, Underway, ReadableIn
  <2>4. (\E U \in SUBSET SegIds : V = SegmentsOfFirst(Begun - 1) \cup U /\ ShownOfHeap(U))'
    BY <2>3
  <2>5. (Listed /\ Begun >= 1 /\ gcs = mem.heap[mem.heaps[Begun]])'
    BY <2>1 DEF Shown, Listed, Begun
  <2>6. segData' = WithAllocated(seg, mem.seg[seg])'
    BY <2>1 DEF WithAllocated
  <2> QED
    BY <2>1, <2>4, <2>5, <2>6 DEF Shown
<1> QED
  BY <1>1, <1>2, ShownLists, ShownBegins, ShownEnds DEF WalkStep

(* The segment that the client is shown is one of those to be shown, with  *)
(* the end that it has in its heap.                                        *)
LEMMA ShownMember ==
  ASSUME WalkTypeOK, NEW V, Shown(V), wpc = "callback"
  PROVE  /\ seg \in SegIds
         /\ \E i \in 1 .. Len(mem.heaps) :
              /\ seg \in SegmentsOfHeap(mem, mem.heaps[i])
              /\ segData.allocated = EndIn(mem, mem.heaps[i], seg)
<1>1. seg \in SegIds /\ mem.seg[seg].ok /\ segData = WithAllocated(seg, mem.seg[seg])
  BY DEF Shown
<1>2. PICK W \in SUBSET SegIds : ShownOfHeap(W)
  BY DEF Shown
<1>3. Begun \in 1 .. Len(mem.heaps) /\ Walking(mem.heaps[Begun])
  BY WalkedHeap
<1>4. seg \in SegmentsOfHeap(mem, mem.heaps[Begun])
  BY <1>1, <1>2, <1>3, HeapHolds, ImagesAssumption
<1>5. segData.allocated = EndIn(mem, mem.heaps[Begun], seg)
  BY <1>1, <1>3 DEF WithAllocated, EndIn, Walking, Image, SegmentInfo
<1> QED
  BY <1>1, <1>3, <1>4, <1>5

(* Once the client has answered, that segment has been shown, too.         *)
LEMMA ShownGoesOn ==
  ASSUME WalkTypeOK, NEW V, Shown(V), ResumeWalk, NEW X, X = V \cup {seg}
  PROVE  Shown(X)'
<1>1. wpc = "callback" /\ wpc' = "segment" /\ UNCHANGED <<mem, todo, gcs>>
  BY DEF ResumeWalk
<1>2. seg \in SegIds /\ mem.seg[seg].ok /\ segData = WithAllocated(seg, mem.seg[seg])
  BY <1>1 DEF Shown
<1>3. PICK W \in SUBSET SegIds : V = SegmentsOfFirst(Begun - 1) \cup W /\ ShownOfHeap(W)
  BY <1>1 DEF Shown
<1>4. PICK U \in SUBSET SegIds : U = W \cup {seg}
  BY <1>2
<1>5. ShownOfHeap(U)'
  BY <1>1, <1>2, <1>3, <1>4, WalkedHeap, HeapGoesOn, ImagesAssumption
<1>6. X = SegmentsOfFirst(Begun - 1)' \cup U
  BY <1>1, <1>3, <1>4 DEF SegmentsOfFirst, Begun
<1>7. (Listed /\ Begun >= 1 /\ gcs = mem.heap[mem.heaps[Begun]])'
  BY <1>1 DEF Shown, Listed, Begun
<1>8. (\E Y \in SUBSET SegIds : X = SegmentsOfFirst(Begun - 1) \cup Y /\ ShownOfHeap(Y))'
  BY <1>5, <1>6
<1> QED
  BY <1>1, <1>7, <1>8 DEF Shown

(* If no list runs into itself or another, it has not been shown before.   *)
LEMMA ShownOnce ==
  ASSUME WalkTypeOK, ListsApart, mem.life = "still", NEW V, Shown(V), wpc = "callback"
  PROVE  seg \notin V
<1>1. /\ mem \in Images /\ mem \in Image /\ mem.heaps \in Seq(HeapIds)
      /\ seg \in SegIds /\ mem.seg[seg].ok
  BY ImagesAssumption DEF WalkTypeOK, Image, Shown
<1>2. PICK W \in SUBSET SegIds : V = SegmentsOfFirst(Begun - 1) \cup W /\ ShownOfHeap(W)
  BY DEF Shown
<1>3. Begun \in 1 .. Len(mem.heaps) /\ Walking(mem.heaps[Begun])
  BY WalkedHeap
<1>4. seg \notin SegmentsOfFirst(Begun - 1)
  <2>1. seg \in SegmentsOfHeap(mem, mem.heaps[Begun])
    BY <1>1, <1>2, <1>3, HeapHolds, ImagesAssumption
  <2>2. \A j \in 1 .. Begun - 1 :
          SegmentsOfHeap(mem, mem.heaps[Begun]) \cap SegmentsOfHeap(mem, mem.heaps[j]) = {}
    BY <1>1, <1>3 DEF ListsApart
  <2> QED
    BY <2>1, <2>2 DEF SegmentsOfFirst
<1>5. seg \notin W
  <2>1. /\ \E r \in Numbering : Numbers(mem, r)
        /\ SegmentList(mem, gcs.gen2) \cap SegmentList(mem, gcs.gen3) = {}
    BY <1>1, <1>3 DEF ListsApart, Walking
  <2>2. CASE ~loh
    BY <1>1, <1>2, <2>1, <2>2, UnderwayOnce DEF ShownOfHeap
  <2>3. CASE loh
    <3>1. PICK L \in SUBSET SegIds :
            /\ W = SegmentList(mem, gcs.gen2) \cup L
            /\ Underway(L, gcs.gen3, seg)
      BY <1>2, <2>3 DEF ShownOfHeap
    <3>2. seg \notin L
      BY <1>1, <2>1, <3>1, UnderwayOnce
    <3>3. seg \in SegmentList(mem, gcs.gen3)
      BY <1>1, <3>1, ImagesAssumption DEF Underway
    <3> QED
      BY <2>1, <3>1, <3>2, <3>3
  <2> QED
    BY <2>2, <2>3
<1> QED
  BY <1>2, <1>4, <1>5

(* A workstation heap of which something stays hidden is not walked with   *)
(* success.                                                                *)
LEMMA WholeStep ==
  ASSUME OneHeap, WalkTypeOK, mem.life = "still", NEW V, Shown(V), WholeWalk, WalkStep
  PROVE  WholeWalk'
<1>1. mem' = mem /\ mem \in Images /\ mem.heaps \in Seq(HeapIds) /\ mem.heaps # <<>>
  BY ImagesAssumption DEF WalkTypeOK, Image, WalkStep, BeginWalk, ListHeaps, NextHeap,
     NoMoreHeaps, ReadSegment, SegmentUnreadable, EndOfHeap
<1>2. \A h : WholeHeap(h)' <=> WholeHeap(h)
  BY <1>1 DEF WholeHeap
<1>3. CASE BeginWalk
  <2>1. CASE mem.ok /\ ~mem.server
    <3>1. todo' = <<Head(mem.heaps)>> /\ wpc' = "details" /\ server' = mem.server
      BY <1>3, <2>1 DEF BeginWalk
    <3>2. todo' # <<>>
      BY <3>1
    <3> QED
      BY <1>1, <3>1, <3>2 DEF WholeWalk
  <2>2. CASE ~mem.ok \/ mem.server
    BY <1>1, <1>3, <2>2 DEF BeginWalk, WalkReturn, WholeWalk
  <2> QED
    BY <2>1, <2>2
<1>4. CASE EndOfHeap
  <2>1. wpc = "segment" /\ seg = Null /\ wpc' = "details" /\ server' = server
    BY <1>4 DEF EndOfHeap
  <2>2. PICK W \in SUBSET SegIds : ShownOfHeap(W)
    BY <2>1 DEF Shown
  <2>3. Begun \in 1 .. Len(mem.heaps) /\ Walking(mem.heaps[Begun])
    BY <2>1, WalkedHeap
  <2>4. WholeHeap(mem.heaps[Begun])
    BY <2>1, <2>2, <2>3, HeapEnds
  <2>5. ~mem.server => Begun = 1
    BY <1>1, <2>3 DEF OneHeap
  <2> QED
    BY <1>1, <1>2, <2>1, <2>4, <2>5 DEF WholeWalk
<1>5. CASE ListHeaps
  BY <1>1, <1>5 DEF ListHeaps, WholeWalk
<1>6. CASE NextHeap \/ ReadSegment \/ SegmentUnreadable
  BY <1>1, <1>6 DEF NextHeap, ReadSegment, SegmentUnreadable, WalkReturn, WholeWalk
<1>7. CASE NoMoreHeaps
  BY <1>1, <1>2, <1>7 DEF NoMoreHeaps, WalkReturn, WholeWalk
<1> QED
  BY <1>3, <1>4, <1>5, <1>6, <1>7 DEF WalkStep

-----------------------------------------------------------------------------
(***************************************************************************)
(* The walk of a target that allocates meanwhile, but collects nothing:    *)
(* whatever it has of a state g it keeps.  Objects stay where they are,    *)
(* segments do not begin elsewhere and do not shrink, and a list grows at  *)
(* its end only.                                                           *)
(***************************************************************************)
Extends(g, m) ==
  /\ ~m.server /\ m.heaps = g.heaps /\ Len(g.heaps) = 1
  /\ \A h \in HeapIds :
       /\ m.heap[h].gen0 = g.heap[h].gen0
       /\ m.heap[h].gen2 = g.heap[h].gen2
       /\ m.heap[h].gen3 = g.heap[h].gen3
       /\ g.heap[h].alloc <= m.heap[h].alloc
  /\ \A t \in SegIds :
       /\ m.seg[t].begin = g.seg[t].begin
       /\ g.seg[t].allocated <= m.seg[t].allocated
       /\ g.seg[t].next # Null => m.seg[t].next = g.seg[t].next
       /\ \A o \in g.objects[t] : m.size[o] = g.size[o]

\* Every state of the growing targets extends g.
FirstOfGrowth(g) ==
  /\ g \in Image
  /\ \A m \in Images : m.life = "growing" => Extends(g, m)

\* A target that grows goes on growing, and no other begins to.
GrowthStays ==
  \A p \in Steps : p[1].life = "growing" <=> p[2].life = "growing"

(* A target that grows has been growing. *)
LEMMA MutateGrowing ==
  ASSUME GrowthStays, Mutate, mem'.life = "growing"
  PROVE  mem.life = "growing"
<1>1. PICK m \in Images : <<mem, m>> \in Steps /\ mem' = m
  BY DEF Mutate
<1>2. <<mem, m>>[1].life = "growing" <=> <<mem, m>>[2].life = "growing"
  BY <1>1 DEF GrowthStays
<1> QED
  BY <1>1, <1>2

\* With the segments of V and n, a walk has all that is on the list from s.
Covered(g, V, s, n) ==
  /\ {s} \ {Null} \subseteq V \cup {n}
  /\ \A t \in V : {g.seg[t].next} \ {Null} \subseteq V \cup {n}

\* The walk has shown the segments of V, all those of g once it has succeeded.
Kept(g, V) ==
  LET h == g.heaps[1]
      gen2 == g.heap[h].gen2
      gen3 == g.heap[h].gen3
  IN  /\ V \subseteq SegIds
      /\ wpc # "list" /\ (wpc # "returned" => ~server)
      /\ wpc = "details" =>
           \/ V = {} /\ todo = g.heaps
           \/ todo = <<>> /\ SegmentsOfHeap(g, h) \subseteq V
      /\ wpc = "begin" => V = {}
      /\ wpc \in {"segment", "callback"} =>
           /\ todo = <<>> /\ gcs.gen0 = g.heap[h].gen0 /\ g.heap[h].alloc <= gcs.alloc
           /\ gcs.gen3 = gen3
           /\ ~loh => Covered(g, V, gen2, seg) /\ (seg = Null => gen2 = Null)
           /\ loh => SegmentList(g, gen2) \subseteq V /\ Covered(g, V, gen3, seg)
      /\ wpc = "callback" =>
           /\ seg \in SegIds /\ segData.begin = g.seg[seg].begin
           /\ EndIn(g, h, seg) <= segData.allocated
           /\ g.seg[seg].next # Null => segData.next = g.seg[seg].next
      /\ (wpc = "returned" /\ whr = "S_OK") => SegmentsOfHeap(g, h) \subseteq V

(* A walk with no segment before it has the list. *)
LEMMA CoveredList ==
  ASSUME NEW g \in Image, NEW s \in SegOrNil, NEW V \in SUBSET SegIds, Covered(g, V, s, Null)
  PROVE  SegmentList(g, s) \subseteq V
<1>1. Closed(g, s, V)
  BY DEF Closed, Covered
<1> QED
  BY <1>1, ListBasics

(* The segments of a heap are on its two lists, and there is none when the *)
(* first of them is empty.                                                 *)
LEMMA OnTheLists ==
  ASSUME NEW g \in Image, NEW h \in HeapIds
  PROVE  /\ SegmentsOfHeap(g, h) \subseteq
              SegmentList(g, g.heap[h].gen2) \cup SegmentList(g, g.heap[h].gen3)
         /\ g.heap[h].gen2 = Null => SegmentsOfHeap(g, h) = {}
<1>1. SegmentsOfHeap(g, h) \subseteq
        SegmentList(g, g.heap[h].gen2) \cup SegmentList(g, g.heap[h].gen3)
  BY DEF SegmentsOfHeap
<1>2. ASSUME g.heap[h].gen2 = Null
      PROVE  SegmentList(g, g.heap[h].gen2) = {}
  <2>1. Closed(g, Null, {})
    BY DEF Closed
  <2> QED
    BY <1>2, <2>1 DEF SegmentList
<1>3. SegmentList(g, g.heap[h].gen2) = {} => SegmentsOfHeap(g, h) = {}
  BY DEF SegmentsOfHeap
<1> QED
  BY <1>1, <1>2, <1>3

(* Nothing has to be kept before the walk begins.                         *)
LEMMA KeptInit ==
  ASSUME WalkInit, NEW g
  PROVE  Kept(g, {})
BY DEF WalkInit, Kept

(* Whatever the target does while the walk stands still. *)
LEMMA KeptStays ==
  ASSUME UNCHANGED walkVars, NEW g, NEW V, Kept(g, V)
  PROVE  Kept(g, V)'
BY DEF walkVars, Kept, Covered

(* What is used of the state that lasts. *)
LEMMA FirstHeap ==
  ASSUME NEW g \in Image, Len(g.heaps) = 1
  PROVE  /\ g.heaps[1] \in HeapIds /\ g.heaps = <<g.heaps[1]>>
         /\ g.heap[g.heaps[1]] \in HeapDetails
<1>1. g.heaps \in Seq(HeapIds) /\ g.heap \in [HeapIds -> HeapDetails]
  BY DEF Image
<1> QED
  BY <1>1

(* A step of the walk keeps the segments of the first image among those   *)
(* shown or still to show.                                                *)
LEMMA KeptStep ==
  ASSUME NEW g \in Image, Extends(g, mem), WalkTypeOK, NEW V, Kept(g, V), WalkStep
  PROVE  Kept(g, V)'
<1> DEFINE h == g.heaps[1]
<1>1. /\ h \in HeapIds /\ g.heaps = <<h>> /\ mem.heaps = g.heaps /\ ~mem.server
      /\ g.heap[h] \in HeapDetails /\ mem \in Image
      /\ mem.heap[h].gen0 = g.heap[h].gen0 /\ mem.heap[h].gen2 = g.heap[h].gen2
      /\ mem.heap[h].gen3 = g.heap[h].gen3 /\ g.heap[h].alloc <= mem.heap[h].alloc
  BY FirstHeap, ImagesAssumption DEF Extends, WalkTypeOK
<1>2. V \in SUBSET SegIds
  BY DEF Kept
<1> HIDE DEF h
<1>3. CASE BeginWalk
  <2>1. Head(mem.heaps) = h /\ V = {} /\ wpc = "begin"
    BY <1>1, <1>3 DEF BeginWalk, Kept
  <2> QED
    BY <1>1, <1>3, <2>1 DEF BeginWalk, WalkReturn, Kept
<1>4. CASE ListHeaps
  BY <1>4 DEF ListHeaps, Kept
<1>5. CASE NextHeap
  <2>1. V = {} /\ todo = <<h>>
    BY <1>1, <1>5 DEF NextHeap, Kept
  <2>2. Head(todo) = h /\ Tail(todo) = <<>>
    BY <2>1
  <2>3. CASE ~HasDetails(h)
    BY <1>2, <1>5, <2>2, <2>3 DEF NextHeap, WalkReturn, Kept
  <2>4. CASE HasDetails(h)
    <3>1. /\ gcs' = mem.heap[h] /\ seg' = g.heap[h].gen2 /\ ~loh' /\ todo' = <<>>
          /\ wpc' = "segment" /\ server' = server /\ ~server
      BY <1>1, <1>5, <2>2, <2>4 DEF NextHeap, Kept
    <3>2. Covered(g, V, g.heap[h].gen2, seg)'
      BY <2>1, <3>1 DEF Covered
    <3> QED
      BY <1>1, <1>2, <3>1, <3>2 DEF Kept, h
  <2> QED
    BY <2>3, <2>4
<1>6. CASE NoMoreHeaps
  BY <1>1, <1>6 DEF NoMoreHeaps, WalkReturn, Kept, h
<1>7. CASE ReadSegment
  <2>1. /\ wpc = "segment" /\ wpc' = "callback" /\ UNCHANGED <<server, todo, gcs, seg, loh, whr>>
        /\ seg \in SegIds /\ segData' = WithAllocated(seg, mem.seg[seg])
    BY <1>7 DEF ReadSegment, WalkTypeOK, SegOrNil
  <2>2. /\ mem.seg[seg] \in SegmentInfo /\ mem.seg[seg].begin = g.seg[seg].begin
        /\ g.seg[seg].allocated <= mem.seg[seg].allocated
        /\ g.seg[seg].next # Null => mem.seg[seg].next = g.seg[seg].next
    BY <1>1, <2>1 DEF Image, Extends
  <2>3. gcs.gen0 = g.heap[h].gen0 /\ g.heap[h].alloc <= gcs.alloc
    BY <2>1 DEF Kept, h
  <2>4. /\ segData'.begin = g.seg[seg].begin
        /\ EndIn(g, h, seg) <= segData'.allocated
        /\ g.seg[seg].next # Null => segData'.next = g.seg[seg].next
    BY <2>1, <2>2, <2>3 DEF WithAllocated, EndIn, SegmentInfo
  <2> QED
    BY <1>2, <2>1, <2>4 DEF Kept, Covered, h
<1>8. CASE SegmentUnreadable
  BY <1>2, <1>8 DEF SegmentUnreadable, WalkReturn, Kept
<1>9. CASE EndOfHeap
  <2>1. /\ wpc = "segment" /\ wpc' = "details" /\ seg = Null
        /\ UNCHANGED <<server, todo, whr>>
    BY <1>9 DEF EndOfHeap
  <2>2. g.heap[h].gen2 \in SegOrNil /\ g.heap[h].gen3 \in SegOrNil
    BY <1>1 DEF HeapDetails
  <2>3. SegmentsOfHeap(g, h) \subseteq V
    <3>1. CASE ~loh
      BY <1>1, <2>1, <3>1, OnTheLists DEF Kept, h
    <3>2. CASE loh
      <4>1. SegmentList(g, g.heap[h].gen2) \subseteq V /\ Covered(g, V, g.heap[h].gen3, Null)
        BY <2>1, <3>2 DEF Kept, h
      <4>2. SegmentList(g, g.heap[h].gen3) \subseteq V
        BY <1>2, <2>2, <4>1, CoveredList
      <4> QED
        BY <1>1, <4>1, <4>2, OnTheLists
    <3> QED
      BY <3>1, <3>2
  <2> QED
    BY <1>2, <2>1, <2>3 DEF Kept, h
<1> QED
  BY <1>3, <1>4, <1>5, <1>6, <1>7, <1>8, <1>9 DEF WalkStep

(* Once the client has answered, the segment has been shown, too. *)
LEMMA KeptGoesOn ==
  ASSUME NEW g \in Image, Len(g.heaps) = 1, NEW V, Kept(g, V), ResumeWalk,
         NEW X, X = V \cup {seg}
  PROVE  Kept(g, X)'
<1> DEFINE h == g.heaps[1]
<1>1. /\ h \in HeapIds /\ g.heap[h].gen2 \in SegOrNil /\ g.heap[h].gen3 \in SegOrNil
  BY FirstHeap DEF HeapDetails
<1> HIDE DEF h
<1>2. /\ wpc = "callback" /\ wpc' = "segment" /\ UNCHANGED <<server, todo, gcs, whr>>
      /\ seg \in SegIds /\ V \subseteq SegIds /\ X \in SUBSET SegIds
      /\ g.seg[seg].next # Null => segData.next = g.seg[seg].next
      /\ gcs.gen3 = g.heap[h].gen3
  BY DEF ResumeWalk, Kept, h
<1>3. CASE ~loh /\ segData.next = Null
  <2>1. Covered(g, X, g.heap[h].gen2, Null)
    BY <1>2, <1>3 DEF Kept, Covered, h
  <2>2. SegmentList(g, g.heap[h].gen2) \subseteq X
    BY <1>1, <1>2, <2>1, CoveredList
  <2>3. seg' = g.heap[h].gen3 /\ loh'
    BY <1>2, <1>3 DEF ResumeWalk
  <2>4. Covered(g, X, g.heap[h].gen3, seg)'
    BY <2>1, <2>3 DEF Covered
  <2> QED
    BY <1>2, <2>2, <2>3, <2>4 DEF Kept, h
<1>4. CASE ~loh /\ segData.next # Null
  <2>1. seg' = segData.next /\ ~loh'
    BY <1>4 DEF ResumeWalk
  <2>2. Covered(g, X, g.heap[h].gen2, seg)'
    BY <1>2, <1>4, <2>1 DEF Kept, Covered, h
  <2> QED
    BY <1>2, <1>4, <2>1, <2>2 DEF Kept, h
<1>5. CASE loh
  <2>1. seg' = segData.next /\ loh'
    BY <1>5 DEF ResumeWalk
  <2>2. Covered(g, X, g.heap[h].gen3, seg)'
    BY <1>2, <1>5, <2>1 DEF Kept, Covered, h
  <2> QED
    BY <1>2, <1>5, <2>1, <2>2 DEF Kept, h
<1> QED
  BY <1>3, <1>4, <1>5
=============================================================================
