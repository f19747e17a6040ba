----------------------------- MODULE HeapImages -----------------------------
(***************************************************************************)
(* Small targets for the clients of the segment walk: three or four        *)
(* segments of a few words, with free words between objects, objects whose *)
(* size is not a multiple of a word, words inside an object that look like *)
(* an object, an ephemeral segment whose own end is out of date, and reads *)
(* that fail.                                                              *)
(***************************************************************************)
EXTENDS SegmentWalk, TLC

CONSTANTS s1, s2, s3, l1, h1, h2

\* The objects of the small heaps, as size by address.
Objects == (0 :> 3) @@ (6 :> 2) @@ (10 :> 1) @@ (14 :> 4) @@ (20 :> 2)

\* Word 2 is the second word of the object at 0, word 16 of the one at 14.
LookAlikes == (2 :> 5) @@ (16 :> 2)

SizesOf(objs, others) ==
  [a \in Addr |-> IF a \in DOMAIN objs THEN objs[a]
                  ELSE IF a \in DOMAIN others THEN others[a] ELSE NoObject]

Seg(first, last, link) == [ok |-> TRUE, begin |-> first, allocated |-> last, next |-> link]

\* s1 -> s2 is the list of generation 2, s2 is ephemeral and ends at 18
\* although its own record says 10; l1 holds the large objects; s3 is not linked.
Segments ==
  (s1 :> Seg(0, 8, s2)) @@ (s2 :> Seg(10, 10, Null)) @@ (l1 :> Seg(20, 22, Null))
  @@ (s3 :> Seg(24, 26, Null))

Within(objs, first, last) == {a \in DOMAIN objs : first <= a /\ a < last}

Details(g0, g2, g3, a) == [ok |-> TRUE, gen0 |-> g0, gen2 |-> g2, gen3 |-> g3, alloc |-> a]

Workstation ==
  [globals |-> TRUE, ok |-> TRUE, server |-> FALSE, listed |-> TRUE,
   heaps |-> <<h1>>,
   heap |-> (h1 :> Details(s2, s1, l1, 18)) @@ (h2 :> Details(Null, Null, Null, 0)),
   seg |-> Segments,
   size |-> SizesOf(Objects, LookAlikes),
   objects |-> (s1 :> Within(Objects, 0, 8)) @@ (s2 :> Within(Objects, 10, 18))
               @@ (l1 :> Within(Objects, 20, 22)) @@ (s3 :> {}),
   life |-> "still"]

\* The first heap has s1 as its only segment, the second s2 and l1.
Server ==
  [Workstation EXCEPT
     !.server = TRUE, !.heaps = <<h1, h2>>,
     !.heap = (h1 :> Details(s1, s1, Null, 8)) @@ (h2 :> Details(s2, s2, l1, 18)),
     !.seg[s1].next = Null]

\* Any of the DAC's answers may be a failure.
Broken(m, globals, ok, listed, heaps, segs) ==
  [m EXCEPT
     !.globals = globals, !.ok = ok, !.listed = listed,
     !.heap = [h \in HeapIds |-> [m.heap[h] EXCEPT !.ok = h \notin heaps]],
     !.seg = [s \in SegIds |-> [m.seg[s] EXCEPT !.ok = s \notin segs]]]

DumpImages ==
  {Broken(m, globals, ok, listed, heaps, segs) :
     m \in {Workstation, Server}, globals \in BOOLEAN, ok \in BOOLEAN,
     listed \in BOOLEAN, heaps \in SUBSET HeapIds, segs \in SUBSET {s1, s2, l1}}

-----------------------------------------------------------------------------
(* A live target that allocates: the allocation pointer of the ephemeral   *)
(* segment moves before the object is written, the object is written, then *)
(* a segment of large objects is added.                                    *)
Growth ==
  LET few == SizesOf([a \in DOMAIN Objects \ {14} |-> Objects[a]], 2 :> 5)
      g1 == [Workstation EXCEPT !.size = few, !.objects[s2] = {10}]
      g4 == [Workstation EXCEPT !.seg[l1].next = s3, !.objects[s3] = {24},
                                !.size = SizesOf((24 :> 2) @@ Objects, LookAlikes)]
  IN  <<[g1 EXCEPT !.heap[h1].alloc = 14], g1, Workstation, g4>>

Growing(m) == [m EXCEPT !.life = "growing"]
GrowingImages == {Growing(Growth[i]) : i \in 1 .. Len(Growth)}
GrowingSteps ==
  {<<Growing(Growth[i]), Growing(Growth[i + 1])>> : i \in 1 .. Len(Growth) - 1}

(* A live target that also collects: the objects of s1 are compacted, s2   *)
(* is emptied, and any read may fail.  It changes back and forth.          *)
Compacted ==
  LET objs == (0 :> 3) @@ (4 :> 2) @@ (6 :> 1) @@ (20 :> 2)
  IN  [Workstation EXCEPT
         !.heap[h1].alloc = 10, !.size = SizesOf(objs, 2 :> 2),
         !.objects = (s1 :> {0, 4, 6}) @@ (s2 :> {}) @@ (l1 :> {20}) @@ (s3 :> {})]

MovingImages ==
  {[m EXCEPT !.life = "moving"] : m \in {Workstation, Compacted, Server, Growth[4],
   Broken(Compacted, TRUE, FALSE, FALSE, HeapIds, SegIds),
   Broken(Server, FALSE, TRUE, FALSE, {h2}, {s2})}}
MovingSteps ==
  {p \in MovingImages \X MovingImages : p[1].server = p[2].server}

\* A dump does not change.
AllImages == DumpImages \cup GrowingImages \cup MovingImages
AllSteps == GrowingSteps \cup MovingSteps
=============================================================================
