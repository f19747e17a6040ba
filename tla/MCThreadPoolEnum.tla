------------------------- MODULE MCThreadPoolEnum -------------------------
(***************************************************************************)
(* Small thread pools: a global queue whose first segment is used up and   *)
(* one with a node that is reserved; work-stealing queues before and after *)
(* their indexes reach the length of the array; a worker without a queue.  *)
(***************************************************************************)
EXTENDS Naturals, Sequences, TLC

CONSTANT Null

VARIABLES mem, fresh, stayed, e, reported

Items == {"i1", "i2", "i3", "i4", "i5", "i6", "i7"}

SomeWork ==
  [i \in Items |->
     CASE i = "i1" -> [method |-> "async", handle |-> TRUE]
       [] i = "i3" -> [method |-> "ad", handle |-> TRUE]
       [] i = "i4" -> [method |-> "ad", handle |-> FALSE]
       [] i = "i6" -> [method |-> "none", handle |-> FALSE]
       [] OTHER -> [method |-> "plain", handle |-> TRUE]]

Seg(l, u, x, y) == [lower |-> l, upper |-> u, nodes |-> <<x, y>>]
Deque(h, t, n) == [head |-> h, tail |-> t, arrays |-> <<n>>]

Straightforward == Deque(1, 3, <<Null, "i5", "i6", Null>>)
Wrapped == Deque(3, 5, <<"i7", Null, Null, "i5">>)
FarOn == Deque(9, 10, <<Null, "i7", Null, Null>>)

Domain1 ==
  [queue |-> "good", tail |-> 1, lists |-> TRUE, locals |-> <<Straightforward, Null, FarOn>>,
   segments |-> <<Seg(2, 2, Null, Null), Seg(1, 2, Null, "i1"), Seg(0, 1, "i3", Null)>>]
Domain2 ==
  [queue |-> "good", tail |-> 0, lists |-> FALSE, locals |-> <<>>,
   segments |-> <<Seg(0, 2, "i2", "i4")>>]
Absent == [Domain2 EXCEPT !.queue = "none"]
Torn == [Domain2 EXCEPT !.queue = "bad"]
Empty == [Domain2 EXCEPT !.segments = <<>>]

Reads ==
  {<<what, n, 0>> : what \in {"pools", "lists", "tail", "head", "fields", "list", "size"}, n \in 1 .. 2}
    \cup {<<what, 1, n>> : what \in {"indexes", "nodes", "next", "members", "head", "tailIndex",
                                     "array", "nodesOfQueue"}, n \in 1 .. 3}
Failures == {{}, {<<"tail", 1, 0>>, <<"head", 1, 0>>}} \cup {{r} : r \in Reads}

DumpImages ==
  {[domains |-> <<x, y>>, fails |-> f, finds |-> m] :
     x \in {Domain1, [Domain1 EXCEPT !.locals = <<Wrapped>>, !.tail = 2]},
     y \in {Domain2, Absent, Torn, Empty, [Domain2 EXCEPT !.lists = TRUE, !.locals = <<Deque(0, 1, <<"i7">>)>>]},
     f \in Failures, m \in {{"async", "ad"}}}
  \cup {[domains |-> <<Domain1, Domain2>>, fails |-> {}, finds |-> m] : m \in SUBSET {"async", "ad"}}

LiveImages ==
  {[domains |-> <<[Domain2 EXCEPT !.tail = 1, !.segments = <<s>>, !.lists = TRUE, !.locals = <<q>>]>>,
    fails |-> {}, finds |-> {"async"}] :
     s \in {Seg(0, 2, "i1", "i4"), Seg(1, 1, Null, Null)},
     q \in {Deque(0, 1, <<"i2", Null>>), Deque(1, 2, <<Null, "i2">>)}}

Dump == INSTANCE ThreadPoolEnum WITH
  Work <- SomeWork, SegmentSize <- 2, MaxSize <- 5, Images <- DumpImages, Live <- FALSE

\* Two items queued, two to come.
Live == INSTANCE ThreadPoolEnum WITH
  Items <- {"i1", "i2", "i3", "i4"}, Work <- [i \in {"i1", "i2", "i3", "i4"} |-> SomeWork[i]],
  SegmentSize <- 2, MaxSize <- 5, Images <- LiveImages, Live <- TRUE
=============================================================================
