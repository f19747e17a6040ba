-------------------------- MODULE ThreadPoolEnum --------------------------
(***************************************************************************)
(* ThreadPoolEnumerator (SDbgExt/ThreadPoolEnumerator.h) over the queues   *)
(* of a .NET thread pool.  Each application domain has a global queue, a   *)
(* list of segments from queueTail, where items are taken, to queueHead,   *)
(* where they are put; and a sparse array of work-stealing queues, one for *)
(* each worker, whose indexes only count up and are reduced by the length  *)
(* of the array.  The enumerator reads one word at a time while, in a live *)
(* target, the pool goes on.                                               *)
(***************************************************************************)
EXTENDS Naturals, Sequences, FiniteSets

CONSTANTS
  Items,        (* addresses of work items                                 *)
  Null,         (* the NULL address                                        *)
  Work,         (* what each item is, see WorkItem                         *)
  SegmentSize,  (* nodes in a segment: 256                                 *)
  MaxSize,      (* what a size of -1 is as a UINT32: the largest one       *)
  Images,       (* the pools an enumeration may start with                 *)
  Live          (* whether the pool runs                                   *)

(* method: what the delegate in the callback field runs (for an item with  *)
(* neither callback nor m_action, what its first field refers to): one of  *)
(* the two FinishAsyncWork, some other method, or none that can be found.  *)
(* handle: whether _target._reqMsg.MI.m_handle can be evaluated.           *)
WorkItem == [method: {"async", "ad", "plain", "none"}, handle: BOOLEAN]

Slot == Items \cup {Null}

(* arrays: the arrays a queue has had; the last one is m_array.            *)
Queue == [head: Nat, tail: Nat, arrays: Seq(Seq(Slot))]
Segment == [lower: 0 .. SegmentSize, upper: 0 .. SegmentSize, nodes: [1 .. SegmentSize -> Slot]]

(* queue: whether ThreadPoolGlobals.workQueue is null, not what it should  *)
(* be, or a queue.  tail: the segment queueTail refers to, 0 if null.      *)
Domain ==
  [queue: {"none", "bad", "good"}, tail: Nat, segments: Seq(Segment),
   lists: BOOLEAN, locals: Seq(Queue \cup {Null})]

(* fails: the reads that fail, <<what, domain, number>>.  finds: which     *)
(* FinishAsyncWork methods the metadata has.                               *)
Image ==
  [domains: Seq(Domain), fails: SUBSET (STRING \X Nat \X Nat), finds: SUBSET {"async", "ad"}]

\* What the module takes for granted of its parameters.
PoolAssumption ==
  /\ Null \notin Items
  /\ Work \in [Items -> WorkItem]
  /\ SegmentSize \in Nat \ {0}
  /\ MaxSize \in Nat
  /\ Live \in BOOLEAN

VARIABLES
  mem,          (* the target                                              *)
  fresh,        (* items the program has yet to queue                      *)
  stayed,       (* items in the place they were in at the start            *)
  e,            (* the enumerator, see Enumerator                          *)
  reported      (* what the callback was given                             *)

target == <<mem, fresh, stayed>>
vars == <<target, e, reported>>

(* d: the domain, values[a].  k: queueNode, as the number of a segment, or *)
(* the slot of the sparse array, whose length is size.  IterateNodes runs  *)
(* a from bottom to top over nodes (arr = 0) or the arr-th of arrays.      *)
(* known: m_sparseArrayArrayField has been found.  async, ad: what the two *)
(* members for the FinishAsyncWork methods hold.  hr: whether the last     *)
(* queue that was dumped could be.                                         *)
Enumerator ==
  [pc: {"pools", "pool", "indexes", "nodes", "node", "item", "next", "locals", "list",
        "queue", "head", "tail", "array", "returned"},
   d: Nat, k: Nat, size: Nat, bottom: Nat, top: Nat, a: Nat, arr: Nat, item: Slot,
   known: BOOLEAN, async: {"null", "one", "async"}, ad: {"null", "ad"},
   hr: {"S_OK", "failed"}]

N == Len(mem.domains)
Dom == mem.domains[e.d]
FailsIn(n, what, s) == <<what, n, s>> \in mem.fails
Fails(what, s) == FailsIn(e.d, what, s)

\* The items between two counters of a queue, by slot of the current array.
Current(q) == q.arrays[Len(q.arrays)]
At(q, j) == Current(q)[(j % Len(Current(q))) + 1]
InQueue(q) == {At(q, j) : j \in q.head .. q.tail - 1} \ {Null}
InSegment(s) == {s.nodes[j + 1] : j \in {i \in 0 .. SegmentSize - 1 : s.lower <= i /\ i < s.upper}} \ {Null}
Waiting(dom) ==
  UNION {InSegment(dom.segments[i]) : i \in {j \in DOMAIN dom.segments : j >= dom.tail}}
Queues(dom) == {dom.locals[i] : i \in DOMAIN dom.locals} \ {Null}
InPlace(m) ==
  UNION {Waiting(m.domains[i]) \cup UNION {InQueue(q) : q \in Queues(m.domains[i])} : i \in DOMAIN m.domains}

Init ==
  /\ mem \in Images
  /\ stayed = InPlace(mem)
  /\ fresh = Items \ stayed
  /\ e = [pc |-> "pools", d |-> 1, k |-> 0, size |-> 0, bottom |-> 0, top |-> 0, a |-> 0,
          arr |-> 0, item |-> Null, known |-> FALSE, async |-> "null", ad |-> "null",
          hr |-> "S_OK"]
  /\ reported = <<>>

-----------------------------------------------------------------------------
(* The pool at work. *)

Update(n, dom) == mem' = [mem EXCEPT !.domains[n] = dom]

Reserved(seg) == {j \in 0 .. SegmentSize - 1 : seg.lower <= j /\ j < seg.upper /\ seg.nodes[j + 1] = Null}

(* Enqueue: a node is reserved first and filled later; a full segment gets *)
(* a successor.                                                            *)
Reserve(n) ==
  LET dom == mem.domains[n]
      last == Len(dom.segments)
  IN  /\ dom.queue = "good"
      /\ fresh # {} /\ \A i \in 1 .. last : Reserved(dom.segments[i]) = {}   \* bound: one at a time
      /\ Update(n, IF dom.segments[last].upper < SegmentSize
                     THEN [dom EXCEPT !.segments[last].upper = @ + 1]
                     ELSE [dom EXCEPT !.segments =
                             Append(@, [lower |-> 0, upper |-> 1, nodes |-> [j \in 1 .. SegmentSize |-> Null]])])
      /\ UNCHANGED <<fresh, stayed>>

Store(n) ==
  \E s \in DOMAIN mem.domains[n].segments : \E j \in Reserved(mem.domains[n].segments[s]), i \in fresh :
    /\ Update(n, [mem.domains[n] EXCEPT !.segments[s].nodes[j + 1] = i])
    /\ fresh' = fresh \ {i}
    /\ UNCHANGED stayed

(* Dequeue, which also moves queueTail on from a segment that is used up.  *)
Take(n) ==
  LET dom == mem.domains[n]
      seg == dom.segments[dom.tail]
      i == seg.nodes[seg.lower + 1]
  IN  /\ dom.queue = "good" /\ dom.tail > 0
      /\ \/ /\ seg.lower < seg.upper /\ i # Null
            /\ Update(n, [dom EXCEPT !.segments[dom.tail] =
                           [@ EXCEPT !.lower = @ + 1, !.nodes[seg.lower + 1] = Null]])
            /\ stayed' = stayed \ {i}
         \/ /\ seg.lower = SegmentSize /\ dom.tail < Len(dom.segments)
            /\ Update(n, [dom EXCEPT !.tail = @ + 1])
            /\ UNCHANGED stayed
      /\ UNCHANGED fresh

(* LocalPush: a queue that is full but for one slot moves to an array      *)
(* twice as long, from slot 0 on.                                          *)
Push(n, s) ==
  LET q == mem.domains[n].locals[s]
      len == Len(Current(q))
      moved == [j \in 1 .. 2 * len |-> IF j <= q.tail - q.head THEN At(q, q.head + j - 1) ELSE Null]
      grown == [head |-> 0, tail |-> q.tail - q.head, arrays |-> Append(q.arrays, moved)]
      put(r, i) == [r EXCEPT !.tail = @ + 1,
                             !.arrays[Len(r.arrays)][(r.tail % Len(Current(r))) + 1] = i]
  IN  /\ q # Null
      /\ \E i \in fresh :
           /\ fresh' = fresh \ {i}
           /\ IF q.tail < q.head + len - 1
                THEN /\ Update(n, [mem.domains[n] EXCEPT !.locals[s] = put(q, i)])
                     /\ UNCHANGED stayed
                ELSE /\ Update(n, [mem.domains[n] EXCEPT !.locals[s] = put(grown, i)])
                     /\ stayed' = stayed \ InQueue(q)

(* TrySteal. *)
Steal(n, s) ==
  LET q == mem.domains[n].locals[s]
  IN  /\ q # Null /\ q.head < q.tail
      /\ Update(n, [mem.domains[n] EXCEPT
           !.locals[s] = [@ EXCEPT !.head = @ + 1,
                                   !.arrays[Len(q.arrays)][(q.head % Len(Current(q))) + 1] = Null]])
      /\ stayed' = stayed \ {At(q, q.head)}
      /\ UNCHANGED fresh

PoolRuns ==
  /\ Live /\ e.pc # "returned"
  /\ \E n \in 1 .. N :
       \/ Reserve(n) \/ Store(n) \/ Take(n)
       \/ \E s \in DOMAIN mem.domains[n].locals : Push(n, s) \/ Steal(n, s)
  /\ UNCHANGED <<e, reported>>

-----------------------------------------------------------------------------
(* The global queues: DumpThreadPools and DumpThreadPool. *)

\* The enumerator, being at p, goes on as f.
Do(p, f) == e.pc = p /\ e' = f /\ UNCHANGED <<target, reported>>

ReadPools == Do("pools", [e EXCEPT !.pc = IF FailsIn(1, "pools", 0) THEN "locals" ELSE "pool"])

(* queueTail, or queueHead if there is none: the last segment. *)
Begin(n) ==
  IF mem.domains[n].tail = 0 \/ FailsIn(n, "tail", 0) THEN Len(mem.domains[n].segments)
  ELSE mem.domains[n].tail

Accepted(n) ==
  /\ mem.domains[n].queue = "good"
  /\ Begin(n) > 0
  /\ ~(FailsIn(n, "tail", 0) /\ FailsIn(n, "head", 0))
  /\ ~FailsIn(n, "fields", 0)

OpenPool ==
  Do("pool",
     IF e.d > N THEN [e EXCEPT !.pc = "locals"]
     ELSE IF Dom.queue = "none" THEN [e EXCEPT !.d = @ + 1]
     ELSE IF Accepted(e.d) THEN [e EXCEPT !.pc = "indexes", !.k = Begin(e.d)]
     ELSE [e EXCEPT !.d = @ + 1, !.hr = "failed"])

\* A slip: a segment in which nothing waits ends the queue.
ReadIndexesStops ==
  LET seg == Dom.segments[e.k] IN
  Do("indexes",
     IF Fails("indexes", e.k) THEN [e EXCEPT !.pc = "next"]
     ELSE IF seg.upper <= seg.lower THEN [e EXCEPT !.pc = "pool", !.d = @ + 1]
     ELSE [e EXCEPT !.pc = "nodes", !.bottom = seg.lower, !.top = seg.upper])

(* Both counters are in one word. *)
ReadIndexes ==
  LET seg == Dom.segments[e.k] IN
  Do("indexes",
     IF Fails("indexes", e.k) \/ seg.upper <= seg.lower THEN [e EXCEPT !.pc = "next"]
     ELSE [e EXCEPT !.pc = "nodes", !.bottom = seg.lower, !.top = seg.upper])

\* A slip: a node whose Next cannot be read is read again.
ReadNextStays ==
  Do("next",
     IF e.k < Len(Dom.segments)
       THEN [e EXCEPT !.pc = "indexes", !.k = IF Fails("next", @) THEN @ ELSE @ + 1]
       ELSE [e EXCEPT !.pc = "pool", !.d = @ + 1, !.hr = "S_OK"])

ReadNext ==
  Do("next",
     IF e.k < Len(Dom.segments) /\ ~Fails("next", e.k) THEN [e EXCEPT !.pc = "indexes", !.k = @ + 1]
     ELSE [e EXCEPT !.pc = "pool", !.d = @ + 1, !.hr = "S_OK"])

-----------------------------------------------------------------------------
(* IterateNodes, for both kinds of queues. *)

\* A slip: the second method is not looked up when the first was not found.
LookUpFirst(f) ==
  [f EXCEPT !.async = IF "async" \in mem.finds THEN "async" ELSE "one",
            !.ad = IF {"async", "ad"} \subseteq mem.finds THEN "ad" ELSE @]

(* Both failures mark the same member (lines 189 and 195): the second      *)
(* method stays unknown, and the first is lost if it was found.            *)
LookUpMethods(f) ==
  IF "null" \notin {f.async, f.ad} THEN f
  ELSE [f EXCEPT !.async = IF {"async", "ad"} \subseteq mem.finds THEN "async" ELSE "one",
                 !.ad = IF "ad" \in mem.finds THEN "ad" ELSE @]

\* A slip: the first item is left out.
IterateLate(arr) == LookUpMethods([e EXCEPT !.pc = "node", !.a = e.bottom + 1, !.arr = arr])

Iterate(arr) == LookUpMethods([e EXCEPT !.pc = "node", !.a = e.bottom, !.arr = arr])

ReadNodes == Do("nodes", Iterate(0))

(* ClrObjectArray::GetItemAddr refuses an index beyond the array.  *)
GetItemAddr(i) ==
  LET nodes == IF e.arr = 0 THEN Dom.segments[e.k].nodes ELSE Dom.locals[e.k].arrays[e.arr] IN
  IF Fails(IF e.arr = 0 THEN "nodes" ELSE "nodesOfQueue", e.k) \/ i >= Len(nodes) THEN Null
  ELSE nodes[i + 1]

\* A slip: a node that is null is taken for an item.
ReadNodeNull ==
  /\ e.a < e.top
  /\ Do("node", [e EXCEPT !.pc = "item", !.item = GetItemAddr(e.a)])

(* There is no object at NULL. *)
ReadNode ==
  /\ e.a < e.top
  /\ Do("node", IF GetItemAddr(e.a) = Null THEN [e EXCEPT !.a = @ + 1]
                ELSE [e EXCEPT !.pc = "item", !.item = GetItemAddr(e.a)])

EndOfNodes ==
  /\ e.a >= e.top
  /\ Do("node", IF e.arr = 0 THEN [e EXCEPT !.pc = "next"] ELSE [e EXCEPT !.pc = "queue", !.k = @ + 1])

(* cbType: an item that runs a FinishAsyncWork that is known is            *)
(* CB_TYPE_ASYNC_WORKITEM if the delegate behind it is found.              *)
Kind(w) ==
  CASE w.method = "none" -> "invalid"
    [] w.method \in {e.async, e.ad} -> IF w.handle THEN "async" ELSE "invalid"
    [] OTHER -> "queue"

Report ==
  reported' = Append(reported, [item |-> e.item, kind |-> Kind(Work[e.item])])

\* A slip: the loop does not advance after the first item it reports.
ReportItemTwice ==
  /\ e.pc = "item"
  /\ Report
  /\ e' = [e EXCEPT !.pc = "node", !.a = IF Len(reported) = 1 THEN @ ELSE @ + 1]
  /\ UNCHANGED target

ReportItem ==
  /\ e.pc = "item"
  /\ Report
  /\ e' = [e EXCEPT !.pc = "node", !.a = @ + 1]
  /\ UNCHANGED target

-----------------------------------------------------------------------------
(* The work-stealing queues: DumpWorkStealingQueueList and                 *)
(* DumpWorkStealingQueue, whose failures nobody looks at.                  *)

(* They are left out when the last global queue failed. *)
ReadLists ==
  Do("locals", IF FailsIn(1, "lists", 0) \/ e.hr = "failed" THEN [e EXCEPT !.pc = "returned"]
               ELSE [e EXCEPT !.pc = "list", !.d = 1])

(* A size that cannot be read is -1, for a UINT32 the largest number.  *)
ReadList ==
  Do("list",
     IF e.d > N THEN [e EXCEPT !.pc = "returned"]
     ELSE IF ~Dom.lists \/ Fails("list", 0) THEN [e EXCEPT !.d = @ + 1]
     ELSE [e EXCEPT !.pc = "queue", !.k = 1,
                    !.size = IF Fails("size", 0) THEN MaxSize ELSE Len(Dom.locals)])

ReadQueue ==
  Do("queue",
     IF e.k > e.size THEN [e EXCEPT !.pc = "list", !.d = @ + 1]
     ELSE IF Fails("size", 0) \/ Dom.locals[e.k] = Null THEN [e EXCEPT !.k = @ + 1]
     ELSE [e EXCEPT !.pc = "head"])

GiveUp == [e EXCEPT !.pc = "queue", !.k = @ + 1]

(* The fields are looked up until they have been found once. *)
ReadHead ==
  LET known == e.known \/ ~Fails("members", e.k) IN
  Do("head",
     IF ~known \/ Fails("head", e.k) THEN [GiveUp EXCEPT !.known = known]
     ELSE [e EXCEPT !.pc = "tail", !.known = known, !.bottom = Dom.locals[e.k].head])

ReadTail ==
  Do("tail", IF Fails("tailIndex", e.k) THEN GiveUp
             ELSE [e EXCEPT !.pc = "array", !.top = Dom.locals[e.k].tail])

(* The counters are used as they are, not reduced by the array's length.   *)
ReadArray ==
  Do("array", IF Fails("array", e.k) \/ e.top = e.bottom THEN GiveUp
              ELSE Iterate(Len(Dom.locals[e.k].arrays)))

EnumStep ==
  \/ ReadPools \/ OpenPool \/ ReadIndexes \/ ReadNodes \/ ReadNode \/ ReportItem \/ EndOfNodes
  \/ ReadNext \/ ReadLists \/ ReadList \/ ReadQueue \/ ReadHead \/ ReadTail \/ ReadArray

Next == EnumStep \/ PoolRuns

Spec == Init /\ [][Next]_vars

-----------------------------------------------------------------------------
TypeOK ==
  /\ e \in Enumerator
  /\ e.d \in 1 .. N + 1
  /\ e.pc = "item" => e.item \in Items /\ e.a < e.top
  /\ fresh \subseteq Items /\ stayed \subseteq Items \ fresh

Found == {reported[i].item : i \in DOMAIN reported}
Returned == e.pc = "returned"

(* What can be shown of a global queue: the segments that can be reached,  *)
(* with counters and nodes that can be read.                               *)
Global(n) ==
  LET dom == mem.domains[n]
      shown == {s \in Begin(n) .. Len(dom.segments) :
                  /\ \A r \in Begin(n) .. s - 1 : ~FailsIn(n, "next", r)
                  /\ ~FailsIn(n, "indexes", s) /\ ~FailsIn(n, "nodes", s)}
  IN  UNION {InSegment(dom.segments[s]) : s \in shown}

(* Items of a queue that have not wrapped around the end of its array.     *)
Straight(q) ==
  {At(q, j) : j \in {i \in q.head .. q.tail - 1 : i < Len(Current(q))}} \ {Null}

Dumped == IF FailsIn(1, "pools", 0) THEN {} ELSE {n \in 1 .. N : mem.domains[n].queue # "none"}
LastFailed == Dumped # {} /\ ~Accepted(CHOOSE n \in Dumped : \A j \in Dumped : j <= n)
Listed ==
  IF LastFailed \/ FailsIn(1, "lists", 0) THEN {}
  ELSE {n \in 1 .. N : mem.domains[n].lists /\ ~FailsIn(n, "list", 0) /\ ~FailsIn(n, "size", 0)}

Local(n) ==
  LET locals == mem.domains[n].locals
      shown == {s \in DOMAIN locals :
                  /\ locals[s] # Null
                  /\ \A what \in {"head", "tailIndex", "array", "nodesOfQueue"} : ~FailsIn(n, what, s)
                  /\ FailsIn(n, "members", s) =>
                       \E m \in Listed : \E r \in DOMAIN mem.domains[m].locals :
                         /\ m < n \/ (m = n /\ r < s)
                         /\ mem.domains[m].locals[r] # Null
                         /\ ~FailsIn(m, "members", r)}
  IN  UNION {Straight(locals[s]) : s \in shown}

(* DumpThreadPools, in a dump: exactly what waits is reported, but for     *)
(* items of work-stealing queues that have wrapped around, and for all     *)
(* work-stealing queues if the last domain with a global queue failed.     *)
DumpReported ==
  (~Live /\ Returned) =>
    Found = UNION ({Global(n) : n \in {j \in Dumped : Accepted(j)}} \cup {Local(n) : n \in Listed})

(* IterateNodes: an item that runs one of the FinishAsyncWork methods is   *)
(* shown with the delegate behind it if its method is known, and if that   *)
(* of ADAsyncWorkItem is: without it the other's is forgotten.             *)
AsyncRecognised ==
  \A i \in DOMAIN reported :
    LET w == Work[reported[i].item] IN
    (w.method \in {"async", "ad"} /\ w.handle) =>
      reported[i].kind = IF {"ad", w.method} \subseteq mem.finds THEN "async" ELSE "queue"

(* However the pool runs meanwhile, an item that stays where it was is     *)
(* reported, but for those that have wrapped around.                       *)
LastingReported ==
  (Returned /\ mem.fails = {} /\ e.hr = "S_OK") =>
    \A n \in 1 .. N :
      /\ Accepted(n) => Waiting(mem.domains[n]) \cap stayed \subseteq Found
      /\ mem.domains[n].lists =>
           \A q \in Queues(mem.domains[n]) : Straight(q) \cap stayed \subseteq Found

(* However the pool runs meanwhile, no item is reported twice.             *)
EachOnce == \A i, j \in DOMAIN reported : reported[i].item = reported[j].item => i = j

(* "Dump the thread-local queues as well" (line 60): every item of a       *)
(* work-stealing queue is reported by an enumeration that succeeds.        *)
LocalQueuesDumped ==
  (~Live /\ Returned /\ e.hr = "S_OK" /\ mem.fails = {}) =>
    \A n \in 1 .. N : mem.domains[n].lists =>
      \A q \in Queues(mem.domains[n]) : InQueue(q) \subseteq Found

=============================================================================
