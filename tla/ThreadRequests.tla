-------------------------- MODULE ThreadRequests --------------------------
(***************************************************************************)
(* The list of managed threads and what hangs off each of them: EnumThreads*)
(* and FindThread (SDbgCore/src/ClrProcess_Threading.cpp), the way from a  *)
(* thread to its HTTP request (GetManagedThreadObject,                     *)
(* GetThreadExecutionContext, GetHttpContextFromThread) and the two        *)
(* commands that follow it (SDbgExt/DumpAspNetRequests.cpp).               *)
(*                                                                         *)
(* In a live target threads start and end and go from one request to the   *)
(* next between two reads.                                                 *)
(***************************************************************************)
EXTENDS Naturals, Sequences, FiniteSets

CONSTANTS
  Nodes,      (* addresses of native Thread objects                        *)
  Null,       (* the NULL address                                          *)
  Contexts,   (* addresses of HttpContexts                                 *)
  Junk,       (* what uninitialized memory holds                           *)
  Stamped,    (* the Contexts whose _utcTimestamp can be read              *)
  Images,     (* the targets a command may start with                      *)
  Queries,    (* "dump" is !dumpaspnetrequests, "find" !findhttpcontext    *)
  LastId      (* bound: the last thread id a live target uses, 0 in a dump *)

(* One thread.  id: its number in the order in which threads have started, *)
(* 0 in memory that none has used yet.  readable: whether GetThreadData can*)
(* read the record.  managed: whether GetManagedThreadObject gives a valid *)
(* System.Threading.Thread.  exec, illogical: whether m_ExecutionContext   *)
(* and _illogicalCallContext refer to an object, are null, or cannot be    *)
(* read.  host: m_HostContext.                                             *)
Thread ==
  [id: Nat, next: Nodes \cup {Null}, readable: BOOLEAN, managed: BOOLEAN,
   exec: {"set", "null", "bad"}, illogical: {"set", "null", "bad"}, host: Contexts \cup {Null}]

(* store: whether GetThreadStoreData can read the thread store.  first: its*)
(* head.  at: what is in the memory of each node.  linked: the threads that*)
(* run.                                                                    *)
Image == [store: BOOLEAN, first: Nodes \cup {Null}, at: [Nodes -> Thread], linked: SUBSET Nodes]

IdsIn(m) == {m.at[n].id : n \in m.linked}

\* Of the threads that started after the one with id i, to is the first.
NextOver(m, i, to) ==
  LET later == {y \in m.linked : m.at[y].id > i} IN
  IF to = Null THEN later = {} ELSE to \in later /\ \A y \in later : m.at[to].id <= m.at[y].id

(* A thread that starts goes to the end of the list, so that the list is in*)
(* the order of the starts.                                                *)
Listed(m) ==
  /\ \A n \in m.linked : m.at[n].id \in 1 .. Cardinality(Nodes)
  /\ \A n \in Nodes \ m.linked : m.at[n].id = 0
  /\ \A x, y \in m.linked : m.at[x].id = m.at[y].id => x = y
  /\ NextOver(m, 0, m.first)
  /\ \A n \in m.linked : NextOver(m, m.at[n].id, m.at[n].next)

\* What the module takes for granted of its parameters.
RequestAssumption ==
  /\ IsFiniteSet(Nodes)
  /\ Null \notin Nodes \cup Contexts /\ Junk \notin Contexts \cup {Null}
  /\ Stamped \subseteq Contexts
  /\ Images \subseteq Image /\ \A m \in Images : Listed(m)
  /\ Queries \subseteq {"dump", "find"}
  /\ LastId \in Nat
ASSUME RequestAssumption

VARIABLES
  mem,        (* the target                                                *)
  ids,        (* how many thread ids have been given away                  *)
  lasting,    (* ids of the threads that have run since the start          *)
  reused,     (* whether memory of an ended thread has been used again     *)
  e,          (* the command, see Command                                  *)
  seen,       (* ids of the threads EnumThreads has called back with       *)
  rows        (* the rows, or the one request, that were shown             *)

target == <<mem, ids, lasting, reused>>
requestVars == <<target, e, seen, rows>>

(* wanted: the id !findhttpcontext looks for.  curr, next: currThreadObj,  *)
(* tData.NextThread.  id: tData.osThreadId.  ctx, time: ctx.HostContext    *)
(* and httpCtx.RequestStartTime.  hr: what EnumThreads returned.           *)
Command ==
  [pc: {"store", "thread", "managed", "exec", "illogical", "host", "request", "next", "returned"},
   cmd: Queries, wanted: Nat, curr: Nodes \cup {Null}, next: Nodes \cup {Null}, id: Nat,
   ctx: Contexts \cup {Null, Junk}, time: Contexts \cup {Null, Junk},
   hr: {"S_OK", "failed"}]

RequestInit ==
  /\ mem \in Images
  /\ ids = Cardinality(Nodes)
  /\ lasting = IdsIn(mem)
  /\ reused = FALSE
  /\ \E c \in Queries, w \in lasting \cup {0} :
       e = [pc |-> "store", cmd |-> c, wanted |-> w, curr |-> Null, next |-> Null, id |-> 0,
            ctx |-> IF c = "dump" THEN Junk ELSE Null,
            time |-> IF c = "dump" THEN Junk ELSE Null, hr |-> "S_OK"]
  /\ seen = <<>>
  /\ rows = <<>>

-----------------------------------------------------------------------------
(* The target. *)

Link(m, n, to) ==
  IF m.first = n THEN [m EXCEPT !.first = to]
  ELSE [m EXCEPT !.at = [x \in Nodes |->
          IF x \in m.linked /\ m.at[x].next = n THEN [m.at[x] EXCEPT !.next = to] ELSE m.at[x]]]

(* A thread starts: its node goes to the end of the list. *)
StartThread ==
  /\ ids < LastId
  /\ \E n \in Nodes \ mem.linked, h \in Contexts \cup {Null} :
       /\ reused' = (reused \/ mem.at[n].id # 0)
       /\ mem' = [Link([mem EXCEPT !.at[n] = [id |-> ids + 1, next |-> Null, readable |-> TRUE,
                                              managed |-> TRUE, exec |-> "set",
                                              illogical |-> "set", host |-> h]],
                       Null, n)
                    EXCEPT !.linked = @ \cup {n}]
  /\ ids' = ids + 1
  /\ UNCHANGED lasting

(* A thread ends: its node leaves the list, its memory stays as it is.     *)
EndThread ==
  \E n \in mem.linked :
    /\ mem' = [Link(mem, n, mem.at[n].next) EXCEPT !.linked = @ \ {n}]
    /\ lasting' = lasting \ {mem.at[n].id}
    /\ UNCHANGED <<ids, reused>>

(* A thread goes from a request to the next. *)
SwitchRequest ==
  \E n \in mem.linked, h \in Contexts \cup {Null} :
    /\ mem' = [mem EXCEPT !.at[n].host = h]
    /\ UNCHANGED <<ids, lasting, reused>>

TargetRuns ==
  /\ LastId > 0 /\ e.pc # "returned"
  /\ StartThread \/ EndThread \/ SwitchRequest
  /\ UNCHANGED <<e, seen, rows>>

-----------------------------------------------------------------------------
(* EnumThreads and FindThread. *)

Do(p, f) == e.pc = p /\ e' = f /\ UNCHANGED <<target, seen, rows>>
At == mem.at[e.curr]

Failed == [e EXCEPT !.pc = "returned", !.hr = "failed"]

\* A slip: the walk goes on with what GetThreadStoreData has not set.
ReadStoreUnchecked == Do("store", [e EXCEPT !.pc = "thread", !.curr = mem.first])

(* GetThreadStoreData, without which EnumThreads fails.                    *)
ReadStore == Do("store", IF mem.store THEN [e EXCEPT !.pc = "thread", !.curr = mem.first] ELSE Failed)

(* The record of a node can be read if it is one; that of a thread that has*)
(* ended still may be, with its link as it was.                            *)
Readable(n) == n # Null /\ mem.at[n].id # 0 /\ mem.at[n].readable

\* A slip: the callback stops at the first thread it has no use for.
MatchAnything(id) == TRUE
Match(id) == e.cmd = "dump" \/ id = e.wanted

\* A slip: the last thread of the list is not called back with.
ReadThreadButLast ==
  /\ Readable(e.curr)
  /\ e.pc = "thread"
  /\ e' = [e EXCEPT !.id = At.id, !.next = At.next,
                    !.pc = IF Match(At.id) /\ At.next # Null THEN "managed" ELSE "next"]
  /\ seen' = IF At.next = Null THEN seen ELSE Append(seen, At.id)
  /\ UNCHANGED <<target, rows>>

(* tData of the thread, and the callback.  What follows a match is in the  *)
(* callback of !dumpaspnetrequests, and after the search for               *)
(* !findhttpcontext.                                                       *)
CallBack ==
  /\ e' = [e EXCEPT !.id = At.id, !.next = At.next,
                    !.pc = IF Match(At.id) THEN "managed" ELSE "next"]
  /\ seen' = Append(seen, At.id)

\* A slip: a walk that has come across an ended thread starts again.
ReadThreadRestarts ==
  /\ e.pc = "thread" /\ e.curr # Null
  /\ IF e.curr \in mem.linked THEN CallBack
     ELSE e' = [e EXCEPT !.curr = mem.first] /\ UNCHANGED seen
  /\ UNCHANGED <<target, rows>>

(* GetThreadData of the node that the walk has come to.                    *)
ReadThread ==
  /\ Readable(e.curr)
  /\ e.pc = "thread"
  /\ CallBack
  /\ UNCHANGED <<target, rows>>

Unreadable == e.curr \notin mem.linked \/ ~Readable(e.curr)

\* Slips: what cannot be read is tried again, or taken for the end of the list.
ReadThreadAgain == Unreadable /\ Do("thread", e)
ReadThreadEnds == Unreadable /\ Do("thread", [e EXCEPT !.pc = "returned"])

(* A record that cannot be read ends the walk, with all the threads behind *)
(* it; and so does NULL, where there are no threads.                       *)
ReadThreadFails == Unreadable /\ Do("thread", Failed)

\* A slip: a search that has found nothing goes on with NULL.
NextThreadUnfound ==
  Do("next", IF e.next # Null THEN [e EXCEPT !.pc = "thread", !.curr = e.next]
             ELSE IF e.cmd = "find" THEN [e EXCEPT !.pc = "managed", !.curr = Null]
             ELSE [e EXCEPT !.pc = "returned"])

NextThread ==
  Do("next", IF e.next = Null THEN [e EXCEPT !.pc = "returned"]
             ELSE [e EXCEPT !.pc = "thread", !.curr = e.next])

-----------------------------------------------------------------------------
(* From the thread to its request. *)

\* Nothing is shown for this thread; !findhttpcontext ends.
Done == IF e.cmd = "dump" THEN [e EXCEPT !.pc = "next"] ELSE [e EXCEPT !.pc = "returned"]

ReadManaged == Do("managed", IF At.managed THEN [e EXCEPT !.pc = "exec"] ELSE Done)

ReadExec ==
  Do("exec",
     IF At.exec = "set" THEN [e EXCEPT !.pc = "illogical"]
     ELSE IF At.exec = "null" THEN [Done EXCEPT !.ctx = Null]
     ELSE Done)

(* A failure on the way to m_HostContext leaves ctx.HostContext as it was  *)
(* and is not reported.                                                    *)
ReadIllogical ==
  Do("illogical", [e EXCEPT !.pc = IF At.illogical = "set" THEN "host" ELSE "request"])

\* A slip: a context that is there already is not read again.
ReadHostOnce ==
  Do("host", [e EXCEPT !.pc = "request", !.ctx = IF e.ctx \in Contexts THEN e.ctx ELSE At.host])
ReadHost == Do("host", [e EXCEPT !.pc = "request", !.ctx = At.host])

\* A slip: a request whose start cannot be read is not shown.
ShowRequestStamped ==
  /\ e.pc = "request"
  /\ e' = Done
  /\ rows' = IF e.ctx \in Stamped
               THEN Append(rows, [id |-> e.id, node |-> e.curr, ctx |-> e.ctx, time |-> e.ctx])
               ELSE rows
  /\ UNCHANGED <<target, seen>>

(* GetHttpContextFromThread.  Neither command initializes all it passes:   *)
(* the callback of !dumpaspnetrequests has ctx and httpCtx on its stack,   *)
(* where the last call may have left its own; !findhttpcontext clears them.*)
ShowRequest ==
  /\ e.pc = "request"
  /\ IF e.ctx = Null THEN e' = Done /\ UNCHANGED rows
     ELSE LET time == IF e.ctx \in Stamped THEN e.ctx ELSE e.time IN
          /\ rows' = Append(rows, [id |-> e.id, node |-> e.curr, ctx |-> e.ctx, time |-> time])
          /\ e' = [Done EXCEPT !.time = time]
  /\ UNCHANGED <<target, seen>>

\* What else runs on the stack between two callbacks overwrites the frame.
FrameOverwritten ==
  /\ e.cmd = "dump"
  /\ Do("next", [e EXCEPT !.ctx = Junk, !.time = Junk])

EnumStep ==
  \/ ReadStore \/ ReadThread \/ ReadThreadFails \/ NextThread
  \/ ReadManaged \/ ReadExec \/ ReadIllogical \/ ReadHost \/ ShowRequest

RequestNext == EnumStep \/ FrameOverwritten \/ TargetRuns

RequestSpec == RequestInit /\ [][RequestNext]_requestVars

-----------------------------------------------------------------------------
RequestTypeOK ==
  /\ e \in Command
  /\ ids \in Nat /\ lasting \subseteq IdsIn(mem) /\ reused \in BOOLEAN
  /\ e.pc \in {"managed", "exec", "illogical", "host", "request"} => e.curr # Null

Rows == {rows[i] : i \in DOMAIN rows}
Seen == {seen[i] : i \in DOMAIN seen}
Complete(t) == t.managed /\ t.exec = "set" /\ t.illogical = "set"

\* The walk over a dump gets to the thread: it and those before it can be read.
InReach(n) ==
  mem.store /\ \A m \in mem.linked : mem.at[m].id <= mem.at[n].id => mem.at[m].readable

(* In a dump: of the threads that the walk gets to, one whose contexts can *)
(* all be read has its request shown, or nothing if it has none.  Nothing  *)
(* is shown of one without an execution context, nor of those that an      *)
(* unreadable record hides.                                                *)
CompleteShown ==
  (LastId = 0 /\ e.pc = "returned" /\ e.cmd = "dump") =>
    \A n \in mem.linked :
      LET t == mem.at[n]
          own == {r \in Rows : r.node = n}
      IN  /\ InReach(n) /\ Complete(t) => {r.ctx : r \in own} = {t.host} \ {Null}
          /\ ~(InReach(n) /\ t.managed /\ t.exec = "set") => own = {}
          /\ \A r \in own : r.ctx \in Stamped => r.time = r.ctx

(* In a dump: EnumThreads succeeds if and only if there are threads and the*)
(* walk has got to all of them.                                            *)
EndTold ==
  (LastId = 0 /\ e.pc = "returned" /\ e.cmd = "dump") =>
    (e.hr = "S_OK" <=> mem.linked # {} /\ \A n \in mem.linked : InReach(n))

(* In a dump: where the contexts of a thread cannot be followed to the end,*)
(* and only there, !dumpaspnetrequests may show it with a request that is  *)
(* not its own: that of a thread before it, or what was on the stack.      *)
StaleExplained ==
  (LastId = 0 /\ e.cmd = "dump") =>
    \A r \in Rows :
      LET t == mem.at[r.node] IN
      IF Complete(t) THEN r.ctx = t.host
      ELSE r.ctx = Junk \/ \E m \in mem.linked :
             mem.at[m].id < t.id /\ Complete(mem.at[m]) /\ mem.at[m].host = r.ctx

(* !findhttpcontext shows a request only of the thread it looked for, and, *)
(* its frame being cleared, only one that is that thread's.                *)
FindShowsOwn ==
  (LastId = 0 /\ e.cmd = "find") =>
    \A r \in Rows : r.id = e.wanted /\ r.ctx = mem.at[r.node].host

(* The requests of the threads that the walk gets to are shown, those of   *)
(* others are not taken for theirs where they have their own, and the one  *)
(* that is looked for is the thread's own.                                 *)
RequestsShown ==
  RequestTypeOK /\ CompleteShown /\ EndTold /\ StaleExplained /\ FindShowsOwn

(* However threads start and end, those that run all along are called back *)
(* with, unless the memory of an ended one was used again; and the thread  *)
(* that FindThread looks for is found.                                     *)
LastingSeen ==
  (e.pc = "returned" /\ e.hr = "S_OK" /\ ~reused) =>
    /\ e.cmd = "dump" => lasting \subseteq Seen
    /\ (e.cmd = "find" /\ e.wanted \in lasting) => e.wanted \in Seen

(* However threads start and end, no thread is called back with twice,     *)
(* although its node may be come across again as that of another thread.   *)
EachThreadOnce == \A i, j \in DOMAIN seen : seen[i] = seen[j] => i = j

(* Threads that run throughout a command are come across, and none twice   *)
(* although memory is used again.                                          *)
ThreadsSeen == RequestTypeOK /\ LastingSeen /\ EachThreadOnce

RequestEnded == e.pc = "returned"
=============================================================================
