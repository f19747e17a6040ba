------------------------------ MODULE SqlPools ------------------------------
(***************************************************************************)
(* The SQL connections of the target: EnumSqlConnectionPools (SDbgExt/     *)
(* SqlConnectionEnumerator.h, SDbgExt_EnumSqlConnectionPools.cpp) goes from*)
(* the factory of each domain to its groups, pools and connections and to  *)
(* the command each of them runs; !dumpsqlconnectionpools prints what it is*)
(* called back with, GetSqlPools (SDbgM/SptWrapper/SptWrapper_Objects.cs)  *)
(* makes a tree of it.                                                     *)
(*                                                                         *)
(* In a live target connections enter and leave the list of a pool and open*)
(* and close readers meanwhile.                                            *)
(***************************************************************************)
EXTENDS Naturals, FiniteSets, SequencesExt

CONSTANTS
  Images,     (* the targets, see Image                                    *)
  None,       (* the NULL address                                          *)
  Objects,    (* addresses of factories, groups and pools                  *)
  Conns,      (* addresses of connections                                  *)
  Commands,   (* addresses of commands                                     *)
  Handles,    (* addresses of GC handles                                   *)
  Users,      (* "managed" and "command"                                   *)
  Events      (* bound: how often a target changes during a call           *)

(* factories: the values of SingletonInstance, by domain; valid, those that*)
(* are objects.  kids: of a factory its groups, of a group its pools.      *)
(* good: the objects and connections whose fields can be read, commands    *)
(* whose text can.  list: of a pool its _objectList, see List.  arrays: the*)
(* arrays that hold connections.  owner: of a connection the handle of its *)
(* reader.  handle: what it refers to, a reader, named by its command.     *)
(* dated: the connections whose _createTime is one a System.DateTime has.  *)
Image ==
  [static: BOOLEAN, factories: Seq(Objects \cup {None}), valid: SUBSET Objects,
   kids: [Objects -> Seq(Objects)], good: SUBSET (Objects \cup Conns \cup Commands),
   list: [Objects -> [size: Nat, items: Nat]], arrays: Seq(Seq(Conns \cup {None})),
   owner: [Conns -> Handles \cup {None}], handle: [Handles -> Commands \cup {None}],
   dated: SUBSET Conns]

\* What the module takes for granted of its parameters.
SqlAssumption ==
  /\ None \notin Objects \cup Conns \cup Commands \cup Handles
  /\ Images \subseteq Image
  /\ Users \subseteq {"managed", "command"}
  /\ Events \in Nat

VARIABLES
  mem,        (* the target                                                *)
  e,          (* the enumeration, see Enumeration                          *)
  shown,      (* what the user has been called back with                   *)
  ran,        (* the commands of each connection since the call            *)
  held,       (* the connections that have had each handle since           *)
  reused,     (* whether one was given away again                          *)
  removed,    (* pools a connection has left while its list was walked     *)
  lasting,    (* connections that have been in the pool's list ever since  *)
  events      (* how often the target has changed                          *)

history == <<ran, held, reused, removed, lasting, events>>
vars == <<mem, e, shown, history>>

(* factories, groups, pools: what the enumerations that are under way have *)
(* left.  size, items, at: of the list.  cf, cg, cp, conn: _currFactory    *)
(* and so on.  handle, cmd, text: activeReaderHandle, activeCommand,       *)
(* cmdText.                                                                *)
Enumeration ==
  [pc: {"start", "factory", "group", "pool", "size", "items", "item", "handle", "reader",
        "text", "connection", "returned", "failed"},
   user: Users, factories: Seq(Objects \cup {None}), groups: Seq(Objects), pools: Seq(Objects),
   size: Nat, items: Nat, at: Nat, cf: Objects \cup {None}, cg: Objects \cup {None},
   cp: Objects \cup {None}, conn: Conns \cup {None}, handle: Handles \cup {None},
   cmd: Commands \cup {None}, text: Commands \cup {None}]

In(m, p) ==
  IF m.list[p].items = 0 THEN {}
  ELSE {m.arrays[m.list[p].items][i] : i \in 1..m.list[p].size}

Init ==
  /\ mem \in Images
  /\ \E u \in Users :
       e = [pc |-> "start", user |-> u, factories |-> <<>>, groups |-> <<>>, pools |-> <<>>,
            size |-> 0, items |-> 0, at |-> 0, cf |-> None, cg |-> None, cp |-> None,
            conn |-> None, handle |-> None, cmd |-> None, text |-> None]
  /\ shown = <<>>
  /\ ran = [c \in Conns |-> IF mem.owner[c] = None THEN {} ELSE {mem.handle[mem.owner[c]]}]
  /\ held = [h \in Handles |-> {c \in Conns : mem.owner[c] = h}]
  /\ reused = FALSE /\ removed = {} /\ events = 0
  /\ lasting = [p \in Objects |-> In(mem, p)]

-----------------------------------------------------------------------------
(* The target. *)

Pools == {p \in Objects : mem.list[p].items # 0}

(* List<T>.Add: a full array is replaced by one of twice the size.         *)
Enter ==
  \E p \in Pools, c \in Conns :
    LET l == mem.list[p]
        a == mem.arrays[l.items]
    IN  /\ \A i \in DOMAIN mem.arrays : c \notin Range(mem.arrays[i])
        /\ mem' = IF l.size < Len(a)
                  THEN [mem EXCEPT !.list[p].size = l.size + 1, !.arrays[l.items][l.size + 1] = c]
                  ELSE [mem EXCEPT !.list[p] = [size |-> l.size + 1, items |-> Len(mem.arrays) + 1],
                                   !.arrays = Append(@, a \o [i \in 1..Len(a) |-> IF i = 1 THEN c ELSE None])]
        /\ UNCHANGED <<ran, held, reused, removed, lasting>>

Walking(p) == e.cp = p /\ e.pc \in {"item", "handle", "reader", "text", "connection"} /\ e.at > 0

(* List<T>.Remove: what is behind moves up.                                *)
Leave ==
  \E p \in Pools : \E k \in 1..mem.list[p].size :
    /\ mem' = [mem EXCEPT !.list[p].size = @ - 1,
                          !.arrays[mem.list[p].items] =
                            [i \in DOMAIN @ |-> IF i < k THEN @[i]
                                                ELSE IF i < mem.list[p].size THEN @[i + 1] ELSE None]]
    /\ removed' = IF Walking(p) THEN removed \cup {p} ELSE removed
    /\ lasting' = [lasting EXCEPT ![p] = @ \ {mem.arrays[mem.list[p].items][k]}]
    /\ UNCHANGED <<ran, held, reused>>

(* A connection opens a reader, with a handle that refers to nothing.      *)
Open ==
  \E c \in Conns, k \in Commands, h \in Handles :
    /\ mem.owner[c] = None /\ mem.handle[h] = None
    /\ \A d \in Conns : k \notin ran[d]
    /\ mem' = [mem EXCEPT !.owner[c] = h, !.handle[h] = k]
    /\ ran' = [ran EXCEPT ![c] = @ \cup {k}]
    /\ held' = [held EXCEPT ![h] = @ \cup {c}]
    /\ reused' = (reused \/ held[h] \ {c} # {})
    /\ UNCHANGED <<removed, lasting>>

Close ==
  \E c \in Conns :
    /\ mem.owner[c] # None
    /\ mem' = [mem EXCEPT !.owner[c] = None, !.handle[mem.owner[c]] = None]
    /\ UNCHANGED <<ran, held, reused, removed, lasting>>

TargetRuns ==
  /\ events < Events /\ events' = events + 1
  /\ e.pc \notin {"returned", "failed"}
  /\ Enter \/ Leave \/ Open \/ Close
  /\ UNCHANGED <<e, shown>>

-----------------------------------------------------------------------------
(* The enumeration. *)

Row(of, under) == [of |-> of, under |-> under, cmd |-> None, text |-> None]
Do(p, f) == e.pc = p /\ e' = f /\ UNCHANGED <<mem, shown, history>>
DoShow(p, f, row) == e.pc = p /\ e' = f /\ shown' = Append(shown, row) /\ UNCHANGED <<mem, history>>

(* The factory of each domain, or the one that was asked for.              *)
FindFactories ==
  Do("start", IF mem.static /\ mem.factories # <<>> THEN [e EXCEPT !.pc = "factory", !.factories = mem.factories]
              ELSE [e EXCEPT !.pc = "failed"])

TargetFactory ==
  \E f \in mem.valid :
    /\ f \in Range(mem.factories)
    /\ Do("start", [e EXCEPT !.pc = "factory", !.factories = <<f>>])

EnumerateEnds == e.factories = <<>> /\ Do("factory", [e EXCEPT !.pc = "returned"])

SkipFactory ==
  /\ e.pc = "factory" /\ e.factories # <<>>
  /\ ~(Head(e.factories) \in mem.valid \cap mem.good)
  /\ Do("factory", [e EXCEPT !.factories = Tail(@)])

ProcessFactory ==
  /\ e.pc = "factory" /\ e.factories # <<>>
  /\ LET f == Head(e.factories) IN
     /\ f \in mem.valid \cap mem.good
     /\ DoShow("factory", [e EXCEPT !.pc = "group", !.factories = Tail(@), !.cf = f,
                                    !.groups = mem.kids[f]], Row(f, None))

GroupsEnd == e.groups = <<>> /\ Do("group", [e EXCEPT !.pc = "factory"])

\* A slip: the pools of a group are gone through whether it was shown or not.
SkipGroupOnly ==
  /\ e.pc = "group" /\ e.groups # <<>> /\ Head(e.groups) \notin mem.good
  /\ Do("group", [e EXCEPT !.pc = "pool", !.groups = Tail(@), !.pools = mem.kids[Head(e.groups)]])

SkipGroup ==
  /\ e.pc = "group" /\ e.groups # <<>> /\ Head(e.groups) \notin mem.good
  /\ Do("group", [e EXCEPT !.groups = Tail(@)])

ProcessPoolGroup ==
  /\ e.pc = "group" /\ e.groups # <<>>
  /\ LET g == Head(e.groups) IN
     /\ g \in mem.good
     /\ DoShow("group", [e EXCEPT !.pc = "pool", !.groups = Tail(@), !.cg = g,
                                  !.pools = mem.kids[g]], Row(g, e.cf))

PoolsEnd == e.pools = <<>> /\ Do("pool", [e EXCEPT !.pc = "group"])

(* A pool is shown whether its fields can be read or not.                  *)
ProcessPool ==
  /\ e.pc = "pool" /\ e.pools # <<>>
  /\ LET p == Head(e.pools) IN
     DoShow("pool", [e EXCEPT !.pc = "size", !.pools = Tail(@), !.cp = p], Row(p, e.cg))

ReadSize ==
  Do("size", [e EXCEPT !.pc = "items", !.at = 0,
                       !.size = IF e.cp \in mem.good THEN mem.list[e.cp].size ELSE 0])

ReadItems ==
  Do("items", IF e.cp \notin mem.good \/ mem.list[e.cp].items = 0 THEN [e EXCEPT !.pc = "pool"]
              ELSE [e EXCEPT !.pc = "item", !.items = mem.list[e.cp].items])

ListEnds == e.at >= e.size /\ Do("item", [e EXCEPT !.pc = "pool"])

\* A slip: the last connection of the list is left out.
ReadItemButLast ==
  /\ e.pc = "item" /\ e.at < e.size
  /\ LET a == mem.arrays[e.items]
         c == IF e.at + 1 \in DOMAIN a /\ e.at + 1 < e.size THEN a[e.at + 1] ELSE None
     IN  Do("item", [e EXCEPT !.at = @ + 1, !.conn = c, !.handle = None, !.cmd = None, !.text = None,
                              !.pc = IF c = None THEN "item" ELSE "handle"])

(* GetItemAddr, which knows the length of the array.                       *)
ReadItem ==
  /\ e.pc = "item" /\ e.at < e.size
  /\ LET a == mem.arrays[e.items]
         c == IF e.at + 1 \in DOMAIN a THEN a[e.at + 1] ELSE None
     IN  Do("item", [e EXCEPT !.at = @ + 1, !.conn = c, !.handle = None, !.cmd = None, !.text = None,
                              !.pc = IF c = None THEN "item" ELSE "handle"])

(* _parser._physicalStateObj._owner.m_handle                               *)
ReadHandle ==
  Do("handle", IF e.conn \notin mem.good \/ mem.owner[e.conn] = None THEN [e EXCEPT !.pc = "connection"]
               ELSE [e EXCEPT !.pc = "reader", !.handle = mem.owner[e.conn]])

\* A slip: what an earlier connection ran is not forgotten.
ReadReaderKeeps ==
  Do("reader",
     IF mem.handle[e.handle] = None
     THEN [e EXCEPT !.pc = "connection",
                    !.cmd = IF shown = <<>> THEN None ELSE Last(shown).cmd]
     ELSE [e EXCEPT !.pc = "text", !.cmd = mem.handle[e.handle]])

(* The reader the handle refers to by now, and its command.                *)
ReadReader ==
  Do("reader",
     IF mem.handle[e.handle] = None THEN [e EXCEPT !.pc = "connection"]
     ELSE [e EXCEPT !.pc = "text", !.cmd = mem.handle[e.handle]])

\* A slip: the reader is asked for its command again.
ReadTextAgain ==
  Do("text", [e EXCEPT !.pc = "connection", !.text = mem.handle[e.handle]])

(* A command whose text cannot be read is still shown: validCommand is not *)
(* asked for.                                                              *)
ReadText ==
  Do("text", [e EXCEPT !.pc = "connection", !.text = IF e.cmd \in mem.good THEN e.cmd ELSE None])

(* GetSqlPools leaves out a connection whose date no System.DateTime has,  *)
(* as its constructor throws; it has the date of 0 if it cannot be read.   *)
OnConnection ==
  IF e.user = "managed" /\ e.conn \in mem.good \ mem.dated THEN Do("connection", [e EXCEPT !.pc = "item"])
  ELSE DoShow("connection", [e EXCEPT !.pc = "item"],
              [of |-> e.conn, under |-> e.cp, cmd |-> e.cmd, text |-> e.text])

EnumStep ==
  \/ FindFactories \/ TargetFactory \/ EnumerateEnds \/ SkipFactory \/ ProcessFactory
  \/ GroupsEnd \/ SkipGroup \/ ProcessPoolGroup \/ PoolsEnd \/ ProcessPool
  \/ ReadSize \/ ReadItems \/ ListEnds \/ ReadItem \/ ReadHandle \/ ReadReader \/ ReadText
  \/ OnConnection
Next == TargetRuns \/ EnumStep

Spec == Init /\ [][Next]_vars

-----------------------------------------------------------------------------
TypeOK ==
  /\ e \in Enumeration
  /\ e.pc = "item" => e.items \in DOMAIN mem.arrays
  /\ \A i \in DOMAIN shown : shown[i].under # None \/ shown[i].of \in Range(mem.factories)

Each(s, Rows(_)) == FlattenSeq([i \in DOMAIN s |-> Rows(s[i])])

ConnRows(p) ==
  IF p \notin mem.good \/ mem.list[p].items = 0 THEN <<>>
  ELSE Each(SubSeq(mem.arrays[mem.list[p].items], 1, mem.list[p].size), LAMBDA c :
         LET h == IF c \in mem.good THEN mem.owner[c] ELSE None
             k == IF h = None THEN None ELSE mem.handle[h]
         IN  IF e.user = "managed" /\ c \in mem.good \ mem.dated THEN <<>>
             ELSE <<[of |-> c, under |-> p, cmd |-> k, text |-> IF k \in mem.good THEN k ELSE None]>>)
PoolRows(g) == Each(mem.kids[g], LAMBDA p : <<Row(p, g)>> \o ConnRows(p))
GroupRows(f) ==
  Each(SelectSeq(mem.kids[f], LAMBDA g : g \in mem.good), LAMBDA g : <<Row(g, f)>> \o PoolRows(g))
Tree(fs) ==
  Each(SelectSeq(fs, LAMBDA f : f \in mem.valid \cap mem.good), LAMBDA f : <<Row(f, None)>> \o GroupRows(f))

(* In a dump, the tree that is shown is that of the target without the     *)
(* branches that cannot be read, each connection below its own pool.       *)
TreeShown ==
  e.pc = "returned" =>
    \/ shown = Tree(mem.factories)
    \/ \E f \in mem.valid : shown = Tree(<<f>>)

(* A connection that is in the list of a pool throughout is shown, unless  *)
(* another left the list while it was walked.                              *)
LastingShown ==
  e.pc = "returned" =>
    \A p \in Objects \ removed :
      (\E i \in DOMAIN shown : shown[i].of = p) =>
        \A c \in lasting[p] :
          \E i \in DOMAIN shown : shown[i].of = c /\ shown[i].under = p

(* A command is shown with a connection that has run it since the call     *)
(* began, unless the handle of one was given to another meanwhile.         *)
CommandOwn ==
  \A i \in DOMAIN shown :
    (shown[i].of \in Conns /\ shown[i].cmd # None /\ ~reused) => shown[i].cmd \in ran[shown[i].of]

(* Whatever handles are reused for, a command that is shown is one that    *)
(* some connection has run since the call began, and shown with its text.  *)
CommandReal ==
  \A i \in DOMAIN shown :
    shown[i].cmd # None =>
      /\ \E c \in Conns : shown[i].cmd \in ran[c]
      /\ shown[i].text = IF shown[i].cmd \in mem.good THEN shown[i].cmd ELSE None

Ended == e.pc \in {"returned", "failed"}
=============================================================================
