------------------------------ MODULE MCCaches ------------------------------
(***************************************************************************)
(* What the process keeps between calls in static tables that no lock      *)
(* guards: the fields of delegates, and the types of managed proxies.      *)
(* part says which of them are used, and by whom.                          *)
(***************************************************************************)
EXTENDS DelegateInfo, ObjectProxy, TLC

VARIABLE part

cacheVars == <<part, vars, proxyVars>>

(* Delegates of every sort, and two objects that are none: one whose type  *)
(* has a field _target of its own, one that is no object.                  *)

\* _methodBase is between the fields of a delegate.
DelegateTypes == <<<<1, 3, 4, 5>>, <<2, 0, 0, 0>>>>

Delegate(target, ptr, aux, list) ==
  [type |-> 1, delegate |-> TRUE, at |-> <<target, 0, ptr, aux, list>>]
SomeDelegates ==
  {Delegate(31, 11, 0, 0), Delegate(32, 12, 0, 0), Delegate(33, 13, 0, 0),
   Delegate(34, 11, 12, 0), Delegate(35, 99, 0, 99), Delegate(36, 11, 0, 37)}
NoDelegates ==
  {[type |-> 2, delegate |-> FALSE, at |-> <<38, 39>>],
   [type |-> 0, delegate |-> FALSE, at |-> <<>>]}
DelegateObjects == SomeDelegates \cup NoDelegates

\* 11 is jitted code, 12 a stub with a header only, 13 neither.
IPs == 11 :> 1 @@ 12 :> 0 @@ 13 :> 0
Headers == 11 :> 1 @@ 12 :> 2 @@ 13 :> 0

(* Fields of every sort and arrays of every sort of elements, in targets   *)
(* whose method tables overlap.                                            *)

SomePrimitives == <<"Int32", "String", "DateTime">>
All == {"Int32", "String", "DateTime"}

TablesFrom(first) ==
  "Int32" :> first @@ "String" :> first + 1 @@ "DateTime" :> first + 2 @@ "Object" :> first + 3
TwoTargets == "a" :> TablesFrom(1) @@ "b" :> TablesFrom(2)
AnyLoaded == {All, All \ {"DateTime"}, {"String", "DateTime"}, {}}

AField(sort, of, null) == [is |-> "member", sort |-> sort, of |-> of, null |-> null]
Element(of, null) == [is |-> "index", sort |-> "CLASS", of |-> of, null |-> null]

References == {AField("CLASS", c, n) : c \in {"String", "Object"}, n \in BOOLEAN}
Elements ==
  {Element(c, FALSE) : c \in {"Int32", "String", "DateTime", "Object"}} \cup {Element("String", TRUE)}
AllAccesses ==
  {AField(s, "Object", FALSE) :
     s \in {"BOOLEAN", "CHAR", "I1", "U1", "I4", "U8", "R4", "VALUETYPE", "MISSING"}}
    \cup References \cup Elements

(* alone: one script looks into two targets, which load types meanwhile.   *)
(* apart: two scripts do.  shared: three scripts look into one target, all *)
(* of whose types are loaded.                                              *)
Who == CASE part = "alone" -> {1} [] part = "apart" -> {1, 2} [] part = "shared" -> Threads
                             [] OTHER -> {}
Where == IF part = "shared" THEN {"a"} ELSE Targets
Asked ==
  CASE part = "alone" -> Accesses
    [] part = "apart" -> {AField("CLASS", "String", FALSE), Element("String", FALSE)}
    [] OTHER -> {AField("CLASS", "String", FALSE)}
AtStart ==
  CASE part = "alone" -> AtFirst [] part = "apart" -> {All, All \ {"DateTime"}} [] OTHER -> {All}

\* Where several scripts ask, each does so once.
MayAsk(t) == part # "alone" => scripts[t].pc = "idle"

ASSUME DelegateAssumption
ASSUME ProxyAssumption

CachesInit ==
  /\ part \in {"delegates", "alone", "apart", "shared"}
  /\ Init /\ ProxyInit
  /\ part # "delegates" => \A c \in Calls : e[c].obj = CHOOSE o \in Objects : TRUE
  /\ \A g \in Targets : loaded[g] \in AtStart

CachesNext ==
  /\ UNCHANGED part
  /\ \/ part = "delegates" /\ Next /\ UNCHANGED proxyVars
     \/ part # "delegates" /\ UNCHANGED vars
        /\ \/ \E t \in Who :
                AskFor(t) /\ MayAsk(t) /\ scripts'[t].target \in Where /\ scripts'[t].ask \in Asked
           \/ \E t \in Who : Thread(t)
           \/ \E g \in Targets : Load(g)

ThreadStep(c) ==
  /\ UNCHANGED part
  /\ \/ part = "delegates" /\ c \in Calls /\ CallStep(c) /\ UNCHANGED proxyVars
     \/ part = "shared" /\ Thread(c) /\ UNCHANGED vars

(* The threads run, and no step of theirs waits for another.  No script    *)
(* has to ask.                                                             *)
CachesSpec ==
  /\ CachesInit /\ [][CachesNext]_cacheVars
  /\ \A c \in Calls \cup Threads : WF_cacheVars(ThreadStep(c))

-----------------------------------------------------------------------------
(* No call spoils what is cached, and none answers a script with anything  *)
(* but what it asked for: a complete cache of delegates stays complete     *)
(* while only they are looked up, and a value fits the field, is refused,  *)
(* or comes from tables of another target or torn ones.                    *)
NoneMisled == [][KeepsComplete /\ AnswersFit]_cacheVars

(* Lookups of delegates leave the cache complete in the end, however they  *)
(* overlap, and a script that asks is answered, or searches a torn         *)
(* dictionary forever.                                                     *)
Served ==
  /\ \A c \in Calls : (part = "delegates" /\ LooksUp(c)) ~> Complete
  /\ \A t \in Threads : (part = "shared" /\ Asking(t)) ~> (Has(t) \/ Spins(t))
=============================================================================
