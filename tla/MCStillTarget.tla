---------------------------- MODULE MCStillTarget ----------------------------
(***************************************************************************)
(* The calls that read a target which stands still, as a dump does, one of *)
(* them at a time: part says which.  "requests" are those of the extended  *)
(* module; the variables of another part are x1 to x9 in the order of its  *)
(* module, and what a part does not need is Null.                          *)
(***************************************************************************)
EXTENDS MCThreadRequests

VARIABLES part, x1, x2, x3, x4, x5, x6, x7, x8, x9

others == <<x1, x2, x3, x4, x5, x6, x7, x8, x9>>
vars == <<part, requestVars, others>>

Fields == INSTANCE MCFieldWalk WITH type <- x1, e <- x2, called <- x3
Types == INSTANCE MCTypeSearch WITH target <- x1, s <- x2
Texts == INSTANCE MCExpression WITH text <- x1, path <- x2, e <- x3
Pools == INSTANCE MCThreadPoolEnum WITH
  mem <- x1, fresh <- x2, stayed <- x3, e <- x4, reported <- x5
Sql == INSTANCE MCSqlPools WITH
  None <- Null, mem <- x1, e <- x2, shown <- x3, ran <- x4, held <- x5, reused <- x6,
  removed <- x7, lasting <- x8, events <- x9

ASSUME Fields!FieldAssumption /\ Types!SearchAssumption /\ Texts!ExpressionAssumption
ASSUME Pools!Dump!PoolAssumption /\ Sql!Dump!SqlAssumption

No7 == x7 = Null /\ x8 = Null /\ x9 = Null
No6 == x6 = Null /\ No7
No4 == x4 = Null /\ x5 = Null /\ No6
No3 == x3 = Null /\ No4
No1 == x1 = Null /\ x2 = Null /\ No3

Init ==
  \/ part = "requests" /\ RequestInit /\ No1
  \/ /\ RequestWaits
     /\ \/ part = "fields" /\ Fields!Init /\ No4
        \/ part = "types" /\ Types!Init /\ No3
        \/ part = "texts" /\ Texts!Init /\ No4
        \/ part = "pools" /\ Pools!Dump!Init /\ No6
        \/ part = "sql" /\ Sql!Dump!Init

CallStep ==
  /\ UNCHANGED part
  /\ \/ part = "requests" /\ EnumStep /\ UNCHANGED others
     \/ /\ UNCHANGED requestVars
        /\ \/ part = "fields" /\ Fields!Next /\ UNCHANGED <<x4, x5, x6, x7, x8, x9>>
           \/ part = "types" /\ Types!Next /\ UNCHANGED <<x3, x4, x5, x6, x7, x8, x9>>
           \/ part = "texts" /\ Texts!Next /\ UNCHANGED <<x4, x5, x6, x7, x8, x9>>
           \/ part = "pools" /\ Pools!Dump!EnumStep /\ UNCHANGED <<x6, x7, x8, x9>>
           \/ part = "sql" /\ Sql!Dump!EnumStep

\* The only other thing that happens: the frame of a callback is overwritten.
Next ==
  \/ CallStep
  \/ part = "requests" /\ FrameOverwritten /\ UNCHANGED <<part, others>>

(* Each call is made by one thread, which waits for nothing.               *)
Spec == Init /\ [][Next]_vars /\ WF_vars(CallStep)

-----------------------------------------------------------------------------
(* The walk over the fields of a type stays inside of them, finds all that *)
(* can be read, and for a name the first one; FindTypeByName and           *)
(* FindMethodByName find what is there: see FieldWalk and TypeSearch.      *)
MembersFound ==
  /\ part = "fields" =>
       Fields!TypeOK /\ Fields!StaysInside /\ Fields!EnumsAll /\ Fields!FindsFirst
  /\ part = "types" => Types!TypeOK /\ Types!TypeFound /\ Types!MethodFound

(* EvaluateExpression crashes only where it is known to, finds what is     *)
(* meant, and what it cannot mean it does not make up: see Expression.     *)
ExpressionsMeant ==
  part = "texts" =>
    Texts!TypeOK /\ Texts!CrashExplained /\ Texts!MeantFound /\ Texts!SpecialRefused

(* The thread pool's work items are reported as they are in the dump, and  *)
(* their delegates told apart: see ThreadPoolEnum.  The tree of factories, *)
(* groups, pools and connections is shown: see SqlPools.                   *)
PoolsReported ==
  /\ part = "pools" =>
       Pools!Dump!TypeOK /\ Pools!Dump!DumpReported /\ Pools!Dump!AsyncRecognised
  /\ part = "sql" => Sql!Dump!TypeOK /\ Sql!Dump!TreeShown

\* The call of the part has returned.
CallEnded ==
  CASE part = "fields" -> Fields!Ended
    [] part = "types" -> Types!Ended
    [] part = "texts" -> Texts!Ended
    [] part = "pools" -> Pools!Dump!Returned
    [] part = "requests" -> RequestEnded
    [] part = "sql" -> Sql!Dump!Ended

(* Whatever of the target cannot be read, and whatever the expression, the *)
(* call comes to an end.                                                   *)
Terminates == <>CallEnded

(* ThreadPoolEnumerator.h:60: Dump the thread-local queues as well.        *)
LocalQueuesDumped == part = "pools" => Pools!Dump!LocalQueuesDumped
=============================================================================
