---------------------------- MODULE MCLiveTarget ----------------------------
(***************************************************************************)
(* The enumerations over a target that goes on running, one of them at a   *)
(* time: part says which.  "requests" are those of the extended module; the*)
(* variables of another part are x1 to x9 in the order of its module, and  *)
(* what a part does not need is Null.                                      *)
(***************************************************************************)
EXTENDS MCThreadRequests

VARIABLES part, x1, x2, x3, x4, x5, x6, x7, x8, x9

others == <<x1, x2, x3, x4, x5, x6, x7, x8, x9>>
vars == <<part, requestVars, others>>

Pools == INSTANCE MCThreadPoolEnum WITH
  mem <- x1, fresh <- x2, stayed <- x3, e <- x4, reported <- x5
Sql == INSTANCE MCSqlPools WITH
  None <- Null, mem <- x1, e <- x2, shown <- x3, ran <- x4, held <- x5, reused <- x6,
  removed <- x7, lasting <- x8, events <- x9

ASSUME Pools!Live!PoolAssumption /\ Sql!Live!SqlAssumption

No6 == x6 = Null /\ x7 = Null /\ x8 = Null /\ x9 = Null
No1 == x1 = Null /\ x2 = Null /\ x3 = Null /\ x4 = Null /\ x5 = Null /\ No6

Init ==
  \/ part = "requests" /\ RequestInit /\ No1
  \/ /\ RequestWaits
     /\ \/ part = "pools" /\ Pools!Live!Init /\ No6
        \/ part = "sql" /\ Sql!Live!Init

Next ==
  /\ UNCHANGED part
  /\ \/ part = "requests" /\ RequestNext /\ UNCHANGED others
     \/ /\ UNCHANGED requestVars
        /\ \/ part = "pools" /\ Pools!Live!Next /\ UNCHANGED <<x6, x7, x8, x9>>
           \/ part = "sql" /\ Sql!Live!Next

Spec == Init /\ [][Next]_vars

-----------------------------------------------------------------------------
(* Work items that stay where they are while the pool runs are reported,   *)
(* and none twice: see ThreadPoolEnum.                                     *)
ItemsReported ==
  part = "pools" => Pools!Live!TypeOK /\ Pools!Live!LastingReported /\ Pools!Live!EachOnce

(* Connections that stay in their pool are shown, and a command with one   *)
(* only if it ran there and was all read: see SqlPools.                    *)
ConnectionsShown ==
  part = "sql" =>
    Sql!Live!TypeOK /\ Sql!Live!LastingShown /\ Sql!Live!CommandOwn /\ Sql!Live!CommandReal
=============================================================================
