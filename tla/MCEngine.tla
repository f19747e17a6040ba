------------------------------ MODULE MCEngine ------------------------------
(***************************************************************************)
(* The debugger engine and those who use it: the callers that switch its   *)
(* current thread, and the bootstrappers that open targets with it, either *)
(* at a time.  part says which.                                            *)
(***************************************************************************)
EXTENDS DebuggerThread, Bootstrapper, TLC

VARIABLE part

\* Three threads, the last without slots, a fourth that the engine does not
\* know, and threads that end.
ThreeThreads == [i \in 0 .. 2 |-> 10 + i]
SomeIds == 10..13

ASSUME DebuggerAssumption
ASSUME BootstrapperAssumption

\* The clients that do not belong to a command are alike.
Alike == Permutations(Clients)

\* Nobody has opened a target yet, or asked for a thread.
Unopened == BootInit /\ engine.current = Nothing /\ installed
Unasked == Init /\ current = 0

EngineInit ==
  \/ part = "threads" /\ Init /\ Unopened
  \/ part = "targets" /\ Unasked /\ BootInit

EngineNext ==
  /\ UNCHANGED part
  /\ \/ part = "threads" /\ Next /\ UNCHANGED bootVars
     \/ part = "targets" /\ BootNext /\ UNCHANGED vars

EngineSpec == EngineInit /\ [][EngineNext]_<<part, vars, bootVars>>
=============================================================================
