---------------------------- MODULE ObjectStream ----------------------------
(***************************************************************************)
(* What an IEnumObjectsCallback consumer may rely on, whichever of         *)
(* EnumHeapObjects and EnumStackObjects is behind it and whether or not it *)
(* asked for batches.                                                      *)
(*                                                                         *)
(* The enumeration finds objects one at a time; every call of the consumer *)
(* hands over all that was found and not yet handed over, in the order it  *)
(* was found.  A consumer that fails a call is never called again.  A      *)
(* successful enumeration that was not stopped hands over everything; a    *)
(* failed one may keep what it had not yet handed over.                    *)
(***************************************************************************)
EXTENDS Sequences

CONSTANT Object

VARIABLES
  found,      (* the objects the enumeration has come across               *)
  received,   (* the objects handed to the consumer                        *)
  stopped,    (* the consumer has failed a call                            *)
  result      (* what the enumeration returned                             *)

vars == <<found, received, stopped, result>>

Init ==
  /\ found = <<>>
  /\ received = <<>>
  /\ stopped = FALSE
  /\ result = "none"

Find(o) ==
  /\ result = "none"
  /\ ~stopped
  /\ found' = Append(found, o)
  /\ \/ UNCHANGED <<received, stopped>>
     \/ received' = found' /\ stopped' \in BOOLEAN
  /\ UNCHANGED result

Succeed ==
  /\ result = "none"
  /\ ~stopped
  /\ received' = found
  /\ stopped' \in BOOLEAN
  /\ result' = "S_OK"
  /\ UNCHANGED found

Stop ==
  /\ result = "none"
  /\ stopped
  /\ result' \in {"S_OK", "S_FALSE"}
  /\ UNCHANGED <<found, received, stopped>>

Fail ==
  /\ result = "none"
  /\ ~stopped
  /\ result' = "E_FAIL"
  /\ UNCHANGED <<found, received, stopped>>

Next ==
  \/ \E o \in Object : Find(o)
  \/ Succeed
  \/ Stop
  \/ Fail

Spec == Init /\ [][Next]_vars
=============================================================================
