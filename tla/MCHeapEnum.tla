----------------------------- MODULE MCHeapEnum -----------------------------
(***************************************************************************)
(* The small targets of HeapImages given to the enumeration of the heap.   *)
(* They are what the theorems of HeapEnumProofs take for granted.          *)
(***************************************************************************)
EXTENDS HeapEnumProofs, HeapImages

ASSUME DumpAssumption /\ GrowthAssumption
=============================================================================
