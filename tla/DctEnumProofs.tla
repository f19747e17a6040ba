--------------------------- MODULE DctEnumProofs ---------------------------
(***************************************************************************)
(* Proofs about DctEnumerator, for every dictionary in every target, every *)
(* way the target may change and every batch size.                         *)
(***************************************************************************)
EXTENDS DctEnum, CallbackProofs, FiniteSetTheorems

(***************************************************************************)
(* The inductive invariant of the delivery.  A HybridDictionary makes the  *)
(* enumerator start over as one of another type, so that what is known of  *)
(* the type and of the buffer has to be known before the first entry.      *)
(***************************************************************************)
ArrayTypes == {"Dictionary", "Hashtable", "Concurrent"}
Early == pc \in {"identify", "Hybrid", "HybridList", "Concurrent", "List", "array"}
AtEntry == pc \in {"key", "value", "hash", "call"}

Control ==
  /\ result = "none" <=> pc # "returned"
  /\ Early => found = <<>> /\ received = <<>> /\ ~stopped
  /\ pc \in {"Hybrid", "HybridList"} => type = "Hybrid"
  /\ pc = "Concurrent" => type = "Concurrent"
  /\ pc \in {"array", "slot", "hash", "stopped"} => type \in ArrayTypes
  /\ pc \in {"List", "node", "call"} => IsList
  /\ pc \in {"key", "value"} \/ result = "S_OK" => type \in ArrayTypes \cup {"List"}
  /\ AtEntry => node # Null

Stops ==
  /\ IsList => buffer = <<>>
  /\ (stopped /\ ~IsList /\ pc # "returned") => pc = "stopped"
  /\ pc = "stopped" => stopped /\ buffer = <<>>
  /\ Early => buffer = <<>>

IInv ==
  /\ TypeOK
  /\ Control
  /\ Stops
  /\ Waiting
  /\ Delivered

(* What can be read of a target. *)
LEMMA Readings ==
  ASSUME TypeOK
  PROVE  /\ mem \in Images /\ mem \in Image
         /\ array # Null => mem.slots[array] \in Seq(Nodes \cup {Null})
         /\ Slots \in Seq(Nodes \cup {Null})
         /\ \A e \in Nodes :
              /\ mem.entry[e].key \in Keys \cup Arrays \cup {Null}
              /\ mem.entry[e].value \in Values \cup {Null}
              /\ mem.entry[e].hash \in Hashes
              /\ mem.entry[e].next \in Nodes \cup {Null}
<1>1. mem \in Images /\ mem \in Image
  BY DctAssumption DEF TypeOK
<1>2. mem.slots \in [Arrays -> Seq(Nodes \cup {Null})] /\ mem.entry \in [Nodes -> Entry]
  BY <1>1 DEF Image
<1>3. array # Null => mem.slots[array] \in Seq(Nodes \cup {Null})
  BY <1>2 DEF TypeOK
<1>4. Slots \in Seq(Nodes \cup {Null})
  BY <1>3, EmptySeq DEF Slots
<1>5. \A e \in Nodes : mem.entry[e] \in Entry
  BY <1>2
<1> QED
  BY <1>1, <1>3, <1>4, <1>5 DEF Entry

(* The initial state, a buffer of MT_GetBucketSizes and an array not yet  *)
(* looked at, satisfies the inductive invariant.                          *)
LEMMA InitIInv ==
  ASSUME Init
  PROVE  IInv
<1> USE DctAssumption
<1>1. /\ found = <<>> /\ pc = "identify" /\ result = "none" /\ mem \in Images
      /\ type = mem.type /\ array = Null /\ slot = 0 /\ node = Null /\ key = Null
      /\ value = Null /\ next = Null /\ target = Null /\ request \in Requests
      /\ buffer = <<>> /\ received = <<>> /\ stopped = FALSE
  BY DEF Init, CallbackInit
<1>2. CallbackTypeOK(Item) /\ Waiting
  BY CallbackInitEffect DEF Init
<1>3. found \in Seq(Item)
  BY <1>1, EmptySeq
<1>4. mem.type \in Types
  BY <1>1 DEF Image
<1>5. TypeOK
  BY <1>1, <1>2, <1>3, <1>4 DEF TypeOK
<1>6. Control /\ Stops
  BY <1>1 DEF Control, Stops, Early, AtEntry
<1>7. Delivered
  BY <1>1 DEF Delivered
<1> QED
  BY <1>2, <1>5, <1>6, <1>7 DEF IInv

(* Before the first word is read: what is known of the type. *)
LEMMA EarlyKeepsIInv ==
  ASSUME IInv, Identify \/ ReadHashtable \/ ReadList \/ ReadTables \/ ReadArray \/ ReadHead
  PROVE  IInv'
<1> USE DEF IInv
<1>1. /\ Early /\ result = "none" /\ found = <<>> /\ received = <<>> /\ ~stopped /\ buffer = <<>>
      /\ UNCHANGED <<mem, request, found, target, slot, key, value, next>>
      /\ UNCHANGED <<isBatch, buffer, received, calls, stopped>>
  BY DEF Identify, ReadHashtable, ReadList, ReadTables, ReadArray, ReadHead, Early, Control,
         Stops, scanVars, callbackVars
<1>2. mem \in Image /\ mem.array \in Arrays \cup {Null} /\ mem.head \in Nodes \cup {Null}
  BY Readings DEF Image
<1>3. /\ type' \in Types /\ array' \in Arrays \cup {Null} /\ node' \in Nodes \cup {Null}
      /\ pc' \in {"identify", "Hybrid", "HybridList", "Concurrent", "List", "array", "slot",
                  "node", "returned"}
      /\ result' \in {"none", "E_FAIL", "E_INVALIDARG"}
      /\ result' = "none" <=> pc' # "returned"
      /\ pc' \in {"Hybrid", "HybridList"} => type' = "Hybrid"
      /\ pc' = "Concurrent" => type' = "Concurrent"
      /\ pc' \in {"array", "slot"} => type' \in ArrayTypes
      /\ pc' \in {"List", "node"} => type' = "List"
  <2>1. CASE Identify
    BY <1>1, <2>1 DEF Identify, Goto, Return, scanVars, TypeOK, Types, ArrayTypes
  <2>2. CASE ReadHashtable \/ ReadList
    BY <1>1, <2>2 DEF ReadHashtable, ReadList, Goto, Return, scanVars, TypeOK, Types, Control
  <2>3. CASE ReadTables
    BY <1>1, <2>3 DEF ReadTables, Goto, Return, scanVars, TypeOK, Types, Control, ArrayTypes
  <2>4. CASE ReadArray
    BY <1>1, <1>2, <2>4 DEF ReadArray, Goto, Return, scanVars, TypeOK, Types, Control, ArrayTypes
  <2>5. CASE ReadHead
    BY <1>1, <1>2, <2>5 DEF ReadHead, Goto, Return, scanVars, TypeOK, Types, Control, IsList
  <2> QED
    BY <2>1, <2>2, <2>3, <2>4, <2>5
<1>4. TypeOK'
  BY <1>1, <1>3 DEF TypeOK, CallbackTypeOK
<1>5. Control' /\ Stops'
  BY <1>1, <1>3 DEF Control, Stops, Early, AtEntry, IsList
<1>6. Waiting' /\ Delivered'
  BY <1>1, <1>3 DEF Waiting, Delivered
<1> QED
  BY <1>4, <1>5, <1>6

(* What a word leads to that cannot be read, or is of no entry. *)
LEMMA SkipEffect ==
  ASSUME TypeOK, Skip
  PROVE  /\ result' = result /\ UNCHANGED <<key, value, next>>
         /\ \/ IsList /\ pc' = "node" /\ node' = next /\ slot' = slot
            \/ ~IsList /\ pc' = "slot" /\ node' = node /\ slot' = slot + 1
         /\ node' \in Nodes \cup {Null} /\ slot' \in Nat
BY DEF Skip, Goto, TypeOK

(* A word is read. *)
LEMMA ReadKeepsIInv ==
  ASSUME IInv, ReadSlot \/ ReadKey \/ ReadValue \/ ReadNext
  PROVE  IInv'
<1> USE DEF IInv
<1>1. /\ result = "none" /\ pc \in {"slot", "key", "value", "node"}
      /\ type \in ArrayTypes \cup {"List"} /\ (~IsList => ~stopped)
      /\ UNCHANGED <<mem, request, type, array, target, found>>
      /\ UNCHANGED <<isBatch, buffer, received, calls, stopped>>
  BY DEF ReadSlot, ReadKey, ReadValue, ReadNext, Control, Stops, callbackVars, IsList
<1>2. pc = "slot" => ~IsList
  BY DEF Control, IsList, ArrayTypes
<1>3. /\ slot' \in Nat /\ node' \in Nodes \cup {Null} /\ next' \in Nodes \cup {Null}
      /\ key' \in Keys \cup Arrays \cup {Null} /\ value' \in Values \cup {Null}
      /\ pc' \in {"slot", "key", "value", "node", "hash", "call", "returned"}
      /\ pc' = "returned" => IsList /\ result' = "E_FAIL"
      /\ pc' # "returned" => result' = "none"
      /\ pc' \in {"slot", "hash"} => ~IsList
      /\ pc' \in {"node", "call"} => IsList
      /\ AtEntry' => node' # Null
  <2>1. CASE ReadSlot
    <3>1. Slots[slot + 1] \in Nodes \cup {Null}
      BY <2>1, Readings DEF ReadSlot, TypeOK
    <3> QED
      BY <1>1, <1>2, <2>1, <3>1, SkipEffect DEF ReadSlot, Goto, TypeOK, AtEntry
  <2>2. CASE ReadKey
    <3>1. node \in Nodes /\ node # Null /\ pc = "key"
      BY <2>2 DEF ReadKey, Control, AtEntry, TypeOK
    <3>2. CASE Readable("key")
      BY <1>1, <2>2, <3>1, <3>2, Readings DEF ReadKey, Goto, TypeOK, AtEntry
    <3>3. CASE ~Readable("key")
      BY <1>1, <2>2, <3>1, <3>3, SkipEffect DEF ReadKey, TypeOK, AtEntry
    <3> QED
      BY <3>2, <3>3
  <2>4. CASE ReadValue
    <3>1. node \in Nodes /\ node # Null /\ pc = "value"
      BY <2>4 DEF ReadValue, Control, AtEntry, TypeOK
    <3>2. CASE Readable("value")
      BY <1>1, <2>4, <3>1, <3>2, Readings DEF ReadValue, Goto, TypeOK, AtEntry
    <3>3. CASE ~Readable("value")
      BY <1>1, <2>4, <3>1, <3>3, SkipEffect DEF ReadValue, TypeOK, AtEntry
    <3> QED
      BY <3>2, <3>3
  <2>3. CASE ReadNext
    <3>1. node \in Nodes /\ node # Null /\ IsList
      BY <2>3 DEF ReadNext, TypeOK, Control
    <3> QED
      BY <1>1, <2>3, <3>1, Readings DEF ReadNext, Goto, Return, TypeOK, AtEntry
  <2> QED
    BY <2>1, <2>2, <2>3, <2>4
<1>4. TypeOK'
  BY <1>1, <1>3 DEF TypeOK, CallbackTypeOK
<1>5. Control'
  BY <1>1, <1>3 DEF Control, Early, IsList, ArrayTypes, AtEntry
<1>6. Stops'
  BY <1>1, <1>3 DEF Stops, Early, IsList
<1>7. Waiting' /\ Delivered'
  BY <1>1, <1>3 DEF Waiting, Delivered, Stops
<1> QED
  BY <1>4, <1>5, <1>6, <1>7

(* What the client is shown is an entry with what its words held. *)
LEMMA ItemType ==
  ASSUME IInv, pc \in {"hash", "call"}, NEW h \in Hashes
  PROVE  /\ node \in Nodes
         /\ [entry |-> node, key |-> key, value |-> value, hash |-> h] \in Item
BY DEF IInv, TypeOK, Control, AtEntry, Item

(* What a step of the enumerator shows its client, if it shows anything:   *)
(* an entry of an array, or one of a list.                                 *)
Entered == [entry |-> node, key |-> key, value |-> value,
            hash |-> IF pc = "call" THEN 0 ELSE mem.entry[node].hash]

Shows(reply) ==
  /\ found' = Append(found, Entered)
  /\ Answers(Entered, reply)
  /\ IF IsList THEN Call(Entered, reply) ELSE Visit(Entered, reply)

(* What a step that shows an entry (after its hash has been read, or a    *)
(* node of a list) does: skip an unused one, or hand it to the callback.  *)
LEMMA EntryShown ==
  ASSUME IInv, ReadHash \/ CallNode
  PROVE  /\ UNCHANGED <<mem, request, type, array>> /\ pc \in {"hash", "call"}
         /\ (pc = "call" <=> IsList) /\ Entered \in Item /\ result = "none"
         /\ ~IsList => ~stopped
         /\ \/ /\ pc = "hash" /\ Skip /\ UNCHANGED <<target, found, callbackVars>>
               /\ ~Readable("hash") \/ Unused(key, value, mem.entry[node].hash)
            \/ /\ \E reply \in BOOLEAN : Shows(reply)
               /\ pc = "hash" =>
                    Readable("hash") /\ ~Unused(key, value, mem.entry[node].hash)
<1>1. pc \in {"hash", "call"} /\ (pc = "call" <=> IsList) /\ result = "none"
  BY DEF ReadHash, CallNode, IInv, Control, IsList, ArrayTypes
<1>2. node \in Nodes
  BY <1>1 DEF IInv, Control, AtEntry, TypeOK
<1>3. Entered.hash \in Hashes
  BY <1>2, Readings, DctAssumption DEF IInv, Entered
<1>4. Entered \in Item
  BY <1>1, <1>2, Readings, DctAssumption, ItemType DEF IInv, Entered
<1>5. ~IsList => ~stopped
  BY <1>1 DEF IInv, Stops
<1>6. CASE ReadHash
  BY <1>1, <1>4, <1>5, <1>6 DEF ReadHash, Shows, Entered
<1>7. CASE CallNode
  BY <1>1, <1>4, <1>5, <1>7 DEF CallNode, Shows, Entered
<1> QED
  BY <1>6, <1>7
(* An entry is shown: the wrapper takes it if it is of an array, and the   *)
(* client at once if it is of a list.                                      *)
LEMMA ShowKeepsIInv ==
  ASSUME IInv, ReadHash \/ CallNode
  PROVE  IInv'
<1> USE DEF IInv
<1>1. /\ UNCHANGED <<mem, request, type, array>> /\ pc \in {"hash", "call"}
      /\ (pc = "call" <=> IsList) /\ Entered \in Item /\ result = "none"
      /\ ~IsList => ~stopped
  BY EntryShown
<1>2. (IsList' <=> IsList) /\ type \in ArrayTypes \cup {"List"} /\ node \in Nodes
  BY <1>1 DEF IsList, Control, AtEntry, TypeOK
<1>3. CASE Skip /\ pc = "hash" /\ UNCHANGED <<target, found, callbackVars>>
  <2>1. /\ result' = "none" /\ UNCHANGED <<key, value, next>> /\ ~IsList
        /\ pc' = "slot" /\ node' = node /\ slot' \in Nat
        /\ UNCHANGED <<target, found, isBatch, buffer, received, calls, stopped>>
    BY <1>1, <1>3, SkipEffect DEF callbackVars
  <2>2. TypeOK'
    BY <1>1, <2>1 DEF TypeOK, CallbackTypeOK
  <2>3. Control' /\ Stops'
    BY <1>1, <1>2, <2>1 DEF Control, Stops, Early, AtEntry, IsList
  <2> QED
    BY <1>1, <2>1, <2>2, <2>3 DEF Waiting, Delivered
<1>4. ASSUME NEW reply \in BOOLEAN, Shows(reply)
      PROVE  IInv'
  <2>1. /\ found' = Append(found, Entered) /\ found' \in Seq(Item)
        /\ target' \in Values \cup {Null}
    BY <1>1, <1>4 DEF Shows, Answers, TypeOK, Item
  <2>2. received \o buffer = found
    BY <1>1 DEF Delivered
  <2>3. CASE IsList
    <3>1. Callback(<<Entered>>, reply) /\ Skip /\ UNCHANGED <<isBatch, buffer>> /\ buffer = <<>>
      BY <1>4, <2>3 DEF Shows, Call, Stops
    <3>2. /\ CallbackTypeOK(Item)' /\ buffer' = <<>> /\ received' = Append(received, Entered)
      BY <1>1, <3>1, SingleCallEffect DEF TypeOK
    <3>3. /\ result' = "none" /\ UNCHANGED <<key, value, next>>
          /\ pc' = "node" /\ node' = next /\ slot' = slot
      BY <1>1, <2>3, <3>1, SkipEffect
    <3>4. TypeOK'
      BY <1>1, <2>1, <3>2, <3>3 DEF TypeOK
    <3>5. Control' /\ Stops'
      BY <1>1, <1>2, <2>3, <3>2, <3>3 DEF Control, Stops, Early, AtEntry, IsList
    <3>6. Waiting'
      BY <3>2, BatchAssumption DEF Waiting
    <3>7. received \o buffer = received /\ received' \o buffer' = received'
      BY <3>1, <3>2 DEF TypeOK, CallbackTypeOK
    <3>8. Delivered'
      BY <2>1, <2>2, <3>2, <3>3, <3>7 DEF Delivered
    <3> QED
      BY <3>4, <3>5, <3>6, <3>8
  <2>4. CASE ~IsList
    <3>1. Wrap(Entered, reply) /\ IF reply THEN Skip ELSE Goto("stopped") /\ UNCHANGED scanVars
      BY <1>4, <2>4 DEF Shows, Visit
    <3>2. /\ CallbackTypeOK(Item)' /\ Waiting'
          /\ received' \o buffer' = Append(received \o buffer, Entered)
          /\ stopped' = (stopped \/ ~reply)
          /\ ~reply => buffer' = <<>>
      BY <1>1, <3>1, WrapEffect DEF TypeOK
    <3>3. /\ result' = "none" /\ UNCHANGED <<key, value, next>>
          /\ pc' = (IF reply THEN "slot" ELSE "stopped")
          /\ node' = node /\ slot' \in Nat
      BY <1>1, <2>4, <3>1, SkipEffect DEF Goto, scanVars, TypeOK
    <3>4. TypeOK'
      BY <1>1, <2>1, <3>2, <3>3 DEF TypeOK
    <3>5. Control'
      BY <1>1, <1>2, <2>4, <3>3 DEF Control, Early, AtEntry, IsList
    <3>6. Stops'
      BY <1>1, <1>2, <2>4, <3>2, <3>3 DEF Stops, Early, IsList
    <3>7. Delivered'
      BY <2>1, <2>2, <3>2, <3>3 DEF Delivered
    <3> QED
      BY <3>2, <3>4, <3>5, <3>6, <3>7
  <2> QED
    BY <2>3, <2>4
<1> QED
  BY <1>3, <1>4, EntryShown

(* The enumeration ends: a refusal has left nothing to flush. *)
LEMMA EndKeepsIInv ==
  ASSUME IInv, Stopped \/ EndOfArray \/ EndOfList
  PROVE  IInv'
<1> USE DEF IInv
<1>1. /\ result = "none" /\ result' = "S_OK" /\ pc' = "returned"
      /\ UNCHANGED <<mem, request, type, array, slot, node, key, value, next, target, found>>
      /\ type \in ArrayTypes \cup {"List"}
  BY DEF Stopped, EndOfArray, EndOfList, Return, scanVars, Control, IsList
<1>2. /\ CallbackTypeOK(Item)' /\ Waiting' /\ buffer' = buffer
      /\ received' = received \o buffer
  <2>1. CASE EndOfArray
    BY <2>1, FlushEffect DEF EndOfArray, TypeOK
  <2>2. CASE Stopped \/ EndOfList
    <3>1. UNCHANGED <<isBatch, buffer, received, calls, stopped>> /\ buffer = <<>>
      BY <2>2 DEF Stopped, EndOfList, callbackVars, Stops, Control
    <3>2. received \o buffer = received
      BY <3>1 DEF TypeOK, CallbackTypeOK
    <3> QED
      BY <3>1, <3>2 DEF TypeOK, CallbackTypeOK, Waiting
  <2> QED
    BY <2>1, <2>2
<1>3. TypeOK'
  BY <1>1, <1>2 DEF TypeOK
<1>4. Control' /\ Stops'
  BY <1>1, <1>2 DEF Control, Stops, Early, AtEntry, IsList, ArrayTypes
<1>5. received' \o <<>> = received'
  BY <1>2 DEF CallbackTypeOK
<1>6. Delivered'
  BY <1>1, <1>2, <1>5 DEF Delivered
<1> QED
  BY <1>2, <1>3, <1>4, <1>6

(* The target changes, or nothing does. *)
LEMMA OthersKeepIInv ==
  ASSUME IInv, TargetRuns \/ UNCHANGED vars
  PROVE  IInv'
<1> USE DEF IInv
<1>1. /\ mem' \in Images
      /\ UNCHANGED <<request, pc, type, array, slot, node, key, value, next, target, found, result>>
      /\ UNCHANGED <<isBatch, buffer, received, calls, stopped>>
  BY DEF TargetRuns, vars, scanVars, callbackVars, TypeOK
<1>2. TypeOK'
  BY <1>1 DEF TypeOK, CallbackTypeOK
<1>3. Control' /\ Stops'
  BY <1>1 DEF Control, Stops, Early, AtEntry, IsList
<1>4. Waiting' /\ Delivered'
  BY <1>1 DEF Waiting, Delivered
<1> QED
  BY <1>2, <1>3, <1>4

(* Every step preserves the inductive invariant.                          *)
LEMMA NextIInv ==
  ASSUME IInv, [Next]_vars
  PROVE  IInv'
<1>1. CASE EnumStep
  BY <1>1, EarlyKeepsIInv, ReadKeepsIInv, ShowKeepsIInv, EndKeepsIInv DEF EnumStep
<1>2. CASE TargetRuns \/ UNCHANGED vars
  BY <1>2, OthersKeepIInv
<1> QED
  BY <1>1, <1>2 DEF Next

(* The inductive invariant of the delivery holds of every run, whatever    *)
(* the target and the client do.                                           *)
THEOREM Invariance == Spec => []IInv
<1>1. Init => IInv
  BY InitIInv
<1>2. IInv /\ [Next]_vars => IInv'
  BY NextIInv
<1> QED
  BY <1>1, <1>2, PTL DEF Spec

(* The enumeration keeps the contract of its consumers, but for a refusal  *)
(* that comes while it goes through a list, which it does not hear.        *)
THEOREM Refinement == Spec => StreamSpec
<1>1. Init => Stream!Init
  BY DEF Init, CallbackInit, Stream!Init
<1>2. ASSUME IInv, [Next]_vars
      PROVE  [Stream!Next]_(Stream!vars)
  <2> USE <1>2 DEF IInv, Stream!vars
  <2>1. CASE ReadHash \/ CallNode
    <3>1. /\ UNCHANGED type /\ pc \in {"hash", "call"} /\ Entered \in Item /\ result = "none"
          /\ (~IsList => ~stopped) /\ (IsList' <=> IsList)
      BY <2>1, EntryShown DEF IsList
    <3>2. CASE Skip /\ UNCHANGED <<found, callbackVars>>
      BY <3>1, <3>2, SkipEffect DEF callbackVars
    <3>3. ASSUME NEW reply \in BOOLEAN, Shows(reply)
          PROVE  Stream!Find(Entered)
      <4>1. found' = Append(found, Entered) /\ received \o buffer = found
        BY <3>1, <3>3 DEF Shows, Delivered
      <4>2. CASE IsList
        <5>1. /\ Callback(<<Entered>>, reply) /\ Skip /\ UNCHANGED <<isBatch, buffer>>
              /\ buffer = <<>>
          BY <3>3, <4>2 DEF Shows, Call, Stops
        <5>2. received' = Append(received, Entered)
          BY <3>1, <5>1, SingleCallEffect DEF TypeOK
        <5>3. received \o buffer = received
          BY <5>1 DEF TypeOK, CallbackTypeOK
        <5> QED
          BY <3>1, <4>1, <4>2, <5>1, <5>2, <5>3, SkipEffect DEF Stream!Find
      <4>3. CASE ~IsList
        <5>1. Wrap(Entered, reply) /\ result' = result
          BY <3>3, <4>3, SkipEffect DEF Shows, Visit, Goto
        <5>2. /\ stopped' \in BOOLEAN
              /\ \/ received' = received /\ stopped' = stopped
                 \/ received' = found'
          BY <3>1, <4>1, <5>1, WrapEffect DEF TypeOK, CallbackTypeOK
        <5> QED
          BY <3>1, <4>1, <4>3, <5>1, <5>2 DEF Stream!Find
      <4> QED
        BY <4>2, <4>3
    <3> QED
      BY <2>1, <3>1, <3>2, <3>3, EntryShown DEF Stream!Next
  <2>2. CASE EndOfArray
    <3>1. /\ result = "none" /\ ~stopped /\ result' = "S_OK" /\ found' = found
          /\ ~IsList /\ ~IsList'
      BY <2>2 DEF EndOfArray, Return, Control, Stops, IsList, ArrayTypes
    <3>2. received' = found /\ stopped' \in BOOLEAN
      BY <2>2, <3>1, FlushEffect DEF EndOfArray, TypeOK, CallbackTypeOK, Delivered
    <3> QED
      BY <3>1, <3>2 DEF Stream!Succeed, Stream!Next
  <2>3. CASE EndOfList
    <3>1. /\ result = "none" /\ IsList /\ IsList' /\ result' = "S_OK" /\ found' = found
          /\ UNCHANGED <<received, stopped>> /\ buffer = <<>>
      BY <2>3 DEF EndOfList, Return, Control, Stops, IsList, callbackVars
    <3>2. received' = found
      BY <3>1 DEF Delivered, TypeOK, CallbackTypeOK
    <3> QED
      BY <3>1, <3>2 DEF Stream!Succeed, Stream!Next
  <2>4. CASE Stopped
    <3>1. /\ result = "none" /\ stopped /\ ~IsList /\ ~IsList' /\ result' = "S_OK"
          /\ UNCHANGED <<found, received, stopped>>
      BY <2>4 DEF Stopped, Return, Control, Stops, IsList, ArrayTypes, callbackVars
    <3> QED
      BY <3>1 DEF Stream!Stop, Stream!Next
  <2>5. CASE Identify \/ ReadHashtable \/ ReadList \/ ReadTables \/ ReadArray \/ ReadHead
    <3>1. /\ UNCHANGED <<found, received, stopped>> /\ ~stopped /\ result = "none"
          /\ result' \in {"none", "E_FAIL", "E_INVALIDARG"} /\ ~stopped'
      BY <2>5 DEF Identify, ReadHashtable, ReadList, ReadTables, ReadArray, ReadHead, Goto,
                  Return, Early, Control, callbackVars
    <3> QED
      BY <3>1 DEF Stream!Fail, Stream!Next
  <2>6. CASE ReadSlot \/ ReadKey \/ ReadValue
    <3>1. UNCHANGED <<found, received, stopped, type, result>>
      BY <2>6, SkipEffect DEF ReadSlot, ReadKey, ReadValue, Goto, callbackVars
    <3> QED
      BY <3>1 DEF IsList
  <2>7. CASE ReadNext
    <3>1. /\ UNCHANGED <<found, received, stopped, type>> /\ IsList /\ IsList'
          /\ result = "none" /\ result' \in {"none", "E_FAIL"}
      BY <2>7 DEF ReadNext, Goto, Return, Control, IsList, callbackVars
    <3> QED
      BY <3>1 DEF Stream!Fail, Stream!Next
  <2>8. CASE TargetRuns \/ UNCHANGED vars
    BY <2>8 DEF TargetRuns, vars, callbackVars, IsList
  <2> QED
    BY <2>1, <2>2, <2>3, <2>4, <2>5, <2>6, <2>7, <2>8 DEF Next, EnumStep
<1> QED
  BY <1>1, <1>2, Invariance, PTL DEF Spec, StreamSpec, Stream!Spec
-----------------------------------------------------------------------------
(***************************************************************************)
(* What is reported.  The enumerator goes through places: the slots of an  *)
(* array, or the nodes of a list in their order.  The argument follows how *)
(* many places it has passed and what it has found at them.                *)
(***************************************************************************)

(* What the theorems need of targets.  What a target does it does to the   *)
(* end, an object keeps its type, an array its slots, and a target that    *)
(* stands still does not run.  An array of entries does not hold one of    *)
(* them twice, and no two buckets hold the same entry.                     *)
TargetsStay ==
  \A q \in Steps :
    /\ q[1].life # "still" /\ q[2].life = q[1].life /\ q[2].type = q[1].type
    /\ q[1].type # "Concurrent" => q[2].slots = q[1].slots

Apart(c) == \A i, j \in DOMAIN c : (c[i] = c[j] /\ c[i] # Null) => i = j

SlotsApart ==
  \A m \in Images : (m.life = "still" \/ m.type # "Concurrent") =>
    \A a \in Arrays : Apart(m.slots[a])

(* While m only adds entries to what g held, it leaves the entries of g    *)
(* where they are.                                                         *)
Carries(g, m) ==
  /\ m.fails = {}
  /\ g.table => m.table
  /\ g.head # Null => m.head = g.head
  /\ \A e \in g.live :
       /\ m.entry[e].bad = {}
       /\ m.entry[e].key = g.entry[e].key /\ m.entry[e].value = g.entry[e].value
       /\ g.entry[e].next # Null => m.entry[e].next = g.entry[e].next
       /\ m.entry[e].key # Null \/ m.entry[e].value # Null \/ m.entry[e].hash # 0

GrowthCarries ==
  \A q \in Steps : \A g \in Images :
    /\ q[1].life = "growing" /\ q[1].type # "Concurrent"
    /\ g.life = "growing" /\ g.type = q[1].type
    /\ Carries(g, q[1])
    => Carries(g, q[2])

(* How dictionaries keep their entries: in an array, or as the nodes of a  *)
(* list, which ends.                                                       *)
Lists(m) == m.type = "List" \/ (m.type = "Hybrid" /\ ~m.table)

Tables(m) == m.type \in {"Dictionary", "Hashtable"} \/ (m.type = "Hybrid" /\ m.table)

InArray(m) == IF m.array = Null THEN {} ELSE ToSet(m.slots[m.array]) \ {Null}

Chain(m, c) ==
  /\ c \in Seq(Nodes)
  /\ Apart(c)
  /\ m.head = IF c = <<>> THEN Null ELSE c[1]
  /\ \A k \in DOMAIN c : m.entry[c[k]].next = IF k < Len(c) THEN c[k + 1] ELSE Null
  /\ m.live = ToSet(c)
  /\ m.life = "still" => m.array = Null

Listed(m) == \E c \in [1 .. Cardinality(m.live) -> m.live] : Chain(m, c)

Tabled(m) == m.live \subseteq InArray(m) /\ \A e \in m.live : m.entry[e].key # m.array

(* A slot that holds no entry: never used, or removed from a Hashtable's   *)
(* chain, which leaves the address of the array for the key, or removed    *)
(* from a Dictionary, which leaves a hash code that no entry has.          *)
Idle(m, e) ==
  LET w == m.entry[e] IN
  \/ w.key = m.array
  \/ w.key = Null /\ w.value = Null /\ w.hash = 0
  \/ /\ m.type = "Dictionary" /\ w.key \notin Keys /\ w.value = Null
     /\ \A f \in m.live : m.entry[f].hash # w.hash

Formed(m) ==
  /\ Lists(m) => Listed(m)
  /\ Tables(m) => Tabled(m)
  /\ (m.life = "still" /\ Tables(m)) => \A e \in InArray(m) \ m.live : Idle(m, e)
  /\ m.type = "Concurrent" =>
       /\ m.array # Null /\ InArray(m) \subseteq m.live
       /\ \A e \in m.live : m.entry[e].key # m.array
  /\ m.life = "growing" => Carries(m, m)

DctTargets ==
  /\ TargetsStay /\ SlotsApart /\ GrowthCarries
  /\ \A m \in Images :
       m.life = "still" \/ (m.life = "growing" /\ m.type # "Concurrent") => Formed(m)

(* The state of the target in which the enumeration of its entries began,  *)
(* as far as it tells what has to be found.                                *)
Origin(g) ==
  /\ g \in Images /\ g.life = mem.life /\ g.type = mem.type
  /\ mem.life = "still" => mem = g
  /\ mem.type # "Concurrent" => mem.slots = g.slots
  /\ (mem.life = "growing" /\ mem.type # "Concurrent") => Carries(g, mem)

(* What is known of the type before the first entry is read, and of a list *)
(* that will be gone through.                                              *)
Kinds ==
  /\ type = mem.type \/ (mem.type = "Hybrid" /\ type \in {"Hashtable", "List"})
  /\ (mem.life # "moving" /\ mem.type = "Hybrid" /\ type = "Hashtable") => mem.table
  /\ (mem.life # "moving" /\ "members" \notin mem.fails /\ (pc = "HybridList" \/ (IsList /\ Early)))
       => \E g \in Images : Origin(g) /\ Listed(g)
  /\ Early => slot = 0
  /\ (~IsList /\ result \in {"E_FAIL", "E_INVALIDARG"}) => found = <<>>

\* The entries whose keys and values are still those they had in g.
Firm(g) == CASE mem.life = "still" -> Nodes
             [] mem.life = "growing" -> g.live
             [] OTHER -> {}

\* The entry is one that the client is shown, and what it is shown of it.
Visible(e) ==
  /\ {"key", "value"} \cap mem.entry[e].bad = {}
  /\ ~IsList => /\ "hash" \notin mem.entry[e].bad
                /\ ~Unused(mem.entry[e].key, mem.entry[e].value, mem.entry[e].hash)

ItemOf(e) ==
  [entry |-> e, key |-> mem.entry[e].key, value |-> mem.entry[e].value,
   hash |-> IF IsList THEN 0 ELSE mem.entry[e].hash]

(* The places c.                                                           *)
Course(g, c) ==
  /\ Origin(g)
  /\ IsList => Chain(g, c)
  /\ ~IsList =>
       /\ c = Slots
       /\ mem.life = "still" => array = IF "element" \in mem.fails THEN Null ELSE mem.array
       /\ mem.life = "growing" => array = g.array /\ Tabled(g)

(* p of them are passed.  A list that grows may go on behind the last.     *)
Confined == mem.life = "still" \/ ~IsList

Here(c, p) ==
  /\ p \in 0 .. Len(c)
  /\ (~IsList /\ pc \in {"slot", "key", "value", "hash"}) => p = slot
  /\ p < Len(c) =>
       /\ (pc = "node" \/ AtEntry) => node = c[p + 1]
       /\ (IsList /\ AtEntry /\ p + 1 < Len(c)) => next = c[p + 2]
  /\ Confined =>
       /\ AtEntry => p < Len(c)
       /\ (pc = "node" /\ p = Len(c)) => node = Null
       /\ (IsList /\ AtEntry /\ p + 1 = Len(c)) => next = Null

(* What was read of the entry is what it held from g on.                   *)
Read(g) ==
  (AtEntry /\ node \in Firm(g)) =>
    /\ pc # "key" => Readable("key") /\ key = g.entry[node].key
    /\ pc \in {"hash", "call"} => Readable("value") /\ value = g.entry[node].value

(* What was found at the places that are passed: every entry there is, and *)
(* in an array or a target that stands still nothing else and nothing      *)
(* twice.                                                                  *)
Covered(g, c, p) ==
  \A k \in 1 .. p : (c[k] \in Firm(g) /\ Visible(c[k])) =>
    \E i \in DOMAIN found : /\ found[i].entry = c[k]
                            /\ found[i].key = g.entry[c[k]].key
                            /\ found[i].value = g.entry[c[k]].value

Within(c, p) == \A i \in DOMAIN found : \E k \in 1 .. p : c[k] = found[i].entry

Once == \A i, j \in DOMAIN found : found[i].entry = found[j].entry => i = j

Only == \A i \in DOMAIN found : Visible(found[i].entry) /\ found[i] = ItemOf(found[i].entry)

Gathered(g, c, p) ==
  /\ Covered(g, c, p)
  /\ Confined => Within(c, p) /\ Once
  /\ mem.life = "still" => Only

Whole(c, p) == (result = "S_OK" /\ (IsList \/ ~stopped)) => p = Len(c)

Tracked == mem.life = "still" \/ IF IsList THEN mem.life = "growing" ELSE type # "Concurrent"

Scanning ==
  pc \in {"slot", "key", "value", "hash", "node", "call", "stopped"} \/ result = "S_OK"

At(g, c, p) == Course(g, c) /\ Here(c, p) /\ Read(g) /\ Gathered(g, c, p) /\ Whole(c, p)

ScanInv ==
  (Tracked /\ Scanning) =>
    \E g \in Images : \E c \in Seq(Nodes \cup {Null}) : \E p \in Nat : At(g, c, p)

(* The states of a target are what they should be. *)
LEMMA ImageFacts ==
  ASSUME NEW m \in Images
  PROVE  /\ m \in Image /\ m.life \in {"still", "growing", "moving"} /\ m.type \in Types
         /\ m.live \subseteq Nodes /\ m.array \in Arrays \cup {Null}
         /\ m.head \in Nodes \cup {Null}
         /\ \A a \in Arrays : m.slots[a] \in Seq(Nodes \cup {Null})
         /\ \A e \in Nodes :
              /\ m.entry[e].key \in Keys \cup Arrays \cup {Null}
              /\ m.entry[e].value \in Values \cup {Null}
              /\ m.entry[e].hash \in Hashes
              /\ m.entry[e].next \in Nodes \cup {Null}
<1>1. m \in Image
  BY DctAssumption
<1>2. m.slots \in [Arrays -> Seq(Nodes \cup {Null})] /\ m.entry \in [Nodes -> Entry]
  BY <1>1 DEF Image
<1>3. \A e \in Nodes : m.entry[e] \in Entry
  BY <1>2
<1> QED
  BY <1>1, <1>2, <1>3 DEF Entry, Image

(* A sequence of which one element more is known. *)
LEMMA Appended ==
  ASSUME NEW S, NEW f \in Seq(S), NEW o \in S, NEW f2, f2 = Append(f, o)
  PROVE  /\ f2 \in Seq(S) /\ Len(f2) = Len(f) + 1 /\ Len(f) \in Nat
         /\ DOMAIN f = 1 .. Len(f) /\ DOMAIN f2 = 1 .. Len(f) + 1
         /\ \A i \in DOMAIN f : f2[i] = f[i]
         /\ f2[Len(f) + 1] = o
OBVIOUS

(* The places of a course are apart, and what they hold is.                *)
LEMMA CourseFacts ==
  ASSUME DctTargets, TypeOK, Kinds, Tracked, NEW g, NEW c, Course(g, c)
  PROVE  /\ g \in Images /\ mem \in Images /\ c \in Seq(Nodes \cup {Null}) /\ Apart(c)
         /\ Firm(g) \subseteq Nodes /\ Null \notin Firm(g)
<1>1. g \in Images /\ mem \in Images
  BY DEF Course, Origin, TypeOK
<1>2. Firm(g) \subseteq Nodes /\ Null \notin Firm(g)
  BY <1>1, ImageFacts, DctAssumption DEF Firm
<1>3. CASE IsList
  <2>1. c \in Seq(Nodes) /\ Apart(c)
    BY <1>3 DEF Course, Chain
  <2>2. c \in Seq(Nodes \cup {Null})
    BY <2>1
  <2> QED
    BY <1>1, <1>2, <2>1, <2>2
<1>4. CASE ~IsList
  <2>1. c = Slots /\ Slots \in Seq(Nodes \cup {Null})
    BY <1>4, Readings DEF Course
  <2>2. mem.life = "still" \/ mem.type # "Concurrent"
    BY <1>4 DEF Tracked, Kinds
  <2>3. Apart(Slots)
    <3>1. CASE array = Null
      BY <3>1 DEF Slots, Apart
    <3>2. CASE array # Null
      BY <1>1, <2>2, <3>2 DEF Slots, DctTargets, SlotsApart, TypeOK
    <3> QED
      BY <3>1, <3>2
  <2> QED
    BY <1>1, <1>2, <2>1, <2>3
<1> QED
  BY <1>3, <1>4

(* The target runs: what the course was begun with still tells what has to *)
(* be found.                                                               *)
LEMMA OriginStays ==
  ASSUME DctTargets, TypeOK, NEW g, Origin(g), TargetRuns
  PROVE  /\ Origin(g)' /\ mem.life # "still"
         /\ mem'.life = mem.life /\ mem'.type = mem.type
         /\ mem.type # "Concurrent" => mem'.slots = mem.slots
<1>1. mem' \in Images /\ <<mem, mem'>> \in Steps
  BY DEF TargetRuns
<1>2. /\ mem.life # "still" /\ mem'.life = mem.life /\ mem'.type = mem.type
      /\ mem.type # "Concurrent" => mem'.slots = mem.slots
  BY <1>1 DEF DctTargets, TargetsStay
<1>3. (mem.life = "growing" /\ mem.type # "Concurrent") => Carries(g, mem')
  BY <1>1 DEF DctTargets, GrowthCarries, Origin
<1> QED
  BY <1>2, <1>3 DEF Origin

(* Before the first entry is read. *)
LEMMA KindsAtFirst ==
  ASSUME DctTargets, Init
  PROVE  Kinds
<1>1. /\ mem \in Images /\ type = mem.type /\ pc = "identify" /\ slot = 0 /\ found = <<>>
      /\ result = "none"
  BY DEF Init
<1>2. ASSUME mem.life # "moving", IsList
      PROVE  \E g \in Images : Origin(g) /\ Listed(g)
  <2>1. Formed(mem) /\ mem.type = "List"
    BY <1>1, <1>2, ImageFacts DEF DctTargets, IsList
  <2>2. Listed(mem) /\ (mem.life = "growing" => Carries(mem, mem))
    BY <2>1 DEF Formed, Lists
  <2> QED
    BY <1>1, <2>2 DEF Origin
<1> QED
  BY <1>1, <1>2 DEF Kinds

(* Every step preserves Kinds.                                            *)
LEMMA NextKinds ==
  ASSUME DctTargets, IInv, Kinds, [Next]_vars
  PROVE  Kinds'
<1> USE DEF IInv
<1>1. CASE ReadHashtable
  <2>1. /\ pc = "Hybrid" /\ type = "Hybrid" /\ mem.type = "Hybrid" /\ mem \in Images
        /\ UNCHANGED <<mem, slot, found, array>> /\ slot = 0
        /\ result' = "none"
        /\ \/ mem.table /\ pc' = "identify" /\ type' = "Hashtable"
           \/ /\ ~(mem.table /\ "members" \notin mem.fails)
              /\ pc' = "HybridList" /\ type' = "Hybrid"
    BY <1>1 DEF ReadHashtable, Goto, scanVars, Control, Kinds, Early, TypeOK
  <2>2. ASSUME mem.life # "moving", "members" \notin mem.fails, ~mem.table
        PROVE  \E g \in Images : Origin(g) /\ Listed(g)
    <3>1. Formed(mem)
      BY <2>1, <2>2, ImageFacts DEF DctTargets
    <3>2. Listed(mem) /\ (mem.life = "growing" => Carries(mem, mem))
      BY <2>1, <2>2, <3>1 DEF Formed, Lists
    <3> QED
      BY <2>1, <3>2 DEF Origin
  <2> QED
    BY <2>1, <2>2 DEF Kinds, IsList, Origin, Early
<1>2. CASE ReadList
  <2>1. /\ pc = "HybridList" /\ type = "Hybrid" /\ mem.type = "Hybrid"
        /\ UNCHANGED <<mem, slot, found, array>> /\ slot = 0 /\ found = <<>>
        /\ \/ pc' = "identify" /\ type' = "List" /\ result' = "none"
           \/ pc' = "returned" /\ type' = "Hybrid"
    BY <1>2 DEF ReadList, Goto, Return, scanVars, Control, Kinds, Early
  <2> QED
    BY <2>1 DEF Kinds, IsList, Origin, Early
<1>3. CASE Identify \/ ReadTables \/ ReadArray \/ ReadHead
  <2>1. /\ UNCHANGED <<mem, type, slot, found>> /\ slot = 0 /\ found = <<>> /\ Early
        /\ pc' # "HybridList" \/ type # "Hybrid"
    BY <1>3 DEF Identify, ReadTables, ReadArray, ReadHead, Goto, Return, scanVars, Control,
                Kinds, Early, IsList
  <2>2. pc' # "HybridList"
    BY <1>3 DEF Identify, ReadTables, ReadArray, ReadHead, Goto, Return, TypeOK, Types
  <2> QED
    BY <2>1, <2>2 DEF Kinds, IsList, Origin
<1>4. CASE ReadSlot \/ ReadKey \/ ReadValue \/ ReadNext \/ ReadHash \/ CallNode \/ Stopped
           \/ EndOfArray \/ EndOfList
  <2>1. UNCHANGED <<mem, type>> /\ ~Early' /\ pc' # "HybridList"
    BY <1>4, EntryShown, SkipEffect
       DEF ReadSlot, ReadKey, ReadValue, ReadNext, Stopped, EndOfArray, EndOfList, Goto,
           Return, Early, Shows, Call, Visit
  <2>2. ~IsList => result' \in {"none", "S_OK"}
    BY <1>4, EntryShown, SkipEffect
       DEF ReadSlot, ReadKey, ReadValue, ReadNext, Stopped, EndOfArray, EndOfList, Goto,
           Return, Shows, Call, Visit, Control, IsList
  <2> QED
    BY <2>1, <2>2 DEF Kinds, IsList
<1>5. CASE TargetRuns
  <2>1. UNCHANGED <<type, pc, slot, found, result>> /\ mem' \in Images /\ <<mem, mem'>> \in Steps
    BY <1>5 DEF TargetRuns, scanVars
  <2>2. mem'.life = mem.life /\ mem'.type = mem.type /\ mem.life # "still"
    BY <2>1 DEF DctTargets, TargetsStay
  <2>3. ASSUME mem.life # "moving", mem.type # "Concurrent"
        PROVE  mem.fails = {} /\ (mem.table => mem'.table)
    <3>1. mem.life = "growing" /\ mem \in Images
      BY <2>2, <2>3, ImageFacts DEF TypeOK
    <3>2. Carries(mem, mem)
      BY <2>3, <3>1 DEF DctTargets, Formed
    <3>3. Carries(mem, mem')
      BY <2>1, <2>3, <3>1, <3>2 DEF DctTargets, GrowthCarries
    <3> QED
      BY <3>2, <3>3 DEF Carries
  <2>4. \A g : Origin(g) => Origin(g)'
    BY <1>5, OriginStays
  <2>5. type = "List" \/ pc = "HybridList" => mem.type # "Concurrent"
    BY DEF Kinds, Control
  <2> QED
    BY <2>1, <2>2, <2>3, <2>4, <2>5 DEF Kinds, IsList, Early
<1>6. CASE UNCHANGED vars
  BY <1>6 DEF vars, scanVars, Kinds, IsList, Early, Origin
<1> QED
  BY <1>1, <1>2, <1>3, <1>4, <1>5, <1>6 DEF Next, EnumStep

-----------------------------------------------------------------------------
(***************************************************************************)
(* What is found, as the enumerator passes a place.                        *)
(***************************************************************************)

(* Nothing is to be shown of the next place. *)
LEMMA GatherNone ==
  ASSUME NEW g, NEW c, NEW p \in Nat, Gathered(g, c, p),
         c[p + 1] \in Firm(g) => ~Visible(c[p + 1]),
         UNCHANGED <<mem, type, array, found>>
  PROVE  Gathered(g, c, p + 1)'
<1>1. \A k \in 1 .. p + 1 : k \in 1 .. p \/ k = p + 1
  OBVIOUS
<1>2. \A k \in 1 .. p : k \in 1 .. p + 1
  OBVIOUS
<1>3. /\ Firm(g)' = Firm(g) /\ (Confined' <=> Confined)
      /\ \A e : (Visible(e)' <=> Visible(e)) /\ ItemOf(e)' = ItemOf(e)
  BY DEF Firm, Confined, Visible, ItemOf, IsList, Unused
<1>4. Covered(g, c, p + 1)'
  BY <1>1, <1>3 DEF Gathered, Covered
<1>5. Confined => Within(c, p + 1)' /\ Once'
  BY <1>2 DEF Gathered, Within, Once
<1>6. mem.life = "still" => Only'
  BY <1>3 DEF Gathered, Only
<1> QED
  BY <1>3, <1>4, <1>5, <1>6 DEF Gathered

(* The entry at the next place is shown. *)
LEMMA GatherOne ==
  ASSUME TypeOK, NEW g, NEW c \in Seq(Nodes \cup {Null}), NEW p \in Nat, p < Len(c), Apart(c),
         Gathered(g, c, p),
         NEW o \in Item, o.entry = c[p + 1], c[p + 1] # Null,
         c[p + 1] \in Firm(g) => /\ o.key = g.entry[c[p + 1]].key
                                 /\ o.value = g.entry[c[p + 1]].value,
         mem.life = "still" => Visible(o.entry) /\ o = ItemOf(o.entry),
         found' = Append(found, o), UNCHANGED <<mem, type, array>>
  PROVE  Gathered(g, c, p + 1)'
<1> DEFINE n == Len(found) + 1
<1>1. /\ Len(found) \in Nat /\ DOMAIN found = 1 .. Len(found)
      /\ DOMAIN found' = 1 .. Len(found) + 1
      /\ \A i \in DOMAIN found : found'[i] = found[i]
      /\ found'[n] = o
  BY Appended DEF TypeOK
<1>2. /\ \A i \in DOMAIN found' : i \in DOMAIN found \/ i = n
      /\ \A i \in DOMAIN found : i \in DOMAIN found'
      /\ n \in DOMAIN found'
  BY <1>1
<1>3. /\ \A k \in 1 .. p + 1 : k \in 1 .. p \/ k = p + 1
      /\ \A k \in 1 .. p : k \in 1 .. p + 1 /\ k \in DOMAIN c /\ k # p + 1
      /\ p + 1 \in 1 .. p + 1 /\ p + 1 \in DOMAIN c
  OBVIOUS
<1>4. /\ Firm(g)' = Firm(g) /\ (Confined' <=> Confined)
      /\ \A e : (Visible(e)' <=> Visible(e)) /\ ItemOf(e)' = ItemOf(e)
  BY DEF Firm, Confined, Visible, ItemOf, IsList, Unused
<1> HIDE DEF n
<1>5. Covered(g, c, p + 1)'
  <2> SUFFICES ASSUME NEW k \in 1 .. p + 1, c[k] \in Firm(g), Visible(c[k])
               PROVE  \E i \in DOMAIN found' : /\ found'[i].entry = c[k]
                                               /\ found'[i].key = g.entry[c[k]].key
                                               /\ found'[i].value = g.entry[c[k]].value
    BY <1>4 DEF Covered
  <2>1. CASE k \in 1 .. p
    <3>1. PICK i \in DOMAIN found : /\ found[i].entry = c[k]
                                    /\ found[i].key = g.entry[c[k]].key
                                    /\ found[i].value = g.entry[c[k]].value
      BY <2>1 DEF Gathered, Covered
    <3>2. i \in DOMAIN found' /\ found'[i] = found[i]
      BY <1>1, <1>2
    <3> QED
      BY <3>1, <3>2
  <2>2. CASE k = p + 1
    BY <1>1, <1>2, <2>2
  <2> QED
    BY <1>3, <2>1, <2>2
<1>6. Confined => Within(c, p + 1)'
  <2> SUFFICES ASSUME Confined, NEW i \in DOMAIN found'
               PROVE  \E k \in 1 .. p + 1 : c[k] = found'[i].entry
    BY DEF Within
  <2>1. CASE i \in DOMAIN found
    BY <1>1, <1>3, <2>1 DEF Gathered, Within
  <2>2. CASE i = n
    BY <1>1, <1>3, <2>2
  <2> QED
    BY <1>2, <2>1, <2>2
<1>7. ASSUME Confined, NEW i \in DOMAIN found
      PROVE  found[i].entry # o.entry
  <2>1. PICK k \in 1 .. p : c[k] = found[i].entry
    BY <1>7 DEF Gathered, Within
  <2> QED
    BY <1>3, <2>1 DEF Apart
<1>8. Confined => Once'
  <2> SUFFICES ASSUME Confined, NEW i \in DOMAIN found', NEW j \in DOMAIN found',
                      found'[i].entry = found'[j].entry
               PROVE  i = j
    BY DEF Once
  <2>1. CASE i \in DOMAIN found /\ j \in DOMAIN found
    BY <1>1, <2>1 DEF Gathered, Once
  <2>2. CASE i = n /\ j \in DOMAIN found
    BY <1>1, <1>7, <2>2
  <2>3. CASE i \in DOMAIN found /\ j = n
    BY <1>1, <1>7, <2>3
  <2>4. CASE i = n /\ j = n
    BY <2>4
  <2> QED
    BY <1>2, <2>1, <2>2, <2>3, <2>4
<1>9. mem.life = "still" => Only'
  <2> SUFFICES ASSUME mem.life = "still", NEW i \in DOMAIN found'
               PROVE  Visible(found'[i].entry) /\ found'[i] = ItemOf(found'[i].entry)
    BY <1>4 DEF Only
  <2>1. CASE i \in DOMAIN found
    BY <1>1, <2>1 DEF Gathered, Only
  <2>2. CASE i = n
    BY <1>1, <2>2
  <2> QED
    BY <1>2, <2>1, <2>2
<1> QED
  BY <1>4, <1>5, <1>6, <1>8, <1>9 DEF Gathered

(* What is found behind the last place of a list that grows. *)
LEMMA GatherMore ==
  ASSUME TypeOK, NEW g, NEW c, NEW p \in Nat, Gathered(g, c, p), ~Confined,
         found' = found \/ (\E o \in Item : found' = Append(found, o)),
         UNCHANGED <<mem, type, array>>
  PROVE  Gathered(g, c, p)'
<1>1. \A i \in DOMAIN found : i \in DOMAIN found' /\ found'[i] = found[i]
  BY Appended DEF TypeOK
<1>2. /\ Firm(g)' = Firm(g) /\ ~Confined' /\ mem.life # "still"
      /\ \A e : Visible(e)' <=> Visible(e)
  BY DEF Firm, Confined, Visible, IsList, Unused
<1>3. Covered(g, c, p)'
  <2> SUFFICES ASSUME NEW k \in 1 .. p, c[k] \in Firm(g), Visible(c[k])
               PROVE  \E i \in DOMAIN found' : /\ found'[i].entry = c[k]
                                               /\ found'[i].key = g.entry[c[k]].key
                                               /\ found'[i].value = g.entry[c[k]].value
    BY <1>2 DEF Covered
  <2>1. PICK i \in DOMAIN found : /\ found[i].entry = c[k]
                                  /\ found[i].key = g.entry[c[k]].key
                                  /\ found[i].value = g.entry[c[k]].value
    BY DEF Gathered, Covered
  <2> QED
    BY <1>1, <2>1
<1> QED
  BY <1>2, <1>3 DEF Gathered

(* The next place is passed: the next slot, or the next node. *)
LEMMA HereSkips ==
  ASSUME TypeOK, NEW c \in Seq(Nodes \cup {Null}), NEW p \in Nat, Here(c, p), p < Len(c),
         Skip, UNCHANGED <<mem, type, array>>, IsList => AtEntry,
         ~IsList => pc \in {"slot", "key", "value", "hash"}
  PROVE  Here(c, p + 1)' /\ ~AtEntry'
<1>1. /\ (IsList' <=> IsList) /\ (Confined' <=> Confined) /\ ~AtEntry'
      /\ \/ IsList /\ pc' = "node" /\ node' = next /\ AtEntry
         \/ ~IsList /\ pc' = "slot" /\ slot' = slot + 1 /\ p = slot
  BY SkipEffect DEF IsList, Confined, AtEntry, Here
<1>2. Len(c) \in Nat /\ p + 1 \in 0 .. Len(c)
  OBVIOUS
<1>3. CASE IsList
  <2>1. /\ pc' = "node" /\ node' = next
        /\ p + 1 < Len(c) => next = c[p + 2]
        /\ (Confined /\ p + 1 = Len(c)) => next = Null
    BY <1>1, <1>3 DEF Here
  <2> QED
    BY <1>1, <1>2, <1>3, <2>1 DEF Here
<1>4. CASE ~IsList
  BY <1>1, <1>2, <1>4 DEF Here
<1> QED
  BY <1>1, <1>3, <1>4

(* Nothing that is passed is lost sight of as the target runs. *)
LEMMA RunsKeepAt ==
  ASSUME DctTargets, IInv, Kinds, Tracked, NEW g, NEW c, NEW p \in Nat, At(g, c, p), TargetRuns
  PROVE  At(g, c, p)'
<1> USE DEF IInv, At
<1>1. /\ UNCHANGED <<type, pc, slot, array, node, key, value, next, found, result, stopped>>
      /\ (IsList' <=> IsList) /\ mem' \in Images
  BY DEF TargetRuns, scanVars, callbackVars, IsList
<1>2. /\ Origin(g)' /\ mem.life # "still" /\ mem'.life = mem.life /\ mem'.type = mem.type
      /\ mem.type # "Concurrent" => mem'.slots = mem.slots
  BY OriginStays DEF Course
<1>3. mem.type # "Concurrent"
  BY <1>2 DEF Tracked, Kinds, IsList
<1>4. Course(g, c)'
  BY <1>1, <1>2, <1>3 DEF Course, Slots, Chain, IsList
<1>5. Here(c, p)' /\ Whole(c, p)'
  BY <1>1, <1>2 DEF Here, Whole, AtEntry, Confined
<1>6. /\ Firm(g)' = Firm(g) /\ (Confined' <=> Confined)
      /\ mem.life = "growing" => Firm(g) = g.live
      /\ mem.life # "growing" => Firm(g) = {}
  BY <1>1, <1>2 DEF Firm, Confined
<1>7. ASSUME NEW e \in Firm(g)
      PROVE  mem'.entry[e].bad = {} /\ Visible(e)
  <2>1. mem.life = "growing" /\ e \in g.live
    BY <1>6, <1>7
  <2>2. Carries(g, mem) /\ Carries(g, mem')
    BY <1>2, <1>3, <2>1 DEF Course, Origin
  <2>3. mem.entry[e].key # array \/ IsList
    BY <2>1, <2>2 DEF Course, Tabled, Carries
  <2> QED
    BY <2>1, <2>2, <2>3 DEF Carries, Visible, Unused
<1>8. Read(g)'
  BY <1>1, <1>6, <1>7 DEF Read, Readable, AtEntry
<1>9. Gathered(g, c, p)'
  BY <1>1, <1>2, <1>6, <1>7 DEF Gathered, Covered, Within, Once
<1> QED
  BY <1>4, <1>5, <1>8, <1>9

(* A place is passed at which there is nothing to show; or, behind the     *)
(* last place of a list that grows, whatever there is.                     *)
LEMMA PassedBy ==
  ASSUME DctTargets, IInv, Kinds, Tracked, NEW g, NEW c, NEW p \in Nat, At(g, c, p),
         Skip, UNCHANGED <<mem, type, array, found, stopped>>,
         IsList => AtEntry,
         ~IsList => pc \in {"slot", "key", "value", "hash"} /\ p < Len(c),
         p < Len(c) => (c[p + 1] \in Firm(g) => ~Visible(c[p + 1]))
  PROVE  \E r \in Nat : At(g, c, r)'
<1> USE DEF IInv, At
<1>1. c \in Seq(Nodes \cup {Null}) /\ Len(c) \in Nat
  BY CourseFacts
<1>2. Course(g, c)' /\ (IsList' <=> IsList) /\ (Confined' <=> Confined)
  BY DEF Course, Origin, Chain, Slots, IsList, Confined
<1>3. result' # "S_OK" /\ (\A r : Whole(c, r)')
  BY SkipEffect DEF Control, AtEntry, Whole
<1>4. CASE p < Len(c)
  <2>1. Here(c, p + 1)' /\ ~AtEntry'
    BY <1>1, <1>4, HereSkips
  <2>2. Gathered(g, c, p + 1)'
    BY <1>4, GatherNone
  <2> QED
    BY <1>2, <1>3, <2>1, <2>2 DEF Read
<1>5. CASE ~(p < Len(c))
  <2>1. p = Len(c) /\ IsList /\ AtEntry /\ ~Confined
    BY <1>1, <1>5 DEF Here
  <2>2. Here(c, p)' /\ ~AtEntry'
    BY <1>2, <2>1, <1>1, SkipEffect DEF Here, AtEntry
  <2>3. Gathered(g, c, p)'
    BY <2>1, GatherMore
  <2> QED
    BY <1>2, <1>3, <2>2, <2>3 DEF Read
<1> QED
  BY <1>4, <1>5

(* The slot that is read is the next place. *)
LEMMA SlotIsNext ==
  ASSUME DctTargets, IInv, Kinds, Tracked, NEW g, NEW c, NEW p \in Nat, At(g, c, p), ReadSlot
  PROVE  \E r \in Nat : At(g, c, r)'
<1> USE DEF IInv, At
<1>1. /\ pc = "slot" /\ ~IsList /\ c = Slots /\ p = slot /\ p < Len(c)
      /\ UNCHANGED <<mem, type, array, found, stopped>> /\ result = "none"
      /\ c \in Seq(Nodes \cup {Null})
  BY Readings DEF ReadSlot, callbackVars, Course, Here, IsList, Control, ArrayTypes
<1>2. CASE c[p + 1] = Null
  <2>1. Skip /\ c[p + 1] \notin Firm(g)
    BY <1>1, <1>2, CourseFacts DEF ReadSlot
  <2> QED
    BY <1>1, <2>1, PassedBy
<1>3. CASE c[p + 1] # Null
  <2>1. /\ node' = c[p + 1] /\ pc' = "key" /\ UNCHANGED <<slot, key, value, next, result>>
    BY <1>1, <1>3 DEF ReadSlot, Goto
  <2>2. Course(g, c)' /\ (IsList' <=> IsList) /\ (Confined' <=> Confined)
    BY <1>1 DEF Course, Origin, Slots, IsList, Confined
  <2>3. Here(c, p)' /\ Read(g)' /\ Whole(c, p)'
    BY <1>1, <2>1, <2>2 DEF Here, Read, Whole
  <2>4. Gathered(g, c, p)'
    BY <1>1, <2>2 DEF Gathered, Covered, Within, Once, Only, Firm, Visible, ItemOf, Unused, IsList
  <2> QED
    BY <2>2, <2>3, <2>4
<1> QED
  BY <1>2, <1>3

(* The first two words of an entry. *)
LEMMA WordIsRead ==
  ASSUME DctTargets, IInv, Kinds, Tracked, NEW g, NEW c, NEW p \in Nat, At(g, c, p),
         ReadKey \/ ReadValue
  PROVE  \E r \in Nat : At(g, c, r)'
<1> USE DEF IInv, At
<1>1. /\ pc \in {"key", "value"} /\ AtEntry /\ node # Null
      /\ UNCHANGED <<mem, type, array, found, stopped>> /\ result = "none"
      /\ Len(c) \in Nat
  BY CourseFacts DEF ReadKey, ReadValue, callbackVars, AtEntry, Control
<1>2. ~IsList => p < Len(c)
  BY <1>1 DEF Here, Confined
<1>3. CASE Skip /\ (~Readable("key") \/ ~Readable("value"))
  <2>1. p < Len(c) => node = c[p + 1]
    BY <1>1 DEF Here
  <2>2. ~Visible(node)
    BY <1>3 DEF Visible, Readable
  <2> QED
    BY <1>1, <1>2, <1>3, <2>1, <2>2, PassedBy
<1>4. CASE /\ UNCHANGED <<slot, node, next, result>>
           /\ \/ /\ pc = "key" /\ pc' = "value"
                 /\ Readable("key") /\ key' = mem.entry[node].key
              \/ /\ pc = "value" /\ pc' = IF IsList THEN "call" ELSE "hash"
                 /\ Readable("value") /\ value' = mem.entry[node].value /\ key' = key
  <2>1. Course(g, c)' /\ (IsList' <=> IsList) /\ (Confined' <=> Confined) /\ Firm(g)' = Firm(g)
    BY <1>1 DEF Course, Origin, Chain, Slots, IsList, Confined, Firm
  <2>2. Here(c, p)' /\ Whole(c, p)' /\ AtEntry'
    BY <1>1, <1>4, <2>1 DEF Here, Whole, AtEntry
  <2>3. Gathered(g, c, p)'
    BY <1>1, <2>1 DEF Gathered, Covered, Within, Once, Only, Visible, ItemOf, Unused, IsList
  <2>4. ASSUME node \in Firm(g)
        PROVE  mem.entry[node].key = g.entry[node].key /\ mem.entry[node].value = g.entry[node].value
    <3>1. CASE mem.life = "still"
      BY <3>1 DEF Course, Origin
    <3>2. CASE mem.life # "still"
      <4>1. mem.life = "growing" /\ node \in g.live
        BY <2>4, <3>2 DEF Firm
      <4>2. mem.type # "Concurrent"
        BY <4>1 DEF Tracked, Kinds, IsList
      <4> QED
        BY <4>1, <4>2 DEF Course, Origin, Carries
    <3> QED
      BY <3>1, <3>2
  <2>5. Read(g)'
    BY <1>1, <1>4, <2>1, <2>4 DEF Read, Readable
  <2> QED
    BY <2>1, <2>2, <2>3, <2>5
<1> QED
  BY <1>3, <1>4 DEF ReadKey, ReadValue, Goto

(* A node's pointer to the next one. *)
LEMMA NextIsRead ==
  ASSUME DctTargets, IInv, Kinds, Tracked, NEW g, NEW c, NEW p \in Nat, At(g, c, p),
         ReadNext, Scanning'
  PROVE  \E r \in Nat : At(g, c, r)'
<1> USE DEF IInv, At
<1>1. /\ pc = "node" /\ IsList /\ node # Null /\ pc' = "key" /\ next' = mem.entry[node].next
      /\ UNCHANGED <<mem, type, array, found, stopped, slot, node, result>> /\ result = "none"
  BY DEF ReadNext, callbackVars, Control, Goto, Return, Scanning
<1>2. Course(g, c)' /\ IsList' /\ (Confined' <=> Confined) /\ Firm(g)' = Firm(g)
  BY <1>1 DEF Course, Origin, Chain, Slots, IsList, Confined, Firm
<1>3. Chain(g, c) /\ Origin(g) /\ Len(c) \in Nat
  BY <1>1 DEF Course, Chain
<1>4. ASSUME p < Len(c)
      PROVE  /\ node = c[p + 1] /\ p + 1 \in DOMAIN c
             /\ p + 1 < Len(c) => next' = c[p + 2]
             /\ (Confined /\ p + 1 = Len(c)) => next' = Null
  <2>1. node = c[p + 1] /\ p + 1 \in DOMAIN c
    BY <1>1, <1>3, <1>4 DEF Here
  <2>2. g.entry[node].next = IF p + 1 < Len(c) THEN c[p + 2] ELSE Null
    BY <1>3, <2>1 DEF Chain
  <2>3. CASE mem.life = "still"
    BY <1>1, <1>3, <2>1, <2>2, <2>3 DEF Origin
  <2>4. CASE mem.life # "still"
    <3>1. mem.life = "growing" /\ mem.type # "Concurrent" /\ ~Confined
      BY <1>1, <2>4 DEF Tracked, Kinds, IsList, Confined
    <3>2. node \in g.live
      BY <1>3, <2>1 DEF Chain, ToSet
    <3>3. p + 1 < Len(c) => c[p + 2] # Null
      BY <1>3, DctAssumption DEF Chain
    <3> QED
      BY <1>1, <1>3, <2>1, <2>2, <3>1, <3>2, <3>3 DEF Origin, Carries
  <2> QED
    BY <2>1, <2>3, <2>4
<1>5. Here(c, p)'
  BY <1>1, <1>2, <1>3, <1>4 DEF Here, AtEntry
<1>6. Read(g)' /\ Whole(c, p)'
  BY <1>1 DEF Read, Whole
<1>7. Gathered(g, c, p)'
  BY <1>1, <1>2 DEF Gathered, Covered, Within, Once, Only, Visible, ItemOf, Unused, IsList
<1> QED
  BY <1>2, <1>5, <1>6, <1>7

(* The entry is shown, or its last word tells that it is none. *)
LEMMA EntryIsNext ==
  ASSUME DctTargets, IInv, Kinds, Tracked, NEW g, NEW c, NEW p \in Nat, At(g, c, p),
         ReadHash \/ CallNode
  PROVE  \E r \in Nat : At(g, c, r)'
<1> USE DEF IInv, At
<1>1. /\ UNCHANGED <<mem, type, array>> /\ pc \in {"hash", "call"} /\ (pc = "call" <=> IsList)
      /\ Entered \in Item /\ result = "none" /\ AtEntry /\ node \in Nodes /\ node # Null
      /\ c \in Seq(Nodes \cup {Null}) /\ Len(c) \in Nat
  BY EntryShown, CourseFacts DEF AtEntry, Control, TypeOK
<1>2. ~IsList => p < Len(c) /\ pc = "hash"
  BY <1>1 DEF Here, Confined
<1>3. p < Len(c) => node = c[p + 1]
  BY <1>1 DEF Here
<1>4. ASSUME node \in Firm(g)
      PROVE  /\ Readable("key") /\ key = g.entry[node].key /\ key = mem.entry[node].key
             /\ Readable("value") /\ value = g.entry[node].value
             /\ value = mem.entry[node].value
  <2>1. /\ Readable("key") /\ key = g.entry[node].key
        /\ Readable("value") /\ value = g.entry[node].value
    BY <1>1, <1>4 DEF Read
  <2>2. CASE mem.life = "still"
    BY <2>1, <2>2 DEF Course, Origin
  <2>3. CASE mem.life # "still"
    <3>1. mem.life = "growing" /\ node \in g.live
      BY <1>4, <2>3 DEF Firm
    <3>2. mem.type # "Concurrent"
      BY <3>1 DEF Tracked, Kinds, IsList
    <3> QED
      BY <2>1, <3>1, <3>2 DEF Course, Origin, Carries
  <2> QED
    BY <2>2, <2>3
<1>5. CASE /\ pc = "hash" /\ Skip /\ UNCHANGED <<target, found, callbackVars>>
           /\ ~Readable("hash") \/ Unused(key, value, mem.entry[node].hash)
  <2>1. node \in Firm(g) => ~Visible(node)
    BY <1>1, <1>4, <1>5 DEF Visible, Readable
  <2> QED
    BY <1>1, <1>2, <1>3, <1>5, <2>1, PassedBy DEF callbackVars
<1>6. ASSUME NEW reply \in BOOLEAN, Shows(reply),
             pc = "hash" => Readable("hash") /\ ~Unused(key, value, mem.entry[node].hash)
      PROVE  \E r \in Nat : At(g, c, r)'
  <2>1. found' = Append(found, Entered) /\ Entered.entry = node
        /\ Entered.key = key /\ Entered.value = value
    BY <1>6 DEF Shows, Entered
  <2>2. Course(g, c)' /\ (IsList' <=> IsList) /\ (Confined' <=> Confined)
    BY <1>1 DEF Course, Origin, Chain, Slots, IsList, Confined
  <2>3. \/ Skip
        \/ ~IsList /\ pc' = "stopped" /\ result' = "none"
    BY <1>1, <1>6 DEF Shows, Call, Visit, Goto
  <2>4. \A r : Whole(c, r)'
    BY <1>1, <2>3, SkipEffect DEF Whole
  <2>5. mem.life = "still" => Visible(node) /\ Entered = ItemOf(node)
    <3> SUFFICES ASSUME mem.life = "still"
                 PROVE  Visible(node) /\ Entered = ItemOf(node)
      OBVIOUS
    <3>1. node \in Firm(g)
      BY <1>1 DEF Firm
    <3> QED
      BY <1>1, <1>4, <1>6, <3>1 DEF Visible, Readable, Entered, ItemOf
  <2>6. CASE p < Len(c)
    <3>1. Gathered(g, c, p + 1)'
      <4>1. Apart(c)
        BY CourseFacts
      <4>2. node = c[p + 1]
        BY <1>3, <2>6
      <4> HIDE DEF IInv, At
      <4> QED
        BY <1>1, <1>4, <2>1, <2>5, <2>6, <4>1, <4>2, GatherOne DEF IInv, At
    <3>2. Here(c, p + 1)' /\ ~AtEntry'
      <4>1. CASE Skip
        BY <1>1, <1>2, <2>6, <4>1, HereSkips
      <4>2. CASE ~IsList /\ pc' = "stopped"
        BY <1>1, <2>2, <2>6, <4>2 DEF Here, AtEntry
      <4> QED
        BY <2>3, <4>1, <4>2
    <3> QED
      BY <2>2, <2>4, <3>1, <3>2 DEF Read
  <2>7. CASE ~(p < Len(c))
    <3>1. p = Len(c) /\ IsList /\ ~Confined
      BY <1>1, <1>2, <2>7 DEF Here
    <3>2. Here(c, p)' /\ ~AtEntry'
      BY <1>1, <2>2, <2>3, <3>1, SkipEffect DEF Here, AtEntry
    <3>3. Gathered(g, c, p)'
      BY <1>1, <2>1, <3>1, GatherMore
    <3> QED
      BY <2>2, <2>4, <3>2, <3>3 DEF Read
  <2> QED
    BY <2>6, <2>7
<1> QED
  BY <1>5, <1>6, EntryShown

(* The course is begun: with an array, *)
LEMMA ArrayIsBegun ==
  ASSUME DctTargets, IInv, Kinds, Tracked, ReadArray, pc' = "slot"
  PROVE  \E g \in Images : \E c \in Seq(Nodes \cup {Null}) : \E p \in Nat : At(g, c, p)'
<1> USE DEF IInv
<1>1. /\ pc = "array" /\ ~IsList /\ type \in ArrayTypes /\ slot = 0 /\ found = <<>>
      /\ UNCHANGED <<mem, type, slot, found>> /\ mem \in Images /\ result' = "none"
      /\ array' = IF "element" \in mem.fails THEN Null ELSE mem.array
  BY DEF ReadArray, Goto, Return, scanVars, Control, IsList, ArrayTypes, Kinds, Early, TypeOK
<1>2. mem.life = "growing" => Carries(mem, mem) /\ (mem.type # "Concurrent" => Tabled(mem))
  <2> SUFFICES ASSUME mem.life = "growing"
               PROVE  Carries(mem, mem) /\ Tabled(mem)
    OBVIOUS
  <2>1. type # "Concurrent" /\ mem.type # "Concurrent"
    BY <1>1 DEF Tracked, Kinds, IsList
  <2>2. Tables(mem)
    BY <1>1, <2>1 DEF Kinds, Tables, ArrayTypes
  <2>3. Formed(mem)
    BY <1>1, <2>1 DEF DctTargets
  <2> QED
    BY <2>2, <2>3 DEF Formed
<1>3. mem.life = "growing" => mem.type # "Concurrent"
  BY <1>1 DEF Tracked, Kinds
<1>4. PICK c : c = Slots'
  OBVIOUS
<1>5. c \in Seq(Nodes \cup {Null}) /\ Len(c) \in Nat
  BY <1>1, <1>4, EarlyKeepsIInv, ImageFacts, EmptySeq DEF Slots, TypeOK
<1>6. Course(mem, c)'
  <2>1. Origin(mem)'
    BY <1>1, <1>2 DEF Origin
  <2>2. ~IsList'
    BY <1>1 DEF IsList
  <2>3. mem.life = "growing" => array' = mem.array
    BY <1>1, <1>2 DEF Carries
  <2> QED
    BY <1>1, <1>2, <1>3, <1>4, <2>1, <2>2, <2>3 DEF Course
<1>7. Here(c, 0)' /\ Read(mem)' /\ Whole(c, 0)'
  BY <1>1, <1>5 DEF Here, Read, Whole, AtEntry, IsList
<1>8. Gathered(mem, c, 0)'
  BY <1>1 DEF Gathered, Covered, Within, Once, Only
<1> QED
  BY <1>1, <1>5, <1>6, <1>7, <1>8 DEF At

(* or with a list. *)
LEMMA ListIsBegun ==
  ASSUME DctTargets, IInv, Kinds, Tracked, ReadHead, pc' = "node"
  PROVE  \E g \in Images : \E c \in Seq(Nodes \cup {Null}) : \E p \in Nat : At(g, c, p)'
<1> USE DEF IInv
<1>1. /\ pc = "List" /\ IsList /\ IsList' /\ found = <<>> /\ mem.life # "moving"
      /\ UNCHANGED <<mem, type, array, found>> /\ result' = "none" /\ node' = mem.head
      /\ "members" \notin mem.fails
  BY DEF ReadHead, Goto, Return, Control, Early, IsList, Tracked
<1>2. PICK g \in Images : Origin(g) /\ Listed(g)
  BY <1>1 DEF Kinds, Early
<1>3. PICK c \in Seq(Nodes) : Chain(g, c)
  <2>1. \A c : Chain(g, c) => c \in Seq(Nodes)
    BY DEF Chain
  <2> QED
    BY <1>2, <2>1 DEF Listed
<1>4. c \in Seq(Nodes \cup {Null}) /\ Len(c) \in Nat /\ (Len(c) = 0 <=> c = <<>>)
  OBVIOUS
<1>5. Course(g, c)'
  BY <1>1, <1>2, <1>3 DEF Course, Origin, Chain, IsList
<1>6. /\ 0 < Len(c) => node' = c[1]
      /\ (Confined /\ Len(c) = 0) => node' = Null
  <2>1. g.head = IF c = <<>> THEN Null ELSE c[1]
    BY <1>3 DEF Chain
  <2>2. CASE mem.life = "still"
    BY <1>1, <1>2, <1>4, <2>1, <2>2 DEF Origin
  <2>3. CASE mem.life # "still"
    <3>1. mem.life = "growing" /\ mem.type # "Concurrent" /\ ~Confined
      BY <1>1, <2>3 DEF Tracked, Kinds, IsList, Confined
    <3>2. 0 < Len(c) => c[1] # Null
      BY <1>3, DctAssumption DEF Chain
    <3> QED
      BY <1>1, <1>2, <1>4, <2>1, <3>1, <3>2 DEF Origin, Carries
  <2> QED
    BY <2>2, <2>3
<1>7. Here(c, 0)' /\ Read(g)' /\ Whole(c, 0)'
  <2>1. (Confined' <=> Confined) /\ pc' = "node" /\ ~AtEntry'
    BY <1>1 DEF Confined, AtEntry
  <2> QED
    BY <1>1, <1>4, <1>6, <2>1 DEF Here, Read, Whole
<1>8. Gathered(g, c, 0)'
  BY <1>1 DEF Gathered, Covered, Within, Once, Only
<1> QED
  BY <1>4, <1>5, <1>7, <1>8 DEF At

(* Every place has been passed when the enumeration ends, but for a client *)
(* that asked it to stop.                                                  *)
LEMMA CourseEnds ==
  ASSUME DctTargets, IInv, Kinds, Tracked, NEW g, NEW c, NEW p \in Nat, At(g, c, p),
         Stopped \/ EndOfArray \/ EndOfList
  PROVE  At(g, c, p)'
<1> USE DEF IInv, At
<1>1. /\ UNCHANGED <<mem, type, array, slot, node, key, value, next, found>>
      /\ result' = "S_OK" /\ pc' = "returned" /\ (IsList' <=> IsList)
      /\ (Confined' <=> Confined) /\ Firm(g)' = Firm(g) /\ Len(c) \in Nat
  BY CourseFacts DEF Stopped, EndOfArray, EndOfList, Return, scanVars, IsList, Confined, Firm
<1>2. p = Len(c) \/ (~IsList /\ stopped')
  <2>1. CASE Stopped
    BY <2>1 DEF Stopped, callbackVars, Control, Stops, IsList, ArrayTypes
  <2>2. CASE EndOfArray
    <3>1. pc = "slot" /\ ~IsList /\ c = Slots /\ p = slot /\ slot >= Len(Slots)
      BY <2>2 DEF EndOfArray, Control, IsList, ArrayTypes, Course, Here
    <3> QED
      BY <1>1, <3>1 DEF Here
  <2>3. CASE EndOfList
    <3>1. pc = "node" /\ IsList /\ node = Null /\ p \in 0 .. Len(c)
      BY <2>3 DEF EndOfList, Control, Here
    <3>2. Chain(g, c)
      BY <3>1 DEF Course
    <3>3. p < Len(c) => c[p + 1] # Null
      BY <3>2, DctAssumption DEF Chain
    <3> QED
      BY <1>1, <3>1, <3>3 DEF Here
  <2> QED
    BY <2>1, <2>2, <2>3
<1>3. Course(g, c)'
  BY <1>1 DEF Course, Origin, Chain, Slots, IsList
<1>4. Here(c, p)' /\ Read(g)' /\ Whole(c, p)'
  BY <1>1, <1>2 DEF Here, Read, Whole, AtEntry
<1>5. Gathered(g, c, p)'
  BY <1>1 DEF Gathered, Covered, Within, Once, Only, Visible, ItemOf, Unused, IsList
<1> QED
  BY <1>3, <1>4, <1>5

(* Every step preserves ScanInv.                                          *)
LEMMA NextScan ==
  ASSUME DctTargets, IInv, Kinds, ScanInv, [Next]_vars
  PROVE  ScanInv'
<1> SUFFICES ASSUME Tracked', Scanning'
             PROVE  \E g \in Images : \E c \in Seq(Nodes \cup {Null}) : \E p \in Nat : At(g, c, p)'
  BY DEF ScanInv
<1>1. CASE ReadSlot \/ ReadKey \/ ReadValue \/ ReadNext \/ ReadHash \/ CallNode
           \/ Stopped \/ EndOfArray \/ EndOfList
  <2>1. UNCHANGED <<mem, type>> /\ Scanning
    BY <1>1 DEF ReadSlot, ReadKey, ReadValue, ReadNext, ReadHash, CallNode, Stopped, EndOfArray,
                EndOfList, scanVars, Scanning
  <2>2. Tracked
    BY <2>1 DEF Tracked, IsList
  <2>3. PICK g \in Images, c \in Seq(Nodes \cup {Null}), p \in Nat : At(g, c, p)
    BY <2>1, <2>2 DEF ScanInv
  <2>4. \E r \in Nat : At(g, c, r)'
    BY <1>1, <2>2, <2>3, SlotIsNext, WordIsRead, NextIsRead, EntryIsNext, CourseEnds
  <2> QED
    BY <2>3, <2>4
<1>2. CASE ReadArray \/ ReadHead
  <2>1. UNCHANGED <<mem, type>> /\ (ReadArray => pc' = "slot") /\ (ReadHead => pc' = "node")
    BY <1>2 DEF ReadArray, ReadHead, Goto, Return, Scanning
  <2>2. Tracked
    BY <2>1 DEF Tracked, IsList
  <2> QED
    BY <1>2, <2>1, <2>2, ArrayIsBegun, ListIsBegun
<1>3. CASE Identify \/ ReadHashtable \/ ReadList \/ ReadTables
  <2>1. ~Scanning'
    BY <1>3 DEF Identify, ReadHashtable, ReadList, ReadTables, Goto, Return, Scanning, IInv,
                TypeOK, Types, Control, IsList
  <2> QED
    BY <2>1
<1>4. CASE TargetRuns
  <2>1. mem'.life = mem.life /\ mem.life # "still" /\ UNCHANGED <<type, pc, result>>
    BY <1>4 DEF TargetRuns, DctTargets, TargetsStay
  <2>2. Tracked /\ Scanning
    BY <2>1 DEF Tracked, Scanning, IsList
  <2> QED
    BY <1>4, <2>2, RunsKeepAt DEF ScanInv
<1>5. CASE UNCHANGED vars
  <2>1. UNCHANGED <<mem, type, array, pc, slot, node, key, value, next, found, result, stopped>>
    BY <1>5 DEF vars, scanVars, callbackVars
  <2> HIDE <1>5
  <2>2. Tracked /\ Scanning
    BY <2>1 DEF Tracked, Scanning, IsList
  <2>3. PICK g \in Images, c \in Seq(Nodes \cup {Null}), p \in Nat : At(g, c, p)
    BY <2>2 DEF ScanInv
  <2>4. Course(g, c)' /\ (IsList' <=> IsList) /\ (Confined' <=> Confined) /\ Firm(g)' = Firm(g)
    BY <2>1, <2>3 DEF At, Course, Origin, Chain, Slots, IsList, Confined, Firm
  <2>5. Here(c, p)' /\ Read(g)' /\ Whole(c, p)'
    BY <2>1, <2>3, <2>4 DEF At, Here, Read, Whole, AtEntry, Readable
  <2>6. Gathered(g, c, p)'
    BY <2>1, <2>3, <2>4
       DEF At, Gathered, Covered, Within, Once, Only, Visible, ItemOf, Unused, IsList
  <2> QED
    BY <2>3, <2>4, <2>5, <2>6 DEF At
<1> QED
  BY <1>1, <1>2, <1>3, <1>4, <1>5 DEF Next, EnumStep

(* What is known of the places holds of every run in such targets. *)
LEMMA ScanInvariance ==
  ASSUME DctTargets
  PROVE  Spec => [](IInv /\ Kinds /\ ScanInv)
<1>1. Init => Kinds /\ ScanInv
  <2>1. Init => ~Scanning
    BY DEF Init, Scanning
  <2> QED
    BY <2>1, KindsAtFirst DEF ScanInv
<1>2. IInv /\ Kinds /\ ScanInv /\ [Next]_vars => Kinds' /\ ScanInv'
  BY NextKinds, NextScan
<1> QED
  BY <1>1, <1>2, Invariance, PTL DEF Spec

-----------------------------------------------------------------------------
(***************************************************************************)
(* The theorems about what is reported.                                    *)
(***************************************************************************)

(* A client that was not refused has received what was found.              *)
LEMMA ReceivedAll ==
  ASSUME IInv, result = "S_OK"
  PROVE  /\ received = found /\ found \in Seq(Item)
         /\ Reported = {found[i].entry : i \in DOMAIN found}
<1>1. received \o <<>> = found /\ received \in Seq(Item)
  BY DEF IInv, Delivered, TypeOK, CallbackTypeOK
<1>2. received = found
  BY <1>1
<1> QED
  BY <1>1, <1>2 DEF Reported

(* Among the places of a target that stood still, exactly those with an    *)
(* entry to show were found, each once.                                    *)
LEMMA FoundInDump ==
  ASSUME DctTargets, IInv, Kinds, NEW c \in Seq(Nodes \cup {Null}), At(mem, c, Len(c)),
         Tracked, mem.life = "still"
  PROVE  /\ {found[i].entry : i \in DOMAIN found} = {e \in ToSet(c) \ {Null} : Visible(e)}
         /\ \A i \in DOMAIN found : found[i] = ItemOf(found[i].entry)
         /\ Len(found) = Cardinality({found[i].entry : i \in DOMAIN found})
<1> DEFINE R == {found[i].entry : i \in DOMAIN found}
<1>1. /\ Covered(mem, c, Len(c)) /\ Within(c, Len(c)) /\ Once /\ Only /\ Firm(mem) = Nodes
      /\ found \in Seq(Item) /\ Len(found) \in Nat /\ DOMAIN found = 1 .. Len(found)
      /\ Len(c) \in Nat /\ DOMAIN c = 1 .. Len(c)
  BY DEF At, Gathered, Confined, Firm, IInv, TypeOK
<1>2. \A i \in DOMAIN found : found[i].entry \in Nodes
  <2>1. \A i \in DOMAIN found : found[i] \in Item
    BY <1>1
  <2> QED
    BY <2>1 DEF Item
<1>3. R = {e \in ToSet(c) \ {Null} : Visible(e)}
  <2>1. ASSUME NEW i \in DOMAIN found
        PROVE  found[i].entry \in ToSet(c) \ {Null} /\ Visible(found[i].entry)
    BY <1>1, <1>2, DctAssumption DEF Within, Only, ToSet
  <2>2. ASSUME NEW e \in ToSet(c) \ {Null}, Visible(e)
        PROVE  \E i \in DOMAIN found : found[i].entry = e
    <3>1. PICK k \in 1 .. Len(c) : c[k] = e
      BY <1>1 DEF ToSet
    <3>2. e \in Nodes
      BY <1>1, <3>1, <2>2
    <3> QED
      BY <1>1, <2>2, <3>1, <3>2 DEF Covered
  <2> QED
    BY <2>1, <2>2
<1>4. Len(found) = Cardinality(R)
  <2> DEFINE f == [i \in 1 .. Len(found) |-> found[i].entry]
  <2>1. f \in Bijection(1 .. Len(found), R)
    <3>1. f \in [1 .. Len(found) -> R] /\ \A r \in R : \E i \in 1 .. Len(found) : f[i] = r
      BY <1>1
    <3>2. \A i, j \in 1 .. Len(found) : f[i] = f[j] => i = j
      BY <1>1 DEF Once
    <3> HIDE DEF f, R
    <3> QED
      BY <3>1, <3>2 DEF Bijection, Injection, Surjection, IsInjective
  <2>2. ExistsBijection(1 .. Len(found), R)
    BY <2>1 DEF ExistsBijection
  <2> HIDE DEF R
  <2> QED
    BY <1>1, <2>2, FS_CountingElements
<1> QED
  BY <1>1, <1>3, <1>4 DEF Only

(* What the places of a dictionary hold, for each type. *)
LEMMA PlacesOfDump ==
  ASSUME DctTargets, IInv, Kinds, NEW c, Course(mem, c), Tracked, mem.life = "still",
         type \in ArrayTypes \cup {"List"},
         ~("element" \in mem.fails /\ mem.array # Null)
  PROVE  LET V == {e \in ToSet(c) \ {Null} : Visible(e)} IN
         /\ type \in {"Hashtable", "List"} => V = Legible(mem)
         /\ type = "Dictionary" => Legible(mem) \subseteq V
         /\ type = "Concurrent" => V = Legible(mem) \cap FirstOfChain(mem)
         /\ type \in {"Hashtable", "Dictionary"} =>
              \A e \in V : e \in Legible(mem) \/ (type = "Dictionary" /\ Idle(mem, e))
<1> DEFINE V == {e \in ToSet(c) \ {Null} : Visible(e)}
<1>1. mem \in Images /\ Formed(mem) /\ mem.live \subseteq Nodes
  BY ImageFacts DEF IInv, TypeOK, DctTargets
<1>2. CASE IsList
  <2>1. Chain(mem, c) /\ mem.array = Null
    BY <1>2 DEF Course, Chain
  <2>2. ToSet(c) = mem.live /\ Null \notin ToSet(c)
    BY <1>1, <2>1, DctAssumption DEF Chain
  <2>3. c # <<>> => mem.head # Null
    BY <2>1, DctAssumption DEF Chain
  <2>4. c = <<>> => ToSet(c) = {}
    BY DEF ToSet
  <2>5. V = {e \in mem.live : {"key", "value"} \cap mem.entry[e].bad = {}}
    BY <1>2, <2>2 DEF Visible
  <2>6. V = Legible(mem)
    BY <2>1, <2>2, <2>3, <2>4, <2>5 DEF Legible
  <2> QED
    BY <1>2, <2>6 DEF IsList
<1>3. CASE ~IsList /\ mem.array = Null
  <2>1. array = Null /\ c = <<>>
    BY <1>3 DEF Course, Slots
  <2>2. V = {}
    BY <2>1 DEF ToSet
  <2>3. type # "Concurrent"
    BY <1>1, <1>3 DEF Kinds, Formed
  <2>4. Tables(mem)
    BY <1>3, <2>3 DEF Kinds, Tables, ArrayTypes, IsList
  <2>5. mem.live = {}
    BY <1>1, <1>3, <2>4 DEF Formed, Tabled, InArray
  <2>6. Legible(mem) = {}
    BY <2>5 DEF Legible
  <2> QED
    BY <1>3, <2>2, <2>3, <2>6 DEF IsList
<1>4. CASE ~IsList /\ mem.array # Null
  <2>1. array = mem.array /\ c = mem.slots[mem.array]
    BY <1>4 DEF Course, Slots
  <2>2. ToSet(c) \ {Null} = InArray(mem)
    BY <1>4, <2>1 DEF InArray
  <2>3. \A e \in mem.live : mem.entry[e].key # mem.array
    <3>1. type # "Concurrent" => Tables(mem)
      BY <1>4 DEF Kinds, Tables, ArrayTypes, IsList
    <3> QED
      BY <1>1, <3>1 DEF Formed, Tabled, Kinds
  <2>4. \A e \in mem.live : Visible(e) <=> e \in Legible(mem)
    BY <1>4, <2>1, <2>3 DEF Visible, Legible, Unused
  <2>5. Legible(mem) \subseteq mem.live
    BY DEF Legible
  <2>6. CASE type = "Concurrent"
    <3>1. InArray(mem) \subseteq mem.live
      BY <1>1, <2>6 DEF Formed, Kinds
    <3>2. FirstOfChain(mem) \ {Null} = InArray(mem)
      BY <1>4 DEF InArray, FirstOfChain
    <3>3. Null \notin mem.live
      BY <1>1, DctAssumption
    <3> QED
      BY <2>2, <2>4, <2>5, <2>6, <3>1, <3>2, <3>3
  <2>7. CASE type # "Concurrent"
    <3>1. Tables(mem) /\ type \in {"Hashtable", "Dictionary"}
      BY <1>4, <2>7 DEF Kinds, Tables, ArrayTypes, IsList
    <3>2. mem.live \subseteq InArray(mem) /\ \A e \in InArray(mem) \ mem.live : Idle(mem, e)
      BY <1>1, <3>1 DEF Formed, Tabled
    <3>3. \A e \in InArray(mem) \ mem.live :
            Visible(e) => Idle(mem, e) /\ mem.type = "Dictionary"
      BY <1>4, <2>1, <3>2 DEF Visible, Idle, Unused
    <3>4. mem.type = "Dictionary" <=> type = "Dictionary"
      BY <3>1 DEF Kinds
    <3> QED
      BY <2>2, <2>4, <2>5, <2>7, <3>1, <3>2, <3>3, <3>4
  <2> QED
    BY <2>6, <2>7
<1> QED
  BY <1>2, <1>3, <1>4

(* No slot of an array is reported twice, whatever the target does and     *)
(* however the enumeration ends.                                           *)
THEOREM SlotsReportedOnce ==
  ASSUME DctTargets
  PROVE  Spec => []NoSlotTwice
<1>1. ASSUME IInv, Kinds, ScanInv
      PROVE  NoSlotTwice
  <2> SUFFICES ASSUME ~IsList, type # "Concurrent"
               PROVE  Once
    BY DEF NoSlotTwice, Once
  <2>1. CASE Scanning
    BY <1>1, <2>1 DEF ScanInv, Tracked, At, Gathered, Confined
  <2>2. CASE ~Scanning
    <3>1. found = <<>>
      BY <1>1, <2>2 DEF Scanning, IInv, TypeOK, Control, Kinds, Early
    <3> QED
      BY <3>1 DEF Once
  <2> QED
    BY <2>1, <2>2
<1> QED
  BY <1>1, ScanInvariance, PTL

(* In a target that stands still, a successful enumeration that is not     *)
(* refused reports the dictionary; in one that only adds entries, it       *)
(* reports those that were there from first to last.                       *)
THEOREM DictionaryReported ==
  ASSUME DctTargets
  PROVE  Spec => []EntriesReported
<1>1. ASSUME IInv, Kinds, ScanInv, result = "S_OK", ~stopped, mem.life = "still",
             ~("element" \in mem.fails /\ mem.array # Null)
      PROVE  DumpReported
  <2>1. Tracked /\ Scanning /\ type \in ArrayTypes \cup {"List"}
    BY <1>1 DEF Tracked, Scanning, IInv, Control
  <2>2. PICK g \in Images, c \in Seq(Nodes \cup {Null}), p \in Nat : At(g, c, p)
    BY <1>1, <2>1 DEF ScanInv
  <2>3. g = mem /\ p = Len(c)
    BY <1>1, <2>2 DEF At, Course, Origin, Whole
  <2>4. At(mem, c, Len(c)) /\ Course(mem, c)
    BY <2>2, <2>3 DEF At
  <2> DEFINE V == {e \in ToSet(c) \ {Null} : Visible(e)}
  <2>5. Reported = V /\ Len(received) = Cardinality(Reported)
    BY <1>1, <2>1, <2>4, FoundInDump, ReceivedAll
  <2>6. /\ type \in {"Hashtable", "List"} => V = Legible(mem)
        /\ type = "Dictionary" => Legible(mem) \subseteq V
        /\ type = "Concurrent" => V = Legible(mem) \cap FirstOfChain(mem)
    BY <1>1, <2>1, <2>4, PlacesOfDump
  <2> QED
    BY <2>5, <2>6 DEF DumpReported
<1>2. ASSUME IInv, Kinds, ScanInv, result = "S_OK", ~stopped, mem.life = "growing",
             type # "Concurrent"
      PROVE  LastingReported
  <2>1. Tracked /\ Scanning
    BY <1>2 DEF Tracked, Scanning
  <2>2. PICK g \in Images, c \in Seq(Nodes \cup {Null}), p \in Nat : At(g, c, p)
    BY <1>2, <2>1 DEF ScanInv
  <2>3. p = Len(c) /\ Course(g, c) /\ Origin(g) /\ Firm(g) = g.live /\ mem.type # "Concurrent"
    BY <1>2, <2>2 DEF At, Course, Whole, Firm, Kinds
  <2>4. ASSUME NEW e \in g.live
        PROVE  \E k \in 1 .. p : c[k] = e
    <3>1. CASE IsList
      <4>1. c \in Seq(Nodes) /\ e \in ToSet(c)
        BY <2>3, <2>4, <3>1 DEF Course, Chain
      <4> QED
        BY <2>3, <4>1 DEF ToSet
    <3>2. CASE ~IsList
      <4>1. array = g.array /\ Tabled(g) /\ c = Slots /\ mem.slots = g.slots
        BY <1>2, <2>3, <3>2 DEF Course, Origin
      <4>2. e \in InArray(g) /\ g.array # Null /\ e \in ToSet(c)
        BY <2>4, <4>1 DEF Tabled, InArray, Slots
      <4> QED
        BY <2>2, <2>3, <4>2 DEF ToSet
    <3> QED
      BY <3>1, <3>2
  <2>5. ASSUME NEW e \in g.live
        PROVE  Visible(e)
    <3>1. Carries(g, mem) /\ (~IsList => array = g.array /\ Tabled(g))
      BY <1>2, <2>3 DEF Course, Origin
    <3> QED
      BY <2>5, <3>1 DEF Carries, Visible, Unused, Tabled
  <2>6. ASSUME NEW w \in Lasting
        PROVE  \E i \in DOMAIN received : w = <<received[i].key, received[i].value>>
    <3>1. g \in Images /\ g.life = "growing" /\ g.type = mem.type
      BY <1>2, <2>3 DEF Origin
    <3>2. w \in Pairs(g)
      BY <3>1 DEF Lasting
    <3>3. PICK e \in g.live : w = <<g.entry[e].key, g.entry[e].value>>
      BY <3>2 DEF Pairs
    <3>4. PICK k \in 1 .. p : c[k] = e
      BY <2>4
    <3>5. PICK i \in DOMAIN found : found[i].key = g.entry[e].key /\ found[i].value = g.entry[e].value
      BY <2>2, <2>3, <2>5, <3>4 DEF At, Gathered, Covered
    <3> QED
      BY <1>2, <3>3, <3>5, ReceivedAll
  <2> QED
    BY <2>6 DEF LastingReported
<1>3. IInv /\ Kinds /\ ScanInv /\ NoSlotTwice => EntriesReported
  BY <1>1, <1>2 DEF EntriesReported, IInv, DumpReported, LastingReported
<1> QED
  BY <1>3, ScanInvariance, SlotsReportedOnce, PTL

(***************************************************************************)
(* The searches.  They note the value of the last match, and through an    *)
(* array there is only one: it is refused.                                 *)
(***************************************************************************)
Single == request.by # "all" => ~isBatch

Hits == {i \in DOMAIN found : Matches(found[i])}

Targeted ==
  mem.life = "still" =>
    IF Hits = {} THEN target = Null /\ (request.by # "all" => ~stopped)
                 ELSE \E i \in Hits : target = found[i].value

(* The client's answer to an entry. *)
LEMMA AnswerKeepsTarget ==
  ASSUME TypeOK, mem.life = "still", Targeted, NEW o \in Item, NEW reply \in BOOLEAN,
         found' = Append(found, o), Answers(o, reply), UNCHANGED <<mem, request>>,
         stopped' = (stopped \/ ~reply)
  PROVE  Targeted'
<1>0. PICK n : n = Len(found) + 1
  OBVIOUS
<1>1. /\ Len(found) \in Nat /\ DOMAIN found = 1 .. Len(found)
      /\ DOMAIN found' = 1 .. Len(found) + 1
      /\ \A i \in DOMAIN found : found'[i] = found[i]
      /\ found'[n] = o
  BY <1>0, Appended DEF TypeOK
<1>2. /\ \A i \in DOMAIN found' : i \in DOMAIN found \/ i = n
      /\ \A i \in DOMAIN found : i \in DOMAIN found'
      /\ n \in DOMAIN found'
  BY <1>0, <1>1
<1>3. Hits' = IF Matches(o) THEN Hits \cup {n} ELSE Hits
  <2>1. \A i \in DOMAIN found : Matches(found[i])' <=> Matches(found[i])
    BY <1>1 DEF Matches, KeyMatches, HashMatches
  <2>2. Matches(found[n])' <=> Matches(o)
    BY <1>1 DEF Matches, KeyMatches, HashMatches
  <2> QED
    BY <1>2, <2>1, <2>2 DEF Hits
<1>4. Hits \subseteq DOMAIN found
  BY DEF Hits
<1>5. CASE Matches(o)
  <2>1. target' = o.value /\ n \in Hits' /\ found'[n].value = o.value
    BY <1>1, <1>3, <1>5 DEF Answers
  <2> QED
    BY <2>1 DEF Targeted
<1>6. CASE ~Matches(o)
  <2>1. target' = target /\ (request.by # "all" => reply) /\ Hits' = Hits
    BY <1>3, <1>6 DEF Answers
  <2>2. \A i \in Hits : found'[i].value = found[i].value
    BY <1>1, <1>4
  <2> QED
    BY <2>1, <2>2 DEF Targeted
<1> QED
  BY <1>5, <1>6

(* Every step preserves Single and Targeted.                              *)
LEMMA NextTargeted ==
  ASSUME DctTargets, IInv, Single, Targeted, [Next]_vars
  PROVE  Single' /\ Targeted'
<1> USE DEF IInv
<1>1. CASE ReadHash \/ CallNode
  <2>1. /\ UNCHANGED <<mem, request, type>> /\ Entered \in Item
        /\ \/ UNCHANGED <<target, found, callbackVars>>
           \/ \E reply \in BOOLEAN : Shows(reply)
    BY <1>1, EntryShown
  <2>2. CASE UNCHANGED <<target, found, callbackVars>>
    BY <2>1, <2>2 DEF Single, Targeted, Hits, Matches, KeyMatches, HashMatches, callbackVars
  <2>3. ASSUME NEW reply \in BOOLEAN, Shows(reply)
        PROVE  Single' /\ Targeted'
    <3>1. isBatch' = isBatch /\ stopped' = (stopped \/ ~reply)
      <4>1. CASE IsList
        <5>1. Callback(<<Entered>>, reply) /\ UNCHANGED <<isBatch, buffer>> /\ buffer = <<>>
          BY <2>3, <4>1 DEF Shows, Call, Stops
        <5> QED
          BY <2>1, <5>1, SingleCallEffect DEF TypeOK
      <4>2. CASE ~IsList
        BY <2>1, <2>3, <4>2, WrapEffect DEF Shows, Visit, TypeOK
      <4> QED
        BY <4>1, <4>2
    <3>2. found' = Append(found, Entered) /\ Answers(Entered, reply)
      BY <2>3 DEF Shows
    <3>3. mem.life = "still" => Targeted'
      BY <2>1, <3>1, <3>2, AnswerKeepsTarget
    <3> QED
      BY <2>1, <3>1, <3>3 DEF Single, Targeted
  <2> QED
    BY <2>1, <2>2, <2>3
<1>2. CASE EndOfArray
  <2>1. UNCHANGED <<mem, request, type, target, found>> /\ isBatch' = isBatch
    BY <1>2, FlushEffect DEF EndOfArray, TypeOK
  <2>2. request.by # "all" => stopped' = stopped
    <3>1. request.by # "all" => buffer = <<>>
      BY DEF Single, Waiting
    <3> QED
      BY <1>2, <3>1, FlushEffect DEF EndOfArray, TypeOK
  <2> QED
    BY <2>1, <2>2 DEF Single, Targeted, Hits, Matches, KeyMatches, HashMatches
<1>3. CASE TargetRuns
  <2>1. mem'.life # "still" /\ UNCHANGED <<request, isBatch>>
    BY <1>3 DEF TargetRuns, DctTargets, TargetsStay, callbackVars
  <2> QED
    BY <2>1 DEF Single, Targeted
<1>4. CASE \/ Identify \/ ReadHashtable \/ ReadList \/ ReadTables \/ ReadArray \/ ReadSlot
           \/ ReadKey \/ ReadValue \/ Stopped \/ ReadHead \/ ReadNext \/ EndOfList
           \/ UNCHANGED vars
  <2>1. UNCHANGED <<mem, request, target, found, isBatch, stopped>>
    BY <1>4 DEF Identify, ReadHashtable, ReadList, ReadTables, ReadArray, ReadSlot, ReadKey,
                ReadValue, Stopped, ReadHead, ReadNext, EndOfList, vars, callbackVars
  <2> QED
    BY <2>1 DEF Single, Targeted, Hits, Matches, KeyMatches, HashMatches
<1> QED
  BY <1>1, <1>2, <1>3, <1>4 DEF Next, EnumStep

(* In a target that stands still, what a search answers is the value of an *)
(* entry that the dictionary has for what it looks for, and it finds one.  *)
THEOREM SearchCorrect ==
  ASSUME DctTargets
  PROVE  Spec => []ValueFound
<1>1. Init => Single /\ Targeted
  <2> SUFFICES ASSUME Init
               PROVE  Single /\ Targeted
    OBVIOUS
  <2>1. found = <<>> /\ target = Null /\ stopped = FALSE /\ (request.by # "all" => ~isBatch)
    BY DEF Init, CallbackInit
  <2> QED
    BY <2>1 DEF Single, Targeted, Hits
<1>2. IInv /\ Single /\ Targeted /\ [Next]_vars => Single' /\ Targeted'
  BY NextTargeted
<1>3. ASSUME IInv, Kinds, ScanInv, Single, Targeted
      PROVE  ValueFound
  <2> SUFFICES ASSUME mem.life = "still", result = "S_OK", "element" \notin mem.fails
               PROVE  ValueFound
    BY DEF ValueFound
  <2> USE <1>3
  <2>1. Tracked /\ Scanning /\ type \in ArrayTypes \cup {"List"}
    BY DEF Tracked, Scanning, IInv, Control
  <2>2. PICK g \in Images, c \in Seq(Nodes \cup {Null}), p \in Nat : At(g, c, p)
    BY <2>1 DEF ScanInv
  <2>3. g = mem /\ Course(mem, c) /\ (IsList \/ ~stopped => p = Len(c))
    BY <2>2 DEF At, Course, Origin, Whole
  <2> DEFINE V == {e \in ToSet(c) \ {Null} : Visible(e)}
  <2>4. /\ type \in {"Hashtable", "List"} => V = Legible(mem)
        /\ type = "Dictionary" => Legible(mem) \subseteq V
        /\ type \in {"Hashtable", "Dictionary"} =>
             \A e \in V : e \in Legible(mem) \/ (type = "Dictionary" /\ Idle(mem, e))
    BY <2>1, <2>3, PlacesOfDump
  <2>5. ASSUME NEW i \in DOMAIN found
        PROVE  found[i].entry \in V /\ found[i] = ItemOf(found[i].entry)
    <3>1. Within(c, p) /\ Only /\ p \in 0 .. Len(c)
      BY <2>2 DEF At, Gathered, Here, Confined
    <3>2. found[i] \in Item
      BY <2>5 DEF IInv, TypeOK
    <3>3. found[i].entry \in Nodes
      BY <3>2 DEF Item
    <3>4. PICK k \in 1 .. p : c[k] = found[i].entry
      BY <2>5, <3>1 DEF Within
    <3>5. found[i].entry \in ToSet(c)
      BY <3>1, <3>4 DEF ToSet
    <3> QED
      BY <2>5, <3>1, <3>3, <3>5, DctAssumption DEF Only
  <2>6. ASSUME IsList \/ ~stopped, NEW e \in V
        PROVE  \E i \in DOMAIN found : found[i].entry = e
    <3>1. PICK k \in 1 .. Len(c) : c[k] = e
      BY <2>6 DEF ToSet
    <3>2. e \in Nodes
      BY <2>6, <3>1
    <3> QED
      BY <2>2, <2>3, <2>6, <3>1, <3>2 DEF At, Gathered, Covered, Firm
  <2> HIDE DEF V
  <2>7. ASSUME NEW e
        PROVE  ItemOf(e).entry = e /\ ItemOf(e).key = mem.entry[e].key
               /\ ItemOf(e).value = mem.entry[e].value
               /\ (~IsList => ItemOf(e).hash = mem.entry[e].hash)
    BY DEF ItemOf
  <2>8. ASSUME request.by = "key", type # "Concurrent", "string" \notin mem.fails
        PROVE  LET matching == {e \in Legible(mem) :
                                  /\ mem.entry[e].key \in Keys
                                  /\ <<mem.entry[e].key, request.key>> \in Extends}
                   answers == {mem.entry[e].value : e \in matching}
               IN  /\ SearchResult = "S_OK" => target \in answers
                   /\ Cardinality(matching) = 1 => target \in answers
    <3> DEFINE matching == {e \in Legible(mem) : /\ mem.entry[e].key \in Keys
                                                 /\ <<mem.entry[e].key, request.key>> \in Extends}
               answers == {mem.entry[e].value : e \in matching}
    <3>1. ASSUME NEW i \in Hits
          PROVE  found[i].entry \in matching /\ found[i].value \in answers
      <4>0. i \in DOMAIN found
        BY <3>1 DEF Hits
      <4>1. found[i].key \in Keys /\ <<found[i].key, request.key>> \in Extends
        BY <2>8, <3>1 DEF Hits, Matches, KeyMatches
      <4>2. /\ found[i].key = mem.entry[found[i].entry].key
            /\ found[i].value = mem.entry[found[i].entry].value
        BY <2>5, <2>7, <4>0
      <4>3. ~Idle(mem, found[i].entry) \/ found[i].entry \in Legible(mem)
        BY <4>1, <4>2, DctAssumption, ImageFacts DEF Idle, IInv, TypeOK
      <4> QED
        BY <2>1, <2>4, <2>5, <2>8, <4>0, <4>1, <4>2, <4>3 DEF ArrayTypes
    <3>2. ASSUME NEW e \in matching
          PROVE  Hits # {}
      <4>1. e \in V
        BY <2>1, <2>4, <2>8 DEF ArrayTypes
      <4>2. CASE IsList \/ ~stopped
        <5>1. PICK i \in DOMAIN found : found[i].entry = e
          BY <2>6, <4>1, <4>2
        <5>2. found[i].key = mem.entry[e].key
          BY <2>5, <2>7, <4>1, <5>1
        <5> QED
          BY <2>8, <5>2 DEF Hits, Matches, KeyMatches
      <4>3. CASE stopped
        BY <2>8, <4>3 DEF Targeted
      <4> QED
        BY <4>2, <4>3
    <3>3. SearchResult = "S_OK" => Hits # {}
      BY DEF SearchResult, Targeted
    <3>4. (Hits # {}) => target \in answers
      BY <3>1 DEF Targeted
    <3> HIDE DEF matching, answers
    <3>5. Cardinality(matching) = 1 => matching # {}
      <4>1. Cardinality({}) # 1
        BY FS_EmptySet
      <4> QED
        BY <4>1
    <3>6. /\ SearchResult = "S_OK" => target \in answers
          /\ Cardinality(matching) = 1 => target \in answers
      BY <3>2, <3>3, <3>4, <3>5
    <3> QED
      BY <3>6 DEF matching, answers
  <2>9. ASSUME request.by = "hash", type \in {"Hashtable", "Dictionary"}
        PROVE  LET answers == {mem.entry[e].value : e \in
                                 {e \in Legible(mem) : mem.entry[e].hash = request.hash}}
               IN  /\ target # Null => target \in answers
                   /\ answers # {} /\ Null \notin answers => target \in answers
    <3> DEFINE answers == {mem.entry[e].value : e \in
                             {e \in Legible(mem) : mem.entry[e].hash = request.hash}}
    <3>1. ~IsList /\ Legible(mem) \subseteq V /\ Legible(mem) \subseteq mem.live
      BY <2>4, <2>9 DEF IsList, Legible
    <3>2. ASSUME NEW i \in Hits
          PROVE  /\ mem.entry[found[i].entry].hash = request.hash
                 /\ \/ found[i].value \in answers
                    \/ found[i].value = Null /\ answers = {}
      <4>0. i \in DOMAIN found
        BY <3>2 DEF Hits
      <4>1. found[i].hash = request.hash
        BY <2>9, <3>2 DEF Hits, Matches, HashMatches
      <4>2. /\ found[i].entry \in V
            /\ found[i].hash = mem.entry[found[i].entry].hash
            /\ found[i].value = mem.entry[found[i].entry].value
        BY <2>5, <2>7, <3>1, <4>0
      <4>3. CASE found[i].entry \in Legible(mem)
        BY <4>1, <4>2, <4>3
      <4>4. CASE found[i].entry \notin Legible(mem)
        <5>1. type = "Dictionary" /\ Idle(mem, found[i].entry) /\ Visible(found[i].entry)
          BY <2>4, <2>9, <4>2, <4>4 DEF V
        <5>2. array = mem.array
          BY <2>3, <3>1 DEF Course
        <5>3. /\ mem.entry[found[i].entry].value = Null
              /\ \A f \in mem.live : mem.entry[f].hash # mem.entry[found[i].entry].hash
          BY <3>1, <5>1, <5>2 DEF Idle, Visible, Unused
        <5> QED
          BY <3>1, <4>1, <4>2, <5>3
      <4> QED
        BY <4>3, <4>4
    <3>3. ASSUME answers # {}
          PROVE  Hits # {}
      <4>1. PICK e \in Legible(mem) : mem.entry[e].hash = request.hash
        BY <3>3
      <4>2. CASE ~stopped
        <5>1. PICK i \in DOMAIN found : found[i].entry = e
          BY <2>6, <3>1, <4>2
        <5>2. found[i].hash = request.hash
          BY <2>5, <2>7, <3>1, <4>1, <5>1
        <5> QED
          BY <2>9, <5>2 DEF Hits, Matches, HashMatches
      <4>3. CASE stopped
        BY <2>9, <4>3 DEF Targeted
      <4> QED
        BY <4>2, <4>3
    <3> HIDE DEF answers
    <3>4. target # Null => Hits # {}
      BY DEF Targeted
    <3>5. (Hits # {}) => target \in answers \/ (target = Null /\ answers = {})
      BY <3>2 DEF Targeted
    <3>6. /\ target # Null => target \in answers
          /\ answers # {} /\ Null \notin answers => target \in answers
      BY <3>3, <3>4, <3>5
    <3> QED
      BY <3>6 DEF answers
  <2> QED
    BY <2>8, <2>9 DEF ValueFound
<1> QED
  BY <1>1, <1>2, <1>3, ScanInvariance, PTL DEF Spec
=============================================================================
