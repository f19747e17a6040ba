----------------------------- MODULE MCDctEnum -----------------------------
(***************************************************************************)
(* Small dictionaries: an array with entries, a slot never used, the slot  *)
(* of an entry removed from a chain and an entry without a value; a list;  *)
(* a table of chains; and the ways they grow.                              *)
(***************************************************************************)
EXTENDS DctEnumProofs, TLC

CONSTANTS A, B, ab, abc, d, v1, v2

\* abc starts with ab.
StartsWith == {<<ab, ab>>, <<abc, ab>>, <<abc, abc>>, <<d, d>>}

EntryAt(k, v, h, n) == [key |-> k, value |-> v, hash |-> h, next |-> n, bad |-> {}]
Empty == EntryAt(Null, Null, 0, Null)
Collision == 8     \* the bit of hash_coll that marks a collision
Removed == EntryAt(Null, Null, 9, Null)   \* a hash code of -1

\* 1 to 5 are the slots of array A, 11 to 16 those of B, 6 to 8 list nodes.
Entries ==
  [e \in Nodes |->
     CASE e = 1 -> EntryAt(ab, v1, 1, Null)
       [] e = 3 -> EntryAt(A, Null, Collision, Null)
       [] e = 4 -> EntryAt(abc, v2, 2, Null)
       [] e = 5 -> EntryAt(d, Null, 2, Null)
       [] e = 6 -> EntryAt(ab, v1, 1, 7)
       [] e = 7 -> EntryAt(abc, v2, 2, Null)
       [] e = 8 -> EntryAt(d, v1, 2, Null)
       [] OTHER -> Empty]

ArraysWith(e) == (A :> <<1, 2, 3, 4, 5>>) @@ (B :> e)

Table ==
  [type |-> "Hashtable", fails |-> {}, table |-> FALSE, list |-> FALSE, array |-> A,
   slots |-> ArraysWith(<<11, 12, 13, 14, 15, 16>>), head |-> Null, entry |-> Entries,
   live |-> {1, 4, 5}, life |-> "still"]
Dictionary ==
  [Table EXCEPT !.type = "Dictionary", !.entry[3] = Removed]
WithZero == [Dictionary EXCEPT !.live = {1, 2, 4, 5}]   \* a key and a value of 0
Unallocated == [Dictionary EXCEPT !.array = Null, !.live = {}, !.head = Null]
Concurrent ==
  [Table EXCEPT !.type = "Concurrent", !.slots = (A :> <<Null, 6, 8>>) @@ (B :> <<>>),
                !.live = {6, 7, 8}]
List ==
  [Table EXCEPT !.type = "List", !.array = Null, !.head = 6, !.entry[7].next = 8,
                !.live = {6, 7, 8}]
HybridTable == [Table EXCEPT !.type = "Hybrid", !.table = TRUE]
HybridList == [List EXCEPT !.type = "Hybrid", !.list = TRUE]
EmptyHybrid == [Unallocated EXCEPT !.type = "Hybrid"]
Unknown == [Unallocated EXCEPT !.type = "Other"]

WholeImages ==
  {Table, Dictionary, WithZero, Unallocated, Concurrent, List, HybridTable, HybridList,
   EmptyHybrid, Unknown}

\* One call and one word may fail.
Failures == {{}} \cup {{c} : c \in Calls}
DumpImages ==
  {[m EXCEPT !.fails = f] : m \in WholeImages, f \in Failures}
    \cup {[m EXCEPT !.entry[e].bad = {w}] : m \in WholeImages, e \in {1, 4, 6, 7}, w \in Words}
AllRequests ==
  {[by |-> "all", key |-> ab, hash |-> 0]}
    \cup {[by |-> "key", key |-> k, hash |-> 0] : k \in {ab, abc, d}}
    \cup {[by |-> "hash", key |-> ab, hash |-> h] : h \in {0, 1, 2, 3}}
Everything == {[by |-> "all", key |-> ab, hash |-> 0]}

(* A Hashtable grows: slot 2 gets its value, its key and its hash code;    *)
(* then the entries move to a new array, and the number of one collides.   *)
Grown ==
  LET g2 == [Table EXCEPT !.entry[2].value = v2]
      g3 == [g2 EXCEPT !.entry[2].key = d, !.entry[2].hash = 3, !.live = {1, 2, 4, 5}]
      g4 == [g3 EXCEPT !.array = B, !.live = {11, 12, 14, 15},
               !.entry[11] = g3.entry[4], !.entry[12] = g3.entry[1],
               !.entry[14] = g3.entry[5], !.entry[15] = g3.entry[2]]
  IN  <<Table, g2, g3, g4>>

(* The list of a HybridDictionary grows by a node; then the entries move   *)
(* to a hashtable, first the one field is set and then the other reset.    *)
Converted ==
  LET short == [HybridList EXCEPT !.entry[7].next = Null, !.live = {6, 7}]
      both == [HybridList EXCEPT !.table = TRUE, !.array = A, !.live = {1, 4, 5},
                 !.entry[5].value = v1]
      done == [both EXCEPT !.list = FALSE]
  IN  <<short, HybridList, both, done>>

InRow(s) == {<<s[i], s[i + 1]>> : i \in 1 .. Len(s) - 1}
Growing(s) == [i \in DOMAIN s |-> [s[i] EXCEPT !.life = "growing"]]
GrowingImages == ToSet(Growing(Grown)) \cup ToSet(Growing(Converted))
GrowingSteps == InRow(Growing(Grown)) \cup InRow(Growing(Converted))

(* A target that adds, removes and moves entries, and whose reads fail.    *)
Short(m) == [m EXCEPT !.slots = (A :> <<1, 3, 4>>) @@ (B :> <<12, 11>>)]
MovingImages ==
  {[m EXCEPT !.life = "moving"] : m \in
   {Short(Grown[1]), Short(Grown[4]), Short(Converted[1]), Short(Converted[4]), Concurrent,
   [Short(Grown[3]) EXCEPT !.fails = {"object", "element"}, !.entry[4].bad = {"key"}],
   [Short(Converted[2]) EXCEPT !.fails = {"members"}, !.entry[7].bad = {"next"}],
   [Concurrent EXCEPT !.entry[6] = Removed, !.fails = {"buckets"}, !.slots[A] = <<7, Null, 6>>]}}
MovingSteps == {p \in MovingImages \X MovingImages : p[1].type = p[2].type}

AllImages == DumpImages \cup GrowingImages \cup MovingImages
AllSteps == GrowingSteps \cup MovingSteps

\* What the theorems take for granted.
ASSUME DctTargets
=============================================================================
