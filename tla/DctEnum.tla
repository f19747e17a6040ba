------------------------------ MODULE DctEnum ------------------------------
(***************************************************************************)
(* DctEnumerator (SDbgExt/DictionaryEnumerator.cpp): enumerates the        *)
(* entries of a .NET dictionary of one of five types and looks entries up  *)
(* by key or by hash code.                                                 *)
(*                                                                         *)
(* Dictionary, Hashtable and ConcurrentDictionary keep an array, whose     *)
(* slots hold entries or, in the last, point at them.  ListDictionary      *)
(* keeps a linked list.  HybridDictionary keeps one of Hashtable and       *)
(* ListDictionary, or neither.  The enumerator reads one word at a time    *)
(* and the target may change between two reads.                            *)
(***************************************************************************)
EXTENDS Naturals, FiniteSets, EnumCallback, SequencesExt

CONSTANTS
  Nodes,      (* addresses of entries                                      *)
  Arrays,     (* addresses of arrays of entries                            *)
  Keys,       (* strings used as keys                                      *)
  Extends,    (* pairs of Keys: the first starts with the second           *)
  Values,     (* addresses of values                                       *)
  Hashes,     (* hash codes, as they are in the entries                    *)
  Null,       (* the NULL address                                          *)
  Images,     (* the states of the target                                  *)
  Steps,      (* pairs of Images: how the target may change                *)
  Requests    (* what clients ask for                                      *)

Types == {"Dictionary", "Hashtable", "Hybrid", "List", "Concurrent", "Other"}

(* The reads of the enumerator that may fail as a whole: the object; its   *)
(* name; the fields of its type; the tables of a ConcurrentDictionary and  *)
(* the field with their buckets; the fields of the entries; a key's string.*)
Calls == {"object", "name", "members", "tables", "buckets", "element", "string"}

Words == {"key", "value", "hash", "next"}

\* What is at the address of an entry; the words in bad cannot be read.
Entry ==
  [key: Keys \cup Arrays \cup {Null}, value: Values \cup {Null}, hash: Hashes,
   next: Nodes \cup {Null}, bad: SUBSET Words]

(* One state of the target.  table and list: whether these fields of a     *)
(* HybridDictionary are set.  The code never reads live, the entries of the*)
(* dictionary, and life, what the target does during the call: nothing, as *)
(* in a dump, or it adds entries, or it removes and moves them too.        *)
Image ==
  [type: Types, fails: SUBSET Calls, table: BOOLEAN, list: BOOLEAN,
   array: Arrays \cup {Null}, slots: [Arrays -> Seq(Nodes \cup {Null})],
   head: Nodes \cup {Null}, entry: [Nodes -> Entry], live: SUBSET Nodes,
   life: {"still", "growing", "moving"}]

Request == [by: {"all", "key", "hash"}, key: Keys, hash: Hashes]

ASSUME DctAssumption ==
  /\ Null \notin Nodes \cup Arrays \cup Keys \cup Values
  /\ Arrays \cap Keys = {}
  /\ Hashes \subseteq Nat /\ 0 \in Hashes
  /\ Extends \subseteq Keys \X Keys
  /\ Images \subseteq Image
  /\ Requests \subseteq Request

VARIABLES
  mem,        (* the target                                                *)
  request,    (* what the client asked for                                 *)
  pc,         (* where EnumerateDctEntries is                              *)
  type,       (* the type of the object it is called for                   *)
  array, slot,(* bucketArrayBase, and a: how many slots have been read     *)
  node,       (* baseAddr or currNode                                      *)
  key, value, (* keyValue and valueValue                                   *)
  next,       (* nextValue                                                 *)
  target,     (* TargetValuePtr                                            *)
  found,      (* every entry the enumerator came across, in order          *)
  result      (* what EnumerateDctEntries returned                         *)

scanVars == <<slot, node, key, value, next>>
vars == <<mem, request, pc, type, array, scanVars, target, found, result, callbackVars>>

Item ==
  [entry: Nodes, key: Keys \cup Arrays \cup {Null}, value: Values \cup {Null}, hash: Hashes]

Init ==
  /\ mem \in Images
  /\ request \in Requests
  /\ CallbackInit
  /\ request.by # "all" => ~isBatch
  /\ pc = "identify"
  /\ type = mem.type
  /\ array = Null
  /\ slot = 0
  /\ node = Null
  /\ key = Null
  /\ value = Null
  /\ next = Null
  /\ target = Null
  /\ found = <<>>
  /\ result = "none"

Goto(p) == pc' = p /\ UNCHANGED result
Return(hr) == pc' = "returned" /\ result' = hr

-----------------------------------------------------------------------------
TargetRuns ==
  /\ pc # "returned"
  /\ \E m \in Images : <<mem, m>> \in Steps /\ mem' = m
  /\ UNCHANGED <<request, pc, type, array, scanVars, target, found, result, callbackVars>>

(* The two types with an array of their own are told by their fields, the  *)
(* others by their names.                                                  *)
Identify ==
  /\ pc = "identify"
  /\ IF "object" \in mem.fails THEN Return("E_FAIL")
     ELSE IF type \in {"Dictionary", "Hashtable"} /\ "members" \notin mem.fails
       THEN Goto("array")
     ELSE IF "name" \in mem.fails \/ type \in {"Dictionary", "Hashtable", "Other"}
       THEN Return("E_INVALIDARG")
     ELSE Goto(type)
  /\ UNCHANGED <<mem, request, type, array, scanVars, target, found, callbackVars>>

(* HybridDictionary: EnumerateDctEntries calls itself for the hashtable.   *)
ReadHashtable ==
  /\ pc = "Hybrid"
  /\ IF mem.table /\ "members" \notin mem.fails
       THEN Goto("identify") /\ type' = "Hashtable"
       ELSE Goto("HybridList") /\ UNCHANGED type
  /\ UNCHANGED <<mem, request, array, scanVars, target, found, callbackVars>>

ReadList ==
  /\ pc = "HybridList"
  /\ IF mem.list /\ "members" \notin mem.fails
       THEN Goto("identify") /\ type' = "List"
       ELSE Return("E_INVALIDARG") /\ UNCHANGED type
  /\ UNCHANGED <<mem, request, array, scanVars, target, found, callbackVars>>

ReadTables ==
  /\ pc = "Concurrent"
  /\ IF {"members", "tables"} \cap mem.fails # {} THEN Return("E_INVALIDARG")
     ELSE Goto("array")
  /\ UNCHANGED <<mem, request, type, array, scanVars, target, found, callbackVars>>

(* EnumerateDctEntriesImpl and GetEntryOffsets.  Whether the array and the *)
(* fields of its entries were found is not looked at: the number of slots  *)
(* stays 0 if not.                                                         *)
ReadArray ==
  /\ pc = "array"
  /\ \/ /\ type = "Concurrent" /\ "buckets" \in mem.fails
        /\ Return("E_FAIL")
        /\ UNCHANGED array
     \/ /\ type # "Concurrent" \/ "buckets" \notin mem.fails
        /\ array' = IF "element" \in mem.fails THEN Null ELSE mem.array
        /\ Goto("slot")
  /\ UNCHANGED <<mem, request, type, scanVars, target, found, callbackVars>>

\* A slip: the array is looked up again for every slot.
SlotsNow == IF mem.array = Null THEN <<>> ELSE mem.slots[mem.array]

Slots == IF array = Null THEN <<>> ELSE mem.slots[array]
-----------------------------------------------------------------------------
(* ReadEntries and ReadEntry. *)

IsList == type = "List"

\* What a failed read of a word leads to: the next slot or the next node.
Skip ==
  IF IsList THEN node' = next /\ Goto("node") /\ UNCHANGED <<slot, key, value, next>>
            ELSE slot' = slot + 1 /\ Goto("slot") /\ UNCHANGED <<node, key, value, next>>

(* The next slot.  In a ConcurrentDictionary it is a pointer, and one that *)
(* is NULL or cannot be read counts as no entry.                           *)
ReadSlot ==
  /\ pc = "slot"
  /\ slot < Len(Slots)
  /\ LET e == Slots[slot + 1] IN
     IF e = Null THEN Skip
     ELSE node' = e /\ Goto("key") /\ UNCHANGED <<slot, key, value, next>>
  /\ UNCHANGED <<mem, request, type, array, target, found, callbackVars>>

Readable(word) == word \notin mem.entry[node].bad

\* A slip: no way past a word that cannot be read.
ReadKeyStays ==
  /\ pc = "key"
  /\ IF Readable("key")
       THEN key' = mem.entry[node].key /\ Goto("value") /\ UNCHANGED <<slot, node, value, next>>
       ELSE Goto(IF IsList THEN "node" ELSE "slot") /\ UNCHANGED scanVars
  /\ UNCHANGED <<mem, request, type, array, target, found, callbackVars>>

ReadKey ==
  /\ pc = "key"
  /\ IF Readable("key")
       THEN key' = mem.entry[node].key /\ Goto("value") /\ UNCHANGED <<slot, node, value, next>>
       ELSE Skip
  /\ UNCHANGED <<mem, request, type, array, target, found, callbackVars>>

ReadValue ==
  /\ pc = "value"
  /\ IF Readable("value")
       THEN /\ value' = mem.entry[node].value
            /\ Goto(IF IsList THEN "call" ELSE "hash")
            /\ UNCHANGED <<slot, node, key, next>>
       ELSE Skip
  /\ UNCHANGED <<mem, request, type, array, target, found, callbackVars>>

\* A slip: keys that the one looked for starts with.
KeyMatchesShorter(k) ==
  k \in Keys /\ "string" \notin mem.fails /\ <<request.key, k>> \in Extends

(* FindDctEntryByKey asks for as many characters as the key it looks for   *)
(* has, so that a longer key matches as well.                              *)
KeyMatches(k) ==
  k \in Keys /\ "string" \notin mem.fails /\ <<k, request.key>> \in Extends

\* A slip: the comparison is the wrong way round.
HashDiffers(h) == h # request.hash

HashMatches(h) == h = request.hash

Matches(item) ==
  \/ request.by = "key" /\ KeyMatches(item.key)
  \/ request.by = "hash" /\ HashMatches(item.hash)

(* The client's answer.  The searches note the value of a match and ask to *)
(* stop.                                                                   *)
Answers(item, reply) ==
  /\ request.by # "all" => reply = ~Matches(item)
  /\ target' = IF Matches(item) THEN item.value ELSE target

\* A slip: slots of removed entries are not told apart.
UnusedZero(k, v, h) == k = Null /\ v = Null /\ h = 0

Unused(k, v, h) ==
  \/ k = Null /\ v = Null /\ h = 0
  \/ k = array

(* cbFunc; for a refusal ReadEntry returns S_FALSE. *)
Visit(item, reply) ==
  /\ Wrap(item, reply)
  /\ IF reply THEN Skip ELSE Goto("stopped") /\ UNCHANGED scanVars

ReadHash ==
  /\ pc = "hash"
  /\ LET h == mem.entry[node].hash
         item == [entry |-> node, key |-> key, value |-> value, hash |-> h]
     IN  IF Readable("hash") /\ ~Unused(key, value, h)
           THEN /\ found' = Append(found, item)
                /\ \E reply \in BOOLEAN : Answers(item, reply) /\ Visit(item, reply)
           ELSE Skip /\ UNCHANGED <<target, found, callbackVars>>
  /\ UNCHANGED <<mem, request, type, array>>

(* S_FALSE of ReadEntry ends the enumeration with S_OK and no flush. *)
Stopped ==
  /\ pc = "stopped"
  /\ Return("S_OK")
  /\ UNCHANGED <<mem, request, type, array, scanVars, target, found, callbackVars>>

EndOfArray ==
  /\ pc = "slot"
  /\ slot >= Len(Slots)
  /\ Flush
  /\ Return("S_OK")
  /\ UNCHANGED <<mem, request, type, array, scanVars, target, found>>

-----------------------------------------------------------------------------
(* EnumerateHybridListEntries. *)

ReadHead ==
  /\ pc = "List"
  /\ IF {"object", "members"} \cap mem.fails # {} \/ ("element" \in mem.fails /\ mem.head # Null)
       THEN Return("E_FAIL") /\ UNCHANGED node
       ELSE Goto("node") /\ node' = mem.head
  /\ UNCHANGED <<mem, request, type, array, slot, key, value, next, target, found, callbackVars>>

ReadNext ==
  /\ pc = "node"
  /\ node # Null
  /\ IF Readable("next") THEN Goto("key") /\ next' = mem.entry[node].next
                         ELSE Return("E_FAIL") /\ UNCHANGED next
  /\ UNCHANGED <<mem, request, type, array, slot, node, key, value, target, found, callbackVars>>

(* One call for one entry, also of a client that takes batches; its answer *)
(* is not looked at.                                                       *)
Call(item, reply) ==
  /\ Callback(<<item>>, reply)
  /\ Skip
  /\ UNCHANGED <<isBatch, buffer>>

CallNode ==
  /\ pc = "call"
  /\ LET item == [entry |-> node, key |-> key, value |-> value, hash |-> 0] IN
     /\ found' = Append(found, item)
     /\ \E reply \in BOOLEAN : Answers(item, reply) /\ Call(item, reply)
  /\ UNCHANGED <<mem, request, type, array>>

EndOfList ==
  /\ pc = "node"
  /\ node = Null
  /\ Return("S_OK")
  /\ UNCHANGED <<mem, request, type, array, scanVars, target, found, callbackVars>>

EnumStep ==
  \/ Identify \/ ReadHashtable \/ ReadList \/ ReadTables \/ ReadArray
  \/ ReadSlot \/ ReadKey \/ ReadValue \/ ReadHash \/ Stopped \/ EndOfArray
  \/ ReadHead \/ ReadNext \/ CallNode \/ EndOfList

Next == EnumStep \/ TargetRuns

Spec == Init /\ [][Next]_vars

(* One thread, which nothing blocks once the client's Callback returns.    *)
FairSpec == Spec /\ WF_vars(EnumStep)

(* FindDctEntryByKey and FindDctEntryByHash: a value, or E_FAIL.           *)
SearchResult == IF target # Null THEN "S_OK" ELSE "E_FAIL"

-----------------------------------------------------------------------------
TypeOK ==
  /\ mem \in Images
  /\ request \in Requests
  /\ CallbackTypeOK(Item)
  /\ pc \in {"identify", "Hybrid", "HybridList", "Concurrent", "List", "array", "slot",
             "key", "value", "hash", "stopped", "node", "call", "returned"}
  /\ type \in Types
  /\ array \in Arrays \cup {Null}
  /\ slot \in Nat
  /\ node \in Nodes \cup {Null} /\ next \in Nodes \cup {Null}
  /\ key \in Keys \cup Arrays \cup {Null}
  /\ value \in Values \cup {Null} /\ target \in Values \cup {Null}
  /\ found \in Seq(Item)
  /\ result \in {"none", "S_OK", "E_FAIL", "E_INVALIDARG"}

\* The entries of a dictionary that can be read and tell themselves apart
\* from a slot that was never used.
Legible(m) ==
  {e \in m.live :
     /\ {"key", "value"} \cap m.entry[e].bad = {}
     /\ \/ m.head # Null /\ m.array = Null
        \/ /\ "hash" \notin m.entry[e].bad
           /\ m.entry[e].key # Null \/ m.entry[e].value # Null \/ m.entry[e].hash # 0}

\* The entries that a bucket of a ConcurrentDictionary points at.
FirstOfChain(m) == ToSet(m.slots[m.array])

Reported == {received[i].entry : i \in DOMAIN received}

\* What a target holds from first to last while entries are only added to it.
Pairs(m) == {<<m.entry[e].key, m.entry[e].value>> : e \in m.live}
Lasting ==
  {p \in Pairs(mem) :
     \A m \in {n \in Images : n.life = "growing" /\ n.type = mem.type} : p \in Pairs(m)}

(* Whatever the target does, the entries found are those received and      *)
(* those that wait for a batch to fill.                                    *)
Delivered == received \o (IF result = "none" THEN buffer ELSE <<>>) = found

\* No slot of an array of entries is reported twice.
NoSlotTwice ==
  (~IsList /\ type # "Concurrent") =>
    \A i, j \in DOMAIN found : found[i].entry = found[j].entry => i = j

(* An enumeration of a target that stands still, which succeeds and is not *)
(* refused, reports the entries of the dictionary.  A Hashtable and a list *)
(* report nothing else; a Dictionary also reports slots of removed         *)
(* entries, which hold a hash code of -1; a ConcurrentDictionary reports   *)
(* the first entry of each bucket and none of those behind it.  If the     *)
(* entries' fields cannot be found nothing is reported.                    *)
DumpReported ==
  (mem.life = "still" /\ ~("element" \in mem.fails /\ mem.array # Null)) =>
    /\ Len(received) = Cardinality(Reported)
    /\ type \in {"Hashtable", "List"} => Reported = Legible(mem)
    /\ type = "Dictionary" => Legible(mem) \subseteq Reported
    /\ type = "Concurrent" => Reported = Legible(mem) \cap FirstOfChain(mem)

(* While entries are only added, those that were there all along are       *)
(* reported, although the dictionary may move them to another array.       *)
LastingReported ==
  (mem.life = "growing" /\ type # "Concurrent") =>
    Lasting \subseteq {<<received[i].key, received[i].value>> : i \in DOMAIN received}

EntriesReported ==
  /\ TypeOK /\ Delivered /\ NoSlotTwice
  /\ (result = "S_OK" /\ ~stopped) => DumpReported /\ LastingReported

(* In a target that stands still, a search by key answers a value that the *)
(* dictionary has for a key that starts with the one looked for; if no     *)
(* other key of the dictionary starts with it, the search finds its value. *)
(* A search by hash code answers the value of an entry whose word for it   *)
(* is that number, and finds one if there is any and each has a value.  (In*)
(* a Hashtable that word also holds the bit that marks a collision; a list *)
(* holds none.)                                                            *)
ValueFound ==
  (mem.life = "still" /\ result = "S_OK" /\ "element" \notin mem.fails) =>
    /\ (request.by = "key" /\ type # "Concurrent" /\ "string" \notin mem.fails) =>
         LET matching == {e \in Legible(mem) : /\ mem.entry[e].key \in Keys
                                               /\ <<mem.entry[e].key, request.key>> \in Extends}
             answers == {mem.entry[e].value : e \in matching}
         IN  /\ SearchResult = "S_OK" => target \in answers
             /\ Cardinality(matching) = 1 => target \in answers
    /\ (request.by = "hash" /\ type \in {"Hashtable", "Dictionary"}) =>
         LET answers == {mem.entry[e].value : e \in
                           {e \in Legible(mem) : mem.entry[e].hash = request.hash}}
         IN  /\ target # Null => target \in answers
             /\ answers # {} /\ Null \notin answers => target \in answers

(* The enumeration of a target that stands still returns.                  *)
Terminates == mem.life = "still" => <>(result # "none")

(* The enumeration keeps the contract of its consumers, except that it     *)
(* does not hear a refusal while it goes through a list.                   *)
Stream == INSTANCE ObjectStream WITH
            Object <- Item,
            stopped <- stopped /\ ~IsList,
            result <- IF result = "E_INVALIDARG" THEN "E_FAIL" ELSE result
StreamSpec == Stream!Spec

(* What !dumpdictionary says of E_INVALIDARG: Object was not a known       *)
(* hashtable type.                                                         *)
InvalidMeansUnknown == result = "E_INVALIDARG" => mem.type = "Other"
=============================================================================
