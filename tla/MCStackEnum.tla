---------------------------- MODULE MCStackEnum ----------------------------
(***************************************************************************)
(* Threads for the targets of HeapImages: words that hold objects of every *)
(* segment, the second word of an object, the end of a segment, a number   *)
(* beyond every segment and nothing at all, above and below the stack      *)
(* pointer.                                                                *)
(***************************************************************************)
EXTENDS StackEnumProofs, HeapImages

\* What the theorems take for granted.
ASSUME RootsAssumption

Words == <<10, 16, 14, Null, 6, 18, 20>>

StackOf(m, words, sp) ==
  [found |-> m.globals, base |-> 7, limit |-> 1, sp |-> sp,
   slots |-> [s \in Slots |-> IF s = 0 THEN Null ELSE words[s]],
   valid |-> {a \in Addr : m.size[a] # NoObject}]

Ask(by, tokens) == [by |-> by, tokens |-> tokens, base |-> 6, limit |-> 1]
Thread == Ask("thread", 0)

\* A dump: the stack pointer reads as 0 where ServerMode cannot be listed.
DumpStack(m) == StackOf(m, Words, IF m.listed THEN 3 ELSE 0)

\* A live target that allocates: the word that receives the new object is
\* written after it, and a word is popped and pushed.
GrowingStack(m) ==
  StackOf(m, IF m.size[14] = NoObject THEN [Words EXCEPT ![3] = 0]
             ELSE IF m = Growing(Workstation) THEN [Words EXCEPT ![5] = 10] ELSE Words, 3)

\* A live target that collects: the words follow the objects that move.
MovingStack(m) ==
  StackOf(m, IF m.heap = Compacted.heap THEN <<6, 4, Null, 10, 4, 0, 20>> ELSE Words, 2)

(* Nothing else is read where the thread or the heap cannot be, and one    *)
(* segment that cannot be read is as good as two.                          *)
Whole(m) == m.listed /\ (\A h \in HeapIds : m.heap[h].ok)
Unread(m) == {s \in SegIds : ~m.seg[s].ok}
StackImages ==
  {m \in AllImages :
     m.life = "still" =>
       /\ Cardinality(Unread(m)) <= 1
       /\ ~m.globals \/ ~m.ok => Whole(m) /\ Unread(m) = {}}

AllStacks ==
  [m \in StackImages |-> CASE m.life = "still" -> DumpStack(m)
                         [] m.life = "growing" -> GrowingStack(m)
                         [] m.life = "moving" -> MovingStack(m)]
AllRequests == {Thread, Ask("command", 1), Ask("command", 3)}

\* The form of the command that its usage line shows, in a whole dump.
WholeImages == {Workstation, Server}
WholeStacks == [m \in WholeImages |-> StackOf(m, Words, 3)]
UsageRequests == {Ask("command", 2), Ask("command", 3)}
=============================================================================
