---------------------------- MODULE ScriptProofs ----------------------------
(***************************************************************************)
(* Proofs about scripts: about their host, for any number of commands and  *)
(* forms and any way the debugger hands out its DACs; and about what they  *)
(* read, static fields and texts, for any number of domains and strings of *)
(* any length, whatever the target does between the reads.                 *)
(***************************************************************************)
EXTENDS ScriptHost, StaticFields, StringRead, SequenceTheorems, FiniteSetTheorems, TLAPS

-----------------------------------------------------------------------------
(* The host: how many hold what. *)

One(p) == IF p THEN 1 ELSE 0

\* The command's frame, and within it that of ExecuteOpCode, is on the stack.
InBuffer(c) == cmd = c /\ dpc \in {"execute", "stub", "wait", "return"}

\* The references that frames and RCWs hold on the objects of a command.
Holders(c) ==
  Count(One(cmd = c) + One(InBuffer(c)) + One("ext" \in rcw[c]),
        One(cmd = c) + One(InBuffer(c)) + One("proc" \in rcw[c]),
        2 * One(InBuffer(c)) + One("helper" \in rcw[c]),
        One(cmd = c) + One(InBuffer(c)) + One(dacRcw[DacOf[c]] = c))

(* Counts r are those of holders h, of CSDbgExt on its ClrProcess and of   *)
(* ClrProcess on its DAC.                                                  *)
Holds(r, h) ==
  /\ r.ext = h.ext
  /\ r.proc = h.proc + One(r.ext > 0)
  /\ r.helper = h.helper
  /\ r.dac = h.dac + One(r.proc > 0)

(* How far the command, its form and its wrapper are, seen together. *)
InStep(c) ==
  /\ cmd # c /\ result[c] = "none" => fpc[c] = "none" /\ wrapper[c] = "none"
  /\ cmd = c /\ dpc \in {"enter", "prepare", "execute"} =>
       result[c] = "none" /\ fpc[c] = "none" /\ wrapper[c] = "none"
  /\ cmd = c /\ dpc = "stub" => fpc[c] = "none" /\ wrapper[c] = "live"
  /\ cmd = c /\ dpc = "wait" => fpc[c] # "none"
  /\ cmd = c /\ dpc \in {"return", "leave"} => result[c] # "none"
  /\ fpc[c] = "none" /\ wrapper[c] = "live" => cmd = c /\ dpc = "stub"
  /\ fpc[c] \in {"wrap", "show"} => cmd = c /\ dpc = "wait"
  /\ fpc[c] = "wrap" => wrapper[c] = "none"
  /\ fpc[c] \in {"show", "open"} => wrapper[c] = "live"
  /\ fpc[c] = "closed" => wrapper[c] = "disposed"
  /\ ready[c] <=> fpc[c] \in {"open", "closed"}

(* What the state of a wrapper says of its RCWs. *)
Wrappers(c) ==
  /\ wrapper[c] = "none" => rcw[c] = {}
  /\ wrapper[c] = "live" => rcw[c] = Own /\ dacUsed[c] # None
  /\ wrapper[c] = "disposed" => rcw[c] \subseteq {"helper"}
  /\ \A d \in Dacs : dacRcw[d] = c => DacOf[c] = d /\ wrapper[c] = "live" /\ dacUsed[c] = c

(* The RCW of the DAC that a live wrapper uses is gone only if another has *)
(* disposed of it.                                                         *)
DacShared(c) ==
  wrapper[c] = "live" =>
    \/ dacRcw[DacOf[c]] = dacUsed[c]
    \/ \E b \in Commands \ {c} : /\ DacOf[b] = DacOf[c]
                                 /\ dacUsed[b] = dacUsed[c]
                                 /\ wrapper[b] = "disposed"

IInv ==
  /\ TypeOK
  /\ cmd = None <=> dpc = "idle"
  /\ \A c \in Commands : Holds(refs[c], Holders(c)) /\ InStep(c) /\ Wrappers(c) /\ DacShared(c)
-----------------------------------------------------------------------------

Minus(h, n) == Count(h.ext - n.ext, h.proc - n.proc, h.helper - n.helper, h.dac - n.dac)

(* A new reference on an object that lives is one more holder. *)
LEMMA MoreHolds ==
  ASSUME NEW r \in Refs, NEW h \in Refs, NEW n \in Refs, Holds(r, h),
         n.ext > 0 => r.ext > 0, n.proc > 0 => r.proc > 0
  PROVE  More(r, n) \in Refs /\ Holds(More(r, n), More(h, n))
BY DEF Refs, Holds, More, Count, One

(* A reference given back is one holder less, and what a destroyed object  *)
(* held is given back with it.                                             *)
LEMMA LessHolds ==
  ASSUME NEW r \in Refs, NEW h \in Refs, NEW n \in Refs, Holds(r, h),
         n.ext <= h.ext, n.proc <= h.proc, n.helper <= h.helper, n.dac <= h.dac
  PROVE  Less(r, n) \in Refs /\ Holds(Less(r, n), Minus(h, n))
BY DEF Refs, Holds, Less, Minus, Count, One

(* Only natural numbers of holders occur. *)
LEMMA HoldersType ==
  ASSUME NEW c \in Commands
  PROVE  Holders(c) \in Refs
BY DEF Holders, Refs, Count, One

(* What a step that leaves the managed side alone keeps. *)
LEMMA ManagedKept ==
  ASSUME IInv, UNCHANGED managedVars
  PROVE  \A c \in Commands : Wrappers(c)' /\ DacShared(c)'
BY DEF IInv, managedVars, Wrappers, DacShared

(* What a step that gives and takes no references keeps. *)
LEMMA CountsKept ==
  ASSUME IInv, UNCHANGED <<refs, cmd, rcw, dacRcw>>,
         \A c \in Commands : InBuffer(c)' = InBuffer(c)
  PROVE  refs' \in [Commands -> Refs] /\ \A c \in Commands : Holds(refs[c], Holders(c))'
<1>1. \A c \in Commands : Holders(c)' = Holders(c)
  BY DEF Holders
<1> QED
  BY <1>1 DEF IInv, TypeOK, Holds

(* One more reference per count of n, for as many new holders. *)
LEMMA CountsMore ==
  ASSUME IInv, NEW c \in Commands, NEW n \in Refs, AddRefs(c, n),
         n.ext > 0 => refs[c].ext > 0, n.proc > 0 => refs[c].proc > 0,
         Holders(c)' = More(Holders(c), n),
         \A b \in Commands \ {c} : Holders(b)' = Holders(b)
  PROVE  refs' \in [Commands -> Refs] /\ \A b \in Commands : Holds(refs[b], Holders(b))'
<1>1. refs \in [Commands -> Refs] /\ \A b \in Commands : Holds(refs[b], Holders(b))
  BY DEF IInv, TypeOK
<1>2. More(refs[c], n) \in Refs /\ Holds(More(refs[c], n), More(Holders(c), n))
  BY <1>1, MoreHolds, HoldersType
<1>3. refs' = [refs EXCEPT ![c] = More(refs[c], n)]
  BY DEF AddRefs
<1>4. refs' \in [Commands -> Refs]
  BY <1>1, <1>2, <1>3
<1>5. ASSUME NEW b \in Commands PROVE Holds(refs'[b], Holders(b)')
  BY <1>1, <1>2, <1>3
<1> QED
  BY <1>4, <1>5 DEF Holds

(* One reference less per count of n, from as many holders. *)
LEMMA CountsLess ==
  ASSUME IInv, NEW c \in Commands, NEW n \in Refs, Releases(c, n),
         n.ext <= Holders(c).ext, n.proc <= Holders(c).proc,
         n.helper <= Holders(c).helper, n.dac <= Holders(c).dac,
         Holders(c)' = Minus(Holders(c), n),
         \A b \in Commands \ {c} : Holders(b)' = Holders(b)
  PROVE  refs' \in [Commands -> Refs] /\ \A b \in Commands : Holds(refs[b], Holders(b))'
<1>1. refs \in [Commands -> Refs] /\ \A b \in Commands : Holds(refs[b], Holders(b))
  BY DEF IInv, TypeOK
<1>2. Less(refs[c], n) \in Refs /\ Holds(Less(refs[c], n), Minus(Holders(c), n))
  BY <1>1, LessHolds, HoldersType
<1>3. refs' = [refs EXCEPT ![c] = Less(refs[c], n)]
  BY DEF Releases
<1>4. refs' \in [Commands -> Refs]
  BY <1>1, <1>2, <1>3
<1>5. ASSUME NEW b \in Commands PROVE Holds(refs'[b], Holders(b)')
  BY <1>1, <1>2, <1>3
<1> QED
  BY <1>4, <1>5 DEF Holds

(* The new command's objects: each held by the next and by the command. *)
LEMMA EnterCounts ==
  ASSUME IInv, NEW c \in Commands, Enter(c)
  PROVE  refs' \in [Commands -> Refs] /\ \A b \in Commands : Holds(refs[b], Holders(b))'
<1>1. refs \in [Commands -> Refs] /\ \A b \in Commands : Holds(refs[b], Holders(b))
  BY DEF IInv, TypeOK
<1>2. cmd = None /\ wrapper[c] = "none" /\ rcw[c] = {} /\ dacRcw[DacOf[c]] # c
  BY CommandsAssumption DEF IInv, Enter, InStep, Wrappers
<1>3. Holders(c) = Count(0, 0, 0, 0)
  BY <1>2, CommandsAssumption DEF Holders, InBuffer, One, Enter
<1>4. refs[c] = Count(0, 0, 0, 0)
  BY <1>1, <1>3 DEF Holds, Refs, Count, One
<1>5. refs' = [refs EXCEPT ![c] = Count(1, 2, 0, 2)]
  BY <1>4 DEF Enter, AddRefs, More, Count
<1>6. Holders(c)' = Count(1, 1, 0, 1)
  BY <1>2 DEF Holders, InBuffer, One, Enter, managedVars
<1>7. ASSUME NEW b \in Commands \ {c} PROVE Holders(b)' = Holders(b)
  BY <1>2, CommandsAssumption DEF Holders, InBuffer, One, Enter, managedVars
<1>8. refs' \in [Commands -> Refs]
  BY <1>1, <1>5 DEF Refs, Count
<1>9. ASSUME NEW b \in Commands PROVE Holds(refs'[b], Holders(b)')
  BY <1>1, <1>5, <1>6, <1>7 DEF Holds, Count, One
<1> QED
  BY <1>8, <1>9 DEF Holds

(* Making a wrapper changes the counts of references by exactly the       *)
(* holders it adds.                                                       *)
LEMMA WrapCounts ==
  ASSUME IInv, NEW c \in Commands, Wrap(c), cmd = c, cmd' = c, wrapper[c] = "none",
         \A b \in Commands : InBuffer(b)' = InBuffer(b)
  PROVE  refs' \in [Commands -> Refs] /\ \A b \in Commands : Holds(refs[b], Holders(b))'
<1> DEFINE d == DacOf[c]
           n == Count(1, 1, 1, IF dacRcw[d] = None THEN 1 ELSE 0)
<1>1. n \in Refs /\ AddRefs(c, n)
  BY DEF Wrap, Wrapped, Refs, Count
<1>2. refs \in [Commands -> Refs] /\ Holds(refs[c], Holders(c))
  BY DEF IInv, TypeOK
<1>3. refs[c].ext > 0 /\ refs[c].proc > 0
  BY <1>2 DEF Holds, Holders, Count, One, Refs
<1>4. d \in Dacs /\ c # None /\ rcw[c] = {} /\ dacRcw[d] # c
  BY CommandsAssumption DEF IInv, Wrappers
<1>5. dacRcw \in [Dacs -> Commands \cup {None}] /\ rcw \in [Commands -> SUBSET Own]
  BY DEF IInv, TypeOK
<1>6. rcw'[c] = Own /\ (dacRcw'[d] = c <=> dacRcw[d] = None)
  BY <1>4, <1>5 DEF Wrap, Wrapped
<1>7. Holders(c)' = More(Holders(c), n)
  BY <1>4, <1>6 DEF Holders, More, Count, One, Own
<1>8. ASSUME NEW b \in Commands \ {c} PROVE Holders(b)' = Holders(b)
  <2>1. rcw'[b] = rcw[b]
    BY <1>5 DEF Wrap, Wrapped
  <2>2. dacRcw'[DacOf[b]] = b <=> dacRcw[DacOf[b]] = b
    BY <1>4, <1>5, CommandsAssumption DEF Wrap, Wrapped
  <2> QED
    BY <2>1, <2>2 DEF Holders
<1> HIDE DEF n
<1> QED
  BY <1>1, <1>3, <1>7, <1>8, CountsMore

(* Disposing a wrapper changes the counts of references by exactly the    *)
(* holders it takes away.                                                 *)
LEMMA DisposeCounts ==
  ASSUME IInv, NEW c \in Commands, Dispose(c), wrapper[c] = "live",
         UNCHANGED cmd, \A b \in Commands : InBuffer(b)' = InBuffer(b)
  PROVE  refs' \in [Commands -> Refs] /\ \A b \in Commands : Holds(refs[b], Holders(b))'
<1> DEFINE d == DacOf[c]
           u == dacUsed[c]
           n == Count(1, 1, 0, 0)
           m == Count(0, 0, 0, 1)
           after == [refs EXCEPT ![c] = Less(@, n)]
           H(b) == IF b = c THEN Minus(Holders(b), n) ELSE Holders(b)
<1>1. refs \in [Commands -> Refs] /\ \A b \in Commands : Holds(refs[b], Holders(b))
  BY DEF IInv, TypeOK
<1>2. d \in Dacs /\ u \in Commands \cup {None} /\ u # None /\ rcw[c] = Own
  BY CommandsAssumption DEF IInv, TypeOK, Wrappers
<1>3. rcw' = [rcw EXCEPT ![c] = {"helper"}]
  BY DEF Dispose, Disposed
<1>4. n \in Refs /\ m \in Refs /\ Holders(c).ext >= 1 /\ Holders(c).proc >= 1
      /\ Holders(c).helper >= 0 /\ Holders(c).dac >= 0
  BY <1>2 DEF Refs, Holders, Count, One, Own
<1>5. Less(refs[c], n) \in Refs /\ Holds(Less(refs[c], n), Minus(Holders(c), n))
  <2>1. n.ext <= Holders(c).ext /\ n.proc <= Holders(c).proc
        /\ n.helper <= Holders(c).helper /\ n.dac <= Holders(c).dac
    BY <1>4 DEF Count
  <2> HIDE DEF n
  <2> QED
    BY <1>1, <1>4, <2>1, LessHolds, HoldersType
<1>6. after \in [Commands -> Refs] /\ \A b \in Commands : Holds(after[b], H(b))
  <2> HIDE DEF n
  <2> QED
    BY <1>1, <1>5
<1>7. ASSUME NEW b \in Commands PROVE H(b) \in Refs
  <2>1. Holders(b) \in Refs
    BY HoldersType
  <2> QED
    BY <1>4, <2>1 DEF Minus, Count, Refs
<1>8. CASE dacRcw[d] # u
  <2>1. refs' = after /\ dacRcw' = dacRcw
    BY <1>8 DEF Dispose, Disposed
  <2>2. ASSUME NEW b \in Commands PROVE Holders(b)' = H(b)
    <3>1. rcw'[b] = (IF b = c THEN {"helper"} ELSE rcw[b])
      BY <1>3 DEF IInv, TypeOK
    <3> QED
      BY <1>2, <2>1, <3>1 DEF Holders, Minus, Count, One, Own
  <2> HIDE DEF after, H
  <2> QED
    BY <1>6, <2>1, <2>2 DEF Holds
<1>9. CASE dacRcw[d] = u
  <2>1. refs' = [after EXCEPT ![u].dac = @ - 1] /\ dacRcw' = [dacRcw EXCEPT ![d] = None]
    BY <1>9 DEF Dispose, Disposed
  <2>2. u \in Commands /\ DacOf[u] = d
    BY <1>2, <1>9 DEF IInv, Wrappers
  <2>3. ASSUME NEW b \in Commands
        PROVE  Holders(b)' = IF b = u THEN Minus(H(b), m) ELSE H(b)
    <3>1. rcw'[b] = (IF b = c THEN {"helper"} ELSE rcw[b])
      BY <1>3 DEF IInv, TypeOK
    <3>2. dacRcw'[DacOf[b]] = (IF DacOf[b] = d THEN None ELSE dacRcw[DacOf[b]])
      BY <2>1, CommandsAssumption DEF IInv, TypeOK
    <3>3. (dacRcw'[DacOf[b]] = b) <=> (dacRcw[DacOf[b]] = b /\ b # u)
      BY <1>9, <2>2, <3>2, CommandsAssumption
    <3>4. b = u => dacRcw[DacOf[b]] = b
      BY <1>9, <2>2
    <3> QED
      BY <1>2, <3>1, <3>3, <3>4 DEF Holders, Minus, Count, One, Own
  <2>4. H(u).ext >= 0 /\ H(u).proc >= 0 /\ H(u).helper >= 0 /\ H(u).dac >= 1
    <3>1. Holders(u).dac >= 1 /\ Holders(u) \in Refs
      BY <1>9, <2>2, HoldersType DEF Holders, Count, One
    <3> QED
      BY <1>7, <2>2, <3>1 DEF Minus, Count, Refs
  <2>5. Less(after[u], m) \in Refs /\ Holds(Less(after[u], m), Minus(H(u), m))
    <3>1. m.ext <= H(u).ext /\ m.proc <= H(u).proc /\ m.helper <= H(u).helper /\ m.dac <= H(u).dac
      BY <2>4 DEF Count
    <3>2. after[u] \in Refs /\ Holds(after[u], H(u)) /\ H(u) \in Refs
      BY <1>6, <1>7, <2>2
    <3> HIDE DEF m, after, H
    <3> QED
      BY <1>4, <3>1, <3>2, LessHolds
  <2>6. [after[u] EXCEPT !.dac = @ - 1] = Less(after[u], m)
    <3>1. after[u] \in Refs
      BY <1>6, <2>2
    <3> HIDE DEF after
    <3> QED
      BY <3>1 DEF Less, Count, Refs
  <2>7. refs' = [after EXCEPT ![u] = Less(after[u], m)]
    <3> HIDE DEF after, m
    <3> QED
      BY <2>1, <2>6, <1>6, <2>2
  <2> HIDE DEF after, H, m
  <2>8. refs' \in [Commands -> Refs]
    BY <1>6, <2>2, <2>5, <2>7
  <2>9. ASSUME NEW b \in Commands PROVE Holds(refs'[b], Holders(b)')
    BY <1>6, <2>2, <2>3, <2>5, <2>7
  <2> QED
    BY <2>8, <2>9 DEF Holds
<1> QED
  BY <1>8, <1>9

(* The counts, in every step. *)
LEMMA StepCounts ==
  ASSUME IInv, Next
  PROVE  refs' \in [Commands -> Refs] /\ \A b \in Commands : Holds(refs[b], Holders(b))'
<1> USE DEF InBuffer
<1>0. cmd = None <=> dpc = "idle"
  BY DEF IInv
<1>t. cmd \in Commands \cup {None} /\ None \notin Commands
  BY CommandsAssumption DEF IInv, TypeOK
<1>1. CASE InitClr
  BY <1>1, CountsKept DEF InitClr, managedVars
<1>2. CASE Prepare
  <2>0. PICK c \in Commands : c = cmd
    BY <1>0, <1>t, <1>2 DEF Prepare
  <2>1. c = cmd /\ refs \in [Commands -> Refs] /\ Holds(refs[c], Holders(c))
    BY <2>0, <1>0, <1>t, <1>2 DEF Prepare, IInv, TypeOK
  <2>2. refs[c].ext > 0 /\ refs[c].proc > 0
    BY <2>1 DEF Holds, Holders, Count, One, Refs
  <2>3. Holders(c)' = More(Holders(c), BufferHolds)
    BY <2>1, <1>2 DEF Prepare, Holders, More, Count, One, BufferHolds, managedVars
  <2>4. \A b \in Commands \ {c} : Holders(b)' = Holders(b)
    BY <2>1, <1>2 DEF Prepare, Holders, managedVars
  <2>5. BufferHolds \in Refs /\ AddRefs(c, BufferHolds)
    BY <2>1, <1>2 DEF Prepare, BufferHolds, Refs, Count
  <2> QED
    BY <2>1, <2>2, <2>3, <2>4, <2>5, CountsMore
<1>3. CASE CannotExecute
  BY <1>3, CountsKept DEF CannotExecute, managedVars
<1>4. CASE WrapForStub
  <2>1. cmd \in Commands /\ wrapper[cmd] = "none"
    BY <1>0, <1>t, <1>4 DEF WrapForStub, IInv, InStep
  <2> QED
    BY <1>4, <2>1, WrapCounts DEF WrapForStub
<1>5. CASE RunStub
  <2>1. cmd \in Commands /\ wrapper[cmd] = "live"
    BY <1>0, <1>t, <1>5 DEF RunStub, IInv, InStep
  <2> QED
    BY <1>5, <2>1, DisposeCounts DEF RunStub
<1>6. CASE StartForm
  BY <1>6, CountsKept DEF StartForm, managedVars
<1>7. CASE WaitForForm
  BY <1>7, CountsKept DEF WaitForForm, managedVars
<1>8. CASE Return
  <2>0. PICK c \in Commands : c = cmd
    BY <1>0, <1>t, <1>8 DEF Return
  <2>1. c = cmd
    BY <2>0, <1>0, <1>t, <1>8 DEF Return
  <2>2. Holders(c)' = Minus(Holders(c), BufferHolds)
    BY <2>1, <1>8 DEF Return, Holders, Minus, Count, One, BufferHolds, managedVars
  <2>3. \A b \in Commands \ {c} : Holders(b)' = Holders(b)
    BY <2>1, <1>8 DEF Return, Holders, managedVars
  <2>4. BufferHolds \in Refs /\ Releases(c, BufferHolds)
    BY <2>1, <1>8 DEF Return, BufferHolds, Refs, Count
  <2>5. /\ BufferHolds.ext <= Holders(c).ext /\ BufferHolds.proc <= Holders(c).proc
        /\ BufferHolds.helper <= Holders(c).helper /\ BufferHolds.dac <= Holders(c).dac
    BY <2>1, <1>8 DEF Return, BufferHolds, Holders, Count, One
  <2> QED
    BY <2>1, <2>2, <2>3, <2>4, <2>5, CountsLess
<1>9. CASE Leave
  <2>0. PICK c \in Commands : c = cmd
    BY <1>0, <1>t, <1>9 DEF Leave
  <2>1. c = cmd /\ cmd' = None
    BY <2>0, <1>0, <1>t, <1>9 DEF Leave
  <2>2. Holders(c)' = Minus(Holders(c), InterfacesHold)
    BY <2>1, <1>9, <1>t DEF Leave, Holders, Minus, Count, One, InterfacesHold, managedVars
  <2>3. \A b \in Commands \ {c} : Holders(b)' = Holders(b)
    BY <2>1, <1>9, <1>t DEF Leave, Holders, managedVars
  <2>4. InterfacesHold \in Refs /\ Releases(c, InterfacesHold)
    BY <2>1, <1>9 DEF Leave, InterfacesHold, Refs, Count
  <2>5. /\ InterfacesHold.ext <= Holders(c).ext /\ InterfacesHold.proc <= Holders(c).proc
        /\ InterfacesHold.helper <= Holders(c).helper /\ InterfacesHold.dac <= Holders(c).dac
    BY <2>1, <1>9 DEF Leave, InterfacesHold, Holders, Count, One
  <2> QED
    BY <2>1, <2>2, <2>3, <2>4, <2>5, CountsLess
<1>10. ASSUME NEW c \in Commands, Enter(c)
       PROVE  refs' \in [Commands -> Refs] /\ \A b \in Commands : Holds(refs[b], Holders(b))'
  BY <1>10, EnterCounts
<1>11. ASSUME NEW c \in Commands, WrapForForm(c)
       PROVE  refs' \in [Commands -> Refs] /\ \A b \in Commands : Holds(refs[b], Holders(b))'
  <2>1. cmd = c /\ wrapper[c] = "none"
    BY <1>11 DEF WrapForForm, IInv, InStep
  <2> QED
    BY <1>11, <2>1, WrapCounts DEF WrapForForm
<1>12. ASSUME NEW c \in Commands, ShowForm(c) \/ ThrowOnFormThread(c)
       PROVE  refs' \in [Commands -> Refs] /\ \A b \in Commands : Holds(refs[b], Holders(b))'
  BY <1>12, CountsKept DEF ShowForm, ThrowOnFormThread, managedVars
<1>13. ASSUME NEW c \in Commands, CloseForm(c)
       PROVE  refs' \in [Commands -> Refs] /\ \A b \in Commands : Holds(refs[b], Holders(b))'
  <2>1. wrapper[c] = "live"
    BY <1>13 DEF CloseForm, IInv, InStep
  <2> QED
    BY <1>13, <2>1, DisposeCounts DEF CloseForm
<1>14. ASSUME NEW c \in Commands, Collect(c)
       PROVE  refs' \in [Commands -> Refs] /\ \A b \in Commands : Holds(refs[b], Holders(b))'
  <2> DEFINE n == Count(0, 0, 1, 0)
  <2>1. rcw \in [Commands -> SUBSET Own] /\ rcw[c] \subseteq {"helper"} /\ "helper" \in rcw[c]
    BY <1>14 DEF Collect, IInv, TypeOK, Wrappers
  <2>2. rcw' = [rcw EXCEPT ![c] = {}]
    BY <1>14 DEF Collect
  <2>3. Holders(c)' = Minus(Holders(c), n)
    BY <1>14, <2>1, <2>2 DEF Collect, Holders, Minus, Count, One
  <2>4. \A b \in Commands \ {c} : Holders(b)' = Holders(b)
    BY <1>14, <2>1, <2>2 DEF Collect, Holders
  <2>5. n \in Refs /\ Releases(c, n)
    BY <1>14 DEF Collect, Refs, Count
  <2>6. /\ n.ext <= Holders(c).ext /\ n.proc <= Holders(c).proc
        /\ n.helper <= Holders(c).helper /\ n.dac <= Holders(c).dac
    BY <2>1 DEF Holders, Count, One
  <2> HIDE DEF n
  <2> QED
    BY <2>3, <2>4, <2>5, <2>6, CountsLess
<1> QED
  BY <1>1, <1>2, <1>3, <1>4, <1>5, <1>6, <1>7, <1>8, <1>9, <1>10, <1>11, <1>12, <1>13, <1>14
     DEF Next, Debugger, Form

(* The places of the threads and of the wrapper keep step.                 *)
LEMMA StepInStep ==
  ASSUME IInv, Next
  PROVE  (cmd = None <=> dpc = "idle")' /\ \A b \in Commands : InStep(b)'
<1> USE DEF InStep
<1>0. cmd = None <=> dpc = "idle"
  BY DEF IInv
<1>1. cmd \in Commands \cup {None} /\ None \notin Commands
  BY CommandsAssumption DEF IInv, TypeOK
<1>2. \A b \in Commands : InStep(b)
  BY DEF IInv
<1>3. /\ result \in [Commands -> {"none", "S_OK", "E_FAIL"}]
      /\ fpc \in [Commands -> {"none", "wrap", "show", "open", "closed"}]
      /\ ready \in [Commands -> BOOLEAN]
      /\ wrapper \in [Commands -> {"none", "live", "disposed"}]
  BY DEF IInv, TypeOK
<1>4. CASE InitClr
  BY <1>0, <1>1, <1>2, <1>3, <1>4 DEF InitClr, managedVars
<1>5. CASE Prepare
  BY <1>0, <1>1, <1>2, <1>3, <1>5 DEF Prepare, managedVars
<1>6. CASE CannotExecute
  BY <1>0, <1>1, <1>2, <1>3, <1>6 DEF CannotExecute, managedVars
<1>7. CASE WrapForStub
  BY <1>0, <1>1, <1>2, <1>3, <1>7 DEF WrapForStub, Wrap, Wrapped
<1>8. CASE RunStub
  BY <1>0, <1>1, <1>2, <1>3, <1>8 DEF RunStub, Dispose, Disposed
<1>9. CASE StartForm
  BY <1>0, <1>1, <1>2, <1>3, <1>9 DEF StartForm, managedVars
<1>10. CASE WaitForForm
  BY <1>0, <1>1, <1>2, <1>3, <1>10 DEF WaitForForm, managedVars
<1>11. CASE Return
  BY <1>0, <1>1, <1>2, <1>3, <1>11 DEF Return, managedVars
<1>12. CASE Leave
  BY <1>0, <1>1, <1>2, <1>3, <1>12 DEF Leave, managedVars
<1>13. ASSUME NEW c \in Commands, Enter(c)
       PROVE  (cmd = None <=> dpc = "idle")' /\ \A b \in Commands : InStep(b)'
  BY <1>0, <1>1, <1>2, <1>3, <1>13 DEF Enter, managedVars
<1>14. ASSUME NEW c \in Commands, WrapForForm(c)
       PROVE  (cmd = None <=> dpc = "idle")' /\ \A b \in Commands : InStep(b)'
  BY <1>0, <1>1, <1>2, <1>3, <1>14 DEF WrapForForm, Wrap, Wrapped
<1>15. ASSUME NEW c \in Commands, ShowForm(c)
       PROVE  (cmd = None <=> dpc = "idle")' /\ \A b \in Commands : InStep(b)'
  BY <1>0, <1>1, <1>2, <1>3, <1>15 DEF ShowForm, managedVars
<1>16. ASSUME NEW c \in Commands, ThrowOnFormThread(c)
       PROVE  (cmd = None <=> dpc = "idle")' /\ \A b \in Commands : InStep(b)'
  BY <1>0, <1>1, <1>2, <1>3, <1>16 DEF ThrowOnFormThread, managedVars
<1>17. ASSUME NEW c \in Commands, CloseForm(c)
       PROVE  (cmd = None <=> dpc = "idle")' /\ \A b \in Commands : InStep(b)'
  BY <1>0, <1>1, <1>2, <1>3, <1>17 DEF CloseForm, Dispose, Disposed
<1>18. ASSUME NEW c \in Commands, Collect(c)
       PROVE  (cmd = None <=> dpc = "idle")' /\ \A b \in Commands : InStep(b)'
  BY <1>0, <1>1, <1>2, <1>3, <1>18 DEF Collect
<1> QED
  BY <1>4, <1>5, <1>6, <1>7, <1>8, <1>9, <1>10, <1>11, <1>12, <1>13, <1>14, <1>15, <1>16,
     <1>17, <1>18 DEF Next, Debugger, Form

(* A wrapper is made from the buffer: the DAC's RCW, if it has none, is    *)
(* its own.                                                                *)
LEMMA WrapManaged ==
  ASSUME IInv, NEW c \in Commands, Wrap(c), wrapper[c] = "none"
  PROVE  \A b \in Commands : Wrappers(b)' /\ DacShared(b)'
<1> DEFINE d == DacOf[c]
<1>1. d \in Dacs /\ c # None /\ None \notin Commands
  BY CommandsAssumption
<1>2. /\ wrapper \in [Commands -> {"none", "live", "disposed"}]
      /\ rcw \in [Commands -> SUBSET Own]
      /\ dacRcw \in [Dacs -> Commands \cup {None}]
      /\ dacUsed \in [Commands -> Commands \cup {None}]
      /\ \A b \in Commands : Wrappers(b) /\ DacShared(b)
  BY DEF IInv, TypeOK
<1>3. /\ wrapper' = [wrapper EXCEPT ![c] = "live"]
      /\ rcw' = [rcw EXCEPT ![c] = Own]
      /\ dacRcw' = [dacRcw EXCEPT ![d] = IF @ = None THEN c ELSE @]
      /\ dacUsed' = [dacUsed EXCEPT ![c] = dacRcw'[d]]
      /\ dacRcw'[d] = (IF dacRcw[d] = None THEN c ELSE dacRcw[d])
  BY <1>1, <1>2 DEF Wrap, Wrapped
<1>4. ASSUME NEW b \in Commands PROVE Wrappers(b)'
  <2>1. CASE b = c
    BY <1>1, <1>2, <1>3, <2>1 DEF Wrappers
  <2>2. CASE b # c
    BY <1>1, <1>2, <1>3, <2>2 DEF Wrappers
  <2> QED
    BY <2>1, <2>2
<1>5. ASSUME NEW b \in Commands PROVE DacShared(b)'
  <2>1. CASE b = c
    BY <1>1, <1>2, <1>3, <2>1 DEF DacShared
  <2>2. CASE b # c /\ wrapper[b] = "live"
    <3>1. dacUsed[b] # None /\ DacOf[b] \in Dacs /\ wrapper'[b] = "live"
      <4>1. wrapper'[b] = wrapper[b]
        BY <1>2, <1>3, <2>2
      <4>2. dacUsed[b] # None
        BY <1>2, <2>2 DEF Wrappers
      <4>3. DacOf[b] \in Dacs
        BY CommandsAssumption
      <4> QED
        BY <2>2, <4>1, <4>2, <4>3
    <3>2. CASE dacRcw[DacOf[b]] = dacUsed[b]
      <4>1. dacRcw'[DacOf[b]] = dacUsed'[b]
        BY <1>1, <1>2, <1>3, <2>2, <3>1, <3>2
      <4> QED
        BY <4>1 DEF DacShared
    <3>3. CASE dacRcw[DacOf[b]] # dacUsed[b]
      <4>1. PICK a \in Commands \ {b} :
              DacOf[a] = DacOf[b] /\ dacUsed[a] = dacUsed[b] /\ wrapper[a] = "disposed"
        BY <1>2, <2>2, <3>3 DEF DacShared
      <4>2. a # c
        BY <4>1
      <4>3. dacUsed'[a] = dacUsed'[b] /\ wrapper'[a] = "disposed"
        BY <1>2, <1>3, <2>2, <4>1, <4>2
      <4> QED
        BY <4>1, <4>3 DEF DacShared
    <3> QED
      BY <3>2, <3>3
  <2>3. CASE b # c /\ wrapper[b] # "live"
    BY <1>2, <1>3, <2>3 DEF DacShared
  <2> QED
    BY <2>1, <2>2, <2>3
<1> QED
  BY <1>4, <1>5

(* A wrapper is disposed of: those that share its RCW of the DAC now have  *)
(* it to point at.                                                         *)
LEMMA DisposeManaged ==
  ASSUME IInv, NEW c \in Commands, Dispose(c), wrapper[c] = "live"
  PROVE  \A b \in Commands : Wrappers(b)' /\ DacShared(b)'
<1> DEFINE d == DacOf[c]
<1>1. d \in Dacs /\ c # None /\ None \notin Commands
  BY CommandsAssumption
<1>2. /\ wrapper \in [Commands -> {"none", "live", "disposed"}]
      /\ rcw \in [Commands -> SUBSET Own]
      /\ dacRcw \in [Dacs -> Commands \cup {None}]
      /\ \A b \in Commands : Wrappers(b) /\ DacShared(b)
  BY DEF IInv, TypeOK
<1>3. /\ wrapper' = [wrapper EXCEPT ![c] = "disposed"]
      /\ rcw' = [rcw EXCEPT ![c] = {"helper"}]
      /\ dacUsed' = dacUsed
      /\ dacRcw' = IF dacRcw[d] = dacUsed[c] THEN [dacRcw EXCEPT ![d] = None] ELSE dacRcw
  BY DEF Dispose, Disposed
<1>4. ASSUME NEW b \in Commands PROVE Wrappers(b)'
  <2>1. CASE b = c
    <3>1. \A x \in Dacs : dacRcw'[x] # c
      BY <1>1, <1>2, <1>3 DEF Wrappers
    <3> QED
      BY <1>2, <1>3, <2>1, <3>1 DEF Wrappers
  <2>2. CASE b # c
    <3>1. \A x \in Dacs : dacRcw'[x] = b => dacRcw[x] = b
      BY <1>1, <1>2, <1>3
    <3> QED
      BY <1>2, <1>3, <2>2, <3>1 DEF Wrappers
  <2> QED
    BY <2>1, <2>2
<1>5. ASSUME NEW b \in Commands PROVE DacShared(b)'
  <2>1. CASE b = c \/ wrapper[b] # "live"
    BY <1>2, <1>3, <2>1 DEF DacShared
  <2>2. CASE b # c /\ wrapper[b] = "live"
    <3>1. CASE \E a \in Commands \ {b} :
                 DacOf[a] = DacOf[b] /\ dacUsed[a] = dacUsed[b] /\ wrapper[a] = "disposed"
      BY <1>2, <1>3, <3>1 DEF DacShared
    <3>2. CASE dacRcw[DacOf[b]] = dacUsed[b]
      <4>1. CASE DacOf[b] = d /\ dacUsed[b] = dacUsed[c]
        BY <1>2, <1>3, <2>2, <4>1 DEF DacShared
      <4>2. CASE DacOf[b] # d \/ dacUsed[b] # dacUsed[c]
        <5>1. dacRcw'[DacOf[b]] = dacRcw[DacOf[b]]
          BY <1>1, <1>2, <1>3, <3>2, <4>2, CommandsAssumption
        <5> QED
          BY <1>3, <3>2, <5>1 DEF DacShared
      <4> QED
        BY <4>1, <4>2
    <3> QED
      BY <1>2, <2>2, <3>1, <3>2 DEF DacShared
  <2> QED
    BY <2>1, <2>2
<1> QED
  BY <1>4, <1>5

(* The wrappers, in every step. *)
LEMMA StepManaged ==
  ASSUME IInv, Next
  PROVE  \A b \in Commands : Wrappers(b)' /\ DacShared(b)'
<1>0. cmd = None <=> dpc = "idle"
  BY DEF IInv
<1>1. cmd \in Commands \cup {None} /\ \A b \in Commands : InStep(b)
  BY DEF IInv, TypeOK
<1>2. CASE WrapForStub
  <2>1. cmd \in Commands /\ wrapper[cmd] = "none"
    BY <1>0, <1>1, <1>2 DEF WrapForStub, InStep
  <2> QED
    BY <1>2, <2>1, WrapManaged DEF WrapForStub
<1>3. CASE RunStub
  <2>1. cmd \in Commands /\ wrapper[cmd] = "live"
    BY <1>0, <1>1, <1>3 DEF RunStub, InStep
  <2> QED
    BY <1>3, <2>1, DisposeManaged DEF RunStub
<1>4. ASSUME NEW c \in Commands, WrapForForm(c)
      PROVE  \A b \in Commands : Wrappers(b)' /\ DacShared(b)'
  <2>1. wrapper[c] = "none"
    BY <1>1, <1>4 DEF WrapForForm, InStep
  <2> QED
    BY <1>4, <2>1, WrapManaged DEF WrapForForm
<1>5. ASSUME NEW c \in Commands, CloseForm(c)
      PROVE  \A b \in Commands : Wrappers(b)' /\ DacShared(b)'
  <2>1. wrapper[c] = "live"
    BY <1>1, <1>5 DEF CloseForm, InStep
  <2> QED
    BY <1>5, <2>1, DisposeManaged DEF CloseForm
<1>6. ASSUME NEW c \in Commands, Collect(c)
      PROVE  \A b \in Commands : Wrappers(b)' /\ DacShared(b)'
  BY <1>6 DEF Collect, IInv, TypeOK, Wrappers, DacShared
<1>7. CASE UNCHANGED managedVars
  BY <1>7, ManagedKept
<1>8. InitClr \/ Prepare \/ CannotExecute \/ StartForm \/ WaitForForm \/ Return \/ Leave
        => UNCHANGED managedVars
  BY DEF InitClr, Prepare, CannotExecute, StartForm, WaitForForm, Return, Leave
<1>9. \A c \in Commands : Enter(c) \/ ShowForm(c) \/ ThrowOnFormThread(c) => UNCHANGED managedVars
  BY DEF Enter, ShowForm, ThrowOnFormThread
<1> QED
  BY <1>2, <1>3, <1>4, <1>5, <1>6, <1>7, <1>8, <1>9 DEF Next, Debugger, Form

(* The types, in every step. *)
LEMMA StepTypes ==
  ASSUME IInv, Next
  PROVE  TypeOK'
<1>1. refs' \in [Commands -> Refs]
  BY StepCounts
<1>2. cmd \in Commands \cup {None} /\ (cmd = None <=> dpc = "idle")
  BY DEF IInv, TypeOK
<1>3. TypeOK
  BY DEF IInv
<1> USE DEF TypeOK
<1>4. ASSUME NEW c \in Commands, Wrap(c)
      PROVE  /\ wrapper' \in [Commands -> {"none", "live", "disposed"}]
             /\ rcw' \in [Commands -> SUBSET Own]
             /\ dacRcw' \in [Dacs -> Commands \cup {None}]
             /\ dacUsed' \in [Commands -> Commands \cup {None}]
  BY <1>3, <1>4, CommandsAssumption DEF Wrap, Wrapped
<1>5. ASSUME NEW c \in Commands, Dispose(c)
      PROVE  /\ wrapper' \in [Commands -> {"none", "live", "disposed"}]
             /\ rcw' \in [Commands -> SUBSET Own]
             /\ dacRcw' \in [Dacs -> Commands \cup {None}]
             /\ dacUsed' \in [Commands -> Commands \cup {None}]
  BY <1>3, <1>5 DEF Dispose, Disposed, Own
<1>6. CASE InitClr
  BY <1>1, <1>3, <1>6 DEF InitClr, managedVars
<1>7. CASE Prepare
  BY <1>1, <1>3, <1>7 DEF Prepare, managedVars
<1>8. CASE CannotExecute
  BY <1>1, <1>3, <1>8 DEF CannotExecute, managedVars
<1>9. CASE WrapForStub
  BY <1>1, <1>2, <1>3, <1>4, <1>9 DEF WrapForStub
<1>10. CASE RunStub
  BY <1>1, <1>2, <1>3, <1>5, <1>10 DEF RunStub
<1>11. CASE StartForm
  BY <1>1, <1>3, <1>11 DEF StartForm, managedVars
<1>12. CASE WaitForForm
  BY <1>1, <1>3, <1>12 DEF WaitForForm, managedVars
<1>13. CASE Return
  BY <1>1, <1>3, <1>13 DEF Return, managedVars
<1>14. CASE Leave
  BY <1>1, <1>3, <1>14 DEF Leave, managedVars
<1>15. ASSUME NEW c \in Commands, Enter(c) PROVE TypeOK'
  BY <1>1, <1>3, <1>15 DEF Enter, managedVars
<1>16. ASSUME NEW c \in Commands, WrapForForm(c) PROVE TypeOK'
  BY <1>1, <1>3, <1>4, <1>16 DEF WrapForForm
<1>17. ASSUME NEW c \in Commands, ShowForm(c) PROVE TypeOK'
  BY <1>1, <1>3, <1>17 DEF ShowForm, managedVars
<1>18. ASSUME NEW c \in Commands, ThrowOnFormThread(c) PROVE TypeOK'
  BY <1>1, <1>3, <1>18 DEF ThrowOnFormThread, managedVars
<1>19. ASSUME NEW c \in Commands, CloseForm(c) PROVE TypeOK'
  BY <1>1, <1>3, <1>5, <1>19 DEF CloseForm
<1>20. ASSUME NEW c \in Commands, Collect(c) PROVE TypeOK'
  BY <1>1, <1>3, <1>20 DEF Collect
<1> QED
  BY <1>6, <1>7, <1>8, <1>9, <1>10, <1>11, <1>12, <1>13, <1>14, <1>15, <1>16, <1>17, <1>18,
     <1>19, <1>20 DEF Next, Debugger, Form

(* The invariant holds before the first command. *)
LEMMA InitInv ==
  ASSUME Init
  PROVE  IInv
<1>1. TypeOK
  BY DEF Init, TypeOK, Refs, Count
<1>2. ASSUME NEW c \in Commands PROVE Holds(refs[c], Holders(c))
  BY CommandsAssumption DEF Init, Holds, Holders, InBuffer, Count, One
<1>3. ASSUME NEW c \in Commands PROVE InStep(c) /\ Wrappers(c) /\ DacShared(c)
  BY CommandsAssumption DEF Init, InStep, Wrappers, DacShared
<1> QED
  BY <1>1, <1>2, <1>3 DEF IInv, Init

(* The invariant holds in every state of every execution: each reference   *)
(* count of the native objects is the number of frames, RCWs and objects   *)
(* that hold one.                                                          *)
THEOREM HostInvariance == Spec => []IInv
<1>1. IInv /\ [Next]_vars => IInv'
  <2>1. ASSUME IInv, Next PROVE IInv'
    BY <2>1, StepCounts, StepInStep, StepManaged, StepTypes DEF IInv
  <2>2. ASSUME IInv, UNCHANGED vars PROVE IInv'
    BY <2>2 DEF IInv, vars, managedVars, TypeOK, Holds, Holders, InBuffer, InStep, Wrappers, DacShared
  <2> QED
    BY <2>1, <2>2
<1> QED
  BY <1>1, InitInv, PTL DEF Spec

(* No count of references goes below zero, and each variable keeps its     *)
(* type.                                                                   *)
THEOREM TypeCorrect == Spec => []TypeOK
<1>1. IInv => TypeOK
  BY DEF IInv
<1> QED
  BY <1>1, HostInvariance, PTL

(* ExecuteOpCode's claim about reference counting: a form thread reads the *)
(* buffer while it is on the stack and the objects in it are alive.        *)
THEOREM BufferCorrect == Spec => []BufferReadInTime
<1>1. IInv => BufferReadInTime
  <2> SUFFICES ASSUME IInv, NEW c \in Commands, fpc[c] = "wrap"
               PROVE  BufferLives(c) /\ Alive(refs[c])
    BY DEF BufferReadInTime
  <2>1. cmd = c /\ dpc = "wait"
    BY DEF IInv, InStep
  <2>2. refs[c] \in Refs /\ Holds(refs[c], Holders(c))
    BY DEF IInv, TypeOK
  <2>3. Alive(refs[c])
    BY <2>1, <2>2 DEF Holds, Holders, InBuffer, Count, One, Refs, Alive
  <2> QED
    BY <2>1, <2>3 DEF BufferLives
<1> QED
  BY <1>1, HostInvariance, PTL

(* A wrapper can use its objects until it is disposed of.                  *)
THEOREM WrappersUsable == Spec => []UsableUntilDisposed
<1>1. IInv => UsableUntilDisposed
  <2> SUFFICES ASSUME IInv, NEW c \in Commands, wrapper[c] = "live"
               PROVE  rcw[c] = Own /\ Alive(refs[c]) /\ DacShared(c)
    BY DEF UsableUntilDisposed, DacShared
  <2>1. rcw[c] = Own /\ DacShared(c)
    BY DEF IInv, Wrappers
  <2>2. refs[c] \in Refs /\ Holds(refs[c], Holders(c)) /\ Holders(c) \in Refs
    BY HoldersType DEF IInv, TypeOK
  <2>3. Holders(c).ext >= 1 /\ Holders(c).proc >= 1 /\ Holders(c).helper >= 1
    BY <2>1 DEF Holders, Count, One, Own
  <2>4. Alive(refs[c])
    BY <2>2, <2>3 DEF Holds, One, Refs, Alive
  <2> QED
    BY <2>1, <2>4
<1> QED
  BY <1>1, HostInvariance, PTL

(* No command leaves a reference behind once its wrapper is disposed of    *)
(* and the collector has been by.                                          *)
THEOREM Balanced == Spec => []NothingLeaks
<1>1. IInv => NothingLeaks
  <2> SUFFICES ASSUME IInv, NEW c \in Commands, dpc = "idle",
                      wrapper[c] # "live", rcw[c] = {}
               PROVE  refs[c] = Count(0, 0, 0, 0)
    BY DEF NothingLeaks
  <2>1. cmd # c /\ DacOf[c] \in Dacs
    BY CommandsAssumption DEF IInv
  <2>2. dacRcw[DacOf[c]] # c
    BY <2>1 DEF IInv, Wrappers
  <2>3. refs[c] \in Refs /\ Holds(refs[c], Holders(c))
    BY DEF IInv, TypeOK
  <2> QED
    BY <2>1, <2>2, <2>3 DEF Holds, Holders, InBuffer, Count, One, Refs
<1> QED
  BY <1>1, HostInvariance, PTL

-----------------------------------------------------------------------------
(* Static fields: the inductive invariant. *)

(* Where the storage of the field for a domain is, and where it can be read*)
(* for good.                                                               *)
Place(d) == IF field.own THEN IF field.home = NoDomain THEN d ELSE field.home ELSE NoDomain
Readable(d) ==
  /\ field.desc /\ field.own
  /\ d \in field.local \cap field.cell /\ field.home \in {NoDomain, d}

TargetFine ==
  /\ appDomains \in Seq(Domains) /\ appDomains # <<>>
  /\ content \in [Domains -> Values]
  /\ had \in [Domains -> SUBSET Values] /\ \A d \in Domains : content[d] \in had[d]
  /\ lasting \subseteq Range(appDomains)

Before == {"count", "call", "list", "failed"}
Listed == {"lookup", "read", "copy", "crashed"}

(* What the counts are worth. *)
Counted ==
  LET inTime == e.counted /\ "call" \notin startedAt IN
  /\ (e.pc = "call" /\ inTime) => Len(appDomains) <= e.room
  /\ e.pc = "list" =>
       /\ e.count > 0 /\ (inTime => e.count <= e.room)
       /\ "list" \notin startedAt => Len(appDomains) <= e.count
       /\ "list" \notin unloadedAt => e.count <= Len(appDomains)

(* The list, and how far the lookup has come in it. *)
DomainsListed ==
  (e.pc \in Listed \/ (e.pc = "returned" /\ e.found # <<>>)) =>
    /\ e.domains # <<>>
    /\ (e.counted /\ "call" \notin startedAt) => Len(e.domains) <= e.room
    /\ "list" \notin startedAt => lasting \subseteq Range(e.domains)
    /\ "list" \notin unloadedAt => NoDomain \notin Range(e.domains)

ReachedHere ==
  /\ e.pc \in Before => e.found = <<>>
  /\ e.pc \in {"lookup", "read"} => Len(e.found) < Len(e.domains)
  /\ e.pc = "read" => e.at = Place(Domain)
  /\ (e.pc \in {"copy", "crashed"} \/ (e.pc = "returned" /\ e.found # <<>>)) =>
       Len(e.found) = Len(e.domains)
  /\ e.pc = "crashed" => Len(e.found) > e.room

(* What has been found is what the field has had. *)
Answered(r) ==
  /\ r.is = "content" => \E d \in {r.domain, field.home} \cap Domains : r.of \in had[d]
  /\ Readable(r.domain) => r.is # "NotInit"

FoundFine == \A i \in DOMAIN e.found : Answered(e.found[i])

ShownFine ==
  /\ e.pc # "returned" => shown = <<>>
  /\ e.pc = "returned" =>
       /\ \A i \in DOMAIN e.found : i \in DOMAIN shown /\ shown[i] = e.found[i]
       /\ \A i \in DOMAIN shown \ DOMAIN e.found : shown[i] = Blank /\ e.caller = "dumpobj"

StaticInv ==
  StaticTypeOK /\ TargetFine /\ Counted /\ DomainsListed /\ ReachedHere /\ FoundFine /\ ShownFine

-----------------------------------------------------------------------------
(* The sequences of the target. *)

(* What a sequence has after something was inserted. *)
LEMMA InsertFacts ==
  ASSUME NEW S, NEW s \in Seq(S), NEW d \in S, NEW i \in 1..(Len(s) + 1)
  PROVE  /\ InsertAt(s, i, d) \in Seq(S) /\ Len(InsertAt(s, i, d)) = Len(s) + 1
         /\ Range(s) \subseteq Range(InsertAt(s, i, d))
<1> DEFINE a == SubSeq(s, 1, i - 1)
           b == SubSeq(s, i, Len(s))
           r == InsertAt(s, i, d)
<1>1. /\ a \in Seq(S) /\ Len(a) = i - 1 /\ \A j \in 1..(i - 1) : a[j] = s[j]
  BY SubSeqProperties
<1>2. /\ b \in Seq(S) /\ Len(b) = Len(s) - i + 1 /\ \A j \in 1..(Len(s) - i + 1) : b[j] = s[i + j - 1]
  BY SubSeqProperties
<1>3. r = a \o <<d>> \o b
  BY DEF InsertAt
<1> HIDE DEF a, b
<1>4. /\ r \in Seq(S) /\ Len(r) = Len(s) + 1
      /\ \A j \in 1..(i - 1) : r[j] = a[j]
      /\ \A j \in (i + 1)..(Len(s) + 1) : r[j] = b[j - i]
  <2> DEFINE c == a \o <<d>>
  <2>1. /\ c \in Seq(S) /\ Len(c) = i
        /\ \A j \in 1..(i - 1) : c[j] = a[j]
    BY <1>1
  <2>2. r = c \o b
    BY <1>3
  <2> HIDE DEF c, r
  <2> QED
    BY <1>2, <2>1, <2>2
<1>5. ASSUME NEW j \in DOMAIN s PROVE \E k \in DOMAIN r : r[k] = s[j]
  <2>1. CASE j < i
    BY <1>1, <1>4, <2>1
  <2>2. CASE j >= i
    <3>1. j + 1 \in DOMAIN r /\ r[j + 1] = b[j + 1 - i] /\ b[j + 1 - i] = s[j]
      BY <1>2, <1>4, <2>2
    <3> QED
      BY <3>1
  <2> QED
    BY <2>1, <2>2
<1> QED
  BY <1>4, <1>5 DEF Range

(* What a sequence has after something was removed. *)
LEMMA RemoveFacts ==
  ASSUME NEW S, NEW s \in Seq(S), NEW i \in DOMAIN s
  PROVE  /\ RemoveAt(s, i) \in Seq(S) /\ Len(RemoveAt(s, i)) = Len(s) - 1
         /\ Range(s) \ {s[i]} \subseteq Range(RemoveAt(s, i))
<1> DEFINE a == SubSeq(s, 1, i - 1)
           b == SubSeq(s, i + 1, Len(s))
           r == RemoveAt(s, i)
<1>1. /\ a \in Seq(S) /\ Len(a) = i - 1 /\ \A j \in 1..(i - 1) : a[j] = s[j]
  BY SubSeqProperties
<1>2. /\ b \in Seq(S) /\ Len(b) = Len(s) - i /\ \A j \in 1..(Len(s) - i) : b[j] = s[i + j]
  BY SubSeqProperties
<1>3. r = a \o b
  BY DEF RemoveAt
<1>n. i \in Nat /\ 1 <= i /\ i <= Len(s) /\ Len(s) \in Nat
  OBVIOUS
<1> HIDE DEF a, b, r
<1>4. /\ r \in Seq(S) /\ Len(r) = Len(s) - 1
      /\ \A j \in 1..(i - 1) : r[j] = a[j]
      /\ \A j \in i..(Len(s) - 1) : r[j] = b[j - i + 1]
  <2>0. /\ r \in Seq(S) /\ Len(r) = Len(a) + Len(b)
        /\ \A j \in 1..Len(r) : r[j] = IF j <= Len(a) THEN a[j] ELSE b[j - Len(a)]
    BY <1>1, <1>2, <1>3, ConcatProperties
  <2>1. r \in Seq(S) /\ Len(r) = Len(s) - 1
    BY <1>1, <1>2, <1>n, <2>0
  <2>2. ASSUME NEW j \in 1..(i - 1) PROVE r[j] = a[j]
    <3>1. j \in 1..Len(r) /\ j <= Len(a)
      BY <1>1, <1>n, <2>1
    <3> QED
      BY <2>0, <3>1
  <2>3. ASSUME NEW j \in i..(Len(s) - 1) PROVE r[j] = b[j - i + 1]
    <3>1. j \in 1..Len(r) /\ ~(j <= Len(a)) /\ j - Len(a) = j - i + 1
      BY <1>1, <1>n, <2>1
    <3> QED
      BY <2>0, <3>1
  <2> QED
    BY <1>n, <2>1, <2>2, <2>3
<1>5. ASSUME NEW j \in DOMAIN s, j # i PROVE \E k \in DOMAIN r : r[k] = s[j]
  <2>1. CASE j < i
    BY <1>1, <1>4, <2>1
  <2>2. CASE j > i
    <3>1. j \in Nat /\ i \in Nat /\ j <= Len(s) /\ Len(s) \in Nat
      OBVIOUS
    <3>2. j - 1 \in i..(Len(s) - 1) /\ j - i \in 1..(Len(s) - i) /\ (j - 1) - i + 1 = j - i /\ i + (j - i) = j
      BY <2>2, <3>1
    <3>3. r[j - 1] = b[j - i] /\ b[j - i] = s[j]
      BY <1>2, <1>4, <3>2
    <3>4. j - 1 \in DOMAIN r
      BY <1>4, <3>1, <3>2
    <3> QED
      BY <3>3, <3>4
  <2> QED
    BY <1>5, <2>1, <2>2
<1> QED
  BY <1>4, <1>5 DEF Range, r

-----------------------------------------------------------------------------
(* The target goes on: what was found stays an answer, and what cannot be  *)
(* read any more need not be.                                              *)
LEMMA AnswersStay ==
  ASSUME \A d \in Domains : had[d] \subseteq had'[d],
         field'.home = field.home, \A d : Readable(d)' => Readable(d)
  PROVE  \A r : Answered(r) => Answered(r)'
BY DEF Answered

(* What a change of the target has to leave for the invariant to be kept.  *)
LEMMA TargetChanges ==
  ASSUME StaticAssumption, StaticInv, e.pc \notin {"returned", "failed", "crashed"}, UNCHANGED <<e, shown>>,
         field' \in Field, TargetFine',
         field'.home = field.home, field'.own = field.own,
         \A d : Readable(d)' => Readable(d),
         \A d \in Domains : had[d] \subseteq had'[d],
         lasting' \subseteq lasting,
         startedAt \subseteq startedAt', unloadedAt \subseteq unloadedAt',
         e.pc \in startedAt' \/ Len(appDomains') <= Len(appDomains),
         e.pc \in unloadedAt' \/ Len(appDomains') >= Len(appDomains)
  PROVE  StaticInv'
<1>0. /\ StaticTypeOK /\ TargetFine /\ Counted /\ DomainsListed /\ ReachedHere /\ FoundFine /\ ShownFine
  BY DEF StaticInv
<1>1. StaticTypeOK'
  BY <1>0 DEF StaticTypeOK
<1>2. Counted'
  <2>1. Len(appDomains) \in Nat /\ Len(appDomains') \in Nat
    BY <1>0 DEF TargetFine
  <2>2. e.room \in Nat /\ e.count \in Nat
    BY <1>0 DEF StaticTypeOK, Call
  <2> QED
    BY <1>0, <2>1, <2>2 DEF Counted
<1>3. DomainsListed'
  BY <1>0 DEF DomainsListed, Listed
<1>4. ReachedHere'
  BY <1>0 DEF ReachedHere, Place, Domain, Before
<1>5. FoundFine'
  BY <1>0, AnswersStay DEF FoundFine
<1>6. ShownFine'
  BY <1>0 DEF ShownFine
<1> QED
  BY <1>1, <1>2, <1>3, <1>4, <1>5, <1>6 DEF StaticInv

\* A domain that starts meanwhile.
LEMMA StartKeepsStatic ==
  ASSUME StaticAssumption, StaticInv, e.pc \notin {"returned", "failed", "crashed"}, UNCHANGED <<e, shown>>,
         Start
  PROVE  StaticInv'
<1>1. PICK d \in Domains \ Range(appDomains), i \in 1..(Len(appDomains) + 1) :
        /\ appDomains' = InsertAt(appDomains, i, d)
        /\ startedAt' = startedAt \cup {e.pc}
        /\ UNCHANGED <<field, content, had, lasting, unloadedAt>>
  BY DEF Start
<1>2. TargetFine /\ field \in Field
  BY DEF StaticInv, StaticTypeOK
<1>3. /\ appDomains' \in Seq(Domains) /\ Len(appDomains') = Len(appDomains) + 1
      /\ Range(appDomains) \subseteq Range(appDomains')
  BY <1>1, <1>2, InsertFacts DEF TargetFine
<1>4. Len(appDomains) \in Nat
  BY <1>2 DEF TargetFine
<1>5. TargetFine'
  BY <1>1, <1>2, <1>3, <1>4 DEF TargetFine
<1>6. \A d2 : Readable(d2)' => Readable(d2)
  BY <1>1 DEF Readable
<1> QED
  BY <1>1, <1>2, <1>3, <1>4, <1>5, <1>6, TargetChanges

\* A domain that is unloaded meanwhile, whose place may be taken.
LEMMA UnloadKeepsStatic ==
  ASSUME StaticAssumption, StaticInv, e.pc \notin {"returned", "failed", "crashed"}, UNCHANGED <<e, shown>>,
         Unload
  PROVE  StaticInv'
<1>1. PICK i \in DOMAIN appDomains, gone \in BOOLEAN :
        /\ Len(appDomains) > 1
        /\ appDomains' = RemoveAt(appDomains, i)
        /\ field' = IF ~gone THEN field
                    ELSE [field EXCEPT !.local = @ \ {appDomains[i]}, !.cell = @ \ {appDomains[i]},
                                       !.desc = @ /\ field.home # appDomains[i]]
        /\ lasting' = lasting \ {appDomains[i]}
        /\ unloadedAt' = unloadedAt \cup {e.pc}
        /\ UNCHANGED <<content, had, startedAt>>
  BY DEF Unload
<1>2. TargetFine /\ field \in Field
  BY DEF StaticInv, StaticTypeOK
<1>3. /\ appDomains' \in Seq(Domains) /\ Len(appDomains') = Len(appDomains) - 1
      /\ Range(appDomains) \ {appDomains[i]} \subseteq Range(appDomains')
  BY <1>1, <1>2, RemoveFacts DEF TargetFine
<1>4. Len(appDomains) \in Nat
  BY <1>2 DEF TargetFine
<1>5. TargetFine'
  BY <1>1, <1>2, <1>3, <1>4 DEF TargetFine
<1>6. /\ field' \in Field /\ field'.home = field.home /\ field'.own = field.own
      /\ (field'.desc => field.desc) /\ field'.local \subseteq field.local /\ field'.cell \subseteq field.cell
  <2> DEFINE d == field.desc /\ field.home # appDomains[i]
  <2>1. d \in BOOLEAN /\ (d => field.desc)
    BY <1>2, Zenon DEF Field
  <2>2. field' = IF ~gone THEN field
                 ELSE [field EXCEPT !.local = @ \ {appDomains[i]}, !.cell = @ \ {appDomains[i]}, !.desc = d]
    BY <1>1
  <2> HIDE DEF d
  <2> QED
    BY <1>2, <2>1, <2>2 DEF Field
<1>7. \A d2 : Readable(d2)' => Readable(d2)
  BY <1>6 DEF Readable
<1> QED
  BY <1>1, <1>2, <1>3, <1>4, <1>5, <1>6, <1>7, TargetChanges

\* A field that is written meanwhile.
LEMMA WriteKeepsStatic ==
  ASSUME StaticAssumption, StaticInv, e.pc \notin {"returned", "failed", "crashed"}, UNCHANGED <<e, shown>>,
         Write
  PROVE  StaticInv'
<1>1. PICK d \in Range(appDomains), v \in Values :
        /\ content' = [content EXCEPT ![d] = v]
        /\ had' = [had EXCEPT ![d] = @ \cup {v}]
        /\ UNCHANGED <<field, appDomains, lasting, startedAt, unloadedAt>>
  BY DEF Write
<1>2. TargetFine /\ field \in Field
  BY DEF StaticInv, StaticTypeOK
<1>3. d \in Domains
  BY <1>2 DEF TargetFine, Range
<1>4. TargetFine' /\ \A d2 \in Domains : had[d2] \subseteq had'[d2]
  BY <1>1, <1>2, <1>3 DEF TargetFine
<1>5. \A d2 : Readable(d2)' => Readable(d2)
  BY <1>1 DEF Readable
<1>6. Len(appDomains) \in Nat
  BY <1>2 DEF TargetFine
<1> QED
  BY <1>1, <1>2, <1>4, <1>5, <1>6, TargetChanges

-----------------------------------------------------------------------------
(* The call goes on. *)

(* What the call has got as far as, in a target that stands still.         *)
LEMMA CallGoesOn ==
  ASSUME StaticInv, UNCHANGED target, e' \in Call, StaticTypeOK',
         Counted', DomainsListed', ReachedHere', ShownFine',
         \A i \in DOMAIN e'.found : (i \in DOMAIN e.found /\ e'.found[i] = e.found[i]) \/ Answered(e'.found[i])
  PROVE  StaticInv'
<1>1. TargetFine' /\ \A r : Answered(r) => Answered(r)'
  BY DEF StaticInv, TargetFine, target, Answered, Readable
<1>2. FoundFine'
  BY <1>1 DEF StaticInv, FoundFine
<1> QED
  BY <1>1, <1>2 DEF StaticInv

(* Before the list there is nothing to be shown.                           *)
LEMMA BeforeKeepsStatic ==
  ASSUME StaticAssumption, StaticInv, CountForRoom \/ CountForRoomFails \/ CountAgain
  PROVE  StaticInv'
<1>0. /\ StaticTypeOK /\ TargetFine /\ Counted /\ ReachedHere /\ ShownFine
  BY DEF StaticInv
<1>1. e \in Call /\ Len(appDomains) \in Nat /\ Len(appDomains) > 0
  BY <1>0 DEF StaticTypeOK, TargetFine
<1>2. Cardinality(Domains) \in Nat
  BY FS_CardinalityType DEF StaticAssumption
<1>3. ASSUME NEW pc \in Before, NEW room \in Nat, NEW counted \in BOOLEAN, NEW count \in Nat,
             e.pc \in Before, e' = [e EXCEPT !.pc = pc, !.room = room, !.counted = counted, !.count = count],
             UNCHANGED <<target, shown>>, Counted'
      PROVE  StaticInv'
  <2>1. /\ e' \in Call /\ e'.pc = pc /\ e'.found = e.found /\ e'.domains = e.domains /\ e'.at = e.at
        /\ e'.caller = e.caller /\ e.found = <<>>
    BY <1>0, <1>1, <1>3 DEF Call, Before, ReachedHere
  <2>2. StaticTypeOK'
    BY <1>0, <1>3, <2>1 DEF StaticTypeOK, target, Before
  <2>3. DomainsListed' /\ ReachedHere'
    BY <1>3, <2>1 DEF DomainsListed, ReachedHere, Before, Listed
  <2>4. ShownFine'
    BY <1>0, <1>3, <2>1 DEF ShownFine, Before
  <2> QED
    BY <1>3, <2>1, <2>2, <2>3, <2>4, CallGoesOn
<1>4. CASE CountForRoom
  <2>1. /\ e.pc = "count" /\ UNCHANGED <<target, shown>>
        /\ e' = [e EXCEPT !.pc = "call", !.room = Len(appDomains), !.counted = e.counted, !.count = e.count]
        /\ e.counted \in BOOLEAN /\ e.count \in Nat
    BY <1>1, <1>4 DEF CountForRoom, Do, Call
  <2>2. Counted'
    BY <1>1, <2>1 DEF Counted, Call, target
  <2> QED
    BY <1>1, <1>3, <2>1, <2>2 DEF Before
<1>5. CASE CountForRoomFails
  <2>1. CASE e.caller = "managed"
    <3>1. /\ e.pc = "count" /\ UNCHANGED <<target, shown>>
          /\ e' = [e EXCEPT !.pc = "failed", !.room = e.room, !.counted = e.counted, !.count = e.count]
          /\ e.counted \in BOOLEAN /\ e.count \in Nat /\ e.room \in Nat
      BY <1>1, <1>5, <2>1 DEF CountForRoomFails, Do, Call
    <3>2. Counted'
      BY <1>1, <3>1 DEF Counted, Call
    <3> QED
      BY <1>3, <3>1, <3>2 DEF Before
  <2>2. CASE e.caller # "managed"
    <3>1. PICK n \in 0..Cardinality(Domains) :
            /\ e.pc = "count" /\ UNCHANGED <<target, shown>>
            /\ e' = [e EXCEPT !.pc = "call", !.room = n, !.counted = FALSE]
      BY <1>5, <2>2 DEF CountForRoomFails, Do
    <3>2. /\ e' = [e EXCEPT !.pc = "call", !.room = n, !.counted = FALSE, !.count = e.count]
          /\ e.count \in Nat /\ n \in Nat
      <4>1. e.count \in Nat
        BY <1>1 DEF Call
      <4>2. n \in Nat
        BY <1>2
      <4>3. [[[e EXCEPT !.pc = "call"] EXCEPT !.room = n] EXCEPT !.counted = FALSE] =
            [[[[e EXCEPT !.pc = "call"] EXCEPT !.room = n] EXCEPT !.counted = FALSE] EXCEPT !.count = e.count]
        BY <1>1 DEF Call
      <4> QED
        BY <3>1, <4>1, <4>2, <4>3
    <3>3. Counted'
      BY <1>1, <3>2 DEF Counted, Call
    <3> QED
      BY <1>3, <3>1, <3>2, <3>3 DEF Before
  <2> QED
    BY <2>1, <2>2
<1>6. CASE CountAgain
  <2>1. /\ e.pc = "call" /\ UNCHANGED <<target, shown>>
        /\ e' = [e EXCEPT !.pc = "list", !.room = e.room, !.counted = e.counted, !.count = Len(appDomains)]
        /\ e.counted \in BOOLEAN /\ e.room \in Nat
    BY <1>1, <1>6 DEF CountAgain, Do, Call
  <2>2. Counted'
    BY <1>0, <1>1, <2>1 DEF Counted, Call, target
  <2> QED
    BY <1>1, <1>3, <2>1, <2>2 DEF Before
<1> QED
  BY <1>4, <1>5, <1>6

(* The domains are listed, as many as were counted.                        *)
LEMMA ListKeepsStatic ==
  ASSUME StaticAssumption, StaticInv, List
  PROVE  StaticInv'
<1>0. /\ StaticTypeOK /\ TargetFine /\ Counted /\ ReachedHere /\ ShownFine
  BY DEF StaticInv
<1> DEFINE ds == [i \in 1..e.count |-> IF i \in DOMAIN appDomains THEN appDomains[i] ELSE NoDomain]
<1>1. /\ e.pc = "list" /\ UNCHANGED <<target, shown>> /\ e' = [e EXCEPT !.pc = "lookup", !.domains = ds]
  BY DEF List, Do
<1>2. /\ e \in Call /\ e.count \in Nat /\ e.count > 0 /\ e.found = <<>>
      /\ Len(appDomains) \in Nat /\ DOMAIN appDomains = 1..Len(appDomains)
      /\ \A i \in DOMAIN appDomains : appDomains[i] \in Domains
  BY <1>0, <1>1 DEF StaticTypeOK, TargetFine, Counted, ReachedHere, Before, Call
<1>3. ds \in Seq(Domains \cup {NoDomain}) /\ Len(ds) = e.count /\ DOMAIN ds = 1..e.count
  BY <1>2
<1>4. \A i \in 1..e.count : ds[i] = IF i \in DOMAIN appDomains THEN appDomains[i] ELSE NoDomain
  OBVIOUS
<1> HIDE DEF ds
<1>5. /\ e' \in Call /\ e'.pc = "lookup" /\ e'.domains = ds /\ e'.found = <<>> /\ e'.at = e.at
      /\ e'.room = e.room /\ e'.counted = e.counted /\ e'.caller = e.caller
  BY <1>1, <1>2, <1>3 DEF Call
<1>6. StaticTypeOK'
  BY <1>0, <1>1, <1>5 DEF StaticTypeOK, target
<1>7. Counted' /\ ReachedHere'
  BY <1>2, <1>3, <1>5 DEF Counted, ReachedHere, Before
<1>8. DomainsListed'
  <2>1. ds # <<>>
    BY <1>2, <1>3
  <2>2. (e.counted /\ "call" \notin startedAt) => e.count <= e.room
    BY <1>0, <1>1 DEF Counted
  <2>3. "list" \notin startedAt => lasting \subseteq Range(ds)
    <3> SUFFICES ASSUME "list" \notin startedAt, NEW d \in lasting PROVE \E i \in DOMAIN ds : ds[i] = d
      BY DEF Range
    <3>1. PICK i \in DOMAIN appDomains : appDomains[i] = d
      BY <1>0 DEF TargetFine, Range
    <3>2. Len(appDomains) <= e.count
      BY <1>0, <1>1 DEF Counted
    <3>3. i \in 1..e.count
      BY <1>2, <3>2
    <3> QED
      BY <1>3, <1>4, <3>1, <3>3
  <2>4. "list" \notin unloadedAt => NoDomain \notin Range(ds)
    <3> SUFFICES ASSUME "list" \notin unloadedAt, NEW i \in 1..e.count PROVE ds[i] # NoDomain
      BY <1>3 DEF Range
    <3>1. i \in DOMAIN appDomains
      BY <1>0, <1>1, <1>2 DEF Counted
    <3> QED
      BY <1>2, <1>4, <3>1 DEF StaticAssumption
  <2> QED
    BY <1>1, <1>3, <1>5, <2>1, <2>2, <2>3, <2>4 DEF DomainsListed, target
<1>9. ShownFine'
  BY <1>0, <1>1, <1>5 DEF ShownFine
<1> QED
  BY <1>1, <1>2, <1>5, <1>6, <1>7, <1>8, <1>9, CallGoesOn

(* A call that fails shows nothing, or blanks only.                        *)
LEMMA CallFailsKeepsStatic ==
  ASSUME StaticAssumption, StaticInv, CallFails
  PROVE  StaticInv'
<1>0. /\ StaticTypeOK /\ ReachedHere /\ ShownFine
  BY DEF StaticInv
<1> DEFINE pc == IF e.caller = "managed" THEN "failed" ELSE "returned"
<1>1. /\ e.pc \in {"call", "list"} /\ e' = [e EXCEPT !.pc = pc] /\ UNCHANGED target
      /\ shown' = IF e.caller = "managed" THEN <<>> ELSE [i \in 1..e.room |-> Blank]
  BY DEF CallFails
<1>2. /\ e \in Call /\ e.found = <<>> /\ pc \in {"failed", "returned"}
  BY <1>0, <1>1 DEF StaticTypeOK, ReachedHere, Before
<1>3. e.caller \in {"managed", "dumpobj"} /\ e.room \in Nat
  BY <1>2 DEF Call, StaticAssumption
<1>4. /\ e' \in Call /\ e'.pc = pc /\ e'.found = <<>> /\ e'.domains = e.domains /\ e'.caller = e.caller
  BY <1>1, <1>2 DEF Call
<1>5. StaticTypeOK'
  BY <1>0, <1>1, <1>4 DEF StaticTypeOK, target
<1>6. Counted' /\ ReachedHere' /\ DomainsListed'
  BY <1>2, <1>4 DEF Counted, ReachedHere, DomainsListed, Before, Listed
<1>7. ShownFine'
  BY <1>1, <1>2, <1>3, <1>4 DEF ShownFine
<1> QED
  BY <1>1, <1>2, <1>4, <1>5, <1>6, <1>7, CallGoesOn

(* The next domain is answered for.                                        *)
LEMMA FoundKeeps ==
  ASSUME StaticAssumption, StaticInv, e.pc \in {"lookup", "read"}, UNCHANGED <<target, shown>>,
         NEW is \in {"address", "content", "NotInit"}, NEW of \in Nat,
         Answered([domain |-> Domain, is |-> is, of |-> of]), e' = Found(is, of)
  PROVE  StaticInv'
<1>0. /\ StaticTypeOK /\ DomainsListed /\ ReachedHere /\ ShownFine
  BY DEF StaticInv
<1> DEFINE r == [domain |-> Domain, is |-> is, of |-> of]
           f == Append(e.found, r)
           pc == IF Len(f) < Len(e.domains) THEN "lookup" ELSE "copy"
<1>1. /\ e \in Call /\ e.found \in Seq(Answer) /\ e.domains \in Seq(Domains \cup {NoDomain})
      /\ Len(e.found) < Len(e.domains) /\ Len(e.found) \in Nat /\ Len(e.domains) \in Nat
      /\ \A i \in DOMAIN e.found : e.found[i].domain = e.domains[i]
  BY <1>0 DEF StaticTypeOK, ReachedHere, Call
<1>2. Domain \in Domains \cup {NoDomain} /\ Domain = e.domains[Len(e.found) + 1]
  BY <1>1 DEF Domain
<1>3. r \in Answer /\ r.domain = Domain
  BY <1>2 DEF Answer
<1> HIDE DEF r
<1>4. /\ f \in Seq(Answer) /\ Len(f) = Len(e.found) + 1 /\ f[Len(f)] = r
      /\ DOMAIN f = 1..Len(f) /\ DOMAIN e.found = 1..Len(e.found)
      /\ \A i \in DOMAIN e.found : f[i] = e.found[i]
  BY <1>1, <1>3
<1>5. e' = [e EXCEPT !.found = f, !.at = NoDomain, !.pc = pc]
  BY DEF Found, r
<1> HIDE DEF f
<1>6. /\ e' \in Call /\ e'.pc = pc /\ e'.found = f /\ e'.domains = e.domains /\ e'.caller = e.caller
      /\ e'.room = e.room /\ e'.counted = e.counted
  BY <1>1, <1>4, <1>5 DEF Call
<1>7. \A i \in DOMAIN f : (i \in DOMAIN e.found /\ f[i] = e.found[i]) \/ (i = Len(e.found) + 1 /\ f[i] = r)
  BY <1>1, <1>4
<1>8. \A i \in DOMAIN f : f[i] \in Answer /\ f[i].domain = e.domains[i]
  BY <1>1, <1>2, <1>3, <1>4, <1>7
<1>9. pc \in {"lookup", "copy"} /\ (pc = "lookup" => Len(f) < Len(e.domains)) /\ (pc = "copy" => Len(f) = Len(e.domains))
  BY <1>1, <1>4
<1> HIDE DEF pc
<1>10. StaticTypeOK'
  BY <1>0, <1>6, <1>8, <1>9 DEF StaticTypeOK, target
<1>11. Counted' /\ ReachedHere'
  BY <1>6, <1>9 DEF Counted, ReachedHere, Before
<1>12. DomainsListed'
  BY <1>0, <1>6, <1>9 DEF DomainsListed, Listed, target
<1>13. ShownFine'
  BY <1>0, <1>6, <1>9 DEF ShownFine
<1>14. \A i \in DOMAIN e'.found : (i \in DOMAIN e.found /\ e'.found[i] = e.found[i]) \/ Answered(e'.found[i])
  BY <1>6, <1>7 DEF r
<1> QED
  BY <1>6, <1>10, <1>11, <1>12, <1>13, <1>14, CallGoesOn

(* The storage for a domain is looked up.                                  *)
LEMMA LookUpKeepsStatic ==
  ASSUME StaticAssumption, StaticInv, LookUp
  PROVE  StaticInv'
<1>0. /\ StaticTypeOK /\ DomainsListed /\ ReachedHere /\ ShownFine /\ field \in Field
  BY DEF StaticInv, StaticTypeOK
<1>1. /\ e.pc = "lookup" /\ UNCHANGED <<target, shown>>
      /\ e' = IF ~field.desc THEN Found("NotInit", 0)
              ELSE IF field.home # NoDomain \/ ~field.own
                THEN Storage(IF field.own THEN field.home ELSE NoDomain)
              ELSE IF Domain \in field.local THEN Storage(Domain)
              ELSE Found("NotInit", 0)
  BY DEF LookUp, Do
<1>2. CASE e' = Found("NotInit", 0) /\ ~Readable(Domain)
  <2>1. Answered([domain |-> Domain, is |-> "NotInit", of |-> 0])
    BY <1>2 DEF Answered
  <2> QED
    BY <1>1, <1>2, <2>1, FoundKeeps
<1>3. e \in Call /\ Domain \in Domains \cup {NoDomain}
  BY <1>0, <1>1 DEF StaticTypeOK, ReachedHere, Call, Domain
<1>4. CASE e' = Storage(Place(Domain))
  <2>1. Place(Domain) \in Domains \cup {NoDomain}
    BY <1>0, <1>3 DEF Place, Field
  <2>2. CASE e' = Found("address", Place(Domain))
    <3>1. Answered([domain |-> Domain, is |-> "address", of |-> Place(Domain)])
      BY DEF Answered
    <3>2. Place(Domain) \in Nat
      BY <2>1 DEF StaticAssumption
    <3> QED
      BY <1>1, <2>2, <3>1, <3>2, FoundKeeps
  <2>3. CASE e' = [e EXCEPT !.pc = "read", !.at = Place(Domain)]
    <3>1. /\ e' \in Call /\ e'.pc = "read" /\ e'.at = Place(Domain) /\ e'.found = e.found
          /\ e'.domains = e.domains /\ e'.caller = e.caller /\ e'.room = e.room /\ e'.counted = e.counted
      BY <1>3, <2>1, <2>3 DEF Call
    <3>2. StaticTypeOK'
      BY <1>0, <1>1, <2>1, <3>1 DEF StaticTypeOK, target, ReachedHere
    <3>3. Counted' /\ DomainsListed' /\ ShownFine'
      BY <1>0, <1>1, <3>1 DEF Counted, DomainsListed, Listed, ShownFine, target
    <3>4. ReachedHere'
      <4>1. Domain' = Domain /\ Place(Domain)' = Place(Domain)
        BY <1>1, <3>1 DEF Domain, Place, target
      <4> QED
        BY <1>0, <1>1, <3>1, <4>1 DEF ReachedHere, Before
    <3> QED
      BY <1>1, <3>1, <3>2, <3>3, <3>4, CallGoesOn
  <2> QED
    BY <1>4, <2>2, <2>3 DEF Storage
<1>5. (e' = Found("NotInit", 0) /\ ~Readable(Domain)) \/ e' = Storage(Place(Domain))
  BY <1>1 DEF Readable, Place
<1> QED
  BY <1>2, <1>4, <1>5

(* The value is read, if it can be.                                        *)
LEMMA ReadKeepsStatic ==
  ASSUME StaticAssumption, StaticInv, Read
  PROVE  StaticInv'
<1>0. /\ ReachedHere /\ TargetFine /\ field \in Field
  BY DEF StaticInv, StaticTypeOK
<1>1. /\ e.pc = "read" /\ UNCHANGED <<target, shown>> /\ e.at = Place(Domain)
      /\ e' = IF e.at \in field.cell THEN Found("content", content[e.at]) ELSE Found("NotInit", 0)
  BY <1>0 DEF Read, Do, ReachedHere
<1>2. CASE e.at \in field.cell
  <2>1. e.at \in Domains
    BY <1>0, <1>2 DEF Field
  <2>2. content[e.at] \in Nat /\ content[e.at] \in had[e.at]
    BY <1>0, <2>1 DEF TargetFine, StaticAssumption
  <2>3. e.at \in {Domain, field.home}
    BY <1>1, <2>1 DEF Place, StaticAssumption
  <2>4. Answered([domain |-> Domain, is |-> "content", of |-> content[e.at]])
    BY <2>1, <2>2, <2>3 DEF Answered
  <2> QED
    BY <1>1, <1>2, <2>2, <2>4, FoundKeeps
<1>3. CASE e.at \notin field.cell
  <2>1. ~Readable(Domain)
    BY <1>1, <1>3 DEF Readable, Place
  <2>2. Answered([domain |-> Domain, is |-> "NotInit", of |-> 0])
    BY <2>1 DEF Answered
  <2> QED
    BY <1>1, <1>3, <2>2, FoundKeeps
<1> QED
  BY <1>2, <1>3

(* What was found is copied, if there is room, and shown.                  *)
LEMMA CopyKeepsStatic ==
  ASSUME StaticAssumption, StaticInv, Copy
  PROVE  StaticInv'
<1>0. /\ StaticTypeOK /\ DomainsListed /\ ReachedHere /\ ShownFine
  BY DEF StaticInv
<1> DEFINE pc == IF Len(e.found) > e.room THEN "crashed" ELSE "returned"
           blanks == IF ShowsRoom THEN [i \in 1..(e.room - Len(e.found)) |-> Blank] ELSE <<>>
<1>1. /\ e.pc = "copy" /\ UNCHANGED target /\ e' = [e EXCEPT !.pc = pc]
      /\ pc = "crashed" => shown' = shown
      /\ pc = "returned" => shown' = e.found \o blanks
  BY DEF Copy
<1>2. /\ e \in Call /\ e.found \in Seq(Answer) /\ Len(e.found) = Len(e.domains) /\ e.room \in Nat
      /\ e.caller \in {"managed", "dumpobj"} /\ pc \in {"crashed", "returned"}
  BY <1>0, <1>1 DEF StaticTypeOK, ReachedHere, Call, StaticAssumption
<1>3. /\ pc = "returned" => Len(e.found) <= e.room
      /\ pc = "crashed" => Len(e.found) > e.room
  BY <1>2
<1>4. pc = "returned" =>
        /\ blanks \in Seq({Blank})
        /\ e.caller = "managed" => blanks = <<>>
  BY <1>2, <1>3 DEF ShowsRoom
<1> HIDE DEF pc, blanks
<1>5. /\ e' \in Call /\ e'.pc = pc /\ e'.found = e.found /\ e'.domains = e.domains /\ e'.caller = e.caller
      /\ e'.room = e.room /\ e'.counted = e.counted
  BY <1>1, <1>2 DEF Call
<1>6. StaticTypeOK'
  BY <1>0, <1>1, <1>2, <1>5 DEF StaticTypeOK, target
<1>7. Counted' /\ ReachedHere' /\ DomainsListed'
  BY <1>0, <1>1, <1>2, <1>3, <1>5 DEF Counted, ReachedHere, DomainsListed, Before, Listed, target
<1>8. ShownFine'
  <2>1. CASE pc = "crashed"
    BY <1>0, <1>1, <1>5, <2>1 DEF ShownFine
  <2>2. CASE pc = "returned"
    <3>1. shown' = e.found \o blanks /\ blanks \in Seq({Blank}) /\ (e.caller = "managed" => blanks = <<>>)
      BY <1>1, <1>4, <2>2
    <3>2. /\ \A i \in DOMAIN e.found : i \in DOMAIN shown' /\ shown'[i] = e.found[i]
          /\ \A i \in DOMAIN shown' \ DOMAIN e.found : shown'[i] = Blank /\ blanks # <<>>
      <4>1. blanks \in Seq({Blank}) /\ e.found \in Seq(Answer)
        BY <1>2, <3>1
      <4>2. /\ DOMAIN shown' = 1..(Len(e.found) + Len(blanks))
            /\ \A i \in DOMAIN shown' :
                 shown'[i] = IF i <= Len(e.found) THEN e.found[i] ELSE blanks[i - Len(e.found)]
        BY <3>1, <4>1
      <4>3. \A i \in 1..Len(blanks) : blanks[i] = Blank
        BY <4>1
      <4> QED
        BY <4>1, <4>2, <4>3
    <3> QED
      BY <1>2, <1>5, <2>2, <3>1, <3>2 DEF ShownFine
  <2> QED
    BY <1>2, <2>1, <2>2
<1> QED
  BY <1>1, <1>2, <1>5, <1>6, <1>7, <1>8, CallGoesOn

(* At the start nothing has been counted.                                  *)
LEMMA StaticStarts ==
  ASSUME StaticAssumption, StaticInit
  PROVE  StaticInv
<1>1. PICK c \in Callers :
        e = [pc |-> "count", caller |-> c, room |-> 0, counted |-> TRUE, count |-> 0,
             domains |-> <<>>, at |-> NoDomain, found |-> <<>>]
  BY DEF StaticInit
<1>2. /\ field \in Field /\ content \in [Domains -> Values] /\ had = [d \in Domains |-> {content[d]}]
      /\ lasting = Range(appDomains) /\ appDomains # <<>> /\ shown = <<>>
  BY DEF StaticInit, StaticAssumption
<1>3. appDomains \in Seq(Domains)
  <2>1. PICK S \in SUBSET Domains : appDomains \in SetToSeqs(S)
    BY DEF StaticInit, SetToAllKPermutations
  <2>2. Cardinality(S) \in Nat
    BY FS_Subset, FS_CardinalityType DEF StaticAssumption
  <2>3. appDomains \in [1..Cardinality(S) -> S]
    BY <2>1 DEF SetToSeqs
  <2>4. appDomains \in [1..Cardinality(S) -> Domains]
    BY <2>3
  <2> QED
    BY <2>2, <2>4
<1>4. e \in Call /\ e.pc = "count" /\ e.found = <<>>
  BY <1>1 DEF Call
<1>5. StaticTypeOK
  BY <1>2, <1>4 DEF StaticTypeOK
<1>6. TargetFine
  BY <1>2, <1>3 DEF TargetFine
<1>7. Counted /\ DomainsListed /\ ReachedHere /\ FoundFine /\ ShownFine
  BY <1>2, <1>4 DEF Counted, DomainsListed, ReachedHere, FoundFine, ShownFine, Before, Listed
<1> QED
  BY <1>5, <1>6, <1>7 DEF StaticInv

(* The invariant is what the properties need.                              *)
LEMMA StaticInvShows ==
  ASSUME StaticAssumption, StaticInv
  PROVE  StaticsShown
<1>0. /\ StaticTypeOK /\ TargetFine /\ Counted /\ DomainsListed /\ ReachedHere /\ FoundFine /\ ShownFine
      /\ e \in Call
  BY DEF StaticInv, StaticTypeOK
<1>1. /\ e.found \in Seq(Answer) /\ e.domains \in Seq(Domains \cup {NoDomain})
      /\ Len(e.found) \in Nat /\ Len(e.domains) \in Nat /\ e.room \in Nat
      /\ DOMAIN e.found = 1..Len(e.found) /\ DOMAIN e.domains = 1..Len(e.domains)
      /\ \A i \in DOMAIN e.found : e.found[i].domain = e.domains[i]
  BY <1>0 DEF StaticTypeOK, Call
<1>2. ValuesOwn
  <2> SUFFICES ASSUME NEW i \in DOMAIN shown, shown[i].is = "content"
      PROVE  \E d \in {shown[i].domain, field.home} \cap Domains : shown[i].of \in had[d]
    BY DEF ValuesOwn
  <2>1. e.pc = "returned"
    BY <1>0 DEF ShownFine
  <2>2. i \in DOMAIN e.found /\ shown[i] = e.found[i]
    BY <1>0, <2>1 DEF ShownFine, Blank
  <2> QED
    BY <1>0, <2>2 DEF FoundFine, Answered
<1>3. LastingShown
  <2> SUFFICES ASSUME e.pc = "returned", e.found # <<>>, "list" \notin startedAt, NEW d \in lasting
      PROVE  \E i \in DOMAIN shown :
               /\ shown[i].domain = d
               /\ (field.desc /\ field.own /\ d \in field.local \cap field.cell
                    /\ field.home \in {NoDomain, d}) => shown[i].is # "NotInit"
    BY DEF LastingShown
  <2>1. PICK i \in DOMAIN e.domains : e.domains[i] = d
    BY <1>0 DEF DomainsListed, Range
  <2>2. i \in DOMAIN e.found /\ e.found[i].domain = d
    BY <1>0, <1>1, <2>1 DEF ReachedHere
  <2>3. i \in DOMAIN shown /\ shown[i] = e.found[i]
    BY <1>0, <2>2 DEF ShownFine
  <2>4. Readable(d) => e.found[i].is # "NotInit"
    BY <1>0, <2>2 DEF FoundFine, Answered
  <2> QED
    BY <2>2, <2>3, <2>4 DEF Readable
<1>4. BlankExplained
  <2> SUFFICES ASSUME e.pc = "returned", e.caller = "managed", NEW i \in DOMAIN shown,
                      shown[i].domain = NoDomain, "list" \notin unloadedAt
      PROVE  FALSE
    BY DEF BlankExplained
  <2>1. i \in DOMAIN e.found /\ shown[i] = e.found[i]
    BY <1>0 DEF ShownFine
  <2>2. e.domains[i] = NoDomain /\ i \in DOMAIN e.domains
    BY <1>0, <1>1, <2>1 DEF ReachedHere
  <2> QED
    BY <1>0, <1>1, <2>1, <2>2 DEF DomainsListed, Range
<1>5. CrashExplained
  <2> SUFFICES ASSUME e.pc = "crashed", e.counted, "call" \notin startedAt PROVE FALSE
    BY DEF CrashExplained
  <2>1. Len(e.domains) <= e.room
    BY <1>0 DEF DomainsListed, Listed
  <2>2. Len(e.found) > e.room /\ Len(e.found) = Len(e.domains)
    BY <1>0 DEF ReachedHere
  <2> QED
    BY <1>1, <2>1, <2>2
<1> QED
  BY <1>0, <1>2, <1>3, <1>4, <1>5 DEF StaticsShown

(* Static fields are shown for the domains that last, with values of their *)
(* own: the strengthening that makes the properties inductive.             *)
THEOREM StaticInvariance ==
  ASSUME StaticAssumption
  PROVE  StaticSpec => []StaticInv
<1>1. StaticInit => StaticInv
  BY StaticStarts
<1>2. StaticInv /\ [StaticNext]_staticVars => StaticInv'
  <2> SUFFICES ASSUME StaticInv, [StaticNext]_staticVars PROVE StaticInv'
    OBVIOUS
  <2>1. CASE TargetRuns
    BY <2>1, StartKeepsStatic, UnloadKeepsStatic, WriteKeepsStatic DEF TargetRuns
  <2>2. CASE CallStep
    BY <2>2, BeforeKeepsStatic, ListKeepsStatic, CallFailsKeepsStatic, LookUpKeepsStatic,
       ReadKeepsStatic, CopyKeepsStatic DEF CallStep
  <2>3. CASE UNCHANGED staticVars
    <3>1. UNCHANGED <<target, e, shown>>
      BY <2>3 DEF staticVars
    <3>2. e \in Call /\ StaticTypeOK' /\ Counted' /\ DomainsListed' /\ ReachedHere' /\ ShownFine'
      BY <3>1 DEF StaticInv, StaticTypeOK, Counted, DomainsListed, ReachedHere, ShownFine, target, Place, Domain
    <3> QED
      BY <3>1, <3>2, CallGoesOn
  <2> QED
    BY <2>1, <2>2, <2>3 DEF StaticNext
<1> QED
  BY <1>1, <1>2, PTL DEF StaticSpec

(* GetStaticFieldValues and ShowStatic show a static field for every domain*)
(* that lasts, with a value that it had there, and the process ends only   *)
(* where a domain was started after it had been counted: for any domains   *)
(* and fields, however often the target changes during the call.           *)
THEOREM StaticsOfDomainsShown ==
  ASSUME StaticAssumption
  PROVE  StaticSpec => []StaticsShown
<1>1. StaticInv => StaticsShown
  BY StaticInvShows
<1> QED
  BY <1>1, StaticInvariance, PTL

-----------------------------------------------------------------------------
(* Texts that are read in two calls: the inductive invariant. *)

(* The field refers to a string, and as long as nothing has happened since *)
(* the size was read it is the size of that string.                        *)
TextInv ==
  /\ TextTypeOK /\ heap[reference].kind = "string"
  /\ reading.pc \in {"again", "text"} =>
       /\ reading.size # 0
       /\ ~since => reading.size = 2 * (heap[reference].n + 1)
  /\ (reading.pc = "text" /\ ~since) => reading.at = reference
  /\ reading.pc = "overrun" => since

\* The lesser of two numbers.
LEMMA LesserOfTwo ==
  ASSUME NEW a \in Nat, NEW b \in Nat
  PROVE  Min({a, b}) = IF a <= b THEN a ELSE b
BY DEF Min

(* What the target does between the calls is noted.                        *)
LEMMA EventKeepsText ==
  ASSUME StringReadAssumption, TextInv, Assign \/ Move
  PROVE  TextInv'
<1>0. /\ reference \in Addresses /\ heap \in [Addresses -> Contents] /\ reading \in Reading
      /\ heap[reference].kind = "string" /\ since \in BOOLEAN /\ happened \in 0..Happenings
  BY DEF TextInv, TextTypeOK
<1>1. /\ UNCHANGED reading /\ Event
      /\ reference' \in Addresses /\ heap' \in [Addresses -> Contents]
      /\ heap'[reference'].kind = "string"
  BY <1>0 DEF Assign, Move
<1>2. /\ since' \in BOOLEAN /\ (since => since') /\ (reading.pc \in {"again", "text"} => since')
  BY <1>0, <1>1, Zenon DEF Event
<1>3. happened' \in 0..Happenings
  BY <1>0, <1>1 DEF Event, StringReadAssumption
<1> QED
  BY <1>0, <1>1, <1>2, <1>3 DEF TextInv, TextTypeOK

(* What ReadText does with a string of n characters. *)
LEMMA TextRead ==
  ASSUME StringReadAssumption, TextInv, ReadText
  PROVE  LET n == heap[reading.at].n IN
         /\ \/ reading' = [reading EXCEPT !.pc = "raised"]
            \/ reading' = [reading EXCEPT !.pc = "overrun"] /\ since
            \/ /\ reading' = [reading EXCEPT !.pc = "returned", !.text = Copied(n) - 1]
               /\ Copied(n) - 1 \in Nat
               /\ Copied(n) - 1 = n \/ (reading.size = 2 /\ Copied(n) - 1 = 1)
         /\ UNCHANGED <<reference, heap, happened, since>> /\ reading.pc = "text"
<1> DEFINE n == heap[reading.at].n
<1>1. /\ reading \in Reading /\ heap \in [Addresses -> Contents] /\ since \in BOOLEAN
      /\ reading.pc = "text" /\ UNCHANGED <<reference, heap, happened, since>>
      /\ reading' = IF heap[reading.at].kind # "string" THEN Raised
                    ELSE IF Copied(n) > Room THEN [reading EXCEPT !.pc = "overrun"]
                    ELSE [reading EXCEPT !.pc = "returned", !.text = Copied(n) - 1]
  BY DEF TextInv, TextTypeOK, ReadText, Reads
<1>2. n \in Nat /\ heap[reading.at] \in Contents
  BY <1>1 DEF Reading, Contents, StringReadAssumption
<1>3. PICK m \in Nat : reading.size = 2 * (m + 1)
  BY <1>1 DEF TextInv, Reading, StringReadAssumption
<1>4. ~since => m = n
  BY <1>1, <1>2, <1>3 DEF TextInv
<1>5. reading.size \div 2 = m + 1
  BY <1>3
<1>6. Copied(n) = IF n + 1 <= reading.size THEN n + 1 ELSE reading.size
  BY <1>2, <1>3, LesserOfTwo DEF Copied
<1>7. Room = m + 1 + Spare /\ Spare \in {0, 1}
  BY <1>5 DEF Room, StringReadAssumption
<1>8. Copied(n) > Room => since
  BY <1>2, <1>3, <1>4, <1>6, <1>7
<1>9. Copied(n) - 1 \in Nat
  BY <1>2, <1>3, <1>6
<1>10. ~(Copied(n) > Room) => Copied(n) - 1 = n \/ (reading.size = 2 /\ Copied(n) - 1 = 1)
  BY <1>2, <1>3, <1>6, <1>7
<1> HIDE DEF n
<1> QED
  BY <1>1, <1>8, <1>9, <1>10 DEF Raised, n

\* The caller's steps.
LEMMA ReadKeepsText ==
  ASSUME StringReadAssumption, TextInv, ReadCall
  PROVE  TextInv'
<1>0. /\ reference \in Addresses /\ heap \in [Addresses -> Contents] /\ reading \in Reading
      /\ heap[reference].kind = "string" /\ since \in BOOLEAN /\ happened \in 0..Happenings
  BY DEF TextInv, TextTypeOK
<1>1. CASE ReadPointer
  BY <1>0, <1>1 DEF ReadPointer, Reads, TextInv, TextTypeOK, Reading
<1>2. CASE ReadAgain
  BY <1>0, <1>2 DEF ReadAgain, Reads, TextInv, TextTypeOK, Reading
<1>3. CASE ReadSize
  <2>1. /\ reading.pc = "size" /\ UNCHANGED <<reference, heap, happened>> /\ since' = (reference # reading.at)
        /\ reading' = IF heap[reading.at].kind = "unread" THEN Raised
                      ELSE [reading EXCEPT !.pc = "again", !.size = 2 * (heap[reading.at].n + 1)]
    BY <1>3 DEF ReadSize, Reads
  <2>2. heap[reading.at].n \in Lengths /\ heap[reading.at].n \in Nat
    BY <1>0 DEF Reading, Contents, StringReadAssumption
  <2>3. since' \in BOOLEAN /\ (~since' => reading.at = reference)
    BY <2>1, Zenon
  <2>4. CASE heap[reading.at].kind = "unread"
    BY <1>0, <2>1, <2>3, <2>4 DEF TextInv, TextTypeOK, Reading, Raised
  <2>5. CASE heap[reading.at].kind # "unread"
    <3>1. /\ reading' \in Reading /\ reading'.pc = "again" /\ reading'.at = reading.at
          /\ reading'.size = 2 * (heap[reading.at].n + 1)
      BY <1>0, <2>1, <2>2, <2>5 DEF Reading
    <3>2. reading'.size # 0
      BY <2>2, <3>1
    <3>3. ~since' => reading'.size = 2 * (heap[reference].n + 1)
      BY <2>3, <3>1
    <3> QED
      BY <1>0, <2>1, <2>3, <3>1, <3>2, <3>3 DEF TextInv, TextTypeOK
  <2> QED
    BY <2>4, <2>5
<1>4. CASE ReadText
  <2> DEFINE c == Copied(heap[reading.at].n) - 1
  <2>1. /\ \/ reading' = [reading EXCEPT !.pc = "raised"]
           \/ reading' = [reading EXCEPT !.pc = "overrun"] /\ since
           \/ reading' = [reading EXCEPT !.pc = "returned", !.text = c] /\ c \in Nat
        /\ UNCHANGED <<reference, heap, happened, since>> /\ reading.pc = "text"
    BY <1>4, TextRead
  <2> HIDE DEF c
  <2>2. reading' \in Reading /\ reading'.pc \in {"raised", "overrun", "returned"} /\ (reading'.pc = "overrun" => since)
    BY <1>0, <2>1 DEF Reading
  <2> QED
    BY <1>0, <2>1, <2>2 DEF TextInv, TextTypeOK
<1> QED
  BY <1>1, <1>2, <1>3, <1>4 DEF ReadCall

(* A buffer that is too small is one that was made for another string.     *)
THEOREM TextInvariance ==
  ASSUME StringReadAssumption
  PROVE  TextSpec => []TextInv
<1>1. TextInit => TextInv
  <2> SUFFICES ASSUME TextInit PROVE TextInv
    OBVIOUS
  <2>1. reading = [pc |-> "pointer", at |-> reference, size |-> 0, text |-> NoText] /\ reference \in Addresses
    BY DEF TextInit
  <2>2. reading \in Reading /\ reading.pc = "pointer"
    BY <2>1 DEF Reading, NoText
  <2>3. since \in BOOLEAN
    BY DEF TextInit
  <2>4. happened \in 0..Happenings
    BY DEF TextInit, StringReadAssumption
  <2> QED
    BY <2>2, <2>3, <2>4 DEF TextInit, TextInv, TextTypeOK
<1>2. TextInv /\ [TextNext]_textVars => TextInv'
  <2> SUFFICES ASSUME TextInv, [TextNext]_textVars PROVE TextInv'
    OBVIOUS
  <2>1. CASE UNCHANGED textVars
    BY <2>1 DEF TextInv, TextTypeOK, textVars
  <2> QED
    BY <2>1, EventKeepsText, ReadKeepsText DEF TextNext
<1> QED
  BY <1>1, <1>2, PTL DEF TextSpec

(* ReadCLRString writes past the end of its buffer only if the program has *)
(* stored another string, or the collector has moved this one, since the   *)
(* size was read: for strings of any length.                               *)
THEOREM TextsOverrunExplained ==
  ASSUME StringReadAssumption
  PROVE  TextSpec => []OverrunExplained
<1>1. TextInv => OverrunExplained
  BY DEF TextInv, OverrunExplained
<1> QED
  BY <1>1, TextInvariance, PTL

(* A text that is returned is the whole of the string that the field       *)
(* referred to at the second look, but for one that was read into the      *)
(* buffer of an empty one, which may be cut to one character.              *)
THEOREM TextsReturnedWhole ==
  ASSUME StringReadAssumption
  PROVE  TextSpec => TextWhole
<1>1. ASSUME TextInv, [TextNext]_textVars PROVE [ReturnsWhole]_textVars
  <2>1. CASE ReadText
    <3> DEFINE c == Copied(heap[reading.at].n) - 1
    <3>1. \/ reading' = [reading EXCEPT !.pc = "raised"]
          \/ reading' = [reading EXCEPT !.pc = "overrun"]
          \/ /\ reading' = [reading EXCEPT !.pc = "returned", !.text = c]
             /\ c = heap[reading.at].n \/ (reading.size = 2 /\ c = 1)
      BY <1>1, <2>1, TextRead
    <3> HIDE DEF c
    <3> QED
      BY <1>1, <3>1 DEF ReturnsWhole, TextInv, TextTypeOK, Reading
  <2>2. CASE ~ReadText
    BY <1>1, <2>2 DEF TextNext, ReadCall, ReadPointer, ReadAgain, ReadSize, Assign, Move, Reads, ReturnsWhole, textVars
  <2> QED
    BY <2>1, <2>2
<1> QED
  BY <1>1, TextInvariance, PTL DEF TextSpec, TextWhole
=============================================================================
