---------------------------- MODULE EngineProofs ----------------------------
(***************************************************************************)
(* Proofs about the engine's current thread, for any number of callers and *)
(* calls, whatever threads there are and whatever can be read of them;     *)
(* about the list of managed threads and their requests, for lists of any  *)
(* length, whatever threads start and end in whatever memory; and about    *)
(* the engine's targets, for any clients, targets and paths.               *)
(***************************************************************************)
EXTENDS DebuggerThread, ThreadRequests, Bootstrapper, FiniteSetTheorems, TLAPS

-----------------------------------------------------------------------------
(* The engine's current thread: the inductive invariant. *)

(* Where each operation is. *)
Saving == {"save", "lookup", "switch", "teb", "read", "restore"}

Control(x) ==
  LET c == call[x] IN
  /\ c.op \in {"stack", "tls"} => c.pc \in Saving \cup {"idle"}
  /\ c.op = "dump" => c.pc \in {"teb", "read", "registers"}
  /\ c.op = "context" => c.pc \in {"open", "get"}
  /\ c.pc = "get" => c.handle \in {c.wanted, None}
  /\ c.pc = "registers" => c.of # None
  /\ c.pc \in Saving \ {"restore"} => c.of = None

(* As long as nothing is lost, the first caller to save the current thread *)
(* has the one the user has chosen.                                        *)
Kept ==
  ~lost => IF open = {} THEN current = chosen
                        ELSE opener \in open /\ call[opener].saved = chosen

(* The thread that the call x is to read: of an id that is known it is the *)
(* one with that id.                                                       *)
Own(x, i) ==
  IF call[x].op = "tls" /\ Known(call[x].wanted) = {} THEN i = 0
                                                      ELSE i \in Known(call[x].wanted)

(* Unless another caller has switched in its way, a call has before it, or *)
(* has read, the thread it is to read.                                     *)
Undisturbed(x) ==
  LET c == call[x] IN
  /\ c.op \in {"stack", "tls"} =>
       /\ c.pc \in {"switch", "teb"} => Own(x, c.new)
       /\ (c.pc = "teb" /\ x \notin disturbed) => current = c.new
       /\ (c.pc = "read" /\ x \notin disturbed) => Own(x, c.teb)
       /\ (c.pc = "restore" /\ c.of # None /\ x \notin disturbed) => Own(x, c.of)
  /\ (c.op = "tls" /\ c.pc = "lookup" /\ x \notin disturbed) => current = c.saved
  /\ (c.op = "dump" /\ x \notin disturbed) =>
       /\ c.pc = "read" => current = c.teb
       /\ c.pc = "registers" => current = c.of

IInv ==
  /\ TypeOK
  /\ \A x \in Callers : Control(x) /\ Undisturbed(x)
  /\ Kept
  /\ AnswersOwn
  /\ ContextsReal

-----------------------------------------------------------------------------
(* What a step leaves alone, and what an answer has to be. *)

Opens(c) == c.pc \in {"lookup", "switch", "restore"} \/ (c.op # "dump" /\ c.pc \in {"teb", "read"})

\* How a step of x changes the current thread, if it does.
Touches(x) ==
  \/ Unswitched
  \/ current' = current /\ disturbed' \in {disturbed \ {x}, disturbed \cup {x}}
  \/ \E i \in Ids : Switched(x, i)

(* The caller that makes no call is in one of the calls there are.         *)
LEMMA NoCallIsOne ==
  ASSUME DebuggerAssumption
  PROVE  /\ NoCall \in Call /\ ~Opens(NoCall)
         /\ NoCall.op = "stack" /\ NoCall.pc = "idle" /\ NoCall.of = None
<1>1. (CHOOSE s \in SystemIds : TRUE) \in SystemIds
  BY DEF DebuggerAssumption
<1> QED
  BY <1>1 DEF NoCall, Call, Opens, DebuggerAssumption, AllOperations

(* A step of x changes x's call, and of the callers that have saved the    *)
(* current thread no other than x.                                         *)
LEMMA CallTaken ==
  ASSUME TypeOK, NEW x \in Callers, NEW c \in Call, Goes(x, c)
  PROVE  /\ call' \in [Callers -> Call]
         /\ call'[x] = c
         /\ \A y \in Callers \ {x} : call'[y] = call[y]
  BY DEF TypeOK, Goes

(* Types are kept by a step that moves one caller and opens or closes its *)
(* window over the current thread.                                        *)
LEMMA OpenFollows ==
  ASSUME TypeOK, NEW x \in Callers, NEW c \in Call, Goes(x, c),
         open' = IF Opens(c) THEN open \cup {x} ELSE open \ {x},
         current' \in Ids, chosen' \in Ids, running' \subseteq Running
  PROVE  TypeOK'
<1>1. /\ call' \in [Callers -> Call] /\ call'[x] = c
      /\ \A y \in Callers \ {x} : call'[y] = call[y]
  BY CallTaken
<1>2. open = {y \in Callers : Opens(call[y])}
  BY DEF TypeOK, Opens
<1>3. open' = {y \in Callers : Opens(call'[y])}
  BY <1>1, <1>2
<1> QED
  BY <1>1, <1>3 DEF TypeOK, Opens

(* Another caller is exposed to the step and marked, or not exposed to it. *)
LEMMA OthersStay ==
  ASSUME TypeOK, NEW x \in Callers, NEW c \in Call, Goes(x, c), Touches(x),
         \A y \in Callers : Control(y) /\ Undisturbed(y)
  PROVE  \A y \in Callers \ {x} : Control(y)' /\ Undisturbed(y)'
<1> SUFFICES ASSUME NEW y \in Callers \ {x} PROVE Control(y)' /\ Undisturbed(y)'
  OBVIOUS
<1>1. call'[y] = call[y]
  BY CallTaken
<1>2. Control(y)'
  BY <1>1 DEF Control
<1>3. \/ current' = current /\ (y \in disturbed' <=> y \in disturbed)
      \/ ~Exposed(y) /\ (y \in disturbed' <=> y \in disturbed)
      \/ y \in disturbed'
  BY DEF Touches, Unswitched, Switched
<1>4. Undisturbed(y)'
  BY <1>1, <1>3 DEF Undisturbed, Exposed, Own, Known
<1> QED
  BY <1>2, <1>4

(* The first to save the current thread keeps it through every step but    *)
(* those that save it, put it back or choose another.                      *)
LEMMA KeptOn ==
  ASSUME TypeOK, Kept, NEW x \in Callers, NEW c \in Call, Goes(x, c),
         c.saved = call[x].saved \/ x \notin open,
         UNCHANGED <<chosen, history>>, open = {} => current' = current
  PROVE  Kept'
<1>1. /\ call'[x] = c
      /\ \A y \in Callers \ {x} : call'[y] = call[y]
  BY CallTaken
<1>2. open \subseteq Callers
  BY DEF TypeOK
<1> QED
  BY <1>1, <1>2 DEF Kept, history

(* What may be answered. *)
OwnAnswer(a) ==
  (a.hr = "S_OK" /\ a.clean) =>
    CASE a.op = "stack" -> a.of # {} /\ \A i \in a.of : SystemId[i] = a.wanted
      [] a.op = "tls" -> IF Known(a.wanted) = {} THEN a.of = {0} ELSE a.of = Known(a.wanted)
      [] a.op = "dump" -> Cardinality(a.of) = 1
      [] OTHER -> TRUE
RealAnswer(a) ==
  (a.op = "context" /\ a.hr = "S_OK") => a.of = {a.wanted} /\ a.wanted \in Running

AnswerOf(x, hr, ofs) ==
  [op |-> call[x].op, wanted |-> call[x].wanted, hr |-> hr, of |-> ofs, clean |-> x \notin disturbed]

(* The answers given so far stay right when none is added.                *)
LEMMA AnswersStay ==
  ASSUME AnswersOwn, ContextsReal, UNCHANGED answers
  PROVE  AnswersOwn' /\ ContextsReal'
  BY DEF AnswersOwn, ContextsReal, Known

(* The answers stay right when the one added is right.                    *)
LEMMA Answered ==
  ASSUME AnswersOwn, ContextsReal, NEW x \in Callers, NEW hr, NEW ofs, Answer(x, hr, ofs),
         OwnAnswer(AnswerOf(x, hr, ofs)), RealAnswer(AnswerOf(x, hr, ofs))
  PROVE  AnswersOwn' /\ ContextsReal'
<1>1. answers' = answers \cup {AnswerOf(x, hr, ofs)}
  BY DEF Answer, AnswerOf
<1>2. \A a \in answers : OwnAnswer(a) /\ RealAnswer(a)
  BY DEF AnswersOwn, ContextsReal, OwnAnswer, RealAnswer
<1>3. \A a \in answers' : OwnAnswer(a) /\ RealAnswer(a)
  BY <1>1, <1>2
<1>4. AnswersOwn'
  BY <1>3 DEF AnswersOwn, OwnAnswer, Known
<1>5. ContextsReal'
  BY <1>3 DEF ContextsReal, RealAnswer
<1> QED
  BY <1>4, <1>5

(* A failure says nothing of any thread. *)
LEMMA FailureSaysNothing ==
  ASSUME NEW x \in Callers, NEW ofs
  PROVE  OwnAnswer(AnswerOf(x, "failed", ofs)) /\ RealAnswer(AnswerOf(x, "failed", ofs))
<1>1. AnswerOf(x, "failed", ofs).hr # "S_OK"
  BY DEF AnswerOf
<1> QED
  BY <1>1 DEF OwnAnswer, RealAnswer

-----------------------------------------------------------------------------
(* The steps of a call. *)

(* What is left to show of a step of x.                                    *)
LEMMA StepKeeps ==
  ASSUME IInv, NEW x \in Callers, NEW c \in Call, Goes(x, c), Touches(x),
         Control(x)', Undisturbed(x)', TypeOK', Kept', AnswersOwn', ContextsReal'
  PROVE  IInv'
<1>1. \A y \in Callers \ {x} : Control(y)' /\ Undisturbed(y)'
  BY OthersStay DEF IInv
<1> QED
  BY <1>1 DEF IInv

(* A request begins with what its caller sees of the engine.              *)
LEMMA BeginKeeps ==
  ASSUME DebuggerAssumption, IInv, NEW x \in Callers, Begin(x)
  PROVE  IInv'
<1>1. PICK op \in Operations, s \in SystemIds :
        Goes(x, [NoCall EXCEPT !.op = op, !.wanted = s,
                   !.pc = CASE op = "dump" -> "teb" [] op = "context" -> "open"
                            [] OTHER -> "save"])
  BY DEF Begin
<1>2. PICK c \in Call :
        /\ Goes(x, c) /\ ~Opens(c) /\ c.op = op /\ c.of = None
        /\ c.pc = IF op = "dump" THEN "teb" ELSE IF op = "context" THEN "open" ELSE "save"
  <2> DEFINE d == [NoCall EXCEPT !.op = op, !.wanted = s,
                     !.pc = CASE op = "dump" -> "teb" [] op = "context" -> "open"
                              [] OTHER -> "save"]
  <2>1. op \in AllOperations
    BY DEF DebuggerAssumption
  <2>2. d.pc = IF op = "dump" THEN "teb" ELSE IF op = "context" THEN "open" ELSE "save"
    BY NoCallIsOne DEF Call
  <2>3. d \in Call /\ d.op = op /\ d.of = None
    BY <2>1, <2>2, NoCallIsOne DEF Call
  <2>4. ~Opens(d)
    BY <2>2, <2>3 DEF Opens
  <2> QED
    BY <1>1, <2>2, <2>3, <2>4
<1>3. /\ x \notin open
      /\ UNCHANGED <<current, chosen, running, history, answers>>
      /\ disturbed' = disturbed \ {x}
  BY DEF Begin, Idle, IInv, TypeOK
<1>4. TypeOK /\ Touches(x) /\ call'[x] = c
  BY <1>2, <1>3, CallTaken DEF IInv, Touches
<1>5. op \in AllOperations
  BY DEF DebuggerAssumption
<1>6. Control(x)' /\ Undisturbed(x)'
  BY <1>2, <1>4, <1>5 DEF Control, Undisturbed, Saving, AllOperations
<1>7. TypeOK'
  BY <1>2, <1>3, <1>4, OpenFollows DEF TypeOK, history
<1>8. Kept'
  BY <1>2, <1>3, <1>4, KeptOn DEF IInv
<1>9. AnswersOwn' /\ ContextsReal'
  BY <1>3, AnswersStay DEF IInv
<1> QED
  BY <1>2, <1>4, <1>6, <1>7, <1>8, <1>9, StepKeeps

(* Remembering the current thread keeps the inductive invariant.          *)
LEMMA SaveKeeps ==
  ASSUME DebuggerAssumption, IInv, NEW x \in Callers, Save(x)
  PROVE  IInv'
<1> DEFINE c == [call[x] EXCEPT !.pc = "lookup", !.saved = current]
<1>1. /\ call[x] \in Call /\ call[x].pc = "save" /\ call[x].op \in {"stack", "tls"}
      /\ call[x].of = None
  BY DEF Save, IInv, TypeOK, Control, Saving, Call, AllOperations
<1>2. /\ c \in Call /\ Goes(x, c) /\ Opens(c) /\ c.op = call[x].op /\ c.pc = "lookup"
      /\ c.saved = current /\ c.of = None
  BY <1>1 DEF Save, IInv, TypeOK, Call, Opens
<1> HIDE DEF c
<1>3. TypeOK /\ Touches(x) /\ x \notin open /\ call'[x] = c
  BY <1>1, <1>2, CallTaken DEF IInv, TypeOK, Touches, Save
<1>4. Control(x)' /\ Undisturbed(x)'
  BY <1>1, <1>2, <1>3 DEF Control, Undisturbed, Saving, Save, Unswitched
<1>5. TypeOK'
  BY <1>2, <1>3, OpenFollows DEF TypeOK, Save, Unswitched
<1>6. Kept'
  <2>1. \A y \in open : y # x /\ call'[y] = call[y]
    BY <1>2, <1>3, CallTaken DEF TypeOK
  <2> QED
    BY <2>1, <1>2, <1>3 DEF IInv, Kept, Save, Unswitched
<1>7. AnswersOwn' /\ ContextsReal'
  BY AnswersStay DEF IInv, Save
<1> QED
  BY <1>2, <1>3, <1>4, <1>5, <1>6, <1>7, StepKeeps

(* So does taking 0 for it, where the engine does not name it.            *)
LEMMA SaveRefusedKeeps ==
  ASSUME DebuggerAssumption, IInv, NEW x \in Callers, SaveRefused(x)
  PROVE  IInv'
<1> DEFINE c == [call[x] EXCEPT !.pc = "lookup", !.saved = 0]
<1>1. /\ call[x] \in Call /\ call[x].pc = "save" /\ call[x].op \in {"stack", "tls"}
      /\ call[x].of = None
  BY DEF SaveRefused, IInv, TypeOK, Control, Saving, Call, AllOperations
<1>2. /\ c \in Call /\ Goes(x, c) /\ Opens(c) /\ c.op = call[x].op /\ c.pc = "lookup"
      /\ c.saved = 0 /\ c.of = None
  BY <1>1 DEF SaveRefused, DebuggerAssumption, Call, Opens
<1> HIDE DEF c
<1>3. TypeOK /\ Touches(x) /\ x \notin open /\ call'[x] = c
  BY <1>1, <1>2, CallTaken DEF IInv, TypeOK, Touches, SaveRefused, Unswitched
<1>4. Control(x)' /\ Undisturbed(x)'
  BY <1>1, <1>2, <1>3 DEF Control, Undisturbed, Saving, SaveRefused
<1>5. TypeOK'
  BY <1>2, <1>3, OpenFollows DEF TypeOK, SaveRefused
<1>6. Kept'
  <2>1. \A y \in open : y # x /\ call'[y] = call[y]
    BY <1>2, <1>3, CallTaken DEF TypeOK
  <2> QED
    BY <2>1, <1>2, <1>3 DEF IInv, Kept, SaveRefused
<1>7. AnswersOwn' /\ ContextsReal'
  BY AnswersStay DEF IInv, SaveRefused
<1> QED
  BY <1>2, <1>3, <1>4, <1>5, <1>6, <1>7, StepKeeps

(* Looking up the engine's number of a system thread keeps it.            *)
LEMMA LookUpKeeps ==
  ASSUME DebuggerAssumption, IInv, NEW x \in Callers, LookUp(x)
  PROVE  IInv'
<1>1. /\ call[x] \in Call /\ call[x].pc = "lookup" /\ call[x].op \in {"stack", "tls"}
      /\ call[x].of = None
  BY DEF LookUp, IInv, TypeOK, Control, Saving, Call, AllOperations
<1> DEFINE Found(c) ==
      /\ Goes(x, c) /\ Opens(c) /\ c.op = call[x].op /\ c.wanted = call[x].wanted
      /\ c.saved = call[x].saved /\ c.of = None
      /\ c.pc \in {"switch", "teb", "restore"}
      /\ c.pc = "teb" => c.op = "tls" /\ c.new = c.saved
      /\ c.pc # "restore" =>
           IF c.op = "tls" /\ Known(c.wanted) = {} THEN c.new = 0 ELSE c.new \in Known(c.wanted)
<1>2. PICK c \in Call : Found(c)
  <2>1. ASSUME NEW i \in Known(call[x].wanted), Goes(x, Switch(call[x], i))
        PROVE  Switch(call[x], i) \in Call /\ Found(Switch(call[x], i))
    BY <1>1, <2>1 DEF Switch, Known, Call, Opens
  <2>2. ASSUME Known(call[x].wanted) = {}, call[x].op = "tls", Goes(x, Switch(call[x], 0))
        PROVE  Switch(call[x], 0) \in Call /\ Found(Switch(call[x], 0))
    BY <1>1, <2>2 DEF Switch, Call, Opens, DebuggerAssumption
  <2> DEFINE r == [call[x] EXCEPT !.pc = "restore"]
  <2>3. ASSUME Goes(x, r)
        PROVE  r \in Call /\ Found(r)
    BY <1>1, <2>3 DEF Call, Opens
  <2> HIDE DEF Found, r
  <2>4. \/ \E i \in Known(call[x].wanted) : Goes(x, Switch(call[x], i))
        \/ Known(call[x].wanted) = {} /\ call[x].op = "tls" /\ Goes(x, Switch(call[x], 0))
        \/ Goes(x, r)
    BY DEF LookUp, r
  <2> QED
    BY <2>1, <2>2, <2>3, <2>4
<1>3. TypeOK /\ Touches(x) /\ x \in open /\ call'[x] = c
  BY <1>1, <1>2, CallTaken DEF IInv, TypeOK, Touches, LookUp
<1>4. Control(x)' /\ Undisturbed(x)'
  BY <1>1, <1>2, <1>3 DEF IInv, Control, Undisturbed, Saving, LookUp, Unswitched, Own, Known
<1>5. TypeOK'
  BY <1>2, <1>3, OpenFollows DEF TypeOK, LookUp, Unswitched, history
<1>6. Kept'
  BY <1>2, <1>3, KeptOn DEF IInv, LookUp, Unswitched
<1>7. AnswersOwn' /\ ContextsReal'
  BY AnswersStay DEF IInv, LookUp
<1> QED
  BY <1>2, <1>3, <1>4, <1>5, <1>6, <1>7, StepKeeps

(* Making the thread asked for the current one keeps it.                  *)
LEMMA SwitchThreadKeeps ==
  ASSUME DebuggerAssumption, IInv, NEW x \in Callers, SwitchThread(x)
  PROVE  IInv'
<1> DEFINE c == [call[x] EXCEPT !.pc = "teb"]
<1>1. /\ call[x] \in Call /\ call[x].pc = "switch" /\ call[x].op \in {"stack", "tls"}
      /\ call[x].of = None
  BY DEF SwitchThread, IInv, TypeOK, Control, Saving, Call, AllOperations
<1>2. /\ c \in Call /\ Goes(x, c) /\ Opens(c) /\ c.op = call[x].op /\ c.wanted = call[x].wanted
      /\ c.saved = call[x].saved /\ c.new = call[x].new /\ c.pc = "teb" /\ c.of = None
      /\ c.new \in Ids
  BY <1>1 DEF SwitchThread, Call, Opens
<1> HIDE DEF c
<1>3. TypeOK /\ Touches(x) /\ x \in open /\ call'[x] = c /\ current' = c.new
  BY <1>1, <1>2, CallTaken DEF IInv, TypeOK, Touches, SwitchThread, Switched
<1>4. Control(x)' /\ Undisturbed(x)'
  BY <1>1, <1>2, <1>3 DEF IInv, Control, Undisturbed, Saving, Own, Known
<1>5. TypeOK'
  BY <1>2, <1>3, OpenFollows DEF TypeOK, SwitchThread, history
<1>6. Kept'
  BY <1>2, <1>3, KeptOn DEF IInv, SwitchThread
<1>7. AnswersOwn' /\ ContextsReal'
  BY AnswersStay DEF IInv, SwitchThread
<1> QED
  BY <1>2, <1>3, <1>4, <1>5, <1>6, <1>7, StepKeeps

(* So does not making it current, where the engine refuses.               *)
LEMMA SwitchRefusedKeeps ==
  ASSUME DebuggerAssumption, IInv, NEW x \in Callers, SwitchRefused(x)
  PROVE  IInv'
<1>1. /\ call[x] \in Call /\ call[x].pc = "switch" /\ call[x].op \in {"stack", "tls"}
      /\ call[x].of = None
  BY DEF SwitchRefused, IInv, TypeOK, Control, Saving, Call, AllOperations
<1> DEFINE c == [call[x] EXCEPT !.pc = IF call[x].op = "stack" THEN "restore" ELSE "teb"]
<1>2. /\ c \in Call /\ Opens(c) /\ c.op = call[x].op /\ c.wanted = call[x].wanted
      /\ c.saved = call[x].saved /\ c.new = call[x].new /\ c.of = None
      /\ c.pc = (IF c.op = "stack" THEN "restore" ELSE "teb")
  BY <1>1 DEF Call, Opens
<1>3. /\ Goes(x, c) /\ current' = current
      /\ disturbed' = IF c.op = "stack" THEN disturbed ELSE disturbed \cup {x}
      /\ UNCHANGED <<chosen, running, history, answers>>
  BY <1>1 DEF SwitchRefused
<1> HIDE DEF c
<1>4. TypeOK /\ Touches(x) /\ x \in open /\ call'[x] = c
  BY <1>1, <1>2, <1>3, CallTaken DEF IInv, TypeOK, Touches, Unswitched
<1>5. Control(x)' /\ Undisturbed(x)'
  BY <1>1, <1>2, <1>3, <1>4 DEF IInv, Control, Undisturbed, Saving, Own, Known
<1>6. TypeOK'
  BY <1>2, <1>3, <1>4, OpenFollows DEF TypeOK, history
<1>7. Kept'
  BY <1>2, <1>3, <1>4, KeptOn DEF IInv
<1>8. AnswersOwn' /\ ContextsReal'
  BY <1>3, AnswersStay DEF IInv
<1> QED
  BY <1>2, <1>3, <1>4, <1>5, <1>6, <1>7, <1>8, StepKeeps

(* Asking the engine for the current TEB keeps it.                        *)
LEMMA AskForTebKeeps ==
  ASSUME DebuggerAssumption, IInv, NEW x \in Callers, AskForTeb(x)
  PROVE  IInv'
<1> DEFINE c == [call[x] EXCEPT !.pc = "read", !.teb = current]
<1>1. /\ call[x] \in Call /\ call[x].pc = "teb" /\ call[x].op \in {"stack", "tls", "dump"}
      /\ call[x].op # "dump" => call[x].of = None
  BY DEF AskForTeb, IInv, TypeOK, Control, Saving, Call, AllOperations
<1>2. /\ c \in Call /\ Goes(x, c) /\ c.op = call[x].op /\ c.wanted = call[x].wanted
      /\ c.saved = call[x].saved /\ c.teb = current /\ c.pc = "read" /\ c.of = call[x].of
      /\ c.new = call[x].new
  BY <1>1 DEF AskForTeb, Call, IInv, TypeOK
<1> HIDE DEF c
<1>3. TypeOK /\ Touches(x) /\ call'[x] = c /\ (Opens(c) <=> x \in open)
  BY <1>1, <1>2, CallTaken DEF IInv, TypeOK, Touches, AskForTeb, Opens
<1>4. Control(x)' /\ Undisturbed(x)'
  BY <1>1, <1>2, <1>3 DEF IInv, Control, Undisturbed, Saving, Own, Known, AskForTeb, Unswitched
<1>5. TypeOK'
  BY <1>2, <1>3, OpenFollows DEF TypeOK, AskForTeb, history, Unswitched
<1>6. Kept'
  BY <1>2, <1>3, KeptOn DEF IInv, AskForTeb, Unswitched
<1>7. AnswersOwn' /\ ContextsReal'
  BY AnswersStay DEF IInv, AskForTeb
<1> QED
  BY <1>2, <1>3, <1>4, <1>5, <1>6, <1>7, StepKeeps

(* A call that has answered is no call, and one that had not saved the     *)
(* current thread leaves nothing behind.                                   *)
LEMMA AnswerKeeps ==
  ASSUME DebuggerAssumption, IInv, NEW x \in Callers, NEW hr, NEW ofs, Answer(x, hr, ofs),
         x \notin open, Unswitched, UNCHANGED <<chosen, running, history>>,
         OwnAnswer(AnswerOf(x, hr, ofs)), RealAnswer(AnswerOf(x, hr, ofs))
  PROVE  IInv'
<1>1. NoCall \in Call /\ ~Opens(NoCall) /\ NoCall.op = "stack" /\ NoCall.pc = "idle"
  BY NoCallIsOne
<1>2. TypeOK /\ Touches(x) /\ Goes(x, NoCall) /\ call'[x] = NoCall
  BY <1>1, CallTaken DEF IInv, Touches, Answer
<1>3. Control(x)' /\ Undisturbed(x)'
  BY <1>1, <1>2 DEF Control, Undisturbed, Saving
<1>4. TypeOK'
  BY <1>1, <1>2, OpenFollows DEF TypeOK, history, Unswitched
<1>5. Kept'
  BY <1>1, <1>2, KeptOn DEF IInv, Unswitched
<1>6. AnswersOwn' /\ ContextsReal'
  BY Answered DEF IInv
<1> QED
  BY <1>1, <1>2, <1>3, <1>4, <1>5, <1>6, StepKeeps

(* Reading the TEB keeps it.                                              *)
LEMMA ReadTebKeeps ==
  ASSUME DebuggerAssumption, IInv, NEW x \in Callers, ReadTeb(x)
  PROVE  IInv'
<1>1. /\ call[x] \in Call /\ call[x].pc = "read" /\ call[x].op \in {"stack", "tls", "dump"}
      /\ call[x].teb \in Ids /\ call[x].teb # None
  BY DEF ReadTeb, IInv, TypeOK, Control, Saving, Call, AllOperations, DebuggerAssumption
<1>2. CASE call[x].op = "dump" /\ Answer(x, "failed", {})
  <2>1. x \notin open
    BY <1>1, <1>2 DEF IInv, TypeOK
  <2> QED
    BY <1>2, <2>1, FailureSaysNothing, AnswerKeeps DEF ReadTeb
<1>3. CASE ~(call[x].op = "dump" /\ Answer(x, "failed", {}))
  <2> DEFINE Read(c) ==
        /\ Goes(x, c) /\ c.op = call[x].op /\ c.wanted = call[x].wanted /\ c.saved = call[x].saved
        /\ IF c.op = "dump" THEN c.pc = "registers" /\ c.of = call[x].teb
                            ELSE c.pc = "restore" /\ c.of \in {call[x].teb, None}
  <2>1. PICK c \in Call : Read(c)
    <3>1. PICK of \in {call[x].teb, None} :
            \/ call[x].op # "dump" /\ Goes(x, [call[x] EXCEPT !.pc = "restore", !.of = of])
            \/ call[x].op = "dump" /\ of = call[x].teb
               /\ Goes(x, [call[x] EXCEPT !.pc = "registers", !.of = of])
      BY <1>1, <1>3 DEF ReadTeb, Reads
    <3> DEFINE r == [call[x] EXCEPT !.pc = "restore", !.of = of]
               g == [call[x] EXCEPT !.pc = "registers", !.of = of]
    <3>2. ASSUME call[x].op # "dump", Goes(x, r) PROVE r \in Call /\ Read(r)
      BY <1>1, <3>2 DEF Call
    <3>3. ASSUME call[x].op = "dump", of = call[x].teb, Goes(x, g) PROVE g \in Call /\ Read(g)
      BY <1>1, <3>3 DEF Call
    <3> HIDE DEF Read
    <3> QED
      BY <3>1, <3>2, <3>3
  <2>2. UNCHANGED answers /\ Unswitched /\ UNCHANGED <<chosen, running, history>>
    BY <1>3 DEF ReadTeb
  <2>3. TypeOK /\ Touches(x) /\ call'[x] = c /\ (Opens(c) <=> x \in open)
    BY <1>1, <2>1, <2>2, CallTaken DEF IInv, TypeOK, Touches, Opens
  <2>4. Control(x)' /\ Undisturbed(x)'
    BY <1>1, <2>1, <2>2, <2>3 DEF IInv, Control, Undisturbed, Saving, Own, Known, Unswitched
  <2>5. TypeOK'
    BY <2>1, <2>2, <2>3, OpenFollows DEF TypeOK, history, Unswitched
  <2>6. Kept'
    BY <2>1, <2>2, <2>3, KeptOn DEF IInv, Unswitched
  <2>7. AnswersOwn' /\ ContextsReal'
    BY <2>2, AnswersStay DEF IInv
  <2> QED
    BY <2>1, <2>3, <2>4, <2>5, <2>6, <2>7, StepKeeps
<1> QED
  BY <1>2, <1>3

(* Reading the current thread's context keeps it.                         *)
LEMMA ReadRegistersKeeps ==
  ASSUME DebuggerAssumption, IInv, NEW x \in Callers, ReadRegisters(x)
  PROVE  IInv'
<1> DEFINE a == AnswerOf(x, "S_OK", {call[x].of, current})
<1>1. /\ call[x].pc = "registers" /\ call[x].op = "dump" /\ x \notin open
  BY DEF ReadRegisters, IInv, TypeOK, Control, Saving, Call, AllOperations
<1>2. a.op = "dump" /\ a.of = {call[x].of, current} /\ (a.clean <=> x \notin disturbed)
  BY <1>1 DEF AnswerOf
<1>3. a.clean => a.of = {current}
  BY <1>1, <1>2 DEF IInv, Undisturbed
<1>4. Cardinality({current}) = 1
  BY FS_Singleton
<1>5. OwnAnswer(a) /\ RealAnswer(a)
  BY <1>2, <1>3, <1>4 DEF OwnAnswer, RealAnswer
<1> QED
  BY <1>1, <1>5, AnswerKeeps DEF ReadRegisters

(* Going back to the thread that was remembered keeps it, and so does a    *)
(* failure to.                                                             *)
LEMMA RestoreKeeps ==
  ASSUME DebuggerAssumption, IInv, NEW x \in Callers, Restore(x) \/ RestoreRefused(x)
  PROVE  IInv'
<1> DEFINE hr == IF call[x].of = None THEN "failed" ELSE "S_OK"
           a == AnswerOf(x, hr, {call[x].of} \ {None})
<1>1. /\ call[x].pc = "restore" /\ call[x].op \in {"stack", "tls"} /\ x \in open
      /\ call[x].saved \in Ids
  BY DEF Restore, RestoreRefused, IInv, TypeOK, Control, Saving, Call, AllOperations
<1>2. NoCall \in Call /\ ~Opens(NoCall) /\ NoCall.op = "stack" /\ NoCall.pc = "idle"
  BY NoCallIsOne
<1>3. /\ TypeOK /\ Goes(x, NoCall) /\ open' = open \ {x} /\ Touches(x)
      /\ UNCHANGED <<chosen, running, opener>>
      /\ \/ current' = call[x].saved /\ lost' = (lost \/ (x = opener /\ open # {x}))
         \/ current' = current /\ lost' = (lost \/ x = opener)
      /\ Answer(x, hr, {call[x].of} \ {None})
  <2>1. CASE Restore(x)
    BY <1>1, <2>1 DEF IInv, Restore, Close, Answer, Touches, Switched
  <2>2. CASE RestoreRefused(x)
    BY <1>1, <2>2 DEF IInv, RestoreRefused, Close, Answer, Touches, Unswitched
  <2> QED
    BY <2>1, <2>2
<1>4. /\ call'[x] = NoCall
      /\ \A y \in Callers \ {x} : call'[y] = call[y]
  BY <1>2, <1>3, CallTaken
<1>5. Control(x)' /\ Undisturbed(x)'
  BY <1>2, <1>4 DEF Control, Undisturbed, Saving
<1>6. TypeOK'
  BY <1>1, <1>2, <1>3, OpenFollows DEF TypeOK
<1>7. Kept'
  <2>1. open \subseteq Callers
    BY <1>3 DEF TypeOK
  <2> QED
    BY <1>1, <1>3, <1>4, <2>1 DEF IInv, Kept
<1>8. AnswersOwn' /\ ContextsReal'
  <2>1. CASE call[x].of = None
    BY <1>3, <2>1, FailureSaysNothing, Answered DEF IInv
  <2>2. CASE call[x].of # None
    <3>1. /\ hr = "S_OK" /\ a.op = call[x].op /\ a.wanted = call[x].wanted
          /\ a.of = {call[x].of} /\ (a.clean <=> x \notin disturbed)
      BY <2>2 DEF AnswerOf
    <3>2. a.clean => Own(x, call[x].of)
      BY <1>1, <2>2, <3>1 DEF IInv, Undisturbed
    <3>3. \A i, j \in Known(a.wanted) : i = j
      BY DEF Known, DebuggerAssumption
    <3>4. a.clean => IF a.op = "tls" /\ Known(a.wanted) = {} THEN a.of = {0}
                                                             ELSE a.of = Known(a.wanted)
      BY <3>1, <3>2, <3>3 DEF Own
    <3>5. a.of # {} /\ a.op # "context"
      BY <1>1, <3>1
    <3> HIDE DEF a
    <3>6. OwnAnswer(a) /\ RealAnswer(a)
      BY <1>1, <3>1, <3>4, <3>5 DEF OwnAnswer, RealAnswer, Known
    <3> USE DEF a
    <3> QED
      BY <1>3, <3>1, <3>6, Answered DEF IInv
  <2> QED
    BY <2>1, <2>2
<1> QED
  BY <1>2, <1>3, <1>5, <1>6, <1>7, <1>8, StepKeeps

(* Opening a thread by its system number keeps it.                        *)
LEMMA OpenThreadKeeps ==
  ASSUME DebuggerAssumption, IInv, NEW x \in Callers, OpenThread(x)
  PROVE  IInv'
<1> DEFINE c == [call[x] EXCEPT !.pc = "get",
                   !.handle = IF call[x].wanted \in running THEN call[x].wanted ELSE None]
<1>1. call[x] \in Call /\ call[x].pc = "open" /\ call[x].op = "context" /\ x \notin open
  BY DEF OpenThread, IInv, TypeOK, Control, Saving, Call, AllOperations
<1>2. /\ c \in Call /\ Goes(x, c) /\ ~Opens(c) /\ c.op = "context" /\ c.pc = "get"
      /\ c.handle \in {c.wanted, None} /\ c.saved = call[x].saved
  BY <1>1 DEF OpenThread, Call, Opens
<1> HIDE DEF c
<1>3. TypeOK /\ Touches(x) /\ call'[x] = c
  BY <1>2, CallTaken DEF IInv, Touches, OpenThread
<1>4. Control(x)' /\ Undisturbed(x)'
  BY <1>2, <1>3 DEF Control, Undisturbed, Saving
<1>5. TypeOK'
  BY <1>1, <1>2, <1>3, OpenFollows DEF TypeOK, OpenThread, history, Unswitched
<1>6. Kept'
  BY <1>2, <1>3, KeptOn DEF IInv, OpenThread, Unswitched
<1>7. AnswersOwn' /\ ContextsReal'
  BY AnswersStay DEF IInv, OpenThread
<1> QED
  BY <1>2, <1>3, <1>4, <1>5, <1>6, <1>7, StepKeeps

(* Reading the context of an opened thread keeps it.                      *)
LEMMA GetContextKeeps ==
  ASSUME DebuggerAssumption, IInv, NEW x \in Callers, GetContext(x)
  PROVE  IInv'
<1> DEFINE a == AnswerOf(x, "S_OK", {call[x].handle})
<1>1. /\ call[x].pc = "get" /\ call[x].op = "context" /\ x \notin open
      /\ call[x].handle \in {call[x].wanted, None}
  BY DEF GetContext, IInv, TypeOK, Control, Saving, Call, AllOperations
<1>2. CASE call[x].handle \in running
  <2>1. call[x].handle = call[x].wanted /\ call[x].wanted \in Running
    BY <1>1, <1>2 DEF IInv, TypeOK, DebuggerAssumption
  <2>2. a.op = "context" /\ a.of = {a.wanted} /\ a.wanted \in Running
    BY <1>1, <2>1 DEF AnswerOf
  <2>3. OwnAnswer(a) /\ RealAnswer(a)
    BY <2>2 DEF OwnAnswer, RealAnswer
  <2> QED
    BY <1>1, <1>2, <2>3, AnswerKeeps DEF GetContext
<1>3. CASE call[x].handle \notin running
  BY <1>1, <1>3, FailureSaysNothing, AnswerKeeps DEF GetContext
<1> QED
  BY <1>2, <1>3

-----------------------------------------------------------------------------
(* The steps of others. *)

(* A switch by the user of the debugger keeps it: every open window is    *)
(* marked as disturbed.                                                   *)
LEMMA UserSwitchesKeeps ==
  ASSUME DebuggerAssumption, IInv, UserSwitches
  PROVE  IInv'
<1> DEFINE x == Commands
<1>1. x \in Callers /\ TypeOK /\ call[x] \in Call /\ call[x].pc = "idle"
  BY DEF IInv, TypeOK, UserSwitches, Idle, DebuggerAssumption
<1>2. PICK i \in Ids : chosen' = i /\ Switched(x, i)
  BY DEF UserSwitches
<1>3. Goes(x, call[x])
  BY <1>1 DEF Goes, UserSwitches, TypeOK
<1>4. Touches(x) /\ current' = i /\ call'[x] = call[x]
  BY <1>2 DEF Touches, Switched, UserSwitches
<1>5. Control(x)' /\ Undisturbed(x)'
  BY <1>1, <1>4 DEF IInv, Control, Undisturbed, Saving
<1>6. TypeOK'
  BY <1>1, <1>2, <1>4 DEF TypeOK, UserSwitches
<1>7. Kept'
  BY <1>2, <1>4 DEF Kept, UserSwitches
<1>8. AnswersOwn' /\ ContextsReal'
  BY AnswersStay DEF IInv, UserSwitches
<1> QED
  BY <1>1, <1>3, <1>4, <1>5, <1>6, <1>7, <1>8, StepKeeps

(* Steps that touch neither calls nor answers keep it.                    *)
LEMMA OthersKeep ==
  ASSUME IInv, UNCHANGED <<current, chosen, call, history, disturbed, answers>>, running' \subseteq running
  PROVE  IInv'
<1>1. TypeOK'
  BY DEF IInv, TypeOK, history
<1>2. \A y \in Callers : Control(y)' /\ Undisturbed(y)'
  BY DEF IInv, Control, Undisturbed, Own, Known
<1>3. Kept'
  BY DEF IInv, Kept, history
<1>4. AnswersOwn' /\ ContextsReal'
  BY AnswersStay DEF IInv
<1> QED
  BY <1>1, <1>2, <1>3, <1>4 DEF IInv

-----------------------------------------------------------------------------
(* The initial state satisfies the inductive invariant.                   *)
LEMMA InitIInv ==
  ASSUME DebuggerAssumption, Init
  PROVE  IInv
<1>1. NoCall \in Call /\ ~Opens(NoCall) /\ NoCall.op = "stack" /\ NoCall.pc = "idle"
  BY NoCallIsOne
<1>2. \A x \in Callers : call[x] = NoCall
  BY DEF Init
<1>3. TypeOK
  BY <1>1 DEF Init, TypeOK, Opens
<1>4. \A x \in Callers : Control(x) /\ Undisturbed(x)
  BY <1>1, <1>2 DEF Control, Undisturbed, Saving
<1> QED
  BY <1>3, <1>4 DEF IInv, Init, Kept, AnswersOwn, ContextsReal

(* Every step preserves the inductive invariant.                          *)
LEMMA NextIInv ==
  ASSUME DebuggerAssumption, IInv, [Next]_vars
  PROVE  IInv'
<1>1. CASE UserSwitches
  BY <1>1, UserSwitchesKeeps
<1>2. CASE ThreadEnds
  BY <1>2, OthersKeep DEF ThreadEnds
<1>3. ASSUME NEW x \in Callers, Begin(x) PROVE IInv'
  BY <1>3, BeginKeeps
<1>4. ASSUME NEW x \in Callers, CallStep(x) PROVE IInv'
  BY <1>4, SaveKeeps, SaveRefusedKeeps, LookUpKeeps, SwitchThreadKeeps, SwitchRefusedKeeps,
     AskForTebKeeps, ReadTebKeeps, ReadRegistersKeeps, RestoreKeeps, OpenThreadKeeps,
     GetContextKeeps DEF CallStep
<1>5. CASE UNCHANGED vars
  BY <1>5, OthersKeep DEF vars, history
<1> QED
  BY <1>1, <1>2, <1>3, <1>4, <1>5 DEF Next

(* The invariant holds of every state, however the commands of the         *)
(* debugger and the threads of scripts overlap, whatever fails in their    *)
(* calls and whenever the user chooses another thread.                     *)
THEOREM Invariance == ASSUME DebuggerAssumption PROVE Spec => []IInv
<1>1. Init => IInv
  BY InitIInv
<1>2. IInv /\ [Next]_vars => IInv'
  BY NextIInv
<1> QED
  BY <1>1, <1>2, PTL DEF Spec

(* GetThreadStack and GetTLSValue put back the thread the user has chosen, *)
(* on every way out of them, if the engine lets them; !dumpstackobjects,   *)
(* GetThreadStack and GetTLSValue answer of the thread asked for where no  *)
(* other caller has switched in between, nor a failure of the engine gone  *)
(* unnoticed; and a context that GetThreadContext answers is of a thread of*)
(* this machine with the id that was asked for.                            *)
THEOREM AnswersCorrect == ASSUME DebuggerAssumption PROVE Spec => []ThreadAnswers
<1>1. IInv => ThreadAnswers
  BY DEF IInv, ThreadAnswers, Kept, Restored
<1> QED
  BY <1>1, Invariance, PTL

-----------------------------------------------------------------------------
(* The list of managed threads.  What its proofs go by of it: *)

Id(x) == mem.at[x].id
NextOf(x) == mem.at[x].next
NewId(x) == mem'.at[x].id

Numbered ==
  /\ \A x \in Nodes : Id(x) <= ids
  /\ \A x \in mem.linked : Id(x) # 0
  /\ \A x, y \in mem.linked : Id(x) = Id(y) => x = y

(* Every link leads to a thread that started later, be it the link of one  *)
(* that has ended.                                                         *)
LaterOn ==
  /\ mem.first # Null => Id(mem.first) > 0
  /\ \A x \in Nodes : (Id(x) > 0 /\ NextOf(x) # Null) => Id(NextOf(x)) > Id(x)

(* Who goes on to the node to from the thread i misses none that lasts.    *)
Misses(to, i) == {y \in lasting : y > i /\ (to = Null \/ Id(to) > y)}
Unbroken ==
  ~reused => /\ Misses(mem.first, 0) = {}
             /\ \A x \in Nodes : Id(x) > 0 => Misses(NextOf(x), Id(x)) = {}

-----------------------------------------------------------------------------
(* The walk. *)

OnRequest == {"managed", "exec", "illogical", "host", "request"}

\* The node that the walk reads next.
Ahead == IF e.pc = "thread" THEN e.curr ELSE e.next

Ascending ==
  /\ seen \in Seq(Nat)
  /\ \A i, j \in DOMAIN seen : i < j => seen[i] < seen[j]
  /\ e.pc = "store" => seen = <<>>
  /\ (e.pc \in OnRequest \cup {"thread", "next"} /\ Ahead # Null) =>
       Id(Ahead) > 0 /\ \A i \in DOMAIN seen : seen[i] < Id(Ahead)

Covered ==
  (~reused /\ e.pc \in OnRequest \cup {"thread", "next"}) =>
    \A y \in lasting : y \in Seen \/ (Ahead # Null /\ Id(Ahead) <= y)

Found == (e.cmd = "find" /\ e.pc \in OnRequest) => e.id = e.wanted /\ e.wanted \in Seen

-----------------------------------------------------------------------------
\* l is m with n replaced by to in the list.
Relinked(m, n, to, l) ==
  /\ l \in Image
  /\ l.linked = m.linked
  /\ l.first = IF m.first = n THEN to ELSE m.first
  /\ \A x \in Nodes : l.at[x].id = m.at[x].id
  /\ \A x \in Nodes : l.at[x].next =
       IF m.first # n /\ x \in m.linked /\ m.at[x].next = n THEN to ELSE m.at[x].next

(* Link changes who is followed by n, and nothing else. *)
LEMMA LinkChanges ==
  ASSUME NEW m \in Image, NEW n \in Nodes \cup {Null}, NEW to \in Nodes \cup {Null}
  PROVE  Relinked(m, n, to, Link(m, n, to))
<1> DEFINE New(x) == IF x \in m.linked /\ m.at[x].next = n THEN [m.at[x] EXCEPT !.next = to]
                                                          ELSE m.at[x]
<1>0. /\ m = [store |-> m.store, first |-> m.first, at |-> m.at, linked |-> m.linked]
      /\ m.store \in BOOLEAN /\ m.first \in Nodes \cup {Null} /\ m.at \in [Nodes -> Thread] /\ m.linked \in SUBSET Nodes
  BY DEF Image
<1>1. ASSUME NEW x \in Nodes
      PROVE  /\ New(x) \in Thread /\ New(x).id = m.at[x].id
             /\ New(x).next = IF x \in m.linked /\ m.at[x].next = n THEN to ELSE m.at[x].next
  <2>1. m.at[x] \in Thread
    BY <1>0
  <2> QED
    BY <2>1 DEF Thread
<1>2. CASE m.first = n
  <2>1. Link(m, n, to) = [m EXCEPT !.first = to]
    BY <1>2 DEF Link
  <2>2. Link(m, n, to) = [store |-> m.store, first |-> to, at |-> m.at, linked |-> m.linked]
    BY <2>1, <1>0
  <2> QED
    BY <2>2, <1>0, <1>2 DEF Image, Relinked
<1>3. CASE m.first # n
  <2>1. Link(m, n, to) = [m EXCEPT !.at = [x \in Nodes |-> New(x)]]
    BY <1>3 DEF Link
  <2>2. Link(m, n, to) = [store |-> m.store, first |-> m.first, at |-> [x \in Nodes |-> New(x)],
                          linked |-> m.linked]
    BY <2>1, <1>0
  <2> HIDE DEF New
  <2>3. [x \in Nodes |-> New(x)] \in [Nodes -> Thread]
    BY <1>1
  <2>4. Link(m, n, to) \in Image
    BY <2>2, <2>3, <1>0 DEF Image
  <2>5. \A x \in Nodes : Link(m, n, to).at[x] = New(x)
    BY <2>2
  <2> QED
    BY <2>2, <2>4, <2>5, <1>1, <1>3 DEF Relinked
<1> QED
  BY <1>2, <1>3

\* What a thread that starts at n does to the list.
StartsAt(n) ==
  /\ reused' = (reused \/ Id(n) # 0)
  /\ ids' = ids + 1 /\ lasting' = lasting
  /\ mem' \in Image
  /\ mem'.linked = mem.linked \cup {n}
  /\ mem'.first = IF mem.first = Null THEN n ELSE mem.first
  /\ Id(n)' = ids + 1 /\ NextOf(n)' = Null
  /\ \A x \in Nodes \ {n} :
       /\ Id(x)' = Id(x)
       /\ NextOf(x)' = IF mem.first # Null /\ x \in mem.linked /\ NextOf(x) = Null
                         THEN n ELSE NextOf(x)

(* A thread starts at one of the nodes that are not linked. *)
LEMMA StartChanges ==
  ASSUME mem \in Image, ids \in Nat, RequestAssumption, StartThread
  PROVE  \E n \in Nodes \ mem.linked : StartsAt(n)
<1>1. PICK n \in Nodes \ mem.linked, h \in Contexts \cup {Null} :
        /\ reused' = (reused \/ mem.at[n].id # 0)
        /\ mem' = [Link([mem EXCEPT !.at[n] = [id |-> ids + 1, next |-> Null, readable |-> TRUE,
                                               managed |-> TRUE, exec |-> "set",
                                               illogical |-> "set", host |-> h]],
                        Null, n)
                     EXCEPT !.linked = @ \cup {n}]
  BY DEF StartThread
<1> DEFINE t == [id |-> ids + 1, next |-> Null, readable |-> TRUE, managed |-> TRUE,
                 exec |-> "set", illogical |-> "set", host |-> h]
           m == [mem EXCEPT !.at[n] = t]
           l == Link(m, Null, n)
<1>0. /\ mem = [store |-> mem.store, first |-> mem.first, at |-> mem.at, linked |-> mem.linked]
      /\ mem.store \in BOOLEAN /\ mem.first \in Nodes \cup {Null} /\ mem.at \in [Nodes -> Thread] /\ mem.linked \in SUBSET Nodes
  BY DEF Image
<1>2. t \in Thread
  <2>1. ids + 1 \in Nat /\ h \in Contexts \cup {Null}
    BY <1>1
  <2> QED
    BY <2>1 DEF Thread
<1>3. t.id = ids + 1 /\ t.next = Null
  OBVIOUS
<1> HIDE DEF t
<1>4. m = [store |-> mem.store, first |-> mem.first, at |-> [mem.at EXCEPT ![n] = t], linked |-> mem.linked]
  BY <1>0
<1>5. m \in Image /\ m.linked = mem.linked /\ m.first = mem.first
      /\ m.at[n] = t /\ \A x \in Nodes \ {n} : m.at[x] = mem.at[x]
  BY <1>0, <1>2, <1>4 DEF Image
<1> HIDE DEF m
<1>6. Relinked(m, Null, n, l)
  <2>1. m \in Image /\ Null \in Nodes \cup {Null} /\ n \in Nodes \cup {Null}
    BY <1>5
  <2> QED
    BY <2>1, LinkChanges, Zenon
<1>7. mem' = [l EXCEPT !.linked = @ \cup {n}]
  BY <1>1 DEF m, t
<1> HIDE DEF l
<1>8. mem' = [store |-> l.store, first |-> l.first, at |-> l.at, linked |-> l.linked \cup {n}]
  BY <1>6, <1>7 DEF Image, Relinked
<1>9. mem' \in Image /\ mem'.first = l.first /\ mem'.at = l.at /\ mem'.linked = l.linked \cup {n}
  BY <1>6, <1>8 DEF Image, Relinked
<1>10. ids' = ids + 1 /\ lasting' = lasting
  BY DEF StartThread
<1> QED
  <2>1. l.first = IF mem.first = Null THEN n ELSE mem.first
    BY <1>5, <1>6 DEF Relinked
  <2>2. l.at[n].id = ids + 1 /\ l.at[n].next = Null
    BY <1>1, <1>3, <1>5, <1>6 DEF Relinked
  <2>3. ASSUME NEW x \in Nodes \ {n}
        PROVE  /\ l.at[x].id = mem.at[x].id
               /\ l.at[x].next = IF mem.first # Null /\ x \in mem.linked /\ mem.at[x].next = Null
                                   THEN n ELSE mem.at[x].next
    BY <1>5, <1>6 DEF Relinked
  <2>4. l.linked = mem.linked
    BY <1>5, <1>6 DEF Relinked
  <2>5. StartsAt(n)
    BY <1>1, <1>9, <1>10, <2>1, <2>2, <2>3, <2>4 DEF Id, NextOf, StartsAt
  <2> QED
    BY <2>5

\* What the end of the thread at n does to the list.
EndsAt(n) ==
  /\ reused' = reused /\ ids' = ids /\ lasting' = lasting \ {Id(n)}
  /\ mem' \in Image
  /\ mem'.linked = mem.linked \ {n}
  /\ mem'.first = IF mem.first = n THEN NextOf(n) ELSE mem.first
  /\ \A x \in Nodes :
       /\ Id(x)' = Id(x)
       /\ NextOf(x)' = IF mem.first # n /\ x \in mem.linked /\ NextOf(x) = n
                         THEN NextOf(n) ELSE NextOf(x)

(* One of the linked threads ends. *)
LEMMA EndChanges ==
  ASSUME mem \in Image, EndThread
  PROVE  \E n \in mem.linked : EndsAt(n)
<1>1. PICK n \in mem.linked :
        /\ mem' = [Link(mem, n, mem.at[n].next) EXCEPT !.linked = @ \ {n}]
        /\ lasting' = lasting \ {mem.at[n].id}
        /\ UNCHANGED <<ids, reused>>
  BY DEF EndThread
<1> DEFINE l == Link(mem, n, mem.at[n].next)
<1>0. mem.at \in [Nodes -> Thread] /\ mem.linked \in SUBSET Nodes
  BY DEF Image
<1>2. mem.at[n].next \in Nodes \cup {Null}
  BY <1>0 DEF Thread
<1>3. Relinked(mem, n, mem.at[n].next, l)
  <2>1. n \in Nodes \cup {Null}
    BY <1>0
  <2> QED
    BY <2>1, <1>2, LinkChanges, Zenon
<1>4. mem' = [l EXCEPT !.linked = @ \ {n}]
  BY <1>1
<1> HIDE DEF l
<1>5. mem' = [store |-> l.store, first |-> l.first, at |-> l.at, linked |-> l.linked \ {n}]
  BY <1>3, <1>4 DEF Image, Relinked
<1>6. mem' \in Image /\ mem'.first = l.first /\ mem'.at = l.at /\ mem'.linked = l.linked \ {n}
  BY <1>3, <1>5 DEF Image, Relinked
<1>7. EndsAt(n)
  BY <1>1, <1>3, <1>6 DEF Id, NextOf, EndsAt, Relinked
<1> QED
  BY <1>7

(* A thread that goes on to another request stays where it is. *)
LEMMA SwitchChanges ==
  ASSUME mem \in Image, SwitchRequest
  PROVE  /\ UNCHANGED <<ids, lasting, reused>>
         /\ mem' \in Image /\ mem'.linked = mem.linked /\ mem'.first = mem.first
         /\ \A x \in Nodes : Id(x)' = Id(x) /\ NextOf(x)' = NextOf(x)
<1>1. PICK n \in mem.linked, h \in Contexts \cup {Null} :
        mem' = [mem EXCEPT !.at[n].host = h] /\ UNCHANGED <<ids, lasting, reused>>
  BY DEF SwitchRequest
<1>0. /\ mem = [store |-> mem.store, first |-> mem.first, at |-> mem.at, linked |-> mem.linked]
      /\ mem.store \in BOOLEAN /\ mem.first \in Nodes \cup {Null} /\ mem.at \in [Nodes -> Thread] /\ mem.linked \in SUBSET Nodes
  BY DEF Image
<1> DEFINE t == [mem.at[n] EXCEPT !.host = h]
<1>2. t \in Thread /\ t.id = mem.at[n].id /\ t.next = mem.at[n].next
  <2>1. mem.at[n] \in Thread /\ h \in Contexts \cup {Null}
    BY <1>0, <1>1
  <2> QED
    BY <2>1 DEF Thread
<1>3. mem' = [store |-> mem.store, first |-> mem.first, at |-> [mem.at EXCEPT ![n] = t],
              linked |-> mem.linked]
  BY <1>0, <1>1
<1> HIDE DEF t
<1>4. mem' \in Image /\ mem'.first = mem.first /\ mem'.linked = mem.linked
      /\ mem'.at = [mem.at EXCEPT ![n] = t]
  BY <1>0, <1>2, <1>3 DEF Image
<1> QED
  BY <1>0, <1>1, <1>2, <1>4 DEF Id, NextOf

-----------------------------------------------------------------------------
\* What holds of the target, whoever looks at it.
TargetInv ==
  /\ mem \in Image /\ ids \in Nat /\ lasting \subseteq IdsIn(mem) /\ reused \in BOOLEAN
  /\ Numbered /\ LaterOn /\ Unbroken

\* What a walk may rely on while the target runs.
TargetMoves ==
  /\ \A x \in Nodes : Id(x) > 0 => Id(x)' >= Id(x)
  /\ ~reused' => ~reused /\ \A x \in Nodes : Id(x) > 0 => Id(x)' = Id(x)
  /\ lasting' \subseteq lasting

(* What the records of the target hold. *)
LEMMA TargetTypes ==
  ASSUME mem \in Image
  PROVE  /\ mem.first \in Nodes \cup {Null} /\ mem.linked \subseteq Nodes
         /\ \A x \in Nodes : mem.at[x] \in Thread
         /\ \A x \in Nodes : Id(x) \in Nat /\ NextOf(x) \in Nodes \cup {Null}
<1>1. mem.first \in Nodes \cup {Null} /\ mem.at \in [Nodes -> Thread] /\ mem.linked \in SUBSET Nodes
  BY DEF Image
<1> QED
  BY <1>1 DEF Thread, Id, NextOf

(* The list stays in order, and unbroken for those that last, when a thread*)
(* starts.                                                                 *)
LEMMA StartKeeps ==
  ASSUME RequestAssumption, TargetInv, NEW n \in Nodes \ mem.linked, StartsAt(n)
  PROVE  TargetInv' /\ TargetMoves
<1> USE DEF StartsAt
<1>0. /\ Null \notin Nodes
      /\ mem.first \in Nodes \cup {Null} /\ mem.linked \subseteq Nodes
      /\ \A x \in Nodes : Id(x) \in Nat /\ NextOf(x) \in Nodes \cup {Null}
      /\ ids \in Nat /\ ids' = ids + 1
  BY TargetTypes DEF TargetInv, RequestAssumption
<1>1. \A x \in Nodes : Id(x) <= ids
  BY DEF TargetInv, Numbered
<1>2. /\ Id(n)' = ids + 1
      /\ \A x \in Nodes \ {n} : Id(x)' = Id(x)
      /\ \A x \in Nodes : Id(x)' \in Nat /\ Id(x)' >= Id(x) /\ Id(x)' <= ids + 1
      /\ \A x \in Nodes : NewId(x) = Id(x)'
  <2>1. \A x \in Nodes : NewId(x) = Id(x)'
    BY DEF NewId, Id
  <2> QED
    BY <1>0, <1>1, <2>1
<1>3. Numbered'
  <2>1. \A x \in mem'.linked : Id(x)' # 0
    BY <1>0, <1>2 DEF TargetInv, Numbered
  <2>2. ASSUME NEW x \in mem'.linked, NEW y \in mem'.linked, Id(x)' = Id(y)'
        PROVE  x = y
    <3>1. \A z \in mem.linked : Id(z)' = Id(z) /\ Id(z)' < Id(n)'
      BY <1>0, <1>1, <1>2
    <3> QED
      BY <2>2, <3>1, <1>0 DEF TargetInv, Numbered
  <2> QED
    BY <1>0, <1>2, <2>1, <2>2 DEF Numbered
<1>4. LaterOn'
  <2>1. mem'.first # Null => NewId(mem'.first) > 0
    <3>1. mem'.first \in Nodes \cup {Null}
      BY <1>0
    <3> QED
      BY <1>0, <1>2, <3>1 DEF TargetInv, LaterOn
  <2>2. ASSUME NEW x \in Nodes, Id(x)' > 0, NextOf(x)' # Null
        PROVE  NewId(NextOf(x)') > Id(x)'
    <3>1. x # n
      BY <2>2
    <3>2. CASE NextOf(x)' = n
      BY <1>0, <1>1, <1>2, <3>1, <3>2
    <3>3. CASE NextOf(x)' # n
      <4>1. NextOf(x)' = NextOf(x)
        BY <3>1, <3>3
      <4>2. Id(x) > 0 /\ NextOf(x) \in Nodes
        BY <1>0, <2>2, <3>1, <4>1
      <4>3. Id(NextOf(x)) > Id(x)
        BY <2>2, <4>1, <4>2 DEF TargetInv, LaterOn
      <4> QED
        BY <1>0, <1>2, <3>1, <4>1, <4>2, <4>3
    <3> QED
      BY <3>2, <3>3
  <2>3. ASSUME NEW x \in Nodes
        PROVE  (Id(x)' > 0 /\ NextOf(x)' # Null) => Id(NextOf(x))' > Id(x)'
    BY <2>2 DEF Id, NextOf, NewId
  <2>4. mem'.first # Null => Id(mem.first)' > 0
    BY <2>1 DEF Id, NewId
  <2> QED
    BY <2>3, <2>4 DEF LaterOn
<1>5. ~reused' => ~reused /\ Id(n) = 0 /\ \A x \in Nodes : Id(x) > 0 => Id(x)' = Id(x)
  <2>1. reused' = (reused \/ Id(n) # 0)
    OBVIOUS
  <2>2. ~reused' => ~reused /\ Id(n) = 0
    BY <2>1, Zenon
  <2>3. Id(n) = 0 => \A x \in Nodes : Id(x) > 0 => Id(x)' = Id(x)
    BY <1>0, <1>2
  <2> QED
    BY <2>2, <2>3, Zenon
<1>6. \A y \in lasting : y \in Nat /\ y <= ids
  BY <1>0, <1>1 DEF TargetInv, IdsIn, Id
<1>7. Unbroken'
  <2> SUFFICES ASSUME ~reused' PROVE Misses(mem.first, 0)' = {}
                 /\ \A x \in Nodes : Id(x)' > 0 => Misses(NextOf(x), Id(x))' = {}
    BY DEF Unbroken
  <2>1. ~reused /\ Id(n) = 0
    BY <1>5
  <2>2. Misses(mem.first, 0)' = {}
    <3>1. Misses(mem.first, 0) = {}
      BY <2>1 DEF TargetInv, Unbroken
    <3> SUFFICES ASSUME NEW y \in lasting', y > 0, mem'.first = Null \/ NewId(mem'.first) > y
                 PROVE  FALSE
      BY DEF Misses, Id, NewId
    <3>2. mem.first # Null /\ Id(mem.first) <= y
      BY <1>0, <1>6, <3>1 DEF Misses
    <3>3. mem.first # n /\ mem'.first = mem.first
      BY <2>1, <3>2 DEF TargetInv, LaterOn
    <3> QED
      BY <1>0, <1>2, <1>6, <3>2, <3>3
  <2>3. ASSUME NEW x \in Nodes, Id(x)' > 0
        PROVE  Misses(NextOf(x), Id(x))' = {}
    <3> SUFFICES ASSUME NEW y \in lasting', y > Id(x)', NextOf(x)' = Null \/ NewId(NextOf(x)') > y
                 PROVE  FALSE
      BY DEF Misses, Id, NextOf, NewId
    <3>1. x # n
      BY <1>0, <1>2, <1>6
    <3>2. Id(x)' = Id(x) /\ Id(x) > 0
      BY <1>2, <2>3, <3>1
    <3>3. Misses(NextOf(x), Id(x)) = {}
      BY <2>1, <3>2 DEF TargetInv, Unbroken
    <3>4. NextOf(x) # Null /\ Id(NextOf(x)) <= y
      BY <1>0, <1>6, <3>2, <3>3 DEF Misses
    <3>5. Id(NextOf(x)) > Id(x)
      BY <3>2, <3>4 DEF TargetInv, LaterOn
    <3>6. NextOf(x) # n /\ NextOf(x)' = NextOf(x)
      BY <1>0, <2>1, <3>1, <3>2, <3>4, <3>5
    <3> QED
      BY <1>0, <1>2, <1>6, <3>4, <3>6
  <2> QED
    BY <2>2, <2>3
<1>8. lasting' \subseteq IdsIn(mem)' /\ reused' \in BOOLEAN /\ mem' \in Image /\ ids' \in Nat
  <2>1. \A x \in mem.linked : mem'.at[x].id = mem.at[x].id
    BY <1>0 DEF Id
  <2>2. reused' \in BOOLEAN
    BY DEF TargetInv
  <2> QED
    BY <1>0, <2>1, <2>2 DEF TargetInv, IdsIn
<1> QED
  BY <1>2, <1>3, <1>4, <1>5, <1>7, <1>8 DEF TargetInv, TargetMoves

(* The same when a thread ends: who came to it comes to the next one.      *)
LEMMA EndKeeps ==
  ASSUME RequestAssumption, TargetInv, NEW n \in mem.linked, EndsAt(n)
  PROVE  TargetInv' /\ TargetMoves
<1> USE DEF EndsAt
<1>0. /\ Null \notin Nodes
      /\ mem.first \in Nodes \cup {Null} /\ mem.linked \subseteq Nodes
      /\ \A x \in Nodes : Id(x) \in Nat /\ NextOf(x) \in Nodes \cup {Null}
      /\ ids \in Nat /\ Id(n) > 0
  BY TargetTypes DEF TargetInv, RequestAssumption, Numbered
<1>1. \A x \in Nodes : Id(x)' = Id(x) /\ NewId(x) = Id(x)
  BY DEF NewId, Id
<1>2. Numbered'
  BY <1>0, <1>1 DEF TargetInv, Numbered
<1>3. LaterOn'
  <2>1. NextOf(n) # Null => NextOf(n) \in Nodes /\ Id(NextOf(n)) > Id(n)
    BY <1>0 DEF TargetInv, LaterOn
  <2>2. mem'.first # Null => NewId(mem'.first) > 0
    BY <1>0, <1>1, <2>1 DEF TargetInv, LaterOn
  <2>3. ASSUME NEW x \in Nodes, Id(x)' > 0, NextOf(x)' # Null
        PROVE  NewId(NextOf(x)') > Id(x)'
    <3>1. CASE NextOf(x) = n
      <4>1. Id(n) > Id(x)
        BY <1>0, <1>1, <2>3, <3>1 DEF TargetInv, LaterOn
      <4> QED
        BY <1>0, <1>1, <2>1, <2>3, <3>1, <4>1
    <3>2. CASE NextOf(x) # n
      BY <1>0, <1>1, <2>3, <3>2 DEF TargetInv, LaterOn
    <3> QED
      BY <3>1, <3>2
  <2>4. ASSUME NEW x \in Nodes
        PROVE  (Id(x)' > 0 /\ NextOf(x)' # Null) => Id(NextOf(x))' > Id(x)'
    BY <2>3 DEF Id, NextOf, NewId
  <2>5. mem'.first # Null => Id(mem.first)' > 0
    BY <2>2 DEF Id, NewId
  <2> QED
    BY <2>4, <2>5 DEF LaterOn
<1>4. \A y \in lasting : y \in Nat
  BY <1>0 DEF TargetInv, IdsIn, Id
<1>5. ASSUME ~reused, NEW y \in lasting', y > Id(n)
      PROVE  NextOf(n) # Null /\ Id(NextOf(n)) <= y
  <2>1. Misses(NextOf(n), Id(n)) = {}
    BY <1>0, <1>5 DEF TargetInv, Unbroken
  <2> QED
    BY <1>0, <1>4, <1>5, <2>1 DEF Misses
<1>6. Unbroken'
  <2> SUFFICES ASSUME ~reused' PROVE Misses(mem.first, 0)' = {}
                 /\ \A x \in Nodes : Id(x)' > 0 => Misses(NextOf(x), Id(x))' = {}
    BY DEF Unbroken
  <2>1. ASSUME NEW y \in lasting' PROVE y \in Nat /\ y # Id(n)
    BY <1>4
  <2>2. Misses(mem.first, 0)' = {}
    <3>1. Misses(mem.first, 0) = {}
      BY DEF TargetInv, Unbroken
    <3> SUFFICES ASSUME NEW y \in lasting', y > 0, mem'.first = Null \/ NewId(mem'.first) > y
                 PROVE  FALSE
      BY DEF Misses, Id, NewId
    <3>2. mem.first # Null /\ Id(mem.first) <= y
      BY <1>0, <1>4, <3>1 DEF Misses
    <3>3. CASE mem.first = n
      BY <1>0, <1>1, <1>5, <2>1, <3>2, <3>3
    <3>4. CASE mem.first # n
      BY <1>0, <1>1, <2>1, <3>2, <3>4
    <3> QED
      BY <3>3, <3>4
  <2>3. ASSUME NEW x \in Nodes, Id(x)' > 0
        PROVE  Misses(NextOf(x), Id(x))' = {}
    <3> SUFFICES ASSUME NEW y \in lasting', y > Id(x)', NextOf(x)' = Null \/ NewId(NextOf(x)') > y
                 PROVE  FALSE
      BY DEF Misses, Id, NextOf, NewId
    <3>1. Misses(NextOf(x), Id(x)) = {}
      BY <1>1, <2>3 DEF TargetInv, Unbroken
    <3>2. NextOf(x) # Null /\ Id(NextOf(x)) <= y
      BY <1>0, <1>1, <1>4, <3>1 DEF Misses
    <3>3. CASE NextOf(x) = n
      BY <1>0, <1>1, <1>5, <2>1, <3>2, <3>3
    <3>4. CASE NextOf(x) # n
      BY <1>0, <1>1, <2>1, <3>2, <3>4
    <3> QED
      BY <3>3, <3>4
  <2> QED
    BY <2>2, <2>3
<1>7. lasting' \subseteq IdsIn(mem)'
  <2>1. \A x \in mem.linked : mem'.at[x].id = mem.at[x].id
    BY <1>0 DEF Id
  <2> QED
    BY <1>0, <2>1 DEF TargetInv, IdsIn, Id
<1>8. TargetMoves
  BY <1>0, <1>1 DEF TargetMoves
<1>9. mem' \in Image /\ ids' \in Nat /\ reused' \in BOOLEAN
  BY DEF TargetInv
<1> QED
  BY <1>2, <1>3, <1>6, <1>7, <1>8, <1>9 DEF TargetInv

(* The target keeps its list in order, and a walk may rely on it. *)
LEMMA TargetKeeps ==
  ASSUME RequestAssumption, TargetInv, TargetRuns
  PROVE  TargetInv' /\ TargetMoves
<1>1. CASE StartThread
  BY <1>1, StartChanges, StartKeeps DEF TargetInv
<1>2. CASE EndThread
  BY <1>2, EndChanges, EndKeeps DEF TargetInv
<1>3. CASE SwitchRequest
  <2>0. /\ mem.first \in Nodes \cup {Null} /\ mem.linked \subseteq Nodes
        /\ \A x \in Nodes : Id(x) \in Nat /\ NextOf(x) \in Nodes \cup {Null}
    BY TargetTypes DEF TargetInv
  <2>1. /\ UNCHANGED <<ids, lasting, reused>>
        /\ mem' \in Image /\ mem'.linked = mem.linked /\ mem'.first = mem.first
        /\ \A x \in Nodes : Id(x)' = Id(x) /\ NextOf(x)' = NextOf(x)
    BY <1>3, SwitchChanges DEF TargetInv
  <2>2. Numbered'
    BY <2>0, <2>1 DEF TargetInv, Numbered
  <2>3. LaterOn'
    <3>1. mem'.first # Null => Id(mem.first)' > 0
      BY <2>0, <2>1 DEF TargetInv, LaterOn, Id
    <3>2. \A x \in Nodes : (Id(x)' > 0 /\ NextOf(x)' # Null) => Id(NextOf(x))' > Id(x)'
      BY <2>0, <2>1 DEF TargetInv, LaterOn, Id, NextOf
    <3> QED
      BY <3>1, <3>2 DEF LaterOn
  <2>4. Unbroken'
    <3>1. ASSUME NEW x \in Nodes PROVE Misses(NextOf(x), Id(x))' = Misses(NextOf(x), Id(x))
      BY <2>0, <2>1 DEF Misses, Id, NextOf
    <3>2. Misses(mem.first, 0)' = Misses(mem.first, 0)
      BY <2>0, <2>1 DEF Misses, Id
    <3> QED
      BY <2>1, <3>1, <3>2 DEF TargetInv, Unbroken
  <2>5. IdsIn(mem)' = IdsIn(mem)
    BY <2>0, <2>1 DEF IdsIn, Id
  <2> QED
    BY <2>0, <2>1, <2>2, <2>3, <2>4, <2>5 DEF TargetInv, TargetMoves
<1> QED
  BY <1>1, <1>2, <1>3 DEF TargetRuns

-----------------------------------------------------------------------------
(* The walk. *)

\* What the walk holds, apart from the target's own order.
WalkerInv == RequestTypeOK /\ Ascending /\ Covered /\ Found /\ LastingSeen

Walking == OnRequest \cup {"thread", "next"}

(* The node that the walk reads next is a node or none. *)
LEMMA AheadIsNode ==
  ASSUME RequestTypeOK
  PROVE  Ahead \in Nodes \cup {Null} /\ e.curr \in Nodes \cup {Null} /\ e.next \in Nodes \cup {Null}
BY DEF RequestTypeOK, Command, Ahead

(* What the target does meanwhile does not lead the walk astray. *)
LEMMA RunsKeepsWalk ==
  ASSUME RequestAssumption, TargetInv, TargetRuns, WalkerInv
  PROVE  WalkerInv'
<1>1. TargetInv' /\ TargetMoves
  BY TargetKeeps
<1>2. UNCHANGED <<e, seen, rows>> /\ e.pc # "returned"
  BY DEF TargetRuns
<1>3. Ahead' = Ahead /\ Ahead \in Nodes \cup {Null} /\ Seen' = Seen
  BY <1>2, AheadIsNode DEF WalkerInv, Ahead, Seen
<1>4. \A x \in Nodes : Id(x) \in Nat /\ Id(x)' \in Nat
  <2>1. mem' \in Image
    BY <1>1 DEF TargetInv
  <2>2. \A x \in Nodes : mem'.at[x].id \in Nat
    BY <2>1 DEF Image, Thread
  <2> QED
    BY <2>2, TargetTypes DEF TargetInv, Id
<1>5. (e.pc \in Walking /\ Ahead # Null) => Id(Ahead) > 0
  BY DEF WalkerInv, Ascending, Walking
<1>6. RequestTypeOK'
  BY <1>1, <1>2 DEF WalkerInv, RequestTypeOK, TargetInv
<1>7. Ascending'
  <2>1. e.pc \in Walking /\ Ahead # Null =>
          Id(Ahead)' > 0 /\ \A i \in DOMAIN seen : seen[i] < Id(Ahead)'
    <3> SUFFICES ASSUME e.pc \in Walking, Ahead # Null
                 PROVE  Id(Ahead)' > 0 /\ \A i \in DOMAIN seen : seen[i] < Id(Ahead)'
      OBVIOUS
    <3> DEFINE a == Ahead
    <3>1. a' = a /\ a \in Nodes /\ Id(a) > 0
      BY <1>3, <1>5
    <3>2. mem'.at[a].id >= Id(a) /\ mem'.at[a].id \in Nat
      BY <1>1, <1>4, <3>1 DEF TargetMoves, Id
    <3>3. \A i \in DOMAIN seen : seen[i] < Id(a) /\ seen[i] \in Nat
      BY DEF WalkerInv, Ascending, Walking
    <3>4. Id(a) \in Nat /\ Id(a)' = mem'.at[a].id
      BY <1>4, <3>1 DEF Id
    <3> QED
      BY <3>1, <3>2, <3>3, <3>4
  <2> QED
    BY <1>2, <1>3, <2>1 DEF WalkerInv, Ascending, Walking
<1>8. Covered'
  <2> SUFFICES ASSUME ~reused', e.pc \in Walking, NEW y \in lasting'
               PROVE  y \in Seen \/ (Ahead # Null /\ Id(Ahead)' <= y)
    BY <1>2, <1>3 DEF Covered, Walking
  <2>1. ~reused /\ y \in lasting /\ \A x \in Nodes : Id(x) > 0 => mem'.at[x].id = Id(x)
    BY <1>1 DEF TargetMoves, Id
  <2>2. y \in Seen \/ (Ahead # Null /\ Id(Ahead) <= y)
    BY <2>1 DEF WalkerInv, Covered, Walking
  <2>3. Ahead # Null => Id(Ahead)' = Id(Ahead)
    BY <1>3, <1>5, <2>1 DEF Id
  <2> QED
    BY <2>2, <2>3
<1>9. Found' /\ LastingSeen'
  BY <1>2, <1>3 DEF WalkerInv, Found, LastingSeen
<1> QED
  BY <1>6, <1>7, <1>8, <1>9 DEF WalkerInv

(* The call back with the thread at curr: it is the last of those seen, and*)
(* the next one comes after it.                                            *)
LEMMA CallBackKeepsWalk ==
  ASSUME RequestAssumption, TargetInv, ReadThread, WalkerInv
  PROVE  WalkerInv'
<1>0. /\ e.curr \in Nodes /\ e.pc = "thread" /\ CallBack /\ UNCHANGED <<target, rows>>
      /\ Id(e.curr) > 0 /\ Id(e.curr) \in Nat /\ NextOf(e.curr) \in Nodes \cup {Null}
      /\ At.id = Id(e.curr) /\ At.next = NextOf(e.curr)
  <2>1. /\ mem.linked \subseteq Nodes
        /\ \A x \in Nodes : Id(x) \in Nat /\ NextOf(x) \in Nodes \cup {Null}
    BY TargetTypes DEF TargetInv
  <2>2. e.curr \in Nodes
    BY <2>1, AheadIsNode DEF ReadThread, Readable, WalkerInv
  <2>3. Id(e.curr) # 0
    BY <2>2 DEF ReadThread, Readable, Id
  <2> QED
    BY <2>1, <2>2, <2>3 DEF ReadThread, At, Id, NextOf
<1>1. /\ e' = [e EXCEPT !.id = At.id, !.next = At.next,
                        !.pc = IF Match(At.id) THEN "managed" ELSE "next"]
      /\ seen' = Append(seen, At.id)
  BY <1>0 DEF CallBack
<1>2. e \in Command
  BY DEF WalkerInv, RequestTypeOK
<1>3. /\ e'.id = Id(e.curr) /\ e'.next = NextOf(e.curr) /\ e'.curr = e.curr
      /\ e'.cmd = e.cmd /\ e'.wanted = e.wanted /\ e'.hr = e.hr
      /\ e'.pc = (IF Match(At.id) THEN "managed" ELSE "next")
  BY <1>0, <1>1, <1>2 DEF Command
<1>4. e' \in Command
  BY <1>0, <1>1, <1>2 DEF Command
<1>5. RequestTypeOK'
  <2>1. Null \notin Nodes
    BY DEF RequestAssumption
  <2>2. UNCHANGED <<mem, ids, lasting, reused>>
    BY <1>0 DEF target
  <2> QED
    BY <1>0, <1>3, <1>4, <2>1, <2>2 DEF WalkerInv, RequestTypeOK, IdsIn
<1>6. Ahead' = NextOf(e.curr) /\ e'.pc \in Walking \ {"thread"}
  BY <1>3 DEF Ahead, Walking, OnRequest
<1>7. /\ seen \in Seq(Nat) /\ seen' \in Seq(Nat)
      /\ DOMAIN seen' = DOMAIN seen \cup {Len(seen) + 1}
      /\ seen'[Len(seen) + 1] = Id(e.curr) /\ \A i \in DOMAIN seen : seen'[i] = seen[i]
      /\ \A i \in DOMAIN seen : i \in Nat /\ i <= Len(seen) /\ seen[i] \in Nat
      /\ Len(seen) \in Nat
  BY <1>0, <1>1 DEF WalkerInv, Ascending
<1>8. Ahead = e.curr /\ e.curr # Null /\ \A i \in DOMAIN seen : seen[i] < Id(e.curr)
  <2>1. Ahead = e.curr /\ e.curr # Null
    BY <1>0 DEF Ahead, RequestAssumption
  <2> QED
    BY <1>0, <2>1 DEF WalkerInv, Ascending
<1>9. NextOf(e.curr) # Null => Id(NextOf(e.curr)) > Id(e.curr)
  BY <1>0 DEF TargetInv, LaterOn
<1>10. mem' = mem /\ lasting' = lasting /\ reused' = reused
  BY <1>0 DEF target
<1>11. Ascending'
  <2>1. ASSUME NEW i \in DOMAIN seen', NEW j \in DOMAIN seen', i < j
        PROVE  seen'[i] < seen'[j]
    BY <1>7, <1>8, <2>1 DEF WalkerInv, Ascending
  <2>2. ASSUME NextOf(e.curr) # Null
        PROVE  Id(NextOf(e.curr)) > 0 /\ \A i \in DOMAIN seen' : seen'[i] < Id(NextOf(e.curr))
    <3>1. Id(NextOf(e.curr)) \in Nat
      BY <1>0, <2>2, TargetTypes DEF TargetInv
    <3> QED
      BY <1>0, <1>7, <1>8, <1>9, <2>2, <3>1
  <2>3. Ahead' # Null => Id(Ahead)' > 0 /\ \A i \in DOMAIN seen' : seen'[i] < Id(Ahead)'
    BY <1>6, <1>10, <2>2 DEF Id
  <2>4. e'.pc # "store"
    BY <1>3
  <2> QED
    BY <1>7, <2>1, <2>3, <2>4 DEF Ascending
<1>12. Seen' = Seen \cup {Id(e.curr)}
  BY <1>7 DEF Seen
<1>13. Covered'
  <2> SUFFICES ASSUME ~reused, NEW y \in lasting
               PROVE  y \in Seen' \/ (NextOf(e.curr) # Null /\ Id(NextOf(e.curr)) <= y)
    BY <1>6, <1>10 DEF Covered, Id
  <2>1. y \in Nat
    BY TargetTypes DEF TargetInv, IdsIn, Id
  <2>2. y \in Seen \/ Id(e.curr) <= y
    BY <1>0, <1>8 DEF WalkerInv, Covered
  <2>3. CASE y > Id(e.curr)
    <3>1. Misses(NextOf(e.curr), Id(e.curr)) = {}
      BY <1>0 DEF TargetInv, Unbroken
    <3>2. NextOf(e.curr) # Null /\ ~(Id(NextOf(e.curr)) > y)
      BY <2>3, <3>1 DEF Misses
    <3>3. Id(NextOf(e.curr)) \in Nat
      BY <1>0, <3>2, TargetTypes DEF TargetInv
    <3> QED
      BY <2>1, <3>2, <3>3
  <2> QED
    BY <1>0, <1>12, <2>1, <2>2, <2>3
<1>14. Found'
  BY <1>3, <1>0, <1>12 DEF Found, Match, OnRequest
<1>15. LastingSeen'
  BY <1>3 DEF LastingSeen
<1> QED
  BY <1>5, <1>11, <1>13, <1>14, <1>15 DEF WalkerInv

-----------------------------------------------------------------------------
\* The steps of the code that read the thread's request.
RequestStep == ReadManaged \/ ReadExec \/ ReadIllogical \/ ReadHost \/ ShowRequest

(* A step on the way to a request goes on with the same thread, or is done *)
(* with it: for !findhttpcontext that is the end.                          *)
LEMMA RequestStepMoves ==
  ASSUME RequestTypeOK, mem \in Image, RequestStep
  PROVE  /\ e.pc \in OnRequest /\ e' \in Command
         /\ e'.curr = e.curr /\ e'.next = e.next /\ e'.id = e.id
         /\ e'.cmd = e.cmd /\ e'.wanted = e.wanted /\ e'.hr = e.hr
         /\ \/ e'.pc \in OnRequest \ {"managed"}
            \/ e'.pc = "next" /\ e.cmd = "dump"
            \/ e'.pc = "returned" /\ e.cmd # "dump"
         /\ UNCHANGED <<target, seen>>
<1>0. e \in Command
  BY DEF RequestTypeOK
<1>1. CASE ReadManaged
  BY <1>0, <1>1 DEF ReadManaged, Do, Done, Command, OnRequest, At
<1>2. CASE ReadExec
  <2>1. /\ e.pc = "exec" /\ UNCHANGED <<target, seen>>
        /\ e' \in {[e EXCEPT !.pc = "illogical"], [Done EXCEPT !.ctx = Null], Done}
    BY <1>2 DEF ReadExec, Do
  <2> QED
    BY <1>0, <2>1 DEF Done, Command, OnRequest
<1>3. CASE ReadIllogical
  BY <1>0, <1>3 DEF ReadIllogical, Do, Command, OnRequest, At
<1>4. CASE ReadHost
  <2>1. e.pc = "host" /\ UNCHANGED <<target, seen>> /\ e' = [e EXCEPT !.pc = "request", !.ctx = At.host]
    BY <1>4 DEF ReadHost, Do
  <2>2. At.host \in Contexts \cup {Null}
    <3>1. e.curr \in Nodes /\ mem \in Image
      BY <2>1, <1>0 DEF RequestTypeOK, Command
    <3> QED
      BY <3>1, TargetTypes DEF At, Thread
  <2> QED
    BY <1>0, <2>1, <2>2 DEF Command, OnRequest
<1>5. CASE ShowRequest
  <2>1. /\ e.pc = "request" /\ UNCHANGED <<target, seen>>
        /\ \/ e' = Done
           \/ \E time \in {e.ctx, e.time} : e' = [Done EXCEPT !.time = time]
    BY <1>5 DEF ShowRequest
  <2> QED
    BY <1>0, <2>1 DEF Done, Command, OnRequest
<1> QED
  BY <1>1, <1>2, <1>3, <1>4, <1>5 DEF RequestStep

(* A step of the code leaves the target as it is. *)
LEMMA StepLeavesTarget ==
  ASSUME TargetInv, UNCHANGED target
  PROVE  TargetInv' /\ UNCHANGED <<mem, ids, lasting, reused>>
<1>1. UNCHANGED <<mem, ids, lasting, reused>>
  BY DEF target
<1> QED
  BY <1>1 DEF TargetInv, IdsIn, Numbered, LaterOn, Unbroken, Misses, Id, NextOf

(* Whatever is read of the thread, the walk is where it was. *)
LEMMA RequestStepKeepsWalk ==
  ASSUME RequestAssumption, TargetInv, RequestStep, WalkerInv
  PROVE  WalkerInv'
<1>1. /\ e.pc \in OnRequest /\ e' \in Command
      /\ e'.curr = e.curr /\ e'.next = e.next /\ e'.id = e.id
      /\ e'.cmd = e.cmd /\ e'.wanted = e.wanted /\ e'.hr = e.hr
      /\ \/ e'.pc \in OnRequest \ {"managed"}
         \/ e'.pc = "next" /\ e.cmd = "dump"
         \/ e'.pc = "returned" /\ e.cmd # "dump"
      /\ UNCHANGED <<target, seen>>
  BY RequestStepMoves DEF WalkerInv, TargetInv
<1>2. UNCHANGED <<mem, ids, lasting, reused, seen>>
  BY <1>1 DEF target
<1>3. e.curr # Null
  BY <1>1 DEF WalkerInv, RequestTypeOK, OnRequest
<1>4. RequestTypeOK'
  BY <1>1, <1>2, <1>3 DEF WalkerInv, RequestTypeOK, IdsIn
<1>5. Ahead = e.next /\ (e'.pc # "returned" => Ahead' = e.next) /\ Seen' = Seen
  BY <1>1, <1>2 DEF Ahead, OnRequest, Seen
<1>6. Ascending'
  <2>1. Ahead # Null => Id(Ahead) > 0 /\ \A i \in DOMAIN seen : seen[i] < Id(Ahead)
    BY <1>1 DEF WalkerInv, Ascending
  <2>2. e'.pc # "returned" =>
          (Ahead' # Null => Id(Ahead)' > 0 /\ \A i \in DOMAIN seen' : seen'[i] < Id(Ahead)')
    BY <1>2, <1>5, <2>1 DEF Id
  <2>3. e'.pc # "store"
    BY <1>1 DEF OnRequest
  <2>4. "returned" \notin OnRequest \cup {"thread", "next"}
    BY DEF OnRequest
  <2> QED
    BY <1>2, <2>2, <2>3, <2>4 DEF WalkerInv, Ascending
<1>7. Covered'
  <2>1. "returned" \notin OnRequest \cup {"thread", "next"}
    BY DEF OnRequest
  <2>2. ~reused => \A y \in lasting : y \in Seen \/ (Ahead # Null /\ Id(Ahead) <= y)
    BY <1>1 DEF WalkerInv, Covered
  <2>3. e'.pc # "returned" => Ahead' = Ahead /\ Id(Ahead)' = Id(Ahead)
    BY <1>2, <1>5 DEF Id
  <2> QED
    BY <1>2, <1>5, <2>1, <2>2, <2>3 DEF Covered
<1>8. Found' /\ LastingSeen'
  <2>1. e.cmd = "find" => e.id = e.wanted /\ e.wanted \in Seen
    BY <1>1 DEF WalkerInv, Found
  <2>2. Found'
    BY <1>1, <1>5, <2>1 DEF Found
  <2>3. LastingSeen'
    BY <1>1, <1>2, <1>5, <2>1 DEF LastingSeen, OnRequest
  <2> QED
    BY <2>2, <2>3
<1> QED
  BY <1>4, <1>6, <1>7, <1>8 DEF WalkerInv

(* A walk that fails has not said of any thread that it is not there. *)
LEMMA FailureKeepsWalk ==
  ASSUME RequestAssumption, TargetInv, WalkerInv, e' = Failed, UNCHANGED <<target, seen>>
  PROVE  WalkerInv'
<1>1. /\ e' = [e EXCEPT !.pc = "returned", !.hr = "failed"]
      /\ UNCHANGED <<mem, ids, lasting, reused, seen>>
  BY DEF Failed, target
<1>2. e' \in Command /\ e'.pc = "returned" /\ e'.hr = "failed"
  BY <1>1 DEF WalkerInv, RequestTypeOK, Command
<1>3. RequestTypeOK'
  BY <1>1, <1>2 DEF WalkerInv, RequestTypeOK, IdsIn
<1>4. Ascending' /\ Covered' /\ Found' /\ LastingSeen'
  BY <1>1, <1>2 DEF WalkerInv, Ascending, Covered, Found, LastingSeen, OnRequest
<1> QED
  BY <1>3, <1>4 DEF WalkerInv

(* The walk begins with the first thread, if the store can be read. *)
LEMMA ReadStoreKeepsWalk ==
  ASSUME RequestAssumption, TargetInv, ReadStore, WalkerInv, mem.store
  PROVE  WalkerInv'
<1>1. /\ e.pc = "store" /\ e' = [e EXCEPT !.pc = "thread", !.curr = mem.first]
      /\ UNCHANGED <<mem, ids, lasting, reused, seen>>
  BY DEF ReadStore, Do, target
<1>2. e \in Command /\ mem.first \in Nodes \cup {Null}
  BY TargetTypes DEF WalkerInv, RequestTypeOK, TargetInv
<1>3. e' \in Command /\ e'.pc = "thread" /\ e'.curr = mem.first
  BY <1>1, <1>2 DEF Command
<1>4. RequestTypeOK'
  BY <1>1, <1>3 DEF WalkerInv, RequestTypeOK, IdsIn
<1>5. Ahead' = mem.first /\ seen = <<>>
  BY <1>1, <1>3 DEF Ahead, WalkerInv, Ascending
<1>6. Ascending'
  <2>1. Ahead' # Null => Id(Ahead)' > 0
    BY <1>1, <1>5 DEF TargetInv, LaterOn, Id
  <2> QED
    BY <1>1, <1>3, <1>5, <2>1 DEF WalkerInv, Ascending
<1>7. Covered'
  <2> SUFFICES ASSUME ~reused, NEW y \in lasting PROVE mem.first # Null /\ Id(mem.first) <= y
    BY <1>1, <1>5 DEF Covered, Id
  <2>1. y \in Nat /\ y > 0
    BY TargetTypes DEF TargetInv, IdsIn, Id, Numbered
  <2>2. Misses(mem.first, 0) = {}
    BY DEF TargetInv, Unbroken
  <2>3. mem.first # Null /\ ~(Id(mem.first) > y)
    BY <2>1, <2>2 DEF Misses
  <2>4. Id(mem.first) \in Nat
    BY <2>3, TargetTypes DEF TargetInv
  <2> QED
    BY <2>1, <2>3, <2>4
<1>8. Found' /\ LastingSeen'
  BY <1>3 DEF Found, LastingSeen, OnRequest
<1> QED
  BY <1>4, <1>6, <1>7, <1>8 DEF WalkerInv

(* Otherwise, or at a thread that cannot be read, it fails. *)
LEMMA FailsKeepsWalk ==
  ASSUME RequestAssumption, TargetInv, WalkerInv, ReadThreadFails \/ (ReadStore /\ ~mem.store)
  PROVE  WalkerInv'
<1>1. e' = Failed /\ UNCHANGED <<target, seen>>
  BY DEF ReadThreadFails, ReadStore, Do
<1> QED
  BY <1>1, FailureKeepsWalk

(* The walk goes on with the next thread, or has come across all that last.*)
LEMMA NextThreadKeepsWalk ==
  ASSUME RequestAssumption, TargetInv, NextThread, WalkerInv
  PROVE  WalkerInv'
<1>1. /\ e.pc = "next" /\ UNCHANGED <<mem, ids, lasting, reused, seen>>
      /\ e' = IF e.next = Null THEN [e EXCEPT !.pc = "returned"]
                               ELSE [e EXCEPT !.pc = "thread", !.curr = e.next]
  BY DEF NextThread, Do, target
<1>2. e \in Command
  BY DEF WalkerInv, RequestTypeOK
<1>3. /\ e' \in Command /\ e'.next = e.next
      /\ e'.cmd = e.cmd /\ e'.wanted = e.wanted
      /\ IF e.next = Null THEN e'.pc = "returned" ELSE e'.pc = "thread" /\ e'.curr = e.next
  BY <1>1, <1>2 DEF Command
<1>4. RequestTypeOK'
  BY <1>1, <1>3 DEF WalkerInv, RequestTypeOK, IdsIn
<1>5. Ahead = e.next /\ Ahead' = e.next /\ Seen' = Seen /\ Id(Ahead)' = Id(Ahead)
  BY <1>1, <1>3 DEF Ahead, Seen, Id
<1>6. Ascending'
  BY <1>1, <1>3, <1>5 DEF WalkerInv, Ascending
<1>7. ~reused => \A y \in lasting : y \in Seen \/ (Ahead # Null /\ Id(Ahead) <= y)
  BY <1>1 DEF WalkerInv, Covered
<1>8. Covered'
  BY <1>1, <1>5, <1>7 DEF Covered
<1>9. Found'
  BY <1>3 DEF Found, OnRequest
<1>10. LastingSeen'
  BY <1>1, <1>3, <1>5, <1>7 DEF LastingSeen
<1> QED
  BY <1>4, <1>6, <1>8, <1>9, <1>10 DEF WalkerInv

(* What overwrites a callback's frame has nothing to do with the walk. *)
LEMMA FrameKeepsWalk ==
  ASSUME RequestAssumption, TargetInv, FrameOverwritten, WalkerInv
  PROVE  WalkerInv'
<1>1. /\ e.pc = "next" /\ UNCHANGED <<mem, ids, lasting, reused, seen>>
      /\ e' = [e EXCEPT !.ctx = Junk, !.time = Junk]
  BY DEF FrameOverwritten, Do, target
<1>2. e \in Command
  BY DEF WalkerInv, RequestTypeOK
<1>3. /\ e' \in Command /\ e'.pc = "next" /\ e'.next = e.next
  BY <1>1, <1>2 DEF Command
<1>4. RequestTypeOK'
  BY <1>1, <1>3 DEF WalkerInv, RequestTypeOK, IdsIn
<1>5. Ahead' = Ahead /\ Seen' = Seen /\ Id(Ahead)' = Id(Ahead)
  BY <1>1, <1>3 DEF Ahead, Seen, Id
<1>6. Ascending' /\ Covered'
  BY <1>1, <1>3, <1>5 DEF WalkerInv, Ascending, Covered
<1>7. Found' /\ LastingSeen'
  BY <1>3 DEF Found, LastingSeen, OnRequest
<1> QED
  BY <1>4, <1>6, <1>7 DEF WalkerInv

(* A step of a command leaves the target alone. *)
LEMMA StepsOfCode ==
  ASSUME EnumStep \/ FrameOverwritten
  PROVE  UNCHANGED target
BY DEF EnumStep, FrameOverwritten, ReadStore, ReadThread, ReadThreadFails, NextThread, ReadManaged,
       ReadExec, ReadIllogical, ReadHost, ShowRequest, Do

(* The list of an image is in order, and nothing has been seen of it. *)
LEMMA RequestStarts ==
  ASSUME RequestAssumption, RequestInit
  PROVE  TargetInv /\ WalkerInv
<1>1. /\ mem \in Image /\ Listed(mem) /\ ids = Cardinality(Nodes) /\ lasting = IdsIn(mem) /\ ~reused
      /\ reused \in BOOLEAN /\ seen = <<>> /\ Null \notin Nodes
  BY DEF RequestAssumption, RequestInit
<1>2. ids \in Nat
  BY <1>1, FS_CardinalityType DEF RequestAssumption
<1>3. /\ mem.linked \subseteq Nodes
      /\ mem.first \in Nodes \cup {Null}
      /\ \A x \in Nodes : Id(x) \in Nat /\ NextOf(x) \in Nodes \cup {Null}
  BY <1>1, TargetTypes
<1>4. Numbered
  BY <1>1, <1>2, <1>3 DEF Listed, Numbered, Id
<1>5. ASSUME NEW i \in Nat, NEW to \in Nodes \cup {Null}, NextOver(mem, i, to)
      PROVE  (to # Null => Id(to) > i) /\ Misses(to, i) = {}
  <2> DEFINE later == {y \in mem.linked : mem.at[y].id > i}
  <2>1. IF to = Null THEN later = {} ELSE to \in later /\ \A y \in later : mem.at[to].id <= mem.at[y].id
    BY <1>5 DEF NextOver
  <2>2. ASSUME NEW y \in lasting, y > i, to = Null \/ Id(to) > y PROVE FALSE
    <3>1. PICK x \in mem.linked : y = mem.at[x].id
      BY <1>1, <2>2 DEF IdsIn
    <3>2. x \in later
      BY <2>2, <3>1
    <3>3. to # Null /\ Id(to) <= y
      BY <2>1, <3>1, <3>2 DEF Id
    <3> QED
      BY <1>3, <2>2, <3>1, <3>3 DEF Id
  <2> QED
    BY <2>1, <2>2 DEF Misses, Id
<1>6. NextOver(mem, 0, mem.first) /\ \A x \in mem.linked : NextOver(mem, Id(x), NextOf(x))
  BY <1>1 DEF Listed, Id, NextOf
<1>7. \A x \in Nodes : Id(x) > 0 => x \in mem.linked
  BY <1>1, <1>3 DEF Listed, Id
<1>8. LaterOn /\ Unbroken
  BY <1>1, <1>3, <1>5, <1>6, <1>7 DEF LaterOn, Unbroken
<1>9. TargetInv
  BY <1>1, <1>2, <1>4, <1>8 DEF TargetInv
<1>10. PICK c \in Queries, w \in lasting \cup {0} :
         e = [pc |-> "store", cmd |-> c, wanted |-> w, curr |-> Null, next |-> Null, id |-> 0,
              ctx |-> IF c = "dump" THEN Junk ELSE Null,
              time |-> IF c = "dump" THEN Junk ELSE Null, hr |-> "S_OK"]
  BY DEF RequestInit
<1>11. e \in Command /\ e.pc = "store"
  <2>1. w \in Nat
    BY <1>1, <1>3 DEF IdsIn, Id
  <2> QED
    BY <1>10, <2>1 DEF Command
<1>12. RequestTypeOK
  BY <1>1, <1>2, <1>11 DEF RequestTypeOK
<1>13. WalkerInv
  BY <1>1, <1>11, <1>12 DEF WalkerInv, Ascending, Covered, Found, LastingSeen, OnRequest
<1> QED
  BY <1>9, <1>13

(* The inductive invariant of the walk over a target that goes on running. *)
THEOREM WalkInvariance == RequestSpec => [](TargetInv /\ WalkerInv)
<1>1. RequestInit => TargetInv /\ WalkerInv
  BY RequestAssumption, RequestStarts
<1>2. TargetInv /\ WalkerInv /\ [RequestNext]_requestVars => TargetInv' /\ WalkerInv'
  <2> SUFFICES ASSUME TargetInv, WalkerInv, [RequestNext]_requestVars
               PROVE  TargetInv' /\ WalkerInv'
    OBVIOUS
  <2> USE RequestAssumption
  <2>1. CASE TargetRuns
    BY <2>1, TargetKeeps, RunsKeepsWalk
  <2>2. CASE EnumStep \/ FrameOverwritten
    <3>1. TargetInv'
      BY <2>2, StepsOfCode, StepLeavesTarget
    <3>2. WalkerInv'
      BY <2>2, ReadStoreKeepsWalk, CallBackKeepsWalk, FailsKeepsWalk, NextThreadKeepsWalk,
         RequestStepKeepsWalk, FrameKeepsWalk DEF EnumStep, RequestStep
    <3> QED
      BY <3>1, <3>2
  <2>3. CASE UNCHANGED requestVars
    <3>1. UNCHANGED <<mem, ids, lasting, reused, e, seen, rows>>
      BY <2>3 DEF requestVars, target
    <3>2. TargetInv'
      BY <3>1, StepLeavesTarget DEF target
    <3>3. WalkerInv'
      BY <3>1 DEF WalkerInv, RequestTypeOK, Ascending, Covered, Found, LastingSeen, IdsIn, Ahead, Seen, Id
    <3> QED
      BY <3>2, <3>3
  <2> QED
    BY <2>1, <2>2, <2>3 DEF RequestNext
<1> QED
  BY <1>1, <1>2, PTL DEF RequestSpec

(* However threads start and end, and whatever memory is used again, no    *)
(* thread is called back with twice; and as long as none is used again,    *)
(* those that run all along are come across.                               *)
THEOREM ThreadsComeAcross == RequestSpec => []ThreadsSeen
<1>1. WalkerInv => ThreadsSeen
  <2> SUFFICES ASSUME WalkerInv PROVE ThreadsSeen
    OBVIOUS
  <2>1. ASSUME NEW i \in DOMAIN seen, NEW j \in DOMAIN seen, seen[i] = seen[j]
        PROVE  i = j
    <3>1. i \in Nat /\ j \in Nat /\ seen[i] \in Nat
      BY DEF WalkerInv, Ascending
    <3>2. ~(i < j) /\ ~(j < i)
      BY <2>1, <3>1 DEF WalkerInv, Ascending
    <3> QED
      BY <3>1, <3>2
  <2> QED
    BY <2>1 DEF ThreadsSeen, EachThreadOnce, WalkerInv
<1> QED
  BY <1>1, WalkInvariance, PTL
-----------------------------------------------------------------------------
(* Dumps. *)

Row == [id : Nat, node : Nodes, ctx : Contexts \cup {Junk}, time : Contexts \cup {Null, Junk}]

\* The target stands still, and the walk is in its list.
Still ==
  /\ Listed(mem) /\ lasting = IdsIn(mem) /\ ~reused
  /\ e.curr \in mem.linked \cup {Null}
  /\ e.pc \in OnRequest => e.id = Id(e.curr) /\ e.id \in Seen
  /\ e.pc \in OnRequest \cup {"next"} => e.next \in mem.linked \cup {Null}

(* Who has been called back with could be read, and so could those before; *)
(* and in the end those are all of whom that is so.                        *)
Reading ==
  /\ \A n \in mem.linked : Id(n) \in Seen => InReach(n)
  /\ e.pc \in Walking => mem.store
  /\ e.pc # "returned" => e.hr = "S_OK"
  /\ (e.pc = "thread" /\ e.curr = Null) => mem.linked = {}
  /\ e.pc \in OnRequest \cup {"next"} => mem.linked # {}
  /\ (e.pc = "returned" /\ e.cmd = "dump") =>
       /\ \A n \in mem.linked : InReach(n) => Id(n) \in Seen
       /\ e.hr = "S_OK" => mem.linked # {} /\ \A n \in mem.linked : InReach(n)
       /\ e.hr = "failed" => mem.linked = {} \/ \E n \in mem.linked : ~InReach(n)

\* What ctx holds between the callbacks: what it was filled with last.
Held ==
  /\ e.pc \in OnRequest => \A i \in Seen : i <= e.id
  /\ e.cmd = "dump" =>
       \/ e.ctx \in {Null, Junk}
       \/ \E m \in mem.linked : Id(m) \in Seen /\ Complete(mem.at[m]) /\ mem.at[m].host = e.ctx

\* How far the command has come with the thread it is at.
Along ==
  /\ e.pc \in OnRequest \ {"managed"} => At.managed
  /\ e.pc \in {"illogical", "host", "request"} => At.exec = "set"
  /\ e.pc = "host" => At.illogical = "set"
  /\ (e.pc = "request" /\ Complete(At)) => e.ctx = At.host

RowsOf(n) == {r \in Rows : r.node = n}

\* What CompleteShown asks for one thread.
Shown(n) ==
  LET t == mem.at[n]
  IN  /\ Complete(t) => {r.ctx : r \in RowsOf(n)} = {t.host} \ {Null}
      /\ ~(t.managed /\ t.exec = "set") => RowsOf(n) = {}
      /\ \A r \in RowsOf(n) : r.ctx \in Stamped => r.time = r.ctx

\* The thread has been called back with, and its request looked for.
DoneWith(n) == Id(n) \in Seen /\ ~(n = e.curr /\ e.pc \in OnRequest)

RowsSoFar ==
  /\ rows \in Seq(Row)
  /\ e.cmd = "dump" => \A n \in mem.linked : IF DoneWith(n) THEN Shown(n) ELSE RowsOf(n) = {}

\* !findhttpcontext has cleared ctx, and what it shows it has found.
OwnOnly ==
  e.cmd = "find" =>
    /\ e.pc \notin {"request", "returned"} => e.ctx = Null
    /\ e.pc = "request" => e.ctx \in {Null, At.host}

DumpRest ==
  Still /\ Reading /\ Held /\ Along /\ RowsSoFar /\ OwnOnly /\ FindShowsOwn /\ StaleExplained
DumpInv == LastId = 0 => DumpRest

(* At the end of the walk a thread that is not shown has no request, or the*)
(* walk has not got to it.                                                 *)
LEMMA DumpAnswers ==
  ASSUME WalkerInv, DumpInv
  PROVE  RequestsShown
<1>1. CompleteShown
  <2> SUFFICES ASSUME LastId = 0, e.pc = "returned", e.cmd = "dump", NEW n \in mem.linked
               PROVE  IF InReach(n) THEN Shown(n) ELSE RowsOf(n) = {}
    BY DEF CompleteShown, Shown, RowsOf
  <2>1. InReach(n) <=> Id(n) \in Seen
    BY DEF DumpInv, DumpRest, Reading
  <2>2. DoneWith(n) <=> InReach(n)
    BY <2>1 DEF DoneWith, OnRequest
  <2>3. IF DoneWith(n) THEN Shown(n) ELSE RowsOf(n) = {}
    BY DEF DumpInv, DumpRest, RowsSoFar
  <2> QED
    BY <2>2, <2>3
<1>2. EndTold
  <2> SUFFICES ASSUME LastId = 0, e.pc = "returned", e.cmd = "dump"
               PROVE  e.hr = "S_OK" <=> mem.linked # {} /\ \A n \in mem.linked : InReach(n)
    BY DEF EndTold
  <2>1. e.hr \in {"S_OK", "failed"}
    BY DEF WalkerInv, RequestTypeOK, Command
  <2> QED
    BY <2>1 DEF DumpInv, DumpRest, Reading
<1>3. FindShowsOwn /\ StaleExplained
  BY DEF DumpInv, DumpRest, FindShowsOwn, StaleExplained
<1> QED
  BY <1>1, <1>2, <1>3 DEF RequestsShown, WalkerInv

(* What a step leaves alone that neither calls back nor shows anything. *)
LEMMA QuietStep ==
  ASSUME UNCHANGED <<mem, seen, rows>>, e'.cmd = e.cmd, RowsSoFar, FindShowsOwn, StaleExplained,
         e.cmd = "dump" =>
           \A n \in mem.linked : DoneWith(n)' # DoneWith(n) => DoneWith(n)' /\ (RowsOf(n) = {} => Shown(n)),
         e'.wanted = e.wanted
  PROVE  RowsSoFar' /\ FindShowsOwn' /\ StaleExplained'
<1>1. Rows' = Rows
  BY DEF Rows
<1>2. \A n \in mem.linked : RowsOf(n)' = RowsOf(n) /\ Shown(n)' = Shown(n)
  BY <1>1 DEF RowsOf, Shown
<1>3. ASSUME e.cmd = "dump", NEW n \in mem.linked
      PROVE  IF DoneWith(n)' THEN Shown(n) ELSE RowsOf(n) = {}
  <2>1. IF DoneWith(n) THEN Shown(n) ELSE RowsOf(n) = {}
    BY <1>3 DEF RowsSoFar
  <2>2. DoneWith(n) \in BOOLEAN /\ DoneWith(n)' \in BOOLEAN
    BY DEF DoneWith
  <2> QED
    BY <1>3, <2>1, <2>2
<1>4. RowsSoFar'
  BY <1>2, <1>3 DEF RowsSoFar
<1>5. FindShowsOwn' /\ StaleExplained'
  BY <1>1 DEF FindShowsOwn, StaleExplained
<1> QED
  BY <1>4, <1>5

(* A link of a listed image leads into the list. *)
LEMMA LinksStay ==
  ASSUME mem \in Image, Listed(mem)
  PROVE  /\ mem.first \in mem.linked \cup {Null}
         /\ mem.first = Null => mem.linked = {}
         /\ \A x \in mem.linked : NextOf(x) \in mem.linked \cup {Null}
<1>1. mem.first = Null => mem.linked = {}
  <2>1. NextOver(mem, 0, mem.first) /\ \A x \in mem.linked : mem.at[x].id > 0
    BY FS_CardinalityType DEF Listed
  <2> QED
    BY <2>1 DEF NextOver
<1> QED
  BY <1>1 DEF Listed, NextOver, NextOf

(* The first thread of a dump. *)
LEMMA ReadStoreOfDump ==
  ASSUME RequestAssumption, TargetInv, WalkerInv, DumpRest, ReadStore, mem.store
  PROVE  DumpRest'
<1>1. /\ e.pc = "store" /\ e' = [e EXCEPT !.pc = "thread", !.curr = mem.first]
      /\ UNCHANGED <<mem, ids, lasting, reused, seen, rows>>
  BY DEF ReadStore, Do, target
<1>2. e \in Command
  BY DEF WalkerInv, RequestTypeOK
<1>3. e'.pc = "thread" /\ e'.curr = mem.first /\ e'.cmd = e.cmd /\ e'.wanted = e.wanted
      /\ e'.ctx = e.ctx /\ e'.hr = e.hr
  BY <1>1, <1>2 DEF Command
<1>4. mem.first \in mem.linked \cup {Null} /\ (mem.first = Null => mem.linked = {})
  BY LinksStay DEF TargetInv, DumpRest, Still
<1>5. Still'
  BY <1>1, <1>3, <1>4 DEF DumpRest, Still, OnRequest, IdsIn
<1>6. Reading' /\ Held'
  <2>1. Seen' = Seen /\ \A n \in mem.linked : Id(n)' = Id(n) /\ InReach(n)' = InReach(n)
    BY <1>1 DEF Seen, Id, InReach
  <2> QED
    BY <1>1, <1>3, <1>4, <2>1 DEF DumpRest, Reading, Held, Walking, OnRequest
<1>7. Along' /\ OwnOnly'
  BY <1>1, <1>3 DEF DumpRest, Along, OwnOnly, OnRequest
<1>8. \A n \in mem.linked : DoneWith(n)' = DoneWith(n)
  BY <1>1, <1>3 DEF DoneWith, OnRequest, Id, Seen
<1>9. RowsSoFar' /\ FindShowsOwn' /\ StaleExplained'
  BY <1>1, <1>3, <1>8, QuietStep DEF DumpRest
<1> QED
  BY <1>5, <1>6, <1>7, <1>9 DEF DumpRest

(* A walk fails for a reason: nothing has been read, or nobody is there, or*)
(* the thread it is at is the first that cannot be read.                   *)
LEMMA FailsOfDump ==
  ASSUME RequestAssumption, TargetInv, WalkerInv, DumpRest,
         ReadThreadFails \/ (ReadStore /\ ~mem.store)
  PROVE  DumpRest'
<1>1. /\ e.pc \in {"thread", "store"} /\ e' = [e EXCEPT !.pc = "returned", !.hr = "failed"]
      /\ UNCHANGED <<mem, ids, lasting, reused, seen, rows>>
  BY DEF ReadThreadFails, ReadStore, Failed, Do, target
<1>2. e \in Command
  BY DEF WalkerInv, RequestTypeOK
<1>3. /\ e'.pc = "returned" /\ e'.curr = e.curr /\ e'.cmd = e.cmd /\ e'.wanted = e.wanted
      /\ e'.ctx = e.ctx /\ e'.hr = "failed"
  BY <1>1, <1>2 DEF Command
<1>4. Still'
  BY <1>1, <1>3 DEF DumpRest, Still, OnRequest, IdsIn
<1>5. /\ \A n \in mem.linked : InReach(n) => Id(n) \in Seen
      /\ mem.linked = {} \/ \E n \in mem.linked : ~InReach(n)
  <2>1. CASE ReadStore /\ ~mem.store
    BY <2>1 DEF InReach
  <2>2. CASE ReadThreadFails /\ e.curr = Null
    BY <2>2 DEF ReadThreadFails, Do, DumpRest, Reading
  <2>3. CASE ReadThreadFails /\ e.curr # Null
    <3>1. /\ e.pc = "thread" /\ e.curr \in mem.linked /\ mem.linked \subseteq Nodes
          /\ Unreadable /\ Id(e.curr) # 0
      BY <2>3, TargetTypes DEF ReadThreadFails, Do, DumpRest, Still, TargetInv, Numbered
    <3>2. ~mem.at[e.curr].readable
      BY <2>3, <3>1 DEF Unreadable, Readable, Id
    <3>3. \A n \in mem.linked : Id(n) \in Nat
      BY <3>1, TargetTypes DEF TargetInv
    <3>4. ~InReach(e.curr)
      BY <3>1, <3>2, <3>3 DEF InReach, Id
    <3>5. ASSUME NEW n \in mem.linked, InReach(n) PROVE Id(n) \in Seen
      <4>1. ~(Id(e.curr) <= Id(n))
        BY <3>1, <3>2, <3>5 DEF InReach, Id
      <4>2. Id(n) \in lasting
        BY DEF DumpRest, Still, IdsIn, Id
      <4> QED
        BY <3>1, <4>1, <4>2 DEF WalkerInv, Covered, Ahead, DumpRest, Still
    <3> QED
      BY <3>1, <3>4, <3>5
  <2> QED
    BY <2>1, <2>2, <2>3
<1>6. Reading' /\ Held'
  <2>1. Seen' = Seen /\ \A n \in mem.linked : Id(n)' = Id(n) /\ InReach(n)' = InReach(n)
    BY <1>1 DEF Seen, Id, InReach
  <2> QED
    BY <1>1, <1>3, <1>5, <2>1 DEF DumpRest, Reading, Held, Walking, OnRequest
<1>7. Along' /\ OwnOnly'
  BY <1>1, <1>3 DEF DumpRest, Along, OwnOnly, OnRequest
<1>8. \A n \in mem.linked : DoneWith(n)' = DoneWith(n)
  BY <1>1, <1>3 DEF DoneWith, OnRequest, Id, Seen
<1>9. RowsSoFar' /\ FindShowsOwn' /\ StaleExplained'
  BY <1>1, <1>3, <1>8, QuietStep DEF DumpRest
<1> QED
  BY <1>4, <1>6, <1>7, <1>9 DEF DumpRest

(* On to the next thread of the list. *)
LEMMA NextThreadOfDump ==
  ASSUME RequestAssumption, TargetInv, WalkerInv, DumpRest, NextThread
  PROVE  DumpRest'
<1>1. /\ e.pc = "next" /\ UNCHANGED <<mem, ids, lasting, reused, seen, rows>>
      /\ e' = IF e.next = Null THEN [e EXCEPT !.pc = "returned"]
                               ELSE [e EXCEPT !.pc = "thread", !.curr = e.next]
  BY DEF NextThread, Do, target
<1>2. e \in Command
  BY DEF WalkerInv, RequestTypeOK
<1>3. /\ e'.cmd = e.cmd /\ e'.wanted = e.wanted /\ e'.ctx = e.ctx /\ e'.hr = e.hr
      /\ IF e.next = Null THEN e'.pc = "returned" /\ e'.curr = e.curr
                          ELSE e'.pc = "thread" /\ e'.curr = e.next
  BY <1>1, <1>2 DEF Command
<1>4. Still'
  BY <1>1, <1>3 DEF DumpRest, Still, OnRequest, IdsIn, Seen
<1>8. Reading' /\ Held'
  <2>1. e.next = Null => lasting \subseteq Seen
    BY <1>1 DEF WalkerInv, Covered, Ahead, DumpRest, Still
  <2>2. Seen' = Seen /\ \A n \in mem.linked : Id(n)' = Id(n) /\ InReach(n)' = InReach(n)
    BY <1>1 DEF Seen, Id, InReach
  <2>3. \A n \in mem.linked : Id(n) \in lasting
    BY DEF DumpRest, Still, IdsIn, Id
  <2>4. Held'
    BY <1>1, <1>3, <2>2 DEF DumpRest, Held, OnRequest
  <2>5. e.hr = "S_OK" /\ mem.linked # {} /\ mem.store
    BY <1>1 DEF DumpRest, Reading, Walking
  <2> QED
    BY <1>1, <1>3, <2>1, <2>2, <2>3, <2>4, <2>5 DEF DumpRest, Reading, Walking, OnRequest
<1>5. Along' /\ OwnOnly'
  BY <1>1, <1>3 DEF DumpRest, Along, OwnOnly, OnRequest
<1>6. \A n \in mem.linked : DoneWith(n)' = DoneWith(n)
  BY <1>1, <1>3 DEF DoneWith, OnRequest, Id, Seen
<1>7. RowsSoFar' /\ FindShowsOwn' /\ StaleExplained'
  BY <1>1, <1>3, <1>6, QuietStep DEF DumpRest
<1> QED
  BY <1>4, <1>5, <1>7, <1>8 DEF DumpRest

(* The frame of a callback is overwritten between two of them. *)
LEMMA FrameOfDump ==
  ASSUME RequestAssumption, TargetInv, WalkerInv, DumpRest, FrameOverwritten
  PROVE  DumpRest'
<1>1. /\ e.cmd = "dump" /\ e.pc = "next" /\ UNCHANGED <<mem, ids, lasting, reused, seen, rows>>
      /\ e' = [e EXCEPT !.ctx = Junk, !.time = Junk]
  BY DEF FrameOverwritten, Do, target
<1>2. e \in Command
  BY DEF WalkerInv, RequestTypeOK
<1>3. /\ e'.cmd = e.cmd /\ e'.wanted = e.wanted /\ e'.pc = e.pc /\ e'.curr = e.curr
      /\ e'.next = e.next /\ e'.id = e.id /\ e'.hr = e.hr /\ e'.ctx = Junk
  BY <1>1, <1>2 DEF Command
<1>4. Still'
  BY <1>1, <1>3 DEF DumpRest, Still, OnRequest, IdsIn, Seen, Id
<1>8. Reading' /\ Held'
  <2>1. Seen' = Seen /\ \A n \in mem.linked : Id(n)' = Id(n) /\ InReach(n)' = InReach(n)
    BY <1>1 DEF Seen, Id, InReach
  <2> QED
    BY <1>1, <1>3, <2>1 DEF DumpRest, Reading, Held, Walking, OnRequest
<1>5. Along' /\ OwnOnly'
  BY <1>1, <1>3 DEF Along, OwnOnly, OnRequest
<1>6. \A n \in mem.linked : DoneWith(n)' = DoneWith(n)
  BY <1>1, <1>3 DEF DoneWith, OnRequest, Id, Seen
<1>7. RowsSoFar' /\ FindShowsOwn' /\ StaleExplained'
  BY <1>1, <1>3, <1>6, QuietStep DEF DumpRest
<1> QED
  BY <1>4, <1>5, <1>7, <1>8 DEF DumpRest

(* The thread that is called back with has not been before: it has no row. *)
LEMMA CallBackOfDump ==
  ASSUME RequestAssumption, TargetInv, WalkerInv, DumpRest, ReadThread
  PROVE  DumpRest'
<1>1. /\ e.pc = "thread" /\ UNCHANGED <<mem, ids, lasting, reused, rows>>
      /\ e' = [e EXCEPT !.id = At.id, !.next = At.next,
                        !.pc = IF Match(At.id) THEN "managed" ELSE "next"]
      /\ seen' = Append(seen, At.id)
  BY DEF ReadThread, CallBack, target
<1>2. e \in Command /\ mem.linked \subseteq Nodes /\ Null \notin Nodes
  BY TargetTypes DEF WalkerInv, RequestTypeOK, TargetInv, RequestAssumption
<1>3. e.curr \in mem.linked /\ At.id = Id(e.curr) /\ At.next = NextOf(e.curr)
  BY DEF ReadThread, Readable, DumpRest, Still, At, Id, NextOf
<1>4. /\ e'.cmd = e.cmd /\ e'.wanted = e.wanted /\ e'.ctx = e.ctx /\ e'.curr = e.curr /\ e'.hr = e.hr
      /\ e'.id = Id(e.curr) /\ e'.next = NextOf(e.curr)
      /\ e'.pc = (IF Match(At.id) THEN "managed" ELSE "next")
  BY <1>1, <1>2, <1>3 DEF Command
<1>5. Id(e.curr) \in Nat /\ Id(e.curr) \notin Seen
  <2>1. Ahead = e.curr /\ e.curr # Null
    BY <1>1, <1>2, <1>3 DEF Ahead
  <2>2. \A i \in DOMAIN seen : seen[i] < Id(e.curr) /\ seen[i] \in Nat
    BY <1>1, <2>1 DEF WalkerInv, Ascending
  <2>3. Id(e.curr) \in Nat
    BY <1>2, <1>3, TargetTypes DEF TargetInv
  <2> QED
    BY <2>2, <2>3 DEF Seen
<1>6. Seen' = Seen \cup {Id(e.curr)}
  <2>1. seen \in Seq(Nat)
    BY DEF WalkerInv, Ascending
  <2>2. DOMAIN seen' = DOMAIN seen \cup {Len(seen) + 1} /\ seen'[Len(seen) + 1] = Id(e.curr)
        /\ \A i \in DOMAIN seen : seen'[i] = seen[i]
    BY <1>1, <1>3, <1>5, <2>1
  <2> QED
    BY <2>2 DEF Seen
<1>7. Still'
  <2>1. NextOf(e.curr) \in mem.linked \cup {Null}
    BY <1>3, LinksStay DEF TargetInv, DumpRest, Still
  <2>2. Id(e.curr)' = Id(e.curr)
    BY <1>1, <1>4 DEF Id
  <2> QED
    BY <1>1, <1>3, <1>4, <1>6, <2>1, <2>2 DEF DumpRest, Still, OnRequest, IdsIn
<1>8. Along' /\ OwnOnly'
  BY <1>1, <1>4 DEF DumpRest, Along, OwnOnly, OnRequest
<1>9. Rows' = Rows
  BY <1>1 DEF Rows
<1>10. RowsSoFar'
  <2> SUFFICES ASSUME e.cmd = "dump", NEW n \in mem.linked
               PROVE  IF DoneWith(n)' THEN Shown(n)' ELSE RowsOf(n)' = {}
    BY <1>1, <1>4 DEF RowsSoFar, DumpRest
  <2>1. RowsOf(n)' = RowsOf(n) /\ Shown(n)' = Shown(n)
    BY <1>1, <1>9 DEF RowsOf, Shown
  <2>2. IF DoneWith(n) THEN Shown(n) ELSE RowsOf(n) = {}
    BY DEF DumpRest, RowsSoFar
  <2>3. CASE n = e.curr
    <3>1. ~DoneWith(n)
      BY <1>5, <2>3 DEF DoneWith
    <3>2. e'.pc \in OnRequest
      BY <1>4 DEF Match, OnRequest
    <3>3. ~DoneWith(n)'
      BY <1>4, <2>3, <3>2 DEF DoneWith
    <3> QED
      BY <2>1, <2>2, <3>1, <3>3
  <2>4. CASE n # e.curr
    <3>1. Id(n) # Id(e.curr)
      BY <1>3, <2>4 DEF TargetInv, Numbered
    <3>2. Id(n)' = Id(n)
      BY <1>1 DEF Id
    <3>3. DoneWith(n)' <=> DoneWith(n)
      BY <1>4, <1>6, <2>4, <3>1, <3>2 DEF DoneWith
    <3> QED
      BY <2>1, <2>2, <3>3
  <2> QED
    BY <2>3, <2>4
<1>11. FindShowsOwn' /\ StaleExplained'
  BY <1>1, <1>4, <1>9 DEF DumpRest, FindShowsOwn, StaleExplained
<1>12. /\ \A i \in Seen : i < Id(e.curr)
       /\ Ahead = e.curr /\ e.curr # Null
       /\ \A n \in mem.linked : Id(n) \in Nat /\ Id(n) \in lasting
  <2>1. Ahead = e.curr /\ e.curr # Null
    BY <1>1, <1>2, <1>3 DEF Ahead
  <2>2. \A i \in DOMAIN seen : seen[i] < Id(e.curr)
    BY <1>1, <2>1 DEF WalkerInv, Ascending
  <2>3. \A n \in mem.linked : Id(n) \in Nat /\ Id(n) \in lasting
    BY <1>2, TargetTypes DEF TargetInv, DumpRest, Still, IdsIn, Id
  <2> QED
    BY <2>1, <2>2, <2>3 DEF Seen
<1>13. InReach(e.curr)
  <2>1. mem.store /\ At.readable
    BY <1>1 DEF DumpRest, Reading, Walking, ReadThread, Readable, At
  <2>2. ASSUME NEW m \in mem.linked, Id(m) <= Id(e.curr) PROVE mem.at[m].readable
    <3>1. CASE Id(m) = Id(e.curr)
      BY <1>3, <2>1, <3>1 DEF TargetInv, Numbered, At
    <3>2. CASE Id(m) # Id(e.curr)
      <4>1. ~(Id(e.curr) <= Id(m))
        BY <1>3, <1>12, <2>2, <3>2
      <4>2. Id(m) \in Seen
        BY <1>1, <1>12, <4>1 DEF WalkerInv, Covered, DumpRest, Still
      <4>3. InReach(m)
        BY <4>2 DEF DumpRest, Reading
      <4> QED
        BY <1>12, <4>3 DEF InReach, Id
    <3> QED
      BY <3>1, <3>2
  <2> QED
    BY <2>1, <2>2 DEF InReach, Id
<1>14. Reading'
  <2>1. \A n \in mem.linked : Id(n)' = Id(n) /\ InReach(n)' = InReach(n)
    BY <1>1 DEF Id, InReach
  <2>2. ASSUME NEW n \in mem.linked, Id(n) \in Seen \cup {Id(e.curr)} PROVE InReach(n)
    <3>1. CASE Id(n) \in Seen
      BY <3>1 DEF DumpRest, Reading
    <3>2. CASE Id(n) = Id(e.curr)
      BY <1>3, <1>13, <3>2 DEF TargetInv, Numbered
    <3> QED
      BY <2>2, <3>1, <3>2
  <2>3. mem.store /\ e.hr = "S_OK"
    BY <1>1 DEF DumpRest, Reading, Walking
  <2>4. e'.pc \in {"managed", "next"}
    BY <1>4
  <2> QED
    BY <1>1, <1>3, <1>4, <1>6, <2>1, <2>2, <2>3, <2>4 DEF Reading
<1>15. Held'
  <2>1. \A n \in mem.linked : Id(n)' = Id(n)
    BY <1>1 DEF Id
  <2>2. \A i \in Seen' : i <= e'.id
    <3>1. Seen \subseteq Nat
      BY DEF WalkerInv, Ascending, Seen
    <3>2. \A i \in Seen : i <= Id(e.curr)
      BY <1>5, <1>12, <3>1
    <3>3. Id(e.curr) <= Id(e.curr)
      BY <1>5
    <3> QED
      BY <1>4, <1>6, <3>2, <3>3
  <2> QED
    BY <1>1, <1>4, <1>6, <2>1, <2>2 DEF DumpRest, Held
<1> QED
  BY <1>7, <1>8, <1>10, <1>11, <1>14, <1>15 DEF DumpRest

(* One step nearer to the request: of a thread that has none, that is the  *)
(* end, and nothing is shown.                                              *)
LEMMA RequestStepOfDump ==
  ASSUME RequestAssumption, TargetInv, WalkerInv, DumpRest,
         ReadManaged \/ ReadExec \/ ReadIllogical \/ ReadHost
  PROVE  DumpRest'
<1>1. /\ e.pc \in OnRequest /\ e' \in Command
      /\ e'.curr = e.curr /\ e'.next = e.next /\ e'.id = e.id
      /\ e'.cmd = e.cmd /\ e'.wanted = e.wanted /\ e'.hr = e.hr
      /\ \/ e'.pc \in OnRequest \ {"managed"}
         \/ e'.pc = "next" /\ e.cmd = "dump"
         \/ e'.pc = "returned" /\ e.cmd # "dump"
      /\ UNCHANGED <<target, seen>>
  BY RequestStepMoves DEF WalkerInv, TargetInv, RequestStep
<1>2. UNCHANGED <<mem, ids, lasting, reused, seen, rows>> /\ At' = At
  BY <1>1 DEF ReadManaged, ReadExec, ReadIllogical, ReadHost, Do, target, At
<1>3. e \in Command
  BY DEF WalkerInv, RequestTypeOK
<1>4. Still'
  <2>1. Id(e.curr)' = Id(e.curr) /\ Seen' = Seen
    BY <1>1, <1>2 DEF Id, Seen
  <2> QED
    BY <1>1, <1>2, <2>1 DEF DumpRest, Still, IdsIn, OnRequest
<1>5. /\ Along' /\ OwnOnly'
      /\ e'.pc \notin OnRequest => ~(At.managed /\ At.exec = "set")
      /\ e'.ctx \in {e.ctx, Null} \/ (Complete(At) /\ e'.ctx = At.host)
  <2>1. CASE ReadManaged
    <3>1. e.pc = "managed" /\ (IF At.managed THEN e'.pc = "exec" ELSE e'.pc \notin OnRequest)
          /\ e'.ctx = e.ctx
      BY <1>3, <2>1 DEF ReadManaged, Do, Done, Command, OnRequest
    <3> QED
      BY <1>1, <1>2, <3>1 DEF DumpRest, Along, OwnOnly, OnRequest
  <2>2. CASE ReadExec
    <3>1. e.pc = "exec" /\ (IF At.exec = "set" THEN e'.pc = "illogical" ELSE e'.pc \notin OnRequest)
          /\ e'.ctx \in {e.ctx, Null}
      <4>1. e.pc = "exec" /\
            \/ At.exec = "set" /\ e' = [e EXCEPT !.pc = "illogical"]
            \/ At.exec # "set" /\ e' \in {Done, [Done EXCEPT !.ctx = Null]}
        BY <2>2 DEF ReadExec, Do
      <4> QED
        BY <1>3, <4>1 DEF Done, Command, OnRequest
    <3> QED
      BY <1>1, <1>2, <3>1 DEF DumpRest, Along, OwnOnly, OnRequest
  <2>3. CASE ReadIllogical
    <3>1. e.pc = "illogical" /\ (IF At.illogical = "set" THEN e'.pc = "host" ELSE e'.pc = "request")
          /\ e'.ctx = e.ctx
      BY <1>3, <2>3 DEF ReadIllogical, Do, Command
    <3> QED
      BY <1>1, <1>2, <3>1 DEF DumpRest, Along, OwnOnly, OnRequest, Complete
  <2>4. CASE ReadHost
    <3>1. e.pc = "host" /\ e'.pc = "request" /\ e'.ctx = At.host
      BY <1>3, <2>4 DEF ReadHost, Do, Command
    <3> QED
      BY <1>1, <1>2, <3>1 DEF DumpRest, Along, OwnOnly, OnRequest, Complete
  <2> QED
    BY <2>1, <2>2, <2>3, <2>4
<1>6. ASSUME NEW n \in mem.linked, DoneWith(n)' # DoneWith(n)
      PROVE  DoneWith(n)' /\ (RowsOf(n) = {} => Shown(n))
  <2>1. Id(n)' = Id(n) /\ Seen' = Seen
    BY <1>2 DEF Id, Seen
  <2>2. n = e.curr /\ e'.pc \notin OnRequest /\ DoneWith(n)'
    BY <1>1, <1>6, <2>1 DEF DoneWith
  <2>3. mem.at[n] = At
    BY <2>2 DEF At
  <2>4. ~(mem.at[n].managed /\ mem.at[n].exec = "set")
    BY <1>5, <2>2, <2>3
  <2>5. RowsOf(n) = {} => Shown(n)
    BY <2>4 DEF Shown, Complete
  <2> QED
    BY <2>2, <2>5
<1>7. RowsSoFar' /\ FindShowsOwn' /\ StaleExplained'
  BY <1>1, <1>2, <1>6, QuietStep DEF DumpRest
<1>8. Reading'
  <2>1. Seen' = Seen /\ \A n \in mem.linked : Id(n)' = Id(n) /\ InReach(n)' = InReach(n)
    BY <1>1, <1>2 DEF Seen, Id, InReach
  <2> QED
    BY <1>1, <1>2, <2>1 DEF DumpRest, Reading, Walking, OnRequest
<1>9. Held'
  <2>1. Seen' = Seen /\ \A n \in mem.linked : Id(n)' = Id(n)
    BY <1>1, <1>2 DEF Seen, Id
  <2>2. e.curr \in mem.linked /\ Id(e.curr) \in Seen /\ At = mem.at[e.curr]
    BY <1>1 DEF DumpRest, Still, WalkerInv, RequestTypeOK, OnRequest, At
  <2>3. e'.pc \in OnRequest => \A i \in Seen' : i <= e'.id
    BY <1>1, <2>1 DEF DumpRest, Held
  <2> QED
    BY <1>1, <1>2, <1>5, <2>1, <2>2, <2>3 DEF DumpRest, Held
<1> QED
  BY <1>4, <1>5, <1>7, <1>8, <1>9 DEF DumpRest

(* The request of the thread, if it has one, is shown. *)
LEMMA ShowRequestOfDump ==
  ASSUME RequestAssumption, TargetInv, WalkerInv, DumpRest, ShowRequest
  PROVE  DumpRest'
<1>1. /\ e.pc \in OnRequest /\ e' \in Command
      /\ e'.curr = e.curr /\ e'.next = e.next /\ e'.id = e.id
      /\ e'.cmd = e.cmd /\ e'.wanted = e.wanted /\ e'.hr = e.hr
      /\ UNCHANGED <<target, seen>>
  BY RequestStepMoves DEF WalkerInv, TargetInv, RequestStep
<1>2. UNCHANGED <<mem, ids, lasting, reused, seen>> /\ At' = At
  BY <1>1 DEF target, At
<1>3. /\ e \in Command /\ e.pc = "request" /\ e.curr \in mem.linked /\ At = mem.at[e.curr]
      /\ e.curr \in Nodes
  BY TargetTypes DEF WalkerInv, RequestTypeOK, TargetInv, ShowRequest, DumpRest, Still, At
<1> DEFINE time == IF e.ctx \in Stamped THEN e.ctx ELSE e.time
           r == [id |-> e.id, node |-> e.curr, ctx |-> e.ctx, time |-> time]
<1>4. IF e.ctx = Null THEN e' = Done /\ UNCHANGED rows
                      ELSE rows' = Append(rows, r) /\ e' = [Done EXCEPT !.time = time]
  BY DEF ShowRequest
<1>5. e'.ctx = e.ctx /\ e'.pc = (IF e.cmd = "dump" THEN "next" ELSE "returned")
  BY <1>3, <1>4 DEF Done, Command
<1>6. Still'
  <2>1. Id(e.curr)' = Id(e.curr) /\ Seen' = Seen
    BY <1>1, <1>2 DEF Id, Seen
  <2> QED
    BY <1>1, <1>2, <1>3, <1>5, <2>1 DEF DumpRest, Still, IdsIn, OnRequest
<1>7. Along' /\ OwnOnly'
  BY <1>1, <1>2, <1>5, <1>3 DEF DumpRest, Along, OwnOnly, OnRequest
<1>8. rows' \in Seq(Row) /\ Rows' = Rows \cup (IF e.ctx = Null THEN {} ELSE {r})
  <2>1. CASE e.ctx = Null
    BY <1>4, <2>1 DEF DumpRest, RowsSoFar, Rows
  <2>2. CASE e.ctx # Null
    <3>1. r \in Row
      <4>1. e.id \in Nat /\ e.ctx \in Contexts \cup {Junk} /\ time \in Contexts \cup {Null, Junk}
        BY <1>3, <2>2 DEF Command
      <4> HIDE DEF time
      <4> QED
        BY <1>3, <4>1 DEF Row
    <3> HIDE DEF r
    <3>2. rows \in Seq(Row) /\ rows' = Append(rows, r)
      BY <1>4, <2>2 DEF DumpRest, RowsSoFar, r
    <3>3. /\ rows' \in Seq(Row) /\ DOMAIN rows' = DOMAIN rows \cup {Len(rows) + 1}
          /\ rows'[Len(rows) + 1] = r /\ \A i \in DOMAIN rows : rows'[i] = rows[i]
      BY <3>1, <3>2
    <3> QED
      BY <2>2, <3>3 DEF Rows
  <2> QED
    BY <2>1, <2>2
<1>9. r.id = e.id /\ r.node = e.curr /\ r.ctx = e.ctx /\ r.time = time
  OBVIOUS
<1> HIDE DEF r
<1>10. RowsSoFar'
  <2> SUFFICES ASSUME e.cmd = "dump", NEW n \in mem.linked
               PROVE  IF DoneWith(n)' THEN Shown(n)' ELSE RowsOf(n)' = {}
    BY <1>1, <1>2, <1>8 DEF RowsSoFar
  <2>1. IF DoneWith(n) THEN Shown(n) ELSE RowsOf(n) = {}
    BY DEF DumpRest, RowsSoFar
  <2>2. Id(n)' = Id(n) /\ Seen' = Seen
    BY <1>2 DEF Id, Seen
  <2>3. CASE n # e.curr
    <3>1. DoneWith(n)' <=> DoneWith(n)
      BY <1>1, <2>2, <2>3 DEF DoneWith
    <3>2. RowsOf(n)' = RowsOf(n)
      BY <1>8, <1>9, <2>3 DEF RowsOf
    <3>3. Shown(n)' <=> Shown(n)
      BY <1>2, <3>2 DEF Shown
    <3> QED
      BY <2>1, <3>1, <3>2, <3>3
  <2>4. CASE n = e.curr
    <3>1. ~DoneWith(n) /\ RowsOf(n) = {}
      BY <1>1, <2>1, <2>4 DEF DoneWith
    <3>2. DoneWith(n)'
      BY <1>1, <1>2, <1>5, <2>2, <2>4 DEF DoneWith, DumpRest, Still, OnRequest
    <3>3. RowsOf(n)' = IF e.ctx = Null THEN {} ELSE {r}
      BY <1>8, <1>9, <2>4, <3>1 DEF RowsOf
    <3>4. mem'.at[n] = At /\ At.managed /\ At.exec = "set" /\ (Complete(At) => e.ctx = At.host)
      BY <1>2, <1>3, <2>4 DEF DumpRest, Along, OnRequest
    <3>5. Complete(At) => {x.ctx : x \in RowsOf(n)'} = {At.host} \ {Null}
      BY <1>9, <3>3, <3>4
    <3>6. \A x \in RowsOf(n)' : x.ctx \in Stamped => x.time = x.ctx
      BY <1>9, <3>3
    <3>7. Shown(n)'
      BY <3>4, <3>5, <3>6 DEF Shown
    <3> QED
      BY <3>2, <3>7
  <2> QED
    BY <2>3, <2>4
<1>11. FindShowsOwn'
  <2> SUFFICES ASSUME LastId = 0, e.cmd = "find", NEW x \in Rows'
               PROVE  x.id = e.wanted /\ x.ctx = mem.at[x.node].host
    BY <1>1, <1>2 DEF FindShowsOwn
  <2>1. CASE x \in Rows
    BY <2>1 DEF DumpRest, FindShowsOwn
  <2>2. CASE x = r /\ e.ctx # Null
    <3>1. e.id = e.wanted
      BY <1>1 DEF WalkerInv, Found
    <3>2. e.ctx = mem.at[e.curr].host
      BY <1>3, <2>2 DEF DumpRest, OwnOnly
    <3> QED
      BY <1>9, <2>2, <3>1, <3>2
  <2> QED
    BY <1>8, <2>1, <2>2
<1>12. Seen' = Seen /\ \A n \in mem.linked : Id(n)' = Id(n) /\ InReach(n)' = InReach(n)
  BY <1>1, <1>2 DEF Seen, Id, InReach
<1>13. Reading'
  BY <1>1, <1>2, <1>3, <1>5, <1>12 DEF DumpRest, Reading, Walking, OnRequest
<1>14. Held'
  BY <1>1, <1>2, <1>5, <1>12 DEF DumpRest, Held, OnRequest
<1>15. StaleExplained'
  <2> SUFFICES ASSUME LastId = 0, e.cmd = "dump", NEW x \in Rows'
               PROVE  LET t == mem.at[x.node] IN
                      IF Complete(t) THEN x.ctx = t.host
                      ELSE x.ctx = Junk \/ \E m \in mem.linked :
                             mem.at[m].id < t.id /\ Complete(mem.at[m]) /\ mem.at[m].host = x.ctx
    BY <1>1, <1>2 DEF StaleExplained
  <2>1. CASE x \in Rows
    BY <2>1 DEF DumpRest, StaleExplained
  <2>2. CASE x = r /\ e.ctx # Null
    <3>1. mem.at[x.node] = At /\ x.ctx = e.ctx
      BY <1>3, <1>9, <2>2
    <3>2. CASE Complete(At)
      BY <1>3, <3>1, <3>2 DEF DumpRest, Along
    <3>3. CASE ~Complete(At) /\ e.ctx # Junk
      <4>1. PICK m \in mem.linked : Id(m) \in Seen /\ Complete(mem.at[m]) /\ mem.at[m].host = e.ctx
        BY <2>2, <3>3 DEF DumpRest, Held
      <4>2. Id(m) <= Id(e.curr)
        BY <1>1, <4>1 DEF DumpRest, Still, Held
      <4>3. Id(m) # Id(e.curr)
        BY <1>3, <3>3, <4>1 DEF TargetInv, Numbered
      <4>4. Id(m) \in Nat /\ Id(e.curr) \in Nat
        BY <1>3, TargetTypes DEF TargetInv
      <4>5. mem.at[m].id < At.id
        BY <1>3, <4>2, <4>3, <4>4 DEF Id
      <4> QED
        BY <3>1, <3>3, <4>1, <4>5
    <3> QED
      BY <3>1, <3>2, <3>3
  <2> QED
    BY <1>8, <2>1, <2>2
<1> QED
  BY <1>6, <1>7, <1>10, <1>11, <1>13, <1>14, <1>15 DEF DumpRest

(* A dump is in order, and nothing of it has been shown. *)
LEMMA DumpStarts ==
  ASSUME RequestAssumption, RequestInit
  PROVE  DumpRest
<1>1. mem \in Image /\ Listed(mem) /\ lasting = IdsIn(mem) /\ ~reused /\ seen = <<>> /\ rows = <<>>
  BY DEF RequestAssumption, RequestInit
<1>2. PICK c \in Queries, w \in lasting \cup {0} :
         e = [pc |-> "store", cmd |-> c, wanted |-> w, curr |-> Null, next |-> Null, id |-> 0,
              ctx |-> IF c = "dump" THEN Junk ELSE Null,
              time |-> IF c = "dump" THEN Junk ELSE Null, hr |-> "S_OK"]
  BY DEF RequestInit
<1>3. /\ e.pc = "store" /\ e.curr = Null /\ (e.cmd = "find" => e.ctx = Null)
      /\ e.hr = "S_OK" /\ (e.cmd = "dump" => e.ctx = Junk)
  BY <1>2
<1>4. Still /\ Along /\ OwnOnly
  BY <1>1, <1>3 DEF Still, Along, OwnOnly, OnRequest
<1>5. Rows = {} /\ Seen = {} /\ rows \in Seq(Row)
  BY <1>1 DEF Rows, Seen
<1>6. RowsSoFar /\ FindShowsOwn /\ StaleExplained
  BY <1>5 DEF RowsSoFar, RowsOf, DoneWith, FindShowsOwn, StaleExplained
<1>7. Reading /\ Held
  BY <1>3, <1>5 DEF Reading, Held, Walking, OnRequest
<1> QED
  BY <1>4, <1>6, <1>7 DEF DumpRest

(* Of a dump, whatever of it can be read: every thread that the walk gets  *)
(* to and whose contexts can all be read is shown with its request, or not *)
(* at all if it has none; a request that is not the thread's own comes from*)
(* a thread before it or from the stack, and is only shown where a context *)
(* cannot be read; EnumThreads fails if the walk does not get to all; and  *)
(* !findhttpcontext shows the request of the thread that it was asked for, *)
(* or none.                                                                *)
THEOREM RequestsOfDumpShown == RequestSpec => []RequestsShown
<1>1. RequestInit => DumpInv
  BY RequestAssumption, DumpStarts DEF DumpInv
<1>2. TargetInv /\ WalkerInv /\ DumpInv /\ [RequestNext]_requestVars => DumpInv'
  <2> SUFFICES ASSUME TargetInv, WalkerInv, LastId = 0, DumpRest, [RequestNext]_requestVars
               PROVE  DumpRest'
    BY DEF DumpInv
  <2> USE RequestAssumption
  <2>1. CASE TargetRuns
    BY <2>1 DEF TargetRuns
  <2>2. CASE EnumStep \/ FrameOverwritten
    BY <2>2, ReadStoreOfDump, CallBackOfDump, FailsOfDump, NextThreadOfDump,
       RequestStepOfDump, ShowRequestOfDump, FrameOfDump DEF EnumStep
  <2>3. CASE UNCHANGED requestVars
    <3>1. UNCHANGED <<mem, lasting, reused, e, seen, rows>>
      BY <2>3 DEF requestVars, target
    <3>2. /\ Seen' = Seen /\ Rows' = Rows /\ At' = At
          /\ \A n \in mem.linked : Id(n)' = Id(n) /\ RowsOf(n)' = RowsOf(n)
      BY <3>1 DEF Seen, Rows, At, Id, RowsOf
    <3>3. \A n \in mem.linked : (DoneWith(n)' <=> DoneWith(n)) /\ (Shown(n)' <=> Shown(n))
      BY <3>1, <3>2 DEF DoneWith, Shown
    <3>4. Still' /\ Along' /\ OwnOnly' /\ FindShowsOwn'
      BY <3>1, <3>2 DEF DumpRest, Still, Along, OwnOnly, FindShowsOwn, Id, IdsIn
    <3>5. RowsSoFar'
      BY <3>1, <3>2, <3>3 DEF DumpRest, RowsSoFar
    <3>6. \A n \in mem.linked : InReach(n)' = InReach(n)
      BY <3>1 DEF InReach
    <3>7. Reading' /\ Held'
      BY <3>1, <3>2, <3>6 DEF DumpRest, Reading, Held
    <3>8. StaleExplained'
      BY <3>1, <3>2 DEF DumpRest, StaleExplained
    <3> QED
      BY <3>4, <3>5, <3>7, <3>8 DEF DumpRest
  <2> QED
    BY <2>1, <2>2, <2>3 DEF RequestNext
<1>3. WalkerInv /\ DumpInv => RequestsShown
  BY DumpAnswers
<1> QED
  BY <1>1, <1>2, <1>3, WalkInvariance, PTL DEF RequestSpec

-----------------------------------------------------------------------------
(* How targets are opened.  One call at a time: as long as nothing is      *)
(* muddled, the only target that is pending is that of the client who      *)
(* waits for it.                                                           *)

Client(x) == boot[x].pc # "idle" /\ x \in Clients

Single ==
  ~muddled => /\ \A x, y \in Clients : (Client(x) /\ Client(y)) => x = y
              /\ \A t \in engine.pending : \E x \in Clients : boot[x].pc = "wait" /\ boot[x].asked = t

(* Where each call is. *)
Stage(x) ==
  LET b == boot[x] IN
  /\ b.pc \in {"open", "wait"} => b.op = "from" /\ x \in Clients
  /\ b.pc = "dac" => b.op = "init" \/ b.waited
  /\ b.waited => b.op = "from"
  /\ (b.op = "from" /\ b.pc # "idle") => b.asked # Nothing
  /\ b.pc = "wait" => x \in openers
  /\ (b.waited /\ b.pc # "idle") => x \in openers

(* What an undisturbed call has reached. *)
Reached(x) ==
  LET b == boot[x] IN
  /\ b.pc = "open" => engine.path = b.path \/ b.path = Nothing
  /\ (b.pc = "wait" \/ (b.waited /\ b.pc # "idle")) => b.used = b.path \/ b.path = Nothing
  /\ (b.waited /\ b.pc # "idle") => engine.current = b.asked
  /\ openers \subseteq {x} => (b.isDump <=> engine.current \in Dumps)
  /\ (b.waited /\ b.pc # "idle") => (b.isDump <=> b.asked \in Dumps)

\* The debugger's own client is always there, and is a dump's.
CommandsOwn ==
  LET b == boot[OfCommand] IN b.cli /\ b.isDump /\ b.op = "init" /\ ~b.waited /\ b.path = Nothing

BootInv ==
  /\ BootAnswers
  /\ openers \subseteq Clients /\ muddled \in BOOLEAN
  /\ Single /\ CommandsOwn
  /\ \A x \in All : Stage(x)
  /\ ~muddled => \A x \in Clients : Reached(x)

\* What the properties ask of one interface.
Fine(i) ==
  /\ i.target # Nothing \/ i.dac = "none"
  /\ (i.clean /\ i.op = "from") => i.target = i.asked /\ (i.used = i.path \/ i.path = Nothing)
  /\ (i.clean /\ i.by # OfCommand /\ (i.op = "from" \/ i.alone)) =>
       (i.dac = "engine" <=> i.target \in Dumps)

\* BootAnswers, client by client.
LEMMA AnswersFine ==
  BootAnswers <=> /\ engine \in Engine /\ boot \in [All -> Boot]
                  /\ \A i \in made : Fine(i)
                  /\ CrashExplained
BY Zenon DEF BootAnswers, BootTypeOK, OwnTarget, RightDac, Configured, Fine

(* What a step of x has to leave: the other clients are idle, or nothing   *)
(* that they go by has changed.                                            *)
OthersKept(x) ==
  \A y \in Clients \ {x} :
    \/ engine' = engine /\ openers' = openers
    \/ boot[y].pc = "idle" /\ (engine'.current = engine.current \/ ~(openers' \subseteq {y}))

(* The invariant is kept by a step that changes one bootstrapper. *)
LEMMA OneChanges ==
  ASSUME BootstrapperAssumption, BootInv, NEW x \in All, NEW b \in Boot, B(x, b),
         engine' \in Engine, openers \subseteq openers', openers' \subseteq Clients,
         muddled' \in BOOLEAN, muddled => muddled',
         \A i \in made' : i \in made \/ Fine(i),
         CrashExplained', Stage(x)',
         x = OfCommand => b.cli /\ b.isDump /\ b.op = "init" /\ ~b.waited /\ b.path = Nothing,
         ~muddled' => Single' /\ OthersKept(x) /\ (x \in Clients => Reached(x)')
  PROVE  BootInv'
<1>1. /\ boot \in [All -> Boot] /\ engine \in Engine /\ \A i \in made : Fine(i)
  BY AnswersFine DEF BootInv
<1>2. /\ boot' \in [All -> Boot] /\ boot'[x] = b
      /\ \A y \in All \ {x} : boot'[y] = boot[y]
  BY <1>1 DEF B
<1>3. BootAnswers'
  <2>1. \A i \in made' : Fine(i)'
    BY <1>1 DEF Fine
  <2>2. /\ engine' \in Engine' /\ boot' \in [All' -> Boot'] /\ (\A i \in made' : Fine(i)') /\ CrashExplained'
    BY <1>2, <2>1 DEF Engine, Boot, All
  <2>3. (engine \in Engine /\ boot \in [All -> Boot] /\ (\A i \in made : Fine(i)) /\ CrashExplained)' => BootAnswers'
    BY AnswersFine, PTL
  <2> QED
    BY <2>2, <2>3
<1>4. CommandsOwn'
  <2>1. OfCommand \in All
    BY DEF All
  <2> QED
    BY <1>2, <2>1 DEF BootInv, CommandsOwn
<1>5. ASSUME NEW y \in All PROVE Stage(y)'
  <2>1. CASE y = x
    BY <2>1
  <2>2. CASE y # x
    BY <1>2, <2>2 DEF BootInv, Stage
  <2> QED
    BY <2>1, <2>2
<1>6. ASSUME ~muddled', NEW y \in Clients PROVE Reached(y)'
  <2>1. CASE y = x
    BY <1>6, <2>1
  <2>2. CASE y # x
    <3>1. Reached(y) /\ boot'[y] = boot[y]
      BY <1>2, <1>6, <2>2 DEF BootInv, All
    <3>2. CASE engine' = engine /\ openers' = openers
      BY <3>1, <3>2 DEF Reached
    <3>3. CASE boot[y].pc = "idle" /\ (engine'.current = engine.current \/ ~(openers' \subseteq {y}))
      BY <3>1, <3>3 DEF Reached
    <3> QED
      BY <1>6, <2>2, <3>2, <3>3 DEF OthersKept
  <2> QED
    BY <2>1, <2>2
<1>7. Single'
  BY DEF Single
<1> QED
  BY <1>3, <1>4, <1>5, <1>6, <1>7 DEF BootInv

(* What the fields of a bootstrapper are. *)
LEMMA BootTypes ==
  ASSUME BootInv, NEW x \in All
  PROVE  boot \in [All -> Boot] /\ boot[x] \in Boot /\ engine \in Engine
BY AnswersFine DEF BootInv

(* As long as nothing is muddled, a client that is busy is the only one,   *)
(* and nothing is pending but what it waits for.                           *)
LEMMA OnlyOne ==
  ASSUME BootInv, ~muddled, NEW x \in Clients, boot[x].pc # "idle"
  PROVE  /\ \A y \in Clients \ {x} : boot[y].pc = "idle"
         /\ engine.pending \subseteq (IF boot[x].pc = "wait" THEN {boot[x].asked} ELSE {})
<1>1. \A y \in Clients \ {x} : boot[y].pc = "idle"
  BY DEF BootInv, Single, Client
<1>2. ASSUME NEW t \in engine.pending PROVE boot[x].pc = "wait" /\ boot[x].asked = t
  BY <1>1 DEF BootInv, Single
<1> QED
  BY <1>1, <1>2

(* It stays the only one when it goes on. *)
LEMMA StaysOnly ==
  ASSUME BootInv, ~muddled, NEW x \in Clients, boot[x].pc # "idle", NEW b \in Boot, B(x, b),
         engine'.pending \subseteq (IF b.pc = "wait" THEN {b.asked} ELSE {})
  PROVE  Single'
<1>1. \A y \in Clients \ {x} : boot[y].pc = "idle"
  BY OnlyOne
<1>2. boot'[x] = b /\ \A y \in Clients \ {x} : boot'[y] = boot[y]
  BY BootTypes DEF B, All
<1>3. \A y, z \in Clients : (Client(y)' /\ Client(z)') => y = z
  BY <1>1, <1>2 DEF Client
<1>4. \A t \in engine'.pending : \E y \in Clients : boot'[y].pc = "wait" /\ boot'[y].asked = t
  BY <1>2
<1> QED
  BY <1>3, <1>4 DEF Single

(* A step that leaves alone the clients that are busy, and the engine.     *)
LEMMA SingleStays ==
  ASSUME BootInv, ~muddled, engine' = engine, NEW x \in All, NEW b \in Boot, B(x, b),
         x \notin Clients \/ (boot[x].pc = "idle" /\ b.pc = "idle")
  PROVE  Single'
<1>1. \A y \in Clients \ {x} : boot'[y] = boot[y]
  BY BootTypes DEF B, All
<1>2. x \in Clients => boot[x].pc = "idle" /\ boot'[x].pc = "idle"
  BY BootTypes DEF B
<1>3. \A y \in Clients : (Client(y)' <=> Client(y)) /\ (boot[y].pc = "wait" => boot'[y] = boot[y])
  BY <1>1, <1>2 DEF Client
<1> QED
  BY <1>3 DEF BootInv, Single

(* Paths are configured between calls. *)
LEMMA ConfigureKeeps ==
  ASSUME BootstrapperAssumption, BootInv, crashed = "nobody", NEW x \in All, Configure(x)
  PROVE  BootInv'
<1>1. PICK p \in Paths \cup {Nothing} : B(x, [boot[x] EXCEPT !.path = p])
  BY DEF Configure
<1> DEFINE b == [boot[x] EXCEPT !.path = p]
<1>2. /\ x # OfCommand /\ x \in Clients /\ boot[x].pc = "idle" /\ B(x, b)
      /\ UNCHANGED <<engine, installed, made, muddled, openers, crashed>>
  BY <1>1 DEF Configure, All
<1>3. /\ b \in Boot /\ b.pc = "idle" /\ b.op = boot[x].op /\ b.waited = boot[x].waited
      /\ b.isDump = boot[x].isDump
  BY <1>2, BootTypes DEF Boot
<1>4. boot'[x] = b
  BY <1>2, BootTypes DEF B
<1> HIDE DEF b
<1>5. Stage(x)'
  BY <1>3, <1>4, <1>2 DEF BootInv, Stage
<1>6. ~muddled' => Single' /\ OthersKept(x) /\ Reached(x)'
  <2> SUFFICES ASSUME ~muddled PROVE Single' /\ OthersKept(x) /\ Reached(x)'
    BY <1>2
  <2>1. Single'
    BY <1>2, <1>3, SingleStays
  <2>2. Reached(x)'
    BY <1>2, <1>3, <1>4 DEF BootInv, Reached
  <2> QED
    BY <1>2, <2>1, <2>2 DEF OthersKept
<1>7. CrashExplained'
  BY <1>2 DEF CrashExplained
<1> QED
  BY <1>2, <1>3, <1>5, <1>6, <1>7, OneChanges, BootTypes DEF BootInv

(* A call begins: of a client while another one is busy, it muddles.       *)
LEMMA CallInitKeeps ==
  ASSUME BootstrapperAssumption, BootInv, crashed = "nobody", NEW x \in All, CallInit(x)
  PROVE  BootInv'
<1>1. PICK op \in {"from", "init"}, t \in Targets \cup {Nothing} :
        /\ (op = "init") = (t = Nothing) /\ (x = OfCommand => op = "init")
        /\ B(x, [boot[x] EXCEPT !.pc = "ensure", !.op = op, !.asked = t, !.waited = FALSE,
                                !.used = Nothing])
  BY DEF CallInit
<1> DEFINE b == [boot[x] EXCEPT !.pc = "ensure", !.op = op, !.asked = t, !.waited = FALSE,
                                !.used = Nothing]
<1>2. /\ boot[x].pc = "idle" /\ B(x, b)
      /\ muddled' = (muddled \/ (x # OfCommand /\ Busy \ {OfCommand} # {}))
      /\ UNCHANGED <<engine, installed, made, openers, crashed>>
  BY <1>1 DEF CallInit
<1>3. /\ b \in Boot /\ b.pc = "ensure" /\ b.op = op /\ ~b.waited /\ b.asked = t
      /\ b.isDump = boot[x].isDump /\ b.cli = boot[x].cli /\ b.path = boot[x].path
  BY <1>1, BootTypes DEF Boot
<1>4. boot'[x] = b
  BY <1>2, <1>3, BootTypes DEF B
<1> HIDE DEF b
<1>5. Stage(x)'
  BY <1>1, <1>3, <1>4 DEF Stage
<1>6. muddled' \in BOOLEAN /\ (muddled => muddled')
  BY <1>2 DEF BootInv
<1>7. x = OfCommand => b.cli /\ b.isDump /\ b.op = "init" /\ ~b.waited /\ b.path = Nothing
  BY <1>1, <1>3 DEF BootInv, CommandsOwn
<1>8. ~muddled' => Single' /\ OthersKept(x) /\ (x \in Clients => Reached(x)')
  <2> SUFFICES ASSUME ~muddled' PROVE Single' /\ OthersKept(x) /\ (x \in Clients => Reached(x)')
    OBVIOUS
  <2>1. ~muddled /\ ~(x # OfCommand /\ Busy \ {OfCommand} # {})
    BY <1>2, Zenon
  <2>2. Single'
    <3>1. CASE x = OfCommand
      BY <1>2, <1>3, <2>1, <3>1, SingleStays DEF BootstrapperAssumption
    <3>2. CASE x # OfCommand
      <4>1. \A y \in Clients : boot[y].pc = "idle"
        BY <2>1, <3>2 DEF Busy, All, BootstrapperAssumption
      <4>2. engine.pending = {}
        BY <4>1, <2>1 DEF BootInv, Single
      <4>3. \A y \in Clients \ {x} : boot'[y] = boot[y]
        BY <1>2, BootTypes DEF B, All
      <4> QED
        BY <1>2, <4>1, <4>2, <4>3 DEF Single, Client
    <3> QED
      BY <3>1, <3>2
  <2>3. x \in Clients => Reached(x)'
    BY <1>2, <1>3, <1>4, <2>1 DEF BootInv, Reached
  <2> QED
    BY <1>2, <2>2, <2>3 DEF OthersKept
<1>9. CrashExplained'
  BY <1>2 DEF CrashExplained
<1> QED
  BY <1>2, <1>3, <1>5, <1>6, <1>7, <1>8, <1>9, OneChanges, BootTypes DEF BootInv

(* A call ends, with an interface or without: whatever the client still    *)
(* waited for may come up later, so that this muddles.                     *)
LEMMA CallEnds ==
  ASSUME BootstrapperAssumption, BootInv, NEW x \in All, boot[x].pc # "idle",
         B(x, [boot[x] EXCEPT !.pc = "idle"]), UNCHANGED <<engine, openers>>,
         muddled' \in BOOLEAN, muddled => muddled', boot[x].pc = "wait" => muddled',
         \A i \in made' : i \in made \/ Fine(i), CrashExplained'
  PROVE  BootInv'
<1> DEFINE b == [boot[x] EXCEPT !.pc = "idle"]
<1>1. /\ b \in Boot /\ b.pc = "idle" /\ b.op = boot[x].op /\ b.waited = boot[x].waited
      /\ b.isDump = boot[x].isDump /\ b.cli = boot[x].cli /\ b.asked = boot[x].asked
      /\ b.path = boot[x].path
  BY BootTypes DEF Boot
<1>2. B(x, b)
  OBVIOUS
<1>3. boot'[x] = b
  BY <1>2, BootTypes DEF B
<1> HIDE DEF b
<1>4. Stage(x)'
  BY <1>1, <1>3 DEF BootInv, Stage
<1>5. x = OfCommand => b.cli /\ b.isDump /\ b.op = "init" /\ ~b.waited /\ b.path = Nothing
  BY <1>1 DEF BootInv, CommandsOwn
<1>6. ASSUME ~muddled' PROVE Single' /\ OthersKept(x) /\ (x \in Clients => Reached(x)')
  <2>1. ~muddled /\ boot[x].pc # "wait"
    BY <1>6, Zenon
  <2>2. Single'
    <3>1. CASE x \in Clients
      <4>1. engine'.pending \subseteq {}
        BY <2>1, <3>1, OnlyOne
      <4> QED
        BY <1>1, <1>2, <2>1, <3>1, <4>1, StaysOnly
    <3>2. CASE x \notin Clients
      BY <1>1, <1>2, <2>1, <3>2, SingleStays
    <3> QED
      BY <3>1, <3>2
  <2>3. x \in Clients => Reached(x)'
    BY <1>1, <1>3, <2>1 DEF BootInv, Reached
  <2> QED
    BY <2>2, <2>3 DEF OthersKept
<1> QED
  BY <1>1, <1>2, <1>4, <1>5, <1>6, OneChanges, BootTypes DEF BootInv

(* The debugger's client is there, so that only others fail to get one.    *)
LEMMA EnsureFailsKeeps ==
  ASSUME BootstrapperAssumption, BootInv, crashed = "nobody", NEW x \in All, EnsureFails(x)
  PROVE  BootInv'
<1>1. /\ boot[x].pc = "ensure" /\ ~boot[x].cli /\ Fail(x)
      /\ UNCHANGED <<engine, installed, made, muddled, openers, uses>>
  BY DEF EnsureFails
<1>2. x # OfCommand
  BY <1>1 DEF BootInv, CommandsOwn
<1>3. crashed' = "nobody"
  BY <1>1, <1>2 DEF Fail
<1>4. CrashExplained'
  BY <1>3 DEF CrashExplained
<1>5. B(x, [boot[x] EXCEPT !.pc = "idle"])
  BY <1>1 DEF Fail
<1> QED
  BY <1>1, <1>4, <1>5, CallEnds DEF BootInv

(* Waiting may fail: the target is then still due. *)
LEMMA WaitFailsKeeps ==
  ASSUME BootstrapperAssumption, BootInv, crashed = "nobody", NEW x \in All, WaitFails(x)
  PROVE  BootInv'
<1>1. /\ boot[x].pc = "wait" /\ Fail(x) /\ muddled' = TRUE
      /\ UNCHANGED <<engine, installed, made, openers, uses>>
  BY DEF WaitFails
<1>2. x # OfCommand
  BY <1>1 DEF BootInv, Stage, BootstrapperAssumption
<1>3. crashed' = "nobody"
  BY <1>1, <1>2 DEF Fail
<1>4. CrashExplained'
  BY <1>3 DEF CrashExplained
<1>5. B(x, [boot[x] EXCEPT !.pc = "idle"])
  BY <1>1 DEF Fail
<1> QED
  BY <1>1, <1>4, <1>5, CallEnds

(* What a call returns, once it has got as far as the DAC. *)
LEMMA ResultFine ==
  ASSUME BootstrapperAssumption, BootInv, NEW x \in All, boot[x].pc = "dac",
         NEW dac, dac = "engine" <=> boot[x].isDump, engine.current # Nothing \/ dac = "none"
  PROVE  Fine(Result(x, dac))
<1> DEFINE i == Result(x, dac)
<1>1. /\ i.by = x /\ i.op = boot[x].op /\ i.target = engine.current /\ i.asked = boot[x].asked
      /\ i.dac = dac /\ i.used = boot[x].used /\ i.path = boot[x].path
      /\ i.clean = ~muddled /\ i.alone = (openers \subseteq {x})
  BY DEF Result
<1>2. Stage(x) /\ (~muddled /\ x \in Clients => Reached(x)) /\ (x = OfCommand => CommandsOwn)
  BY DEF BootInv
<1>3. (i.clean /\ i.op = "from") => x \in Clients /\ boot[x].waited
  BY <1>1, <1>2 DEF Stage, CommandsOwn, All
<1> HIDE DEF i
<1>4. (i.clean /\ i.op = "from") => i.target = i.asked /\ (i.used = i.path \/ i.path = Nothing)
  BY <1>1, <1>2, <1>3 DEF Reached
<1>5. (i.clean /\ i.by # OfCommand /\ (i.op = "from" \/ i.alone)) =>
        (i.dac = "engine" <=> i.target \in Dumps)
  <2>1. CASE i.op = "from"
    BY <1>1, <1>2, <1>3, <2>1 DEF Reached
  <2>2. CASE i.alone
    BY <1>1, <1>2, <2>2 DEF Reached, All
  <2> QED
    BY <2>1, <2>2
<1>6. Fine(i)
  BY <1>1, <1>4, <1>5 DEF Fine
<1> QED
  BY <1>6 DEF i

(* The engine's DAC is that of the target it has.                          *)
LEMMA DacFromEngineKeeps ==
  ASSUME BootstrapperAssumption, BootInv, crashed = "nobody", NEW x \in All, DacFromEngine(x)
  PROVE  BootInv'
<1>1. /\ boot[x].pc = "dac" /\ boot[x].isDump
      /\ B(x, [boot[x] EXCEPT !.pc = "idle"]) /\ UNCHANGED <<engine, openers, muddled, installed>>
  BY DEF DacFromEngine, Give, Fail
<1>2. CASE HasClr
  <2>1. made' = made \cup {Result(x, "engine")} /\ crashed' = "nobody"
    BY <1>2 DEF DacFromEngine, Give
  <2>2. Fine(Result(x, "engine"))
    BY <1>1, <1>2, ResultFine DEF HasClr, BootstrapperAssumption
  <2>3. CrashExplained'
    BY <2>1 DEF CrashExplained
  <2> QED
    BY <1>1, <2>1, <2>2, <2>3, CallEnds DEF BootInv
<1>3. CASE ~HasClr
  <2>1. made' = made /\ crashed' \in {"command", "nobody"}
    BY <1>3 DEF DacFromEngine, Fail
  <2>2. CrashExplained'
    BY <1>1, <1>3, <2>1 DEF CrashExplained, HasClr
  <2> QED
    BY <1>1, <2>1, <2>2, CallEnds DEF BootInv
<1> QED
  BY <1>2, <1>3

(* The DAC of the machine is for processes, so never for a command.        *)
LEMMA DacFromMachineKeeps ==
  ASSUME BootstrapperAssumption, BootInv, crashed = "nobody", NEW x \in All, DacFromMachine(x)
  PROVE  BootInv'
<1>1. /\ boot[x].pc = "dac" /\ ~boot[x].isDump
      /\ B(x, [boot[x] EXCEPT !.pc = "idle"]) /\ UNCHANGED <<engine, openers, muddled, installed>>
  BY DEF DacFromMachine, Give, Fail
<1>2. x # OfCommand
  BY <1>1 DEF BootInv, CommandsOwn
<1>3. ASSUME NEW dac \in {"machine", "none"}, Give(x, dac), dac = "machine" => HasClr,
             dac = "none" => ~installed
      PROVE  BootInv'
  <2>1. made' = made \cup {Result(x, dac)} /\ crashed' = (IF dac # "none" THEN "nobody" ELSE "client")
    BY <1>2, <1>3 DEF Give
  <2>2. Fine(Result(x, dac))
    BY <1>1, <1>3, ResultFine DEF HasClr, BootstrapperAssumption
  <2>3. CrashExplained'
    BY <1>1, <1>3, <2>1 DEF CrashExplained
  <2> QED
    BY <1>1, <2>1, <2>2, <2>3, CallEnds DEF BootInv
<1>4. ASSUME Fail(x), made' = made PROVE BootInv'
  <2>1. crashed' = "nobody"
    BY <1>2, <1>4 DEF Fail
  <2>2. CrashExplained'
    BY <2>1 DEF CrashExplained
  <2> QED
    BY <1>1, <1>4, <2>2, CallEnds DEF BootInv
<1>5. \/ ~installed /\ Give(x, "none")
      \/ HasClr /\ Give(x, "machine")
      \/ Fail(x) /\ made' = made
  BY DEF DacFromMachine
<1> QED
  BY <1>3, <1>4, <1>5

(* A client is there, and configured: nobody else is under way, or the     *)
(* debugger's paths are left alone.                                        *)
LEMMA EnsureKeeps ==
  ASSUME BootstrapperAssumption, BootInv, crashed = "nobody", NEW x \in All, EnsureDbgClient(x)
  PROVE  BootInv'
<1> DEFINE b == Onward(boot[x])
<1>1. /\ boot[x].pc = "ensure" /\ B(x, b)
      /\ engine' = IF boot[x].path = Nothing THEN engine ELSE [engine EXCEPT !.path = boot[x].path]
      /\ UNCHANGED <<installed, made, muddled, openers, crashed>>
  BY DEF EnsureDbgClient
<1>2. boot[x] \in Boot /\ engine \in Engine
  BY BootTypes
<1>3. /\ b \in Boot /\ b.pc = (IF boot[x].op = "init" \/ boot[x].waited THEN "dac" ELSE "open")
      /\ b.op = boot[x].op /\ b.waited = boot[x].waited /\ b.cli /\ b.isDump = boot[x].isDump
      /\ b.asked = boot[x].asked /\ b.path = boot[x].path /\ b.used = boot[x].used
  BY <1>2 DEF Boot, Onward
<1>4. boot'[x] = b
  BY <1>1, BootTypes DEF B
<1> HIDE DEF b
<1>5. /\ engine' \in Engine /\ engine'.current = engine.current /\ engine'.pending = engine.pending
      /\ boot[x].path # Nothing => engine'.path = boot[x].path
      /\ boot[x].path = Nothing => engine' = engine
  BY <1>1, <1>2 DEF Engine, Boot
<1>6. x = OfCommand => boot[x].path = Nothing /\ boot[x].op = "init" /\ ~boot[x].waited /\ boot[x].isDump
  BY DEF BootInv, CommandsOwn
<1>7. Stage(x)'
  <2>1. Stage(x)
    BY DEF BootInv
  <2>2. boot[x].op \in {"from", "init"}
    BY <1>2 DEF Boot
  <2> QED
    BY <1>1, <1>3, <1>4, <1>6, <2>1, <2>2 DEF Stage, All
<1>8. ASSUME ~muddled' PROVE Single' /\ OthersKept(x) /\ (x \in Clients => Reached(x)')
  <2>1. ~muddled
    BY <1>1, <1>8
  <2>2. CASE x \in Clients
    <3>1. (\A y \in Clients \ {x} : boot[y].pc = "idle") /\ engine.pending \subseteq {}
      BY <1>1, <2>1, <2>2, OnlyOne
    <3>2. Single'
      BY <1>1, <1>3, <1>5, <2>1, <2>2, <3>1, StaysOnly
    <3>3. Reached(x)'
      BY <1>1, <1>3, <1>4, <1>5, <2>1, <2>2 DEF BootInv, Reached
    <3> QED
      BY <1>5, <3>1, <3>2, <3>3 DEF OthersKept
  <2>3. CASE x \notin Clients
    <3>1. engine' = engine
      BY <1>5, <1>6, <2>3 DEF All
    <3>2. Single'
      BY <1>1, <1>3, <2>1, <2>3, <3>1, SingleStays
    <3> QED
      BY <1>1, <2>3, <3>1, <3>2 DEF OthersKept
  <2> QED
    BY <2>2, <2>3
<1>9. CrashExplained'
  BY <1>1 DEF CrashExplained
<1> QED
  BY <1>1, <1>3, <1>5, <1>6, <1>7, <1>8, <1>9, OneChanges DEF BootInv

(* A target is opened with the paths just configured, and is the only one  *)
(* that is due.                                                            *)
LEMMA OpenKeeps ==
  ASSUME BootstrapperAssumption, BootInv, crashed = "nobody", NEW x \in All, Open(x)
  PROVE  BootInv'
<1>1. /\ boot[x].pc = "open" /\ UNCHANGED <<installed, made, muddled, uses>>
  BY DEF Open
<1>2. boot[x] \in Boot /\ engine \in Engine
  BY BootTypes
<1>3. x \in Clients /\ x # OfCommand /\ boot[x].op = "from" /\ boot[x].asked \in Targets
  BY <1>1, <1>2 DEF BootInv, Stage, BootstrapperAssumption, Boot
<1>4. CASE Fail(x) /\ UNCHANGED <<engine, openers>>
  <2>1. crashed' = "nobody" /\ B(x, [boot[x] EXCEPT !.pc = "idle"])
    BY <1>3, <1>4 DEF Fail
  <2>2. CrashExplained'
    BY <2>1 DEF CrashExplained
  <2> QED
    BY <1>1, <1>4, <2>1, <2>2, CallEnds DEF BootInv
<1>5. CASE /\ B(x, [boot[x] EXCEPT !.pc = "wait", !.used = engine.path])
           /\ engine' = [engine EXCEPT !.pending = @ \cup {boot[x].asked}]
           /\ openers' = openers \cup {x}
           /\ UNCHANGED crashed
  <2> DEFINE b == [boot[x] EXCEPT !.pc = "wait", !.used = engine.path]
  <2>1. /\ b \in Boot /\ b.pc = "wait" /\ b.op = "from" /\ b.waited = boot[x].waited
        /\ b.isDump = boot[x].isDump /\ b.asked = boot[x].asked /\ b.path = boot[x].path
        /\ b.used = engine.path
    BY <1>2, <1>3 DEF Boot, Engine
  <2>2. B(x, b)
    BY <1>5
  <2>3. boot'[x] = b
    BY <2>2, BootTypes DEF B
  <2> HIDE DEF b
  <2>4. /\ engine' \in Engine /\ engine'.current = engine.current /\ engine'.path = engine.path
        /\ engine'.pending = engine.pending \cup {boot[x].asked}
    BY <1>2, <1>3, <1>5 DEF Engine
  <2>5. Stage(x)'
    BY <1>3, <1>5, <2>1, <2>3 DEF Stage, BootstrapperAssumption
  <2>6. ASSUME ~muddled' PROVE Single' /\ OthersKept(x) /\ (x \in Clients => Reached(x)')
    <3>1. ~muddled
      BY <1>1, <2>6
    <3>2. (\A y \in Clients \ {x} : boot[y].pc = "idle") /\ engine.pending \subseteq {}
      BY <1>1, <1>3, <3>1, OnlyOne
    <3>3. Single'
      BY <1>1, <1>3, <2>1, <2>2, <2>4, <3>1, <3>2, StaysOnly
    <3>4. Reached(x)'
      BY <1>1, <1>3, <1>5, <2>1, <2>3, <2>4, <3>1 DEF BootInv, Reached
    <3> QED
      BY <2>4, <3>2, <3>3, <3>4 DEF OthersKept
  <2>7. CrashExplained'
    BY <1>5 DEF CrashExplained
  <2>8. openers' \subseteq Clients /\ openers \subseteq openers'
    BY <1>3, <1>5 DEF BootInv
  <2> QED
    BY <1>1, <1>3, <2>1, <2>2, <2>4, <2>5, <2>6, <2>7, <2>8, OneChanges DEF BootInv
<1> QED
  BY <1>4, <1>5 DEF Open

(* The engine comes back for a target, which is the one that was asked for *)
(* as nothing else is due; nobody else goes by the one before.             *)
LEMMA WaitKeeps ==
  ASSUME BootstrapperAssumption, BootInv, crashed = "nobody", NEW x \in All, WaitForEvent(x)
  PROVE  BootInv'
<1>1. PICK t \in engine.pending : engine' = [engine EXCEPT !.current = t, !.pending = @ \ {t}]
  BY DEF WaitForEvent
<1> DEFINE d == boot[x].asked \in Dumps
<1> DEFINE b == [boot[x] EXCEPT !.pc = "ensure", !.waited = TRUE, !.isDump = d]
<1>2. /\ boot[x].pc = "wait" /\ B(x, b)
      /\ UNCHANGED <<installed, made, muddled, openers, crashed>>
  BY DEF WaitForEvent
<1>3. boot[x] \in Boot /\ engine \in Engine
  BY BootTypes
<1>4. x \in Clients /\ x # OfCommand /\ boot[x].op = "from" /\ x \in openers /\ boot[x].asked # Nothing
  BY <1>2 DEF BootInv, Stage, BootstrapperAssumption
<1>5. /\ b \in Boot /\ b.pc = "ensure" /\ b.op = "from" /\ b.waited
      /\ b.isDump = d /\ b.asked = boot[x].asked
      /\ b.path = boot[x].path /\ b.used = boot[x].used
  <2>1. d \in BOOLEAN
    OBVIOUS
  <2> HIDE DEF d
  <2> QED
    BY <1>3, <1>4, <2>1 DEF Boot
<1>6. boot'[x] = b
  BY <1>2, BootTypes DEF B
<1> HIDE DEF b
<1>7. /\ engine' \in Engine /\ engine'.current = t /\ engine'.pending = engine.pending \ {t}
  BY <1>1, <1>3 DEF Engine
<1>8. Stage(x)'
  BY <1>2, <1>4, <1>5, <1>6 DEF Stage
<1>9. ASSUME ~muddled' PROVE Single' /\ OthersKept(x) /\ (x \in Clients => Reached(x)')
  <2>1. ~muddled
    BY <1>2, <1>9
  <2>2. (\A y \in Clients \ {x} : boot[y].pc = "idle") /\ engine.pending \subseteq {boot[x].asked}
    BY <1>2, <1>4, <2>1, OnlyOne
  <2>3. t = boot[x].asked /\ engine'.pending \subseteq {}
    BY <1>1, <1>7, <2>2
  <2>4. Single'
    BY <1>2, <1>4, <1>5, <2>1, <2>3, StaysOnly
  <2>5. Reached(x)'
    BY <1>2, <1>4, <1>5, <1>6, <1>7, <2>1, <2>3 DEF BootInv, Reached
  <2>6. \A y \in Clients \ {x} : ~(openers' \subseteq {y})
    BY <1>2, <1>4
  <2> QED
    BY <2>2, <2>4, <2>5, <2>6 DEF OthersKept
<1>10. CrashExplained'
  BY <1>2 DEF CrashExplained
<1> QED
  BY <1>2, <1>4, <1>5, <1>7, <1>8, <1>9, <1>10, OneChanges DEF BootInv

(* An interface is released, or nothing happens.                           *)
LEMMA ReleaseKeeps ==
  ASSUME BootInv, made' \subseteq made,
         UNCHANGED <<engine, installed, boot, muddled, openers, crashed>>
  PROVE  BootInv'
<1>1. BootTypeOK' /\ OwnTarget' /\ RightDac' /\ Configured' /\ CrashExplained'
  BY DEF BootInv, BootAnswers, BootTypeOK, OwnTarget, RightDac, Configured, CrashExplained, HasClr
<1>2. Single' /\ CommandsOwn'
  BY DEF BootInv, Single, CommandsOwn, Client
<1>3. (\A x \in All : Stage(x)') /\ (~muddled' => \A x \in Clients : Reached(x)')
  BY DEF BootInv, Stage, Reached
<1> QED
  BY <1>1, <1>2, <1>3 DEF BootInv, BootAnswers

(* At the start nobody has called.                                         *)
LEMMA BootStarts ==
  ASSUME BootstrapperAssumption, BootInit
  PROVE  BootInv
<1>1. PICK t \in Targets \cup {Nothing} : engine = [current |-> t, pending |-> {}, path |-> Nothing]
  BY DEF BootInit
<1>2. /\ \A x \in All : boot[x] = [pc |-> "idle", op |-> "init", cli |-> x = OfCommand,
               isDump |-> x = OfCommand, path |-> Nothing, asked |-> Nothing,
               waited |-> FALSE, used |-> Nothing]
      /\ made = {} /\ muddled = (engine.current # Nothing) /\ openers = {} /\ crashed = "nobody"
  BY DEF BootInit
<1>3. ASSUME NEW x \in All
      PROVE  /\ boot[x] \in Boot /\ boot[x].pc = "idle" /\ boot[x].op = "init" /\ ~boot[x].waited
             /\ boot[x].path = Nothing
             /\ boot[x].cli = (x = OfCommand) /\ boot[x].isDump = (x = OfCommand)
  <2> DEFINE c == x = OfCommand
  <2>1. c \in BOOLEAN
    OBVIOUS
  <2>2. boot[x] = [pc |-> "idle", op |-> "init", cli |-> c, isDump |-> c, path |-> Nothing,
                   asked |-> Nothing, waited |-> FALSE, used |-> Nothing]
    BY <1>2
  <2>3. /\ boot[x].cli = c /\ boot[x].isDump = c
    <3> HIDE DEF c
    <3> QED
      BY <2>2
  <2>4. /\ boot[x] \in Boot /\ boot[x].pc = "idle" /\ boot[x].op = "init" /\ ~boot[x].waited
        /\ boot[x].path = Nothing
    <3> HIDE DEF c
    <3> QED
      BY <2>1, <2>2 DEF Boot
  <2> QED
    BY <2>3, <2>4
<1>4. boot \in [All -> Boot]
  BY <1>3 DEF BootInit
<1>5. engine \in Engine /\ engine.pending = {}
  BY <1>1 DEF Engine
<1>6. BootAnswers
  BY <1>2, <1>4, <1>5 DEF BootAnswers, BootTypeOK, OwnTarget, RightDac, Configured, CrashExplained
<1>7. \A x \in Clients : x \in All /\ x # OfCommand /\ boot[x].pc = "idle" /\ ~boot[x].waited /\ ~boot[x].isDump
  <2> SUFFICES ASSUME NEW x \in Clients
      PROVE  x \in All /\ x # OfCommand /\ boot[x].pc = "idle" /\ ~boot[x].waited /\ ~boot[x].isDump
    OBVIOUS
  <2>1. x \in All /\ x # OfCommand
    BY DEF All, BootstrapperAssumption
  <2> QED
    BY <1>3, <2>1, Zenon
<1>8. ~muddled => engine.current = Nothing /\ Nothing \notin Dumps
  BY <1>2 DEF BootstrapperAssumption
<1>9. ~muddled => \A x \in Clients : Reached(x)
  BY <1>7, <1>8 DEF Reached
<1>10. Single
  BY <1>5, <1>7 DEF Single, Client
<1>11. OfCommand \in All
  BY DEF All
<1>12. CommandsOwn
  BY <1>3, <1>11, Zenon DEF CommandsOwn
<1>13. \A x \in All : Stage(x)
  BY <1>3 DEF Stage
<1>14. muddled \in BOOLEAN /\ openers \subseteq Clients
  BY <1>2
<1> QED
  BY <1>6, <1>9, <1>10, <1>12, <1>13, <1>14 DEF BootInv

(* Targets are opened so that each client knows what it has: the strength- *)
(* ening that makes the properties inductive.                              *)
THEOREM BootInvariance ==
  ASSUME BootstrapperAssumption
  PROVE  BootSpec => []BootInv
<1>1. BootInit => BootInv
  BY BootStarts
<1>2. BootInv /\ [BootNext]_bootVars => BootInv'
  <2> SUFFICES ASSUME BootInv, [BootNext]_bootVars PROVE BootInv'
    OBVIOUS
  <2>1. CASE UNCHANGED bootVars
    BY <2>1, ReleaseKeeps DEF bootVars
  <2>2. CASE crashed = "nobody" /\ Release
    BY <2>2, ReleaseKeeps DEF Release
  <2>3. ASSUME crashed = "nobody", NEW x \in All, Step(x) PROVE BootInv'
    BY <2>3, ConfigureKeeps, CallInitKeeps, EnsureFailsKeeps, EnsureKeeps, OpenKeeps, WaitFailsKeeps,
       WaitKeeps, DacFromEngineKeeps, DacFromMachineKeeps DEF Step
  <2> QED
    BY <2>1, <2>2, <2>3 DEF BootNext
<1> QED
  BY <1>1, <1>2, PTL DEF BootSpec

(* BootAnswers, for any clients, targets and paths and as many calls as    *)
(* one likes.                                                              *)
THEOREM TargetsOpenedRight ==
  ASSUME BootstrapperAssumption
  PROVE  BootSpec => []BootAnswers
<1>1. BootInv => BootAnswers
  BY DEF BootInv
<1> QED
  BY <1>1, BootInvariance, PTL
=============================================================================
