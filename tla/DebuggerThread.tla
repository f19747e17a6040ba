--------------------------- MODULE DebuggerThread ---------------------------
(***************************************************************************)
(* The engine answers for its current thread, of which there is one for    *)
(* all who use it.  DbgEngMemoryAccess::GetThreadStack and                 *)
(* DbgEngCLRDataTarget::GetTLSValue save it, make the thread they are asked*)
(* for current, read and put it back; !dumpstackobjects reads the stack's  *)
(* limits and then the registers of whichever thread is current;           *)
(* DbgEngCLRDataTarget::GetThreadContext goes past the engine to the       *)
(* machine it runs on.  The commands of the debugger run one at a time; the*)
(* threads of scripts run beside them, and calls of the engine are atomic. *)
(***************************************************************************)
EXTENDS Naturals, FiniteSets

CONSTANTS
  Callers,    (* the thread of the debugger's commands and those of scripts*)
  Commands,   (* the member of Callers that is the debugger's command loop *)
  SystemId,   (* thread ids of the engine, from 0, to their system ids     *)
  WithSlots,  (* those of them that have thread-local storage              *)
  Running,    (* system ids of the threads of this machine at the start    *)
  SystemIds,  (* the system ids that are asked for                         *)
  Operations, (* what the callers call                                     *)
  MaxCalls,   (* bound: calls that are made in all                         *)
  None        (* no thread                                                 *)

Ids == DOMAIN SystemId
AllOperations == {"stack", "tls", "dump", "context"}

\* What the module takes for granted of its parameters.
DebuggerAssumption ==
  /\ Commands \in Callers
  /\ 0 \in Ids /\ Ids \subseteq Nat /\ \A i, j \in Ids : SystemId[i] = SystemId[j] => i = j
  /\ WithSlots \subseteq Ids
  /\ None \notin Ids \cup SystemIds \cup Running
  /\ SystemIds # {}
  /\ Operations \subseteq AllOperations /\ MaxCalls \in Nat

VARIABLES
  current,    (* the engine's current thread                               *)
  chosen,     (* the one the user has chosen                               *)
  running,    (* the threads of this machine                               *)
  call,       (* the call each caller is in, see Call                      *)
  open,       (* callers that have saved the current thread                *)
  opener,     (* the one of them that was the first                        *)
  lost,       (* whether the opener was not the last to put it back, the   *)
              (* engine did not let it, or the user has made another choice*)
  disturbed,  (* callers in whose way another one has switched, or with    *)
              (* which a failure of the engine has gone unnoticed          *)
  answers,    (* what the calls have answered                              *)
  calls       (* how many calls have been made                             *)

vars == <<current, chosen, running, call, open, opener, lost, disturbed, answers, calls>>
history == <<lost, opener, open>>

(* wanted: osThreadId, threadID.  saved, new, teb: currThread, newThreadId,*)
(* and the thread whose TEB was asked for.  of: the thread that stackBase  *)
(* and stackLimit, or value, are from.  handle: hThread.                   *)
Call ==
  [pc: {"idle", "save", "lookup", "switch", "teb", "read", "registers", "restore", "open", "get"},
   op: AllOperations, wanted: SystemIds, saved: Ids, new: Ids, teb: Ids, of: Ids \cup {None},
   handle: SystemIds \cup {None}]

Idle(x) == call[x].pc = "idle"
NoCall == [pc |-> "idle", op |-> "stack", wanted |-> CHOOSE s \in SystemIds : TRUE,
           saved |-> 0, new |-> 0, teb |-> 0, of |-> None, handle |-> None]

Init ==
  /\ current \in Ids
  /\ chosen = current
  /\ running = Running
  /\ call = [x \in Callers |-> NoCall]
  /\ open = {} /\ opener = Commands /\ lost = FALSE
  /\ disturbed = {}
  /\ answers = {}
  /\ calls = 0

-----------------------------------------------------------------------------
(* Whose way a switch is in: GetThreadStack has made its thread current and*)
(* not yet asked for the TEB; GetTLSValue has found its thread current, or *)
(* made it so; !dumpstackobjects has the limits and not yet the registers. *)
Exposed(x) ==
  \/ call[x].op \in {"stack", "tls"} /\ call[x].pc = "teb"
  \/ call[x].op = "tls" /\ call[x].pc = "lookup"
  \/ call[x].op = "dump" /\ call[x].pc \in {"read", "registers"}

Switched(x, i) ==
  /\ current' = i
  /\ disturbed' = (disturbed \ {x}) \cup
                  (IF i = current THEN {} ELSE {y \in Callers \ {x} : Exposed(y)})

Goes(x, c) == call' = [call EXCEPT ![x] = c]
Unswitched == UNCHANGED <<current, disturbed>>

\* The answer of x, of the threads in ofs, or a failure; x is idle again.
Answer(x, hr, ofs) ==
  /\ Goes(x, NoCall)
  /\ answers' = answers \cup
       {[op |-> call[x].op, wanted |-> call[x].wanted, hr |-> hr, of |-> ofs,
         clean |-> x \notin disturbed]}

Begin(x) ==
  /\ Idle(x) /\ calls < MaxCalls
  /\ calls' = calls + 1
  /\ \E op \in Operations, s \in SystemIds :
       /\ op = "dump" => (x = Commands /\ s = NoCall.wanted)
       /\ Goes(x, [NoCall EXCEPT !.op = op, !.wanted = s,
                     !.pc = CASE op = "dump" -> "teb" [] op = "context" -> "open"
                              [] OTHER -> "save"])
  /\ disturbed' = disturbed \ {x}
  /\ UNCHANGED <<current, chosen, running, history, answers>>

\* A slip: GetCurrentThreadId is left out, and 0 put back.
SaveZero(x) ==
  /\ call[x].pc = "save"
  /\ Goes(x, [call[x] EXCEPT !.pc = "lookup", !.saved = 0])
  /\ open' = open \cup {x}
  /\ opener' = IF open = {} THEN x ELSE opener
  /\ Unswitched /\ UNCHANGED <<chosen, running, lost, answers, calls>>

(* GetCurrentThreadId.                                                     *)
Save(x) ==
  /\ call[x].pc = "save"
  /\ Goes(x, [call[x] EXCEPT !.pc = "lookup", !.saved = current])
  /\ open' = open \cup {x}
  /\ opener' = IF open = {} THEN x ELSE opener
  /\ Unswitched /\ UNCHANGED <<chosen, running, lost, answers, calls>>

(* It fails and is not looked at: currThread stays 0.  GetTLSValue may then*)
(* take the thread that is current for thread 0.                           *)
SaveRefused(x) ==
  /\ call[x].pc = "save"
  /\ Goes(x, [call[x] EXCEPT !.pc = "lookup", !.saved = 0])
  /\ open' = open \cup {x}
  /\ opener' = IF open = {} THEN x ELSE opener
  /\ lost' = (lost \/ open = {})
  /\ disturbed' = IF call[x].op = "tls" /\ current # 0 THEN disturbed \cup {x} ELSE disturbed
  /\ UNCHANGED <<current, chosen, running, answers, calls>>

Known(s) == {i \in Ids : SystemId[i] = s}

\* A slip: 0 is taken for an id that was not found.
SwitchNonZero(c, i) == [c EXCEPT !.new = i, !.pc = IF c.op = "tls" /\ i = 0 THEN "teb" ELSE "switch"]

Switch(c, i) == [c EXCEPT !.new = i, !.pc = IF c.op = "tls" /\ i = c.saved THEN "teb" ELSE "switch"]

\* Slips: GetThreadStack ignores that the thread is unknown; its id is unset.
LookUpIgnored(x) ==
  /\ call[x].pc = "lookup"
  /\ Goes(x, Switch(call[x], IF Known(call[x].wanted) = {} THEN 0
                             ELSE CHOOSE i \in Known(call[x].wanted) : TRUE))
  /\ Unswitched /\ UNCHANGED <<chosen, running, history, answers, calls>>
LookUpUnset(x) ==
  /\ call[x].pc = "lookup"
  /\ Goes(x, Switch(call[x], IF Known(call[x].wanted) = {} THEN Cardinality(Ids)
                             ELSE CHOOSE i \in Known(call[x].wanted) : TRUE))
  /\ Unswitched /\ UNCHANGED <<chosen, running, history, answers, calls>>

(* GetThreadIdBySystemId: for a thread the engine does not know            *)
(* GetThreadStack returns and GetTLSValue keeps the 0 it started with.     *)
LookUp(x) ==
  /\ call[x].pc = "lookup"
  /\ \/ \E i \in Known(call[x].wanted) : Goes(x, Switch(call[x], i))
     \/ /\ Known(call[x].wanted) = {}
        /\ Goes(x, IF call[x].op = "tls" THEN Switch(call[x], 0)
                   ELSE [call[x] EXCEPT !.pc = "restore"])
  /\ Unswitched /\ UNCHANGED <<chosen, running, history, answers, calls>>

SwitchThread(x) ==
  /\ call[x].pc = "switch"
  /\ Goes(x, [call[x] EXCEPT !.pc = "teb"])
  /\ Switched(x, call[x].new)
  /\ UNCHANGED <<chosen, running, history, answers, calls>>

\* A slip: GetThreadStack goes on where SetCurrentThreadId has failed.
SwitchRefusedUnchecked(x) ==
  /\ call[x].pc = "switch"
  /\ Goes(x, [call[x] EXCEPT !.pc = "teb"])
  /\ disturbed' = IF call[x].op = "tls" THEN disturbed \cup {x} ELSE disturbed
  /\ UNCHANGED <<current, chosen, running, history, answers, calls>>

(* SetCurrentThreadId fails: GetThreadStack returns, GetTLSValue goes on   *)
(* with the thread that is current.                                        *)
SwitchRefused(x) ==
  /\ call[x].pc = "switch"
  /\ \/ call[x].op = "stack" /\ Goes(x, [call[x] EXCEPT !.pc = "restore"]) /\ UNCHANGED disturbed
     \/ call[x].op = "tls" /\ Goes(x, [call[x] EXCEPT !.pc = "teb"])
        /\ disturbed' = disturbed \cup {x}
  /\ UNCHANGED <<current, chosen, running, history, answers, calls>>

(* GetCurrentThreadTeb.                                                    *)
AskForTeb(x) ==
  /\ call[x].pc = "teb"
  /\ Goes(x, [call[x] EXCEPT !.pc = "read", !.teb = current])
  /\ Unswitched /\ UNCHANGED <<chosen, running, history, answers, calls>>

\* Whose data the call may have now: nobody's if any of its reads fails.
Reads(c) == {None} \cup (IF c.op = "tls" THEN {c.teb} \cap WithSlots ELSE {c.teb})

(* GetThreadLimitsFromTEB, or TlsSlots of the TEB and the slot.  Without   *)
(* a TEB there is nothing to read, and !dumpstackobjects returns.          *)
ReadTeb(x) ==
  LET c == call[x] IN
  /\ c.pc = "read"
  /\ \E of \in Reads(c) :
       \/ c.op # "dump" /\ UNCHANGED answers
          /\ Goes(x, [c EXCEPT !.pc = "restore", !.of = of])
       \/ c.op = "dump" /\ of # None /\ UNCHANGED answers
          /\ Goes(x, [c EXCEPT !.pc = "registers", !.of = of])
       \/ c.op = "dump" /\ of = None /\ Answer(x, "failed", {})
  /\ Unswitched /\ UNCHANGED <<chosen, running, history, calls>>

(* GetArchRegisters: the limit of the stack is the stack pointer.          *)
ReadRegisters(x) ==
  /\ call[x].pc = "registers"
  /\ Answer(x, "S_OK", {call[x].of, current})
  /\ Unswitched /\ UNCHANGED <<chosen, running, history, calls>>

\* back: whether the thread is put back.
Close(x, back) ==
  /\ open' = open \ {x}
  /\ lost' = (lost \/ (x = opener /\ (open # {x} \/ ~back)))
  /\ Answer(x, IF call[x].of = None THEN "failed" ELSE "S_OK", {call[x].of} \ {None})

\* A slip: the thread is put back only where the call has succeeded.
RestoreIfRead(x) ==
  /\ call[x].pc = "restore"
  /\ Close(x, TRUE)
  /\ IF call[x].of = None THEN Unswitched ELSE Switched(x, call[x].saved)
  /\ UNCHANGED <<chosen, running, opener, calls>>

(* ~CurrentThreadHolder, on every way out of GetThreadStack, and the end of*)
(* GetTLSValue.                                                            *)
Restore(x) ==
  /\ call[x].pc = "restore"
  /\ Close(x, TRUE)
  /\ Switched(x, call[x].saved)
  /\ UNCHANGED <<chosen, running, opener, calls>>

(* SetCurrentThreadId fails, which nobody looks at.                        *)
RestoreRefused(x) ==
  /\ call[x].pc = "restore"
  /\ Close(x, FALSE)
  /\ Unswitched
  /\ UNCHANGED <<chosen, running, opener, calls>>

-----------------------------------------------------------------------------
(* GetThreadContext. *)

(* OpenThread: NULL, for which the code does not look, where it fails.     *)
OpenThread(x) ==
  /\ call[x].pc = "open"
  /\ Goes(x, [call[x] EXCEPT !.pc = "get",
                !.handle = IF call[x].wanted \in running THEN call[x].wanted ELSE None])
  /\ Unswitched /\ UNCHANGED <<chosen, running, history, answers, calls>>

\* A slip: a context that could not be got is returned.
GetContextUnchecked(x) ==
  /\ call[x].pc = "get"
  /\ Answer(x, "S_OK", {call[x].handle} \ {None})
  /\ Unswitched /\ UNCHANGED <<chosen, running, history, calls>>

(* ::GetThreadContext fails on NULL and for a thread that has ended; the   *)
(* error that is returned is then that of CloseHandle or of the call.      *)
GetContext(x) ==
  /\ call[x].pc = "get"
  /\ IF call[x].handle \in running THEN Answer(x, "S_OK", {call[x].handle})
     ELSE Answer(x, "failed", {})
  /\ Unswitched /\ UNCHANGED <<chosen, running, history, calls>>

-----------------------------------------------------------------------------
(* The user makes another thread current, between commands.                *)
UserSwitches ==
  /\ Idle(Commands)
  /\ \E i \in Ids : chosen' = i /\ Switched(Commands, i)
  /\ lost' = (open # {})
  /\ UNCHANGED <<running, call, open, opener, answers, calls>>

ThreadEnds ==
  /\ \E s \in running : running' = running \ {s}
  /\ UNCHANGED <<current, chosen, call, history, disturbed, answers, calls>>

CallStep(x) ==
  \/ Save(x) \/ SaveRefused(x) \/ LookUp(x) \/ SwitchThread(x) \/ SwitchRefused(x)
  \/ AskForTeb(x) \/ ReadTeb(x) \/ ReadRegisters(x) \/ Restore(x) \/ RestoreRefused(x)
  \/ OpenThread(x) \/ GetContext(x)

Next == UserSwitches \/ ThreadEnds \/ \E x \in Callers : Begin(x) \/ CallStep(x)

Spec == Init /\ [][Next]_vars

-----------------------------------------------------------------------------
TypeOK ==
  /\ current \in Ids /\ chosen \in Ids /\ running \subseteq Running
  /\ call \in [Callers -> Call]
  /\ open = {x \in Callers : call[x].pc \in {"lookup", "switch", "restore"}
               \/ (call[x].op # "dump" /\ call[x].pc \in {"teb", "read"})}

(* GetThreadStack and GetTLSValue are meant to be invisible: however their *)
(* calls overlap, and whatever fails in them, the thread the user has      *)
(* chosen is current again when all have returned, as long as the first to *)
(* save it is the last to put it back, the engine lets it do both, and the *)
(* user makes no other choice while one of them runs.                      *)
Restored == (open = {} /\ ~lost) => current = chosen

(* What is answered is of the thread that was asked for, unless another    *)
(* caller has switched in between or, for GetTLSValue, the engine has not  *)
(* named or switched its current thread; !dumpstackobjects takes the limits*)
(* and the stack pointer from one thread.  A thread the engine does not    *)
(* know has no stack, and the thread-local storage of the engine's thread  *)
(* 0.                                                                      *)
AnswersOwn ==
  \A a \in answers :
    (a.hr = "S_OK" /\ a.clean) =>
      CASE a.op = "stack" -> a.of # {} /\ \A i \in a.of : SystemId[i] = a.wanted
        [] a.op = "tls" -> IF Known(a.wanted) = {} THEN a.of = {0} ELSE a.of = Known(a.wanted)
        [] a.op = "dump" -> Cardinality(a.of) = 1
        [] OTHER -> TRUE

(* A context is that of a thread of this machine with the id asked for, be *)
(* the target a process of this machine or a dump, and a failure anywhere  *)
(* on the way is answered as one.                                          *)
ContextsReal ==
  \A a \in answers :
    (a.op = "context" /\ a.hr = "S_OK") => a.of = {a.wanted} /\ a.wanted \in Running

(* What the callers and the user of the engine are promised, whoever of    *)
(* them comes in between.                                                  *)
ThreadAnswers == TypeOK /\ Restored /\ AnswersOwn /\ ContextsReal
=============================================================================
