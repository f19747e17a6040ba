---------------------------- MODULE ScriptHost ----------------------------
(***************************************************************************)
(* How a debugger command reaches managed code and what keeps the native   *)
(* objects alive meanwhile: DBG_PREAMBLE (SDbgExt/WinDbgExt.h),            *)
(* ExecuteOpCode (SDbgExt/ScriptIt.cpp), UMThunk.InitHost, the stubs, the  *)
(* script form and SptWrapper (SDbgM).                                     *)
(*                                                                         *)
(* The debugger runs one command at a time on its own thread.  Every       *)
(* command makes a CSDbgExt and a ClrProcess of its own over the DAC that  *)
(* the debugger hands out, and passes the address of a buffer of four      *)
(* interface pointers, on its stack, to the managed side as a number.  A   *)
(* stub uses them before the command returns; the form of !scriptit runs   *)
(* on a thread of its own and keeps them for as long as it is open.        *)
(***************************************************************************)
EXTENDS Naturals, FiniteSets

CONSTANTS
  Commands,   (* the commands the user types                               *)
  Forms,      (* those that are !scriptit: opcode 0; the rest are opcode 1 *)
  Dacs,       (* identities of DAC objects                                 *)
  DacOf,      (* [Commands -> Dacs]: what the debugger answers to each     *)
  None

ASSUME CommandsAssumption ==
  /\ Forms \subseteq Commands
  /\ None \notin Commands
  /\ DacOf \in [Commands -> Dacs]

VARIABLES
  loaded,     (* g_ClrLoaded                                               *)
  started,    (* the runtime has been started                              *)
  cmd,        (* the command that runs, or None                            *)
  dpc,        (* where the debugger's thread is                            *)
  result,     (* what each command returned                                *)
  fpc,        (* where the thread of each form is                          *)
  ready,      (* initComplete of each command                              *)
  wrapper,    (* the SptWrapper of each command                            *)
  refs,       (* references on the objects of each command, and those on   *)
              (* its DAC that were taken for it                            *)
  rcw,        (* the live runtime callable wrappers over those objects     *)
  dacRcw,     (* the command whose wrapper made the live RCW of a DAC      *)
  dacUsed,    (* the command whose wrapper made the RCW this one holds     *)
  crashed     (* an unhandled exception has ended the debugger             *)

managedVars == <<wrapper, rcw, dacRcw, dacUsed>>
vars == <<loaded, started, cmd, dpc, result, fpc, ready, refs, managedVars, crashed>>

Own == {"ext", "proc", "helper"}
Refs == [ext: Nat, proc: Nat, helper: Nat, dac: Nat]

(* How many references a holder has on each object.                        *)
Count(ext, proc, helper, dac) == [ext |-> ext, proc |-> proc, helper |-> helper, dac |-> dac]

InterfacesHold == Count(1, 1, 0, 1)   \* WinDbgInterfaces
BufferHolds == Count(1, 1, 2, 1)      \* InterfaceBuffer, and the local helper

More(r, n) == Count(r.ext + n.ext, r.proc + n.proc, r.helper + n.helper, r.dac + n.dac)

(* The last Release of CSDbgExt releases its ClrProcess (m_proc), the last *)
(* one of ClrProcess its DAC (m_pDac).                                     *)
Less(r, n) ==
  LET last(was, is) == IF was > 0 /\ is = 0 THEN 1 ELSE 0
      ext == r.ext - n.ext
      proc == r.proc - n.proc - last(r.ext, ext)
  IN  Count(ext, proc, r.helper - n.helper, r.dac - n.dac - last(r.proc, proc))

AddRefs(c, n) == refs' = [refs EXCEPT ![c] = More(@, n)]
Releases(c, n) == refs' = [refs EXCEPT ![c] = Less(@, n)]

Init ==
  /\ loaded = FALSE
  /\ started = FALSE
  /\ cmd = None
  /\ dpc = "idle"
  /\ result = [c \in Commands |-> "none"]
  /\ fpc = [c \in Commands |-> "none"]
  /\ ready = [c \in Commands |-> FALSE]
  /\ wrapper = [c \in Commands |-> "none"]
  /\ refs = [c \in Commands |-> Count(0, 0, 0, 0)]
  /\ rcw = [c \in Commands |-> {}]
  /\ dacRcw = [d \in Dacs |-> None]
  /\ dacUsed = [c \in Commands |-> None]
  /\ crashed = FALSE

-----------------------------------------------------------------------------
(* The debugger's thread. *)

(* DBG_PREAMBLE: Init makes the DAC, the ClrProcess and the CSDbgExt, each *)
(* holding the one before.                                                 *)
Enter(c) ==
  /\ dpc = "idle"
  /\ result[c] = "none"
  /\ cmd' = c
  /\ dpc' = "enter"
  /\ AddRefs(c, Count(1, 2, 0, 2))
  /\ UNCHANGED <<loaded, started, result, fpc, ready, managedVars, crashed>>

(* InitClr marks the runtime as loaded before it starts it, so a command   *)
(* after a failed Start goes on to use it.                                 *)
InitClr ==
  /\ dpc = "enter"
  /\ \/ /\ loaded
        /\ dpc' = "prepare"
        /\ UNCHANGED <<loaded, started, result>>
     \/ /\ ~loaded
        /\ started' \in BOOLEAN
        /\ IF started'
             THEN loaded' = TRUE /\ dpc' = "prepare" /\ UNCHANGED result
             ELSE /\ loaded' \in BOOLEAN
                  /\ result' = [result EXCEPT ![cmd] = "S_OK"]
                  /\ dpc' = "leave"
  /\ UNCHANGED <<cmd, fpc, ready, refs, managedVars, crashed>>

Prepare ==
  /\ dpc = "prepare"
  /\ AddRefs(cmd, BufferHolds)
  /\ dpc' = "execute"
  /\ UNCHANGED <<loaded, started, cmd, result, fpc, ready, managedVars, crashed>>

(* ExecuteInDefaultAppDomain fails when the runtime has not been started   *)
(* or SPTM.dll cannot be loaded.                                           *)
CannotExecute ==
  /\ dpc = "execute"
  /\ result' = [result EXCEPT ![cmd] = "E_FAIL"]
  /\ dpc' = "return"
  /\ UNCHANGED <<loaded, started, cmd, fpc, ready, refs, managedVars, crashed>>

(* CreateInProcess marshals the buffer: an RCW for each pointer, which     *)
(* takes a reference; a DAC that has an RCW is met again through it.       *)
Wrapped(c, ref) ==
  LET d == DacOf[c] IN
  /\ wrapper' = [wrapper EXCEPT ![c] = "live"]
  /\ rcw' = [rcw EXCEPT ![c] = Own]
  /\ dacRcw' = [dacRcw EXCEPT ![d] = IF @ = None THEN c ELSE @]
  /\ dacUsed' = [dacUsed EXCEPT ![c] = IF dacRcw[d] = None THEN c ELSE dacRcw[d]]
  /\ AddRefs(c, Count(ref, ref, ref, IF dacRcw[d] = None THEN ref ELSE 0))

\* A slip: the pointers are taken over without a reference.
WrapNoAddRef(c) == Wrapped(c, 0)
Wrap(c) == Wrapped(c, 1)

(* Dispose: FinalReleaseComObject empties the RCW of _proc, _dac and       *)
(* _wrapped, whoever else uses it; that of _helper is left to the garbage  *)
(* collector.                                                              *)
Disposed(c, ext, helper) ==
  LET d == DacOf[c]
      after == [refs EXCEPT ![c] = Less(@, Count(ext, 1, helper, 0))]
  IN  /\ wrapper' = [wrapper EXCEPT ![c] = "disposed"]
      /\ rcw' = [rcw EXCEPT ![c] = {"helper"}]
      /\ IF dacRcw[d] = dacUsed[c]
           THEN /\ dacRcw' = [dacRcw EXCEPT ![d] = None]
                /\ refs' = [after EXCEPT ![dacUsed[c]].dac = @ - 1]
           ELSE /\ UNCHANGED dacRcw
                /\ refs' = after
      /\ UNCHANGED dacUsed

\* Slips: one object forgotten, one that the collector releases as well.
DisposeKeepsExt(c) == Disposed(c, 0, 0)
DisposeHelperToo(c) == Disposed(c, 1, 1)
Dispose(c) == Disposed(c, 1, 0)

(* InitHost, opcode 1: RunMethod calls the plug-in in a using block that   *)
(* also catches what it throws.                                            *)
WrapForStub ==
  /\ dpc = "execute" /\ started /\ cmd \notin Forms
  /\ Wrap(cmd)
  /\ dpc' = "stub"
  /\ UNCHANGED <<loaded, started, cmd, result, fpc, ready, crashed>>

RunStub ==
  /\ dpc = "stub"
  /\ Dispose(cmd)
  /\ result' = [result EXCEPT ![cmd] = "S_OK"]
  /\ dpc' = "return"
  /\ UNCHANGED <<loaded, started, cmd, fpc, ready, crashed>>

(* InitHost, opcode 0: a thread for the form. *)
StartForm ==
  /\ dpc = "execute" /\ started /\ cmd \in Forms
  /\ fpc' = [fpc EXCEPT ![cmd] = "wrap"]
  /\ dpc' = "wait"
  /\ UNCHANGED <<loaded, started, cmd, result, ready, refs, managedVars, crashed>>

\* A slip: InitHost does not wait for the form.
WaitForNothing ==
  /\ dpc = "wait"
  /\ result' = [result EXCEPT ![cmd] = "S_OK"]
  /\ dpc' = "return"
  /\ UNCHANGED <<loaded, started, cmd, fpc, ready, refs, managedVars, crashed>>

WaitForForm ==
  /\ dpc = "wait"
  /\ ready[cmd]
  /\ result' = [result EXCEPT ![cmd] = "S_OK"]
  /\ dpc' = "return"
  /\ UNCHANGED <<loaded, started, cmd, fpc, ready, refs, managedVars, crashed>>

(* ExecuteOpCode returns: the buffer and the helper go out of scope. *)
Return ==
  /\ dpc = "return"
  /\ Releases(cmd, BufferHolds)
  /\ dpc' = "leave"
  /\ UNCHANGED <<loaded, started, cmd, result, fpc, ready, managedVars, crashed>>

(* The command returns: WinDbgInterfaces goes out of scope. *)
Leave ==
  /\ dpc = "leave"
  /\ Releases(cmd, InterfacesHold)
  /\ dpc' = "idle"
  /\ cmd' = None
  /\ UNCHANGED <<loaded, started, result, fpc, ready, managedVars, crashed>>

-----------------------------------------------------------------------------
(* The thread of a form. *)

WrapForForm(c) ==
  /\ fpc[c] = "wrap"
  /\ Wrap(c)
  /\ fpc' = [fpc EXCEPT ![c] = "show"]
  /\ UNCHANGED <<loaded, started, cmd, dpc, result, ready, crashed>>

\* A slip: the event is set only once the form is closed.
ShowFormSilently(c) ==
  /\ fpc[c] = "show"
  /\ fpc' = [fpc EXCEPT ![c] = "open"]
  /\ UNCHANGED <<loaded, started, cmd, dpc, result, ready, refs, managedVars, crashed>>

(* MDbgScriptForm, Show, initComplete.Set.  What the constructor throws is *)
(* not caught on this thread.                                              *)
ShowForm(c) ==
  /\ fpc[c] = "show"
  /\ fpc' = [fpc EXCEPT ![c] = "open"]
  /\ ready' = [ready EXCEPT ![c] = TRUE]
  /\ UNCHANGED <<loaded, started, cmd, dpc, result, refs, managedVars, crashed>>

ThrowOnFormThread(c) ==
  /\ fpc[c] \in {"wrap", "show"}
  /\ crashed' = TRUE
  /\ UNCHANGED <<loaded, started, cmd, dpc, result, fpc, ready, refs, managedVars>>

(* OnClosed. *)
CloseForm(c) ==
  /\ fpc[c] = "open"
  /\ Dispose(c)
  /\ fpc' = [fpc EXCEPT ![c] = "closed"]
  /\ UNCHANGED <<loaded, started, cmd, dpc, result, ready, crashed>>

(* The garbage collector of the managed side finds the helper's RCW of a   *)
(* wrapper that nobody holds any more.  ~SptWrapper does nothing.          *)
Collect(c) ==
  /\ wrapper[c] = "disposed"
  /\ fpc[c] \in {"none", "closed"}
  /\ "helper" \in rcw[c]
  /\ rcw' = [rcw EXCEPT ![c] = {}]
  /\ Releases(c, Count(0, 0, 1, 0))
  /\ UNCHANGED <<loaded, started, cmd, dpc, result, fpc, ready, wrapper, dacRcw, dacUsed, crashed>>

Debugger ==
  \/ InitClr \/ Prepare \/ CannotExecute \/ WrapForStub \/ RunStub
  \/ StartForm \/ WaitForForm \/ Return \/ Leave

Form(c) == WrapForForm(c) \/ ShowForm(c) \/ ThrowOnFormThread(c)

Next ==
  /\ ~crashed
  /\ \/ Debugger
     \/ \E c \in Commands : Enter(c) \/ Form(c) \/ CloseForm(c) \/ Collect(c)

Spec == Init /\ [][Next]_vars

(* The threads run.  Nobody has to type a command or close a form, and the *)
(* collector does not have to run.                                         *)
FairSpec ==
  /\ Spec
  /\ WF_vars(~crashed /\ Debugger)
  /\ \A c \in Commands : WF_vars(~crashed /\ Form(c))

-----------------------------------------------------------------------------
TypeOK ==
  /\ loaded \in BOOLEAN /\ started \in BOOLEAN /\ crashed \in BOOLEAN
  /\ cmd \in Commands \cup {None}
  /\ dpc \in {"idle", "enter", "prepare", "execute", "stub", "wait", "return", "leave"}
  /\ result \in [Commands -> {"none", "S_OK", "E_FAIL"}]
  /\ fpc \in [Commands -> {"none", "wrap", "show", "open", "closed"}]
  /\ ready \in [Commands -> BOOLEAN]
  /\ wrapper \in [Commands -> {"none", "live", "disposed"}]
  /\ refs \in [Commands -> Refs]
  /\ rcw \in [Commands -> SUBSET Own]
  /\ dacRcw \in [Dacs -> Commands \cup {None}]
  /\ dacUsed \in [Commands -> Commands \cup {None}]

\* The frame of ExecuteOpCode, with the buffer, is on the stack.
BufferLives(c) == cmd = c /\ dpc \in {"execute", "stub", "wait"}

Alive(r) == r.ext > 0 /\ r.proc > 0 /\ r.helper > 0 /\ r.dac > 0

(* "We can guarantee that InitHost will AddRef the objects before it       *)
(* returns" (ScriptIt.cpp): a form thread that has yet to read the buffer  *)
(* finds it on the stack of the command that started it, its objects alive.*)
BufferReadInTime ==
  \A c \in Commands :
    fpc[c] = "wrap" => BufferLives(c) /\ Alive(refs[c])

(* A wrapper that has not been disposed can use its ClrProcess, CSDbgExt   *)
(* and helper: their RCWs are live and so is what is below them.  Its DAC  *)
(* is usable as well, unless another wrapper over the same DAC object has  *)
(* been disposed and took the common RCW along.                            *)
UsableUntilDisposed ==
  \A c \in Commands : wrapper[c] = "live" =>
    /\ rcw[c] = Own
    /\ Alive(refs[c])
    /\ \/ dacRcw[DacOf[c]] = dacUsed[c]
       \/ \E b \in Commands \ {c} : /\ DacOf[b] = DacOf[c]
                                    /\ dacUsed[b] = dacUsed[c]
                                    /\ wrapper[b] = "disposed"

(* References are balanced: once no command runs, no wrapper is open and   *)
(* the collector has been by, every object a command made is gone.         *)
NothingLeaks ==
  (dpc = "idle" /\ \A c \in Commands : wrapper[c] # "live" /\ rcw[c] = {}
                                       /\ fpc[c] \in {"none", "closed"}) =>
    \A c \in Commands : refs[c] = Count(0, 0, 0, 0)

(* A command returns to the debugger, whatever form it opened and whatever *)
(* forms are open, unless the debugger has crashed.                        *)
CommandReturns == dpc # "idle" ~> (dpc = "idle" \/ crashed)
=============================================================================
