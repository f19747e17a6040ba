---------------------------- MODULE Bootstrapper ----------------------------
(***************************************************************************)
(* How an ISDbgExt comes about: CSDbgBootstrapper opens a dump or attaches *)
(* to a process, waits for the engine and builds the DAC the way that fits *)
(* the target (SDbgExt/CSDbgBootstrapper.cpp, InitIXCLRData of SDbgExt.cpp)*)
(* or, for a command of the debugger, takes what the debugger has          *)
(* (WinDbgInterfaces of WinDbgExt.h).  The engine is one per process: all  *)
(* clients share its targets, whichever of them has opened them.           *)
(***************************************************************************)
EXTENDS Naturals, FiniteSets

CONSTANTS
  Clients,    (* bootstrappers that CreateBootstrapper has made            *)
  OfCommand,  (* the one each command makes and throws away                *)
  Targets,    (* dumps and processes                                       *)
  Dumps,      (* those of them that are dumps                              *)
  Clr,        (* those of them that have a CLR loaded                      *)
  Paths,      (* image paths, and symbol paths alike                       *)
  Nothing,    (* no target, or the empty path                              *)
  MaxUses     (* bound: calls of Init..., and of Configure...              *)

\* What the module takes for granted of its parameters.
BootstrapperAssumption ==
  /\ OfCommand \notin Clients /\ Dumps \subseteq Targets /\ Clr \subseteq Targets
  /\ Nothing \notin Targets \cup Paths
  /\ MaxUses \in Nat

VARIABLES
  engine,     (* the debugger engine, see Engine                           *)
  installed,  (* whether the DAC of this machine can be loaded             *)
  boot,       (* the bootstrappers, see Boot                               *)
  made,       (* the interfaces that were returned and are in use          *)
  muddled,    (* whether a wait has failed or two calls have overlapped    *)
  openers,    (* who has opened a target                                   *)
  crashed,    (* whose NULL pointer has ended the process, or "nobody"     *)
  uses        (* how many calls have been made                             *)

bootVars == <<engine, installed, boot, made, muddled, openers, crashed, uses>>

(* current: the current target.  pending: those that were opened and not   *)
(* yet waited for.  path: the image path in effect.                        *)
Engine == [current: Targets \cup {Nothing}, pending: SUBSET Targets, path: Paths \cup {Nothing}]

(* cli: whether m_cli is set.  isDump: m_isDumpFile.  path: m_imgPath.     *)
(* asked: the target of the call.  waited: whether it is as far as Init.   *)
(* used: the path that was in effect when the target was opened.           *)
Boot ==
  [pc: {"idle", "ensure", "open", "wait", "dac"}, op: {"from", "init"}, cli: BOOLEAN,
   isDump: BOOLEAN, path: Paths \cup {Nothing},
   asked: Targets \cup {Nothing}, waited: BOOLEAN, used: Paths \cup {Nothing}]

All == Clients \cup {OfCommand}

BootInit ==
  /\ \E t \in Targets \cup {Nothing} : engine = [current |-> t, pending |-> {}, path |-> Nothing]
  /\ installed \in BOOLEAN
  /\ boot = [x \in All |-> [pc |-> "idle", op |-> "init", cli |-> x = OfCommand,
               isDump |-> x = OfCommand, path |-> Nothing, asked |-> Nothing,
               waited |-> FALSE, used |-> Nothing]]
  /\ made = {}
  /\ muddled = (engine.current # Nothing)
  /\ openers = {}
  /\ crashed = "nobody"
  /\ uses = 0

-----------------------------------------------------------------------------
B(x, b) == boot' = [boot EXCEPT ![x] = b]
Busy == {x \in All : boot[x].pc # "idle"}
Count == uses < MaxUses /\ uses' = uses + 1

(* ConfigureImagePath; ConfigureSymbolPath is the same.  Commands leave the*)
(* debugger's paths alone.                                                 *)
Configure(x) ==
  /\ x # OfCommand /\ boot[x].pc = "idle" /\ Count
  /\ \E p \in Paths \cup {Nothing} :
       B(x, [boot[x] EXCEPT !.path = p])
  /\ UNCHANGED <<engine, installed, made, muddled, openers, crashed>>

(* InitFromDump, InitFromLiveProcess or Init alone, which is all that a    *)
(* command calls.                                                          *)
CallInit(x) ==
  /\ boot[x].pc = "idle" /\ Count
  /\ \E op \in {"from", "init"}, t \in Targets \cup {Nothing} :
       /\ (op = "init") = (t = Nothing)
       /\ x = OfCommand => op = "init"
       /\ B(x, [boot[x] EXCEPT !.pc = "ensure", !.op = op, !.asked = t, !.waited = FALSE,
                               !.used = Nothing])
  /\ muddled' = (muddled \/ (x # OfCommand /\ Busy \ {OfCommand} # {}))
  /\ UNCHANGED <<engine, installed, made, openers, crashed>>

\* WinDbgInterfaces goes on with the interface it was not given.
Fail(x) ==
  /\ B(x, [boot[x] EXCEPT !.pc = "idle"])
  /\ crashed' = IF x = OfCommand THEN "command" ELSE crashed

(* DebugCreate fails.                                                      *)
EnsureFails(x) ==
  /\ boot[x].pc = "ensure" /\ ~boot[x].cli
  /\ Fail(x)
  /\ UNCHANGED <<engine, installed, made, muddled, openers, uses>>

Onward(b) == [b EXCEPT !.cli = TRUE, !.pc = IF b.op = "init" \/ b.waited THEN "dac" ELSE "open"]

\* A slip: a client that is there is not configured again.
EnsureOnce(x) ==
  /\ boot[x].pc = "ensure"
  /\ B(x, Onward(boot[x]))
  /\ engine' = IF boot[x].path = Nothing \/ boot[x].cli THEN engine
               ELSE [engine EXCEPT !.path = boot[x].path]
  /\ UNCHANGED <<installed, made, muddled, openers, crashed, uses>>

(* EnsureDbgClient: what was configured is set every time, unless empty.   *)
EnsureDbgClient(x) ==
  /\ boot[x].pc = "ensure"
  /\ B(x, Onward(boot[x]))
  /\ engine' = IF boot[x].path = Nothing THEN engine ELSE [engine EXCEPT !.path = boot[x].path]
  /\ UNCHANGED <<installed, made, muddled, openers, crashed, uses>>

\* A slip: a target that is there already is taken for the one asked for.
OpenAgain(x) ==
  /\ boot[x].pc = "open"
  /\ B(x, [boot[x] EXCEPT !.pc = IF engine.current # Nothing THEN "ensure" ELSE "wait",
                          !.waited = engine.current # Nothing, !.used = engine.path])
  /\ engine' = IF engine.current # Nothing THEN engine
               ELSE [engine EXCEPT !.pending = @ \cup {boot[x].asked}]
  /\ openers' = openers \cup {x}
  /\ UNCHANGED <<installed, made, muddled, crashed, uses>>

(* OpenDumpFileWide or AttachProcess; the target stays whatever comes next.*)
Open(x) ==
  /\ boot[x].pc = "open"
  /\ \/ Fail(x) /\ UNCHANGED <<engine, openers>>
     \/ /\ B(x, [boot[x] EXCEPT !.pc = "wait", !.used = engine.path])
        /\ engine' = [engine EXCEPT !.pending = @ \cup {boot[x].asked}]
        /\ openers' = openers \cup {x}
        /\ UNCHANGED crashed
  /\ UNCHANGED <<installed, made, muddled, uses>>

WaitFails(x) ==
  /\ boot[x].pc = "wait"
  /\ Fail(x)
  /\ muddled' = TRUE
  /\ UNCHANGED <<engine, installed, made, openers, uses>>

\* A slip: the flag is only ever set.
WaitForEventSets(x) ==
  /\ boot[x].pc = "wait"
  /\ \E t \in engine.pending :
       engine' = [engine EXCEPT !.current = t, !.pending = @ \ {t}]
  /\ B(x, [boot[x] EXCEPT !.pc = "ensure", !.waited = TRUE,
                          !.isDump = @ \/ boot[x].asked \in Dumps])
  /\ UNCHANGED <<installed, made, muddled, openers, crashed, uses>>

(* Any target that is due may be the one the engine comes back for; then   *)
(* m_isDumpFile is set for the one that was asked for, and Init called.    *)
WaitForEvent(x) ==
  /\ boot[x].pc = "wait"
  /\ \E t \in engine.pending :
       engine' = [engine EXCEPT !.current = t, !.pending = @ \ {t}]
  /\ B(x, [boot[x] EXCEPT !.pc = "ensure", !.waited = TRUE,
                          !.isDump = boot[x].asked \in Dumps])
  /\ UNCHANGED <<installed, made, muddled, openers, crashed, uses>>

Result(x, dac) ==
  [by |-> x, op |-> boot[x].op, target |-> engine.current, asked |-> boot[x].asked, dac |-> dac,
   used |-> boot[x].used, path |-> boot[x].path, clean |-> ~muddled, alone |-> openers \subseteq {x}]

(* CreateDbgEngMemoryAccess, CreateClrProcess and CreateSDbgExt.  Whoever  *)
(* has called asks the process for its DAC, which it does not look at.     *)
Give(x, dac) ==
  /\ made' = made \cup {Result(x, dac)}
  /\ B(x, [boot[x] EXCEPT !.pc = "idle"])
  /\ crashed' = IF dac # "none" THEN crashed ELSE IF x = OfCommand THEN "command" ELSE "client"
  /\ UNCHANGED <<engine, installed, muddled, openers, uses>>

HasClr == engine.current \in Clr

\* A slip: the answer of the debugger is not looked at.
DacFromEngineUnchecked(x) ==
  /\ boot[x].pc = "dac" /\ boot[x].isDump
  /\ Give(x, "engine")

(* InitIXCLRDataFromWinDBG: the debugger's own DAC for the target.         *)
DacFromEngine(x) ==
  /\ boot[x].pc = "dac" /\ boot[x].isDump
  /\ IF HasClr THEN Give(x, "engine")
     ELSE Fail(x) /\ UNCHANGED <<engine, installed, made, muddled, openers, uses>>

\* A slip: an instance that could not be created is not looked at.
DacFromMachineUnchecked(x) ==
  /\ boot[x].pc = "dac" /\ ~boot[x].isDump
  /\ Give(x, IF installed /\ HasClr THEN "machine" ELSE "none")

(* InitIXCLRData: the DAC of the framework that is installed here, on a    *)
(* data target of its own.  A library that cannot be loaded is answered    *)
(* with FALSE, which is S_OK.                                              *)
DacFromMachine(x) ==
  /\ boot[x].pc = "dac" /\ ~boot[x].isDump
  /\ IF ~installed THEN Give(x, "none")
     ELSE IF HasClr THEN Give(x, "machine")
     ELSE Fail(x) /\ UNCHANGED <<engine, installed, made, muddled, openers, uses>>

(* The interface is released by the one who asked for it.                  *)
Release ==
  /\ \E i \in made : made' = made \ {i}
  /\ UNCHANGED <<engine, installed, boot, muddled, openers, crashed, uses>>

Step(x) ==
  \/ Configure(x) \/ CallInit(x) \/ EnsureFails(x) \/ EnsureDbgClient(x) \/ Open(x)
  \/ WaitFails(x) \/ WaitForEvent(x) \/ DacFromEngine(x) \/ DacFromMachine(x)

\* A process that has crashed does nothing more.
BootNext == crashed = "nobody" /\ (Release \/ \E x \in All : Step(x))

BootSpec == BootInit /\ [][BootNext]_bootVars

-----------------------------------------------------------------------------
BootTypeOK ==
  /\ engine \in Engine /\ boot \in [All -> Boot]
  /\ \A i \in made : i.target # Nothing \/ i.dac = "none"

(* InitFromDump and InitFromLiveProcess return an interface to the target  *)
(* they were given, unless calls have overlapped, another target was there *)
(* before, or an earlier wait has failed and its target comes up now.      *)
OwnTarget == \A i \in made : (i.clean /\ i.op = "from") => i.target = i.asked

(* A dump is never read with the DAC that happens to be installed on this  *)
(* machine, and a process always, in whatever order dumps and processes    *)
(* were opened or failed to open.  Init alone keeps to that only where no  *)
(* other client has opened a target: the engine is shared, the flag is not.*)
RightDac ==
  \A i \in made :
    (i.clean /\ i.by # OfCommand /\ (i.op = "from" \/ i.alone)) =>
      (i.dac = "engine" <=> i.target \in Dumps)

(* A target is opened with the path that was configured last, also when    *)
(* the client has been there before; only an empty path leaves the one of  *)
(* an earlier call in effect.                                              *)
Configured ==
  \A i \in made : (i.clean /\ i.op = "from") => i.used = i.path \/ i.path = Nothing

(* A NULL pointer is used only where a command runs without a CLR in the   *)
(* debugger's target, and where the DAC of this machine cannot be loaded.  *)
CrashExplained ==
  /\ crashed = "command" => ~HasClr
  /\ crashed = "client" => ~installed

(* A client gets the target it asked for, with the DAC that is right for it*)
(* and the paths it configured, and the process ends only where it is known*)
(* to.                                                                     *)
BootAnswers == BootTypeOK /\ OwnTarget /\ RightDac /\ Configured /\ CrashExplained
=============================================================================
