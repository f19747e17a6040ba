----------------------------- MODULE TypeSearch -----------------------------
(***************************************************************************)
(* FindTypeByName with SearchAssembly and SearchModule, and FindMethodBy-  *)
(* Name (SDbgCore/src/ClrProcess_Reflection.cpp): the searches over the    *)
(* domains of a target, the assemblies of a domain, the modules of an      *)
(* assembly, and over the slots of a method table.  Anything on the way may*)
(* be unreadable.                                                          *)
(***************************************************************************)
EXTENDS Naturals, Sequences

CONSTANTS
  Targets,    (* the targets, see Target                                   *)
  Operations  (* "type" is FindTypeByName, "method" is FindMethodByName    *)

(* name: how the path of the assembly relates to the name asked for: it    *)
(* ends with it, has another end, or is too short, as it is where it cannot*)
(* be read.  modules: for each whether it has the type: "no", "unloaded"   *)
(* where its metadata knows it and the runtime does not, "yes", or "bad".  *)
Assembly == [name: {"ends", "other", "short"}, data: BOOLEAN,
             modules: Seq({"no", "unloaded", "yes", "bad"})]

(* domains: the system domain, the shared one and those of the list.       *)
(* slots: for each whether it has the method asked for, or fails.          *)
Target == [domains: Seq([ok: BOOLEAN, assemblies: Seq(Assembly)]), list: BOOLEAN,
           slots: Seq({"no", "yes", "bad"})]

\* What the module takes for granted of its parameters.
SearchAssumption == Targets \subseteq Target /\ Operations \subseteq {"type", "method"}

VARIABLES
  target,     (* the target                                                *)
  s           (* the search, see Search                                    *)

vars == <<target, s>>

(* d, a, m: where the loops over domains, assemblies and modules are, or,  *)
(* in m, that over slots.  found: <<d, a, m>>, or <<>>.                    *)
Search ==
  [pc: {"list", "domain", "assembly", "module", "slot", "returned"}, op: Operations,
   d: Nat, a: Nat, m: Nat, found: Seq(Nat)]

Init ==
  /\ target \in Targets
  /\ \E op \in Operations :
       s = [pc |-> IF op = "type" THEN "list" ELSE "slot", op |-> op, d |-> 1, a |-> 1, m |-> 1,
            found |-> <<>>]

Do(p, f) == s.pc = p /\ s' = f /\ UNCHANGED target

Domain == target.domains[s.d]
AssemblyOf == Domain.assemblies[s.a]
NextDomain == [s EXCEPT !.pc = "domain", !.d = @ + 1]
NextAssembly == [s EXCEPT !.pc = "assembly", !.a = @ + 1]

(* GetAppDomainStoreData and GetAppDomainList.                             *)
ReadList == Do("list", [s EXCEPT !.pc = IF target.list THEN "domain" ELSE "returned"])

(* GetAppDomainData and GetAssemblyList.                                   *)
ReadDomain ==
  /\ s.d <= Len(target.domains)
  /\ Do("domain", IF ~Domain.ok \/ Domain.assemblies = <<>> THEN NextDomain
                  ELSE [s EXCEPT !.pc = "assembly", !.a = 1])

(* The end of the path is compared.  Where the path is shorter than the    *)
(* name the comparison begins in front of the buffer: it may say anything. *)
Suffix(match) ==
  CASE AssemblyOf.name = "ends" -> match
    [] AssemblyOf.name = "other" -> ~match
    [] OTHER -> TRUE

ReadAssembly ==
  /\ s.pc = "assembly" /\ s.a <= Len(Domain.assemblies)
  /\ \E match \in BOOLEAN :
       /\ Suffix(match)
       /\ Do("assembly",
             IF match /\ AssemblyOf.data /\ AssemblyOf.modules # <<>>
               THEN [s EXCEPT !.pc = "module", !.m = 1]
               ELSE NextAssembly)

EndOfAssemblies ==
  s.pc = "assembly" /\ s.a > Len(Domain.assemblies) /\ Do("assembly", NextDomain)

Found(f) == [s EXCEPT !.pc = "returned", !.found = f]

\* A slip: a type that is in the metadata is taken for found.
ReadModuleUnloaded ==
  /\ s.pc = "module" /\ s.m <= Len(AssemblyOf.modules)
  /\ Do("module", IF AssemblyOf.modules[s.m] \in {"yes", "unloaded"} THEN Found(<<s.d, s.a, s.m>>)
                  ELSE [s EXCEPT !.m = @ + 1])

(* SearchModule: the type has to be in the metadata and to be loaded.      *)
ReadModule ==
  /\ s.pc = "module" /\ s.m <= Len(AssemblyOf.modules)
  /\ Do("module", IF AssemblyOf.modules[s.m] = "yes" THEN Found(<<s.d, s.a, s.m>>)
                  ELSE [s EXCEPT !.m = @ + 1])

\* A slip: the search goes on with the same assembly.
EndOfModulesStays ==
  s.pc = "module" /\ s.m > Len(AssemblyOf.modules) /\ Do("module", [s EXCEPT !.pc = "assembly"])
EndOfModules ==
  s.pc = "module" /\ s.m > Len(AssemblyOf.modules) /\ Do("module", NextAssembly)

\* A slip: the search goes on behind the last domain.
EndOfDomainsGoesOn == s.d > Len(target.domains) /\ Do("domain", [s EXCEPT !.pc = "assembly"])
EndOfDomains == s.d > Len(target.domains) /\ Do("domain", [s EXCEPT !.pc = "returned"])

\* A slip: a slot that cannot be read ends the search.
ReadSlotOrReturn ==
  Do("slot", IF s.m > Len(target.slots) \/ target.slots[s.m] = "bad" THEN [s EXCEPT !.pc = "returned"]
             ELSE IF target.slots[s.m] = "yes" THEN Found(<<s.m>>)
             ELSE [s EXCEPT !.m = @ + 1])

(* GetMethodTableSlot, GetCodeHeaderData and GetMethodDescName.            *)
ReadSlot ==
  Do("slot", IF s.m > Len(target.slots) THEN [s EXCEPT !.pc = "returned"]
             ELSE IF target.slots[s.m] = "yes" THEN Found(<<s.m>>)
             ELSE [s EXCEPT !.m = @ + 1])

Next ==
  \/ ReadList \/ ReadDomain \/ ReadAssembly \/ EndOfAssemblies \/ ReadModule \/ EndOfModules
  \/ EndOfDomains \/ ReadSlot

Spec == Init /\ [][Next]_vars

-----------------------------------------------------------------------------
TypeOK ==
  /\ s \in Search
  /\ s.pc \in {"assembly", "module"} => s.d \in DOMAIN target.domains
  /\ s.pc = "module" => s.a \in DOMAIN Domain.assemblies

(* Where the type is loaded, in an assembly whose path ends with the name  *)
(* or may be taken to.                                                     *)
Places(names) ==
  {<<d, a, m>> \in (1..4) \X (1..4) \X (1..4) :
     /\ d \in DOMAIN target.domains /\ target.domains[d].ok
     /\ a \in DOMAIN target.domains[d].assemblies
     /\ LET asm == target.domains[d].assemblies[a] IN
          asm.name \in names /\ asm.data /\ m \in DOMAIN asm.modules /\ asm.modules[m] = "yes"}

Before(p, q) ==
  \E i \in 1..3 : p[i] < q[i] /\ \A j \in 1..(i - 1) : p[j] = q[j]

(* What cannot be read hides nothing else: if the type is loaded in a      *)
(* readable module of an assembly of the name, the first place is found,   *)
(* or one before it whose path is too short to tell.                       *)
TypeFound ==
  (s.pc = "returned" /\ s.op = "type" /\ target.list) =>
    LET sure == Places({"ends"}) IN
    /\ s.found = <<>> => sure = {}
    /\ s.found # <<>> =>
         /\ s.found \in Places({"ends", "short"})
         /\ \A p \in sure : ~Before(p, s.found)

(* The same for methods: the first slot with the method is found.          *)
MethodFound ==
  (s.pc = "returned" /\ s.op = "method") =>
    LET slots == {i \in DOMAIN target.slots : target.slots[i] = "yes"} IN
    IF slots = {} THEN s.found = <<>>
    ELSE \E i \in slots : s.found = <<i>> /\ \A j \in slots : i <= j

Ended == s.pc = "returned"
=============================================================================
