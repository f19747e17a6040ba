---------------------------- MODULE StaticFields ----------------------------
(***************************************************************************)
(* The values a static field has in the application domains of the target: *)
(* GetStaticFieldValues and GetStaticFieldValue (SDbgCore/src/             *)
(* ClrProcess_Fields.cpp), and two of its callers, the managed wrapper     *)
(* (SDbgM/SptWrapper/SptWrapper_Fields.cs) and !dumpobj (SDbgExt/          *)
(* DumpObj.cpp).  The caller counts the domains to make room for the       *)
(* values, the callee counts them again; in a live target domains are      *)
(* started and unloaded and the field is written to meanwhile.             *)
(***************************************************************************)
EXTENDS Naturals, FiniteSets, SequencesExt

CONSTANTS
  Domains,    (* addresses of application domains                          *)
  NoDomain,   (* the NULL address                                          *)
  Values,     (* contents of the field                                     *)
  Fields,     (* the fields a caller asks for, see Field                   *)
  Callers,    (* "managed" and "dumpobj"                                   *)
  Events      (* bound: how often the target changes during a call         *)

(* type: a value type, whose address is its value, a reference, or a       *)
(* primitive.  home: the domain the module was loaded for, None if it is   *)
(* domain neutral.  desc: whether GetFieldDescData and GetModuleData       *)
(* answer.  own: whether GetDomainLocalModuleDataFromModule gives the      *)
(* answer it should, which is E_INVALIDARG for a domain neutral module.    *)
(* local, cell: the domains whose local module, and whose storage of the   *)
(* field, can be read.                                                     *)
Field ==
  [type: {"struct", "ref", "primitive"}, home: Domains \cup {NoDomain}, desc: BOOLEAN,
   own: BOOLEAN, local: SUBSET Domains, cell: SUBSET Domains]

\* What the module takes for granted of its parameters.
StaticAssumption ==
  /\ NoDomain \notin Domains /\ IsFiniteSet(Domains)
  /\ Domains \cup {NoDomain} \cup Values \subseteq Nat
  /\ Fields \subseteq Field
  /\ Callers \subseteq {"managed", "dumpobj"}
  /\ Events \in Nat

VARIABLES
  field,      (* the field                                                 *)
  appDomains, (* the domains of the target, in the order of their ids      *)
  content,    (* what the field holds in each domain                       *)
  e,          (* the call, see Call                                        *)
  shown,      (* the values the caller goes on with                        *)
  had,        (* what the field held in each domain since the call         *)
  lasting,    (* the domains that were loaded ever since                   *)
  startedAt,  (* where the call was when a domain was started,             *)
  unloadedAt, (* and when one was unloaded                                 *)
  events      (* how often the target has changed                          *)

target == <<field, appDomains, content, had, lasting, startedAt, unloadedAt, events>>
staticVars == <<target, e, shown>>

Answer == [domain: Domains \cup {NoDomain}, is: {"address", "content", "NotInit"}, of: Nat]
Blank == [domain |-> NoDomain, is |-> "NotInit", of |-> 0]

(* room: cValues.  counted: whether it is a count.  count, domains:        *)
(* numDomains, domains.  at: where the storage that is read next belongs   *)
(* to.  found: foundValues.                                                *)
Call ==
  [pc: {"count", "call", "list", "lookup", "read", "copy", "returned", "failed", "crashed"},
   caller: Callers, room: Nat, counted: BOOLEAN, count: Nat,
   domains: Seq(Domains \cup {NoDomain}), at: Domains \cup {NoDomain}, found: Seq(Answer)]

StaticInit ==
  /\ field \in Fields
  /\ appDomains \in {s \in SetToAllKPermutations(Domains) : s # <<>>}
  /\ field.home # NoDomain => field.home \in Range(appDomains)
  /\ content \in [Domains -> Values]
  /\ \E c \in Callers :
       e = [pc |-> "count", caller |-> c, room |-> 0, counted |-> TRUE, count |-> 0,
            domains |-> <<>>, at |-> NoDomain, found |-> <<>>]
  /\ shown = <<>>
  /\ had = [d \in Domains |-> {content[d]}]
  /\ lasting = Range(appDomains)
  /\ startedAt = {} /\ unloadedAt = {}
  /\ events = 0

-----------------------------------------------------------------------------
(* The target. *)

(* A domain is started; it may take the id of one that was unloaded.       *)
Start ==
  \E d \in Domains \ Range(appDomains), i \in 1..(Len(appDomains) + 1) :
    /\ appDomains' = InsertAt(appDomains, i, d)
    /\ startedAt' = startedAt \cup {e.pc}
    /\ UNCHANGED <<field, content, had, lasting, unloadedAt>>

(* A domain is unloaded, its memory stays readable or goes, and with it    *)
(* the module that was loaded for it.                                      *)
Unload ==
  \E i \in DOMAIN appDomains, gone \in BOOLEAN :
    LET d == appDomains[i] IN
    /\ Len(appDomains) > 1
    /\ appDomains' = RemoveAt(appDomains, i)
    /\ field' = IF ~gone THEN field
                ELSE [field EXCEPT !.local = @ \ {d}, !.cell = @ \ {d},
                                   !.desc = @ /\ field.home # d]
    /\ lasting' = lasting \ {d}
    /\ unloadedAt' = unloadedAt \cup {e.pc}
    /\ UNCHANGED <<content, had, startedAt>>

Write ==
  \E d \in Range(appDomains), v \in Values :
    /\ content' = [content EXCEPT ![d] = v]
    /\ had' = [had EXCEPT ![d] = @ \cup {v}]
    /\ UNCHANGED <<field, appDomains, lasting, startedAt, unloadedAt>>

TargetRuns ==
  /\ events < Events /\ events' = events + 1
  /\ e.pc \notin {"returned", "failed", "crashed"}
  /\ Start \/ Unload \/ Write
  /\ UNCHANGED <<e, shown>>

-----------------------------------------------------------------------------
(* The call. *)

Do(p, f) == e.pc = p /\ e' = f /\ UNCHANGED <<target, shown>>

(* The caller's own count.                                                 *)
CountForRoom == Do("count", [e EXCEPT !.pc = "call", !.room = Len(appDomains)])

(* It fails: the wrapper throws, !dumpobj goes on with what happens to lie *)
(* in ads.DomainCount.                                                     *)
CountForRoomFails ==
  IF e.caller = "managed" THEN Do("count", [e EXCEPT !.pc = "failed"])
  ELSE \E n \in 0..Cardinality(Domains) : Do("count", [e EXCEPT !.pc = "call", !.room = n, !.counted = FALSE])

\* A slip: the shared domain is counted too.
CountShared == Do("call", [e EXCEPT !.pc = "list", !.count = Len(appDomains) + 1])

(* GetAppDomainStoreData of the callee.                                    *)
CountAgain == Do("call", [e EXCEPT !.pc = "list", !.count = Len(appDomains)])

\* A slip: the domains start behind the one that was made first.
ListFromSecond ==
  Do("list", [e EXCEPT !.pc = "lookup",
                       !.domains = [i \in 1..e.count |->
                                      IF i < Len(appDomains) THEN appDomains[i + 1] ELSE NoDomain]])

(* GetAppDomainList: as many of them as there is room for; what is not     *)
(* filled stays NULL.                                                      *)
List ==
  Do("list", [e EXCEPT !.pc = "lookup",
                       !.domains = [i \in 1..e.count |->
                                      IF i \in DOMAIN appDomains THEN appDomains[i] ELSE NoDomain]])

(* Either of the two fails: the wrapper throws, !dumpobj does not look.    *)
CallFails ==
  /\ e.pc \in {"call", "list"}
  /\ e' = [e EXCEPT !.pc = IF e.caller = "managed" THEN "failed" ELSE "returned"]
  /\ shown' = IF e.caller = "managed" THEN <<>> ELSE [i \in 1..e.room |-> Blank]
  /\ UNCHANGED target

Domain == e.domains[Len(e.found) + 1]

\* A slip: the answer names the domain the module was loaded for.
FoundAtHome(is, of) ==
  LET d == IF field.home = NoDomain THEN Domain ELSE field.home
      f == Append(e.found, [domain |-> d, is |-> is, of |-> of]) IN
  [e EXCEPT !.found = f, !.at = NoDomain,
            !.pc = IF Len(f) < Len(e.domains) THEN "lookup" ELSE "copy"]

Found(is, of) ==
  LET f == Append(e.found, [domain |-> Domain, is |-> is, of |-> of]) IN
  [e EXCEPT !.found = f, !.at = NoDomain,
            !.pc = IF Len(f) < Len(e.domains) THEN "lookup" ELSE "copy"]

\* The storage of the field at the start of a local module.
Storage(d) ==
  IF field.type = "struct" THEN Found("address", d)
  ELSE [e EXCEPT !.pc = "read", !.at = d]

(* GetStaticFieldValue up to dlmData.  A module that was loaded for one    *)
(* domain answers for whatever domain is asked for.  An answer other than  *)
(* E_INVALIDARG leaves dlmData zero.                                       *)
LookUp ==
  /\ e.pc = "lookup"
  /\ Do("lookup",
        IF ~field.desc THEN Found("NotInit", 0)
        ELSE IF field.home # NoDomain \/ ~field.own
          THEN Storage(IF field.own THEN field.home ELSE NoDomain)
        ELSE IF Domain \in field.local THEN Storage(Domain)
        ELSE Found("NotInit", 0))

\* A slip: the value of the domain before it is left in the answer.
ReadKeeps ==
  /\ e.pc = "read"
  /\ Do("read",
        IF e.at \in field.cell THEN Found("content", content[e.at])
        ELSE IF e.found # <<>> THEN Found(Last(e.found).is, Last(e.found).of)
        ELSE Found("NotInit", 0))

(* The value, if it is not the address.                                    *)
Read ==
  /\ e.pc = "read"
  /\ Do("read",
        IF e.at \in field.cell THEN Found("content", content[e.at]) ELSE Found("NotInit", 0))

\* A slip: the wrapper goes on with all it made room for.
ShowsAllRoom == TRUE

\* !dumpobj shows all it made room for.
ShowsRoom == e.caller = "dumpobj"

(* The values are copied to the caller; the iterator that checks the copy  *)
(* ends the process where the room is too small.                           *)
Copy ==
  /\ e.pc = "copy"
  /\ IF Len(e.found) > e.room
     THEN e' = [e EXCEPT !.pc = "crashed"] /\ UNCHANGED shown
     ELSE /\ e' = [e EXCEPT !.pc = "returned"]
          /\ shown' = e.found \o
               IF ShowsRoom THEN [i \in 1..(e.room - Len(e.found)) |-> Blank] ELSE <<>>
  /\ UNCHANGED target

CallStep ==
  \/ CountForRoom \/ CountForRoomFails \/ CountAgain \/ List \/ CallFails
  \/ LookUp \/ Read \/ Copy
StaticNext == TargetRuns \/ CallStep

StaticSpec == StaticInit /\ [][StaticNext]_staticVars

-----------------------------------------------------------------------------
StaticTypeOK ==
  /\ field \in Field /\ e \in Call
  /\ e.pc = "read" => e.at \in Domains \cup {NoDomain} /\ Len(e.found) < Len(e.domains)
  /\ \A i \in DOMAIN e.found : e.found[i] \in Answer /\ e.found[i].domain = e.domains[i]

(* A value is one the field has had, during the call, in the domain it is  *)
(* shown for, or in the only domain its module was loaded for.             *)
ValuesOwn ==
  \A i \in DOMAIN shown :
    LET r == shown[i] IN
    r.is = "content" =>
      \E d \in {r.domain, field.home} \cap Domains : r.of \in had[d]

(* A domain that is loaded throughout the call is shown, with a value if   *)
(* its storage can be read, unless another was started between the count   *)
(* of the domains and their list.                                          *)
LastingShown ==
  (e.pc = "returned" /\ e.found # <<>> /\ "list" \notin startedAt) =>
    \A d \in lasting : \E i \in DOMAIN shown :
      /\ shown[i].domain = d
      /\ (field.desc /\ field.own /\ d \in field.local \cap field.cell /\ field.home \in {NoDomain, d})
           => shown[i].is # "NotInit"

(* The process only ends where a domain was started after the caller had   *)
(* counted them, or where !dumpobj had no count.                           *)
CrashExplained ==
  (e.pc = "crashed" /\ e.counted) => "call" \in startedAt

(* The wrapper only shows a row without a domain where one was unloaded    *)
(* between the callee's count and its list.                                *)
BlankExplained ==
  (e.pc = "returned" /\ e.caller = "managed") =>
    \A i \in DOMAIN shown : shown[i].domain = NoDomain => "list" \in unloadedAt

(* A static field is shown for every domain that lasts, with a value it    *)
(* had, a row is blank only where it is known to be, and the process ends  *)
(* only where it is known to.                                              *)
StaticsShown ==
  StaticTypeOK /\ ValuesOwn /\ LastingShown /\ CrashExplained /\ BlankExplained
=============================================================================
