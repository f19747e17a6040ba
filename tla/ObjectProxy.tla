---------------------------- MODULE ObjectProxy -----------------------------
(***************************************************************************)
(* What a script gets for obj.field and obj[i]: ObjectProxy                *)
(* (SDbgM/ClrObjects/ObjectProxy.cs) and ReadTypedField                    *)
(* (SDbgM/SptWrapper/SptWrapper_Fields.cs).  The method tables of the      *)
(* primitive types are looked up once and kept in two static dictionaries  *)
(* (SDbgM/Util/UsefulGlobals.cs), which the threads of all scripts and the *)
(* wrappers of all targets share without a lock.                           *)
(*                                                                         *)
(* A Dictionary is for one writer at a time, and for no reader beside it.  *)
(* Two calls of Add that overlap may take the same slot: an entry is lost, *)
(* a key gets the value of another, or a chain of entries leads back to    *)
(* itself, on which a later search never ends.  A search beside an Add may *)
(* miss what is there, or fail.  A step is taken to overlap with the Add   *)
(* that another thread is about to make; whether it does is left open.     *)
(***************************************************************************)
EXTENDS Naturals, Sequences

CONSTANTS
  Threads,    (* the threads of scripts                                    *)
  Targets,    (* the processes and dumps that are looked into              *)
  PrimitiveList, (* s_primitives, in its order                             *)
  MT,         (* the method tables of each target, see TargetTables        *)
  AtFirst,    (* which of them a target may have loaded at first           *)
  Accesses    (* what is asked for, see Access                             *)

Primitives == {PrimitiveList[i] : i \in DOMAIN PrimitiveList}
Classes == Primitives \cup {"Object"}
TargetTables == [Targets -> [Classes -> Nat]]

\* s_corFieldType, but for the integers that are read like I4.
CorFieldType == [BOOLEAN |-> "Boolean", CHAR |-> "Char", I1 |-> "Byte", U1 |-> "SByte",
                 I4 |-> "Int32", U8 |-> "UInt64", CLASS |-> "Object"]
Sorts == DOMAIN CorFieldType \cup {"R4", "VALUETYPE", "MISSING"}

(* A field of this sort, MISSING if there is none, or an element of an     *)
(* array.  of: the declared class of a CLASS field or of the elements.     *)
(* null: whether what is stored is a null reference.                       *)
Access == [is: {"member", "index"}, sort: Sorts, of: Classes, null: BOOLEAN]

\* What the module takes for granted of its parameters.
ProxyAssumption ==
  /\ PrimitiveList \in Seq(STRING)
  /\ Targets # {} /\ Accesses # {}
  /\ {"String", "DateTime"} \subseteq Primitives /\ "Object" \notin Primitives
  /\ \A i, j \in DOMAIN PrimitiveList : PrimitiveList[i] = PrimitiveList[j] => i = j
  /\ MT \in TargetTables
  /\ \A g \in Targets : \A c, d \in Classes : MT[g][c] = MT[g][d] => c = d
  /\ AtFirst \subseteq SUBSET Primitives
  /\ Accesses \subseteq Access

VARIABLES
  tables,     (* the two dictionaries, see Tables                          *)
  loaded,     (* the primitive types that each target has loaded           *)
  scripts,    (* what each thread is at, see Script                        *)
  mixed       (* whether a thread has filled them while another was in the *)
              (* middle of it, or has met a type that is not loaded        *)

proxyVars == <<tables, loaded, scripts, mixed>>

(* made: whether there is a dictionary at all, not null.  torn: whether    *)
(* calls of Add have overlapped in it, so that nobody can tell what it has.*)
Tables == [mtMade: BOOLEAN, mt: SUBSET (Nat \X Primitives), mtTorn: BOOLEAN,
           invMade: BOOLEAN, inv: SUBSET (Primitives \X Nat), invTorn: BOOLEAN]

Answer(is, as) == [is |-> is, as |-> as]
Value(t) == Answer("value", t)
String == Value("String")
Proxy == Answer("proxy", "Object")
Bytes == Answer("bytes", "Object")
Refused == Answer("refused", "Object")       \* return false
Raised(what) == Answer("raised", what)
Answers ==
  {Value(t) : t \in Primitives \cup {"Byte", "SByte", "Boolean", "Int32"}}
    \cup {Proxy, Bytes, Refused}
    \cup {Raised(x) : x \in {"Argument", "NullReference", "KeyNotFound", "NotSupported",
                             "InvalidOperation", "COM", "IndexOutOfRange"}}

(* at: the type that InitMethodTables has come to.  A thread that spins is *)
(* in a search that does not end.                                          *)
Script ==
  [pc: {"idle", "find", "ensure", "table", "inverse", "add", "addInverse", "use", "spins",
        "answered"},
   target: Targets, ask: Accesses, at: 1..Len(PrimitiveList), answer: Answers]

ProxyInit ==
  /\ tables = [mtMade |-> FALSE, mt |-> {}, mtTorn |-> FALSE,
               invMade |-> FALSE, inv |-> {}, invTorn |-> FALSE]
  /\ loaded \in [Targets -> AtFirst]
  /\ scripts \in [Threads -> {[pc |-> "idle", target |-> CHOOSE g \in Targets : TRUE,
                         ask |-> CHOOSE a \in Accesses : TRUE, at |-> 1, answer |-> Refused]}]
  /\ mixed = FALSE

-----------------------------------------------------------------------------
(* TryGetMember takes every ArgumentException for a field that is not      *)
(* there.                                                                  *)
Ends(t, a) ==
  [scripts[t] EXCEPT !.pc = "answered", !.at = 1,
     !.answer = IF scripts[t].ask.is = "member" /\ a = Raised("Argument") THEN Refused ELSE a]

Step(t, f) == scripts' = [scripts EXCEPT ![t] = f]
Only(t, f) == Step(t, f) /\ UNCHANGED <<tables, loaded, mixed>>

AskFor(t) ==
  /\ scripts[t].pc \in {"idle", "answered"}
  /\ \E g \in Targets, a \in Accesses :
       Only(t, [scripts[t] EXCEPT !.pc = IF a.is = "member" THEN "find" ELSE "ensure", !.target = g, !.ask = a])

(* Convert of a field that is no reference.  Marshal.SizeOf asks for one   *)
(* byte of a Char, which takes two.  An unsigned number of 64 bits is made *)
(* a proxy of, which may fail either way.                                  *)
Converted(type) ==
  CASE type = "Char"   -> {Raised("Argument")}
    [] type = "UInt64" -> {Proxy, Raised("Argument"), Raised("COM")}
    [] OTHER           -> {Value(type)}

\* A slip: the sort is taken for a reference if it is not known.
FindMemberUnknown(t) ==
  LET s == scripts[t].ask.sort IN
  /\ scripts[t].pc = "find"
  /\ IF s # "MISSING" /\ (s \notin DOMAIN CorFieldType \/ s = "CLASS") THEN Only(t, [scripts[t] EXCEPT !.pc = "ensure"])
     ELSE \E a \in (IF s = "MISSING" THEN {Raised("Argument")} ELSE Converted(CorFieldType[s])) : Only(t, Ends(t, a))

(* FindFieldByNameEx, and ReadTypedField but for references.  A sort that  *)
(* s_corFieldType does not have leaves null for Marshal.SizeOf to refuse.  *)
FindMember(t) ==
  LET s == scripts[t].ask.sort IN
  /\ scripts[t].pc = "find"
  /\ IF s = "CLASS" THEN Only(t, [scripts[t] EXCEPT !.pc = "ensure"])
     ELSE \E a \in (IF s \in DOMAIN CorFieldType THEN Converted(CorFieldType[s])
                    ELSE {Raised("Argument")}) : Only(t, Ends(t, a))

EnsureInit(t) ==
  /\ scripts[t].pc = "ensure"
  /\ Only(t, [scripts[t] EXCEPT !.pc = IF tables.mtMade THEN "use" ELSE "table"])

(* What t adds next, and whether a type that it asks FindTypeByName for is *)
(* known, which only knows loaded types.                                   *)
TypeOf(t) == PrimitiveList[scripts[t].at]
MTOf(t) == MT[scripts[t].target][TypeOf(t)]
IsLoaded(t) == TypeOf(t) \in loaded[scripts[t].target]

Amid(t) == scripts[t].pc \in {"inverse", "add", "addInverse"}
FillsTables(t) == scripts[t].pc = "table" \/ Amid(t)

\* Another thread is about to add to the dictionary for arrays, or its inverse.
AddsBeside(t) == \E u \in Threads \ {t} : scripts[u].pc = "add" /\ IsLoaded(u)
AddsInverseBeside(t) == \E u \in Threads \ {t} : scripts[u].pc = "addInverse"

Fills(t, tabs, f) ==
  /\ tables' = tabs /\ Step(t, f)
  /\ mixed' = (mixed \/ (\E u \in Threads \ {t} : Amid(u)) \/ (scripts[t].pc = "add" /\ ~IsLoaded(t)))
  /\ UNCHANGED loaded

NewTable(t) ==
  /\ scripts[t].pc = "table"
  /\ Fills(t, [tables EXCEPT !.mtMade = TRUE, !.mt = {}, !.mtTorn = FALSE],
           [scripts[t] EXCEPT !.pc = "inverse"])

\* A slip: an inverse that is there is kept.
NewInverseOnce(t) ==
  /\ scripts[t].pc = "inverse"
  /\ Fills(t, [tables EXCEPT !.invMade = TRUE], [scripts[t] EXCEPT !.pc = "add"])

NewInverse(t) ==
  /\ scripts[t].pc = "inverse"
  /\ Fills(t, [tables EXCEPT !.invMade = TRUE, !.inv = {}, !.invTorn = FALSE],
           [scripts[t] EXCEPT !.pc = "add"])

(* What becomes of an Add to a dictionary that is torn, or by which it gets*)
(* torn: it goes on, finds its key there, fails or does not end.           *)
(* IndexOutOfRange stands for all that it may fail with.                   *)
AfterTear(t, next) ==
  {next, Ends(t, Raised("Argument")), Ends(t, Raised("IndexOutOfRange")),
   [scripts[t] EXCEPT !.pc = "spins", !.at = 1]}

(* FindTypeByName, and Add, which takes no key twice: both fail with an    *)
(* ArgumentException.                                                      *)
Add(t) ==
  LET next == [scripts[t] EXCEPT !.pc = "addInverse"] IN
  /\ scripts[t].pc = "add"
  /\ \/ /\ ~IsLoaded(t)
        /\ Fills(t, tables, Ends(t, Raised("Argument")))
     \/ /\ IsLoaded(t) /\ ~tables.mtTorn
        /\ IF \E x \in tables.mt : x[1] = MTOf(t) THEN Fills(t, tables, Ends(t, Raised("Argument")))
           ELSE Fills(t, [tables EXCEPT !.mt = @ \cup {<<MTOf(t), TypeOf(t)>>}], next)
     \/ /\ IsLoaded(t) /\ (tables.mtTorn \/ AddsBeside(t))
        /\ \E f \in AfterTear(t, next) : Fills(t, [tables EXCEPT !.mt = {}, !.mtTorn = TRUE], f)

\* Slips: the last type is left out; the loop goes on behind it, or begins
\* anew.
AfterInverseShort(t) ==
  IF scripts[t].at + 1 < Len(PrimitiveList) THEN [scripts[t] EXCEPT !.pc = "add", !.at = @ + 1]
  ELSE [scripts[t] EXCEPT !.pc = "use", !.at = 1]
AfterInverseLong(t) == [scripts[t] EXCEPT !.pc = "add", !.at = @ + 1]
AfterInverseAnew(t) ==
  IF scripts[t].at < Len(PrimitiveList) THEN [scripts[t] EXCEPT !.pc = "add", !.at = @ + 1]
  ELSE [scripts[t] EXCEPT !.pc = "table", !.at = 1]

\* The loop goes on with the next type.
AfterInverse(t) ==
  IF scripts[t].at < Len(PrimitiveList) THEN [scripts[t] EXCEPT !.pc = "add", !.at = @ + 1]
  ELSE [scripts[t] EXCEPT !.pc = "use", !.at = 1]

AddInverse(t) ==
  /\ scripts[t].pc = "addInverse"
  /\ \/ /\ ~tables.invTorn
        /\ IF \E x \in tables.inv : x[1] = TypeOf(t) THEN Fills(t, tables, Ends(t, Raised("Argument")))
           ELSE Fills(t, [tables EXCEPT !.inv = @ \cup {<<TypeOf(t), MTOf(t)>>}], AfterInverse(t))
     \/ /\ tables.invTorn \/ AddsInverseBeside(t)
        /\ \E f \in AfterTear(t, AfterInverse(t)) :
             Fills(t, [tables EXCEPT !.inv = {}, !.invTorn = TRUE], f)

\* What a reference is answered with: null cannot be read as a text, nor be a proxy.
Text(null) == IF null THEN {Raised("COM")} ELSE {String}
Reference(null) == IF null THEN {Raised("Argument"), Raised("COM")} ELSE {Proxy}

\* A slip: a type that is not in the table is no string.
MemberLenient(ask, addr) ==
  IF <<"String", addr>> \in tables.inv THEN Text(ask.null) ELSE Reference(ask.null)

Member(ask, addr) ==
  CASE ~tables.invMade -> {Raised("NullReference")}
    [] tables.invMade /\ ~\E x \in tables.inv : x[1] = "String" -> {Raised("KeyNotFound")}
    [] OTHER -> IF <<"String", addr>> \in tables.inv THEN Text(ask.null) ELSE Reference(ask.null)

(* Decimal and DateTime are in the table, but Convert does not know them.  *)
IndexAs(ask, type) ==
  CASE type = "String" -> (IF ask.of = "String" THEN Text(ask.null)
                           ELSE {String, Raised("COM"), Raised("InvalidOperation")})
    [] type \in {"Decimal", "DateTime"} -> {Raised("NotSupported")}
    [] OTHER -> {Value(type)}

(* The elements of an array of classes are given as bytes.                 *)
Index(ask, addr) ==
  LET known == {x[2] : x \in {y \in tables.mt : y[1] = addr}} IN
  IF known = {} THEN {Bytes} ELSE UNION {IndexAs(ask, type) : type \in known}

\* What a search comes to that misses its key, or fails; and any that finds it.
Missed(ask) ==
  {IF ask.is = "member" THEN Raised("KeyNotFound") ELSE Bytes, Raised("IndexOutOfRange")}
AnyFound(ask) ==
  IF ask.is = "member" THEN Text(ask.null) \cup Reference(ask.null)
  ELSE UNION {IndexAs(ask, type) : type \in Primitives}

(* TypeToMethodTable[String] for a member, MethodTableToType.TryGetValue   *)
(* for an index.                                                           *)
Use(t) ==
  LET ask == scripts[t].ask
      addr == MT[scripts[t].target][ask.of]
      torn == IF ask.is = "member" THEN tables.invTorn ELSE tables.mtTorn
      beside == IF ask.is = "member" THEN AddsInverseBeside(t) ELSE AddsBeside(t)
  IN  /\ scripts[t].pc = "use"
      /\ \/ \E a \in (IF torn THEN AnyFound(ask) ELSE IF ask.is = "member" THEN Member(ask, addr)
                     ELSE Index(ask, addr)) \cup (IF torn \/ beside THEN Missed(ask) ELSE {}) :
              Only(t, Ends(t, a))
         \/ torn /\ Only(t, [scripts[t] EXCEPT !.pc = "spins"])

(* A target that runs loads types as it comes to need them.                *)
Load(g) ==
  /\ loaded[g] # Primitives
  /\ loaded' = [loaded EXCEPT ![g] = Primitives]
  /\ UNCHANGED <<tables, scripts, mixed>>

Thread(t) ==
  \/ FindMember(t) \/ EnsureInit(t) \/ NewTable(t) \/ NewInverse(t) \/ Add(t) \/ AddInverse(t) \/ Use(t)

ProxyNext == (\E t \in Threads : AskFor(t) \/ Thread(t)) \/ \E g \in Targets : Load(g)

ProxySpec == ProxyInit /\ [][ProxyNext]_proxyVars
-----------------------------------------------------------------------------
ProxyTypeOK ==
  /\ tables \in Tables
  /\ loaded \in [Targets -> SUBSET Primitives]
  /\ scripts \in [Threads -> Script]
  /\ mixed \in BOOLEAN

\* What an access is to: the type of the field or of the element.
Meaning(ask) ==
  IF ask.is = "index" THEN ask.of
  ELSE CASE ask.sort = "I1" -> "Byte"          \* Byte and SByte are exchanged
         [] ask.sort = "U1" -> "SByte"
         [] ask.sort = "CLASS" -> ask.of
         [] ask.sort \in {"BOOLEAN", "CHAR", "I4", "U8"} -> CorFieldType[ask.sort]
         [] OTHER -> "none"

Fits(ask, a) ==
  CASE a.is = "value" -> a.as = Meaning(ask)
    [] a.is = "proxy" -> ask.is = "member" /\ Meaning(ask) # "String" /\ ask.sort \in {"U8", "CLASS"}
    [] a.is = "bytes" -> ask.is = "index"
    [] OTHER -> TRUE

\* The tables have something from another target, or are torn.
Spoilt(t) ==
  LET own == MT[scripts[t].target] IN
  \/ tables.mtTorn \/ tables.invTorn
  \/ \E x \in tables.mt : x[1] # own[x[2]]
  \/ \E x \in tables.inv : x[2] # own[x[1]]

(* A text is read for a text only, a number as one of its own type, and a  *)
(* reference is never taken for a text, however full the tables are that   *)
(* other threads fill, and although a search beside them may miss: unless  *)
(* they have been filled from another target, or torn.                     *)
AnswersFit ==
  \A t \in Threads : (scripts[t].pc # "answered" /\ scripts'[t].pc = "answered") =>
    Fits(scripts[t].ask, scripts'[t].answer) \/ Spoilt(t)

FullMT(g) == {<<MT[g][c], c>> : c \in Primitives}
FullInverse(g) == {<<c, MT[g][c]>> : c \in Primitives}
AtRest == tables.mtMade /\ \A t \in Threads : ~FillsTables(t)

(* As long as threads have filled them one after the other, each from a    *)
(* target that had loaded the types, nothing is torn; and once nobody fills*)
(* them, both dictionaries have all types of one target, although a thread *)
(* that had found none may have begun anew when they were full already.    *)
BothSettle ==
  AtRest /\ ~mixed => \E g \in Targets : tables.mt = FullMT(g) /\ tables.inv = FullInverse(g)

(* No search goes on forever, and no answer is from a torn dictionary, but *)
(* where two threads have filled them over each other.                     *)
TornByTwo ==
  (tables.mtTorn \/ tables.invTorn \/ \E t \in Threads : scripts[t].pc = "spins") => mixed

(* The proxies' tables end up with what belongs there, and can be searched,*)
(* if the fillings did not overlap and the types were loaded.              *)
TablesSettle == ProxyTypeOK /\ BothSettle /\ TornByTwo

Asking(t) == scripts[t].pc \in {"find", "ensure"}
Has(t) == scripts[t].pc = "answered"
Spins(t) == scripts[t].pc = "spins"
=============================================================================
