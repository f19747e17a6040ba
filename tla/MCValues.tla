------------------------------ MODULE MCValues ------------------------------
(***************************************************************************)
(* The values a target is read for: static fields, in a dump and in a      *)
(* target that goes on running, dates and texts, one of them at a time.    *)
(* part says which.  "dump", "live" and "texts" are those of the extended  *)
(* modules; "dates" has its variables ticks and date, Null in the others.  *)
(***************************************************************************)
EXTENDS StaticFields, StringRead, TLC

CONSTANT Null

VARIABLES part, ticks, date

(* A field of any type in a module of one domain or of all, whose parts may*)
(* not be readable in a dump.                                              *)
DumpFields == [type : {"struct", "ref"}, home : {0, 1}, desc : BOOLEAN, own : BOOLEAN,
               local : SUBSET (1..3), cell : SUBSET (1..3)]
SoundFields ==
  [type : {"struct", "ref"}, home : {0, 1}, desc : {TRUE}, own : {TRUE},
   local : {1..3}, cell : {1..3}]
LiveFields == {f \in SoundFields : f.type = "ref" \/ f.home = 0}
AllFields == DumpFields \cup LiveFields

(* The 400 years a calendar repeats itself after and a year more, begun    *)
(* with the end of a century as well; the last year a System.DateTime has; *)
(* and the last whole days the 62 bits have.  The last tick of a day, of a *)
(* value with a kind, is written as the first of the next.                 *)
Span(y, from, to) == [first |-> from, year |-> y, last |-> to]
Dates == INSTANCE DateParts WITH
  Spans <- {Span(1, 0, 146462), Span(97, 35064, 146462), Span(9999, 3651694, 3652059),
            Span(14601, 5332540, 5337598)},
  Kinds <- {1}, Width <- 25,
  Times <- {<<0, 0>>, <<59999, 0>>, <<3599999, 9999>>, <<3600000, 0>>, <<86399999, 9999>>}

Undated == ticks = Null /\ date = Null
AField == CHOOSE f \in LiveFields : f.home = 0

ASSUME StaticAssumption /\ StringReadAssumption
ASSUME Dates!DateAssumption

\* Nobody asks for a static field, or for a text.
NoField ==
  /\ StaticInit /\ field = AField /\ appDomains = <<1>> /\ content = [d \in Domains |-> 1]
  /\ e.caller = "managed"
NoString ==
  /\ TextInit /\ reference = 1
  /\ heap = [a \in Addresses |-> [kind |-> "string", n |-> 0]]

ValuesInit ==
  \/ /\ part = "dump" /\ NoString /\ Undated
     /\ StaticInit /\ field \in DumpFields /\ content = [d \in Domains |-> 1]
  \/ /\ part = "live" /\ NoString /\ Undated
     /\ StaticInit /\ field \in LiveFields
  \/ part = "dates" /\ NoField /\ NoString /\ Dates!Init
  \/ part = "texts" /\ NoField /\ TextInit /\ Undated

ValuesNext ==
  /\ UNCHANGED part
  /\ \/ part = "dump" /\ CallStep /\ UNCHANGED <<textVars, ticks, date>>
     \/ part = "live" /\ StaticNext /\ UNCHANGED <<textVars, ticks, date>>
     \/ part = "dates" /\ Dates!Tomorrow /\ UNCHANGED <<staticVars, textVars>>
     \/ part = "texts" /\ TextNext /\ UNCHANGED <<staticVars, ticks, date>>

ValuesSpec == ValuesInit /\ [][ValuesNext]_<<part, staticVars, textVars, ticks, date>>

-----------------------------------------------------------------------------
(* A date is split into the parts the calendar has and written within its  *)
(* buffer: see DateParts.                                                  *)
DatesRight == part = "dates" => Dates!DateRight /\ Dates!ClockRight /\ Dates!DateFits
=============================================================================
