------------------------------ MODULE DateParts ------------------------------
(***************************************************************************)
(* A System.DateTime of the target taken apart: GetDateTimeDatePart,       *)
(* GetDateTimeFromTicks and FormatDateTime (SDbgCore/src/ClrProcess.cpp),  *)
(* beside a calendar that goes from one day to the next.                   *)
(*                                                                         *)
(* A value is a number of days, a time of the day in milliseconds and ticks*)
(* of one, the two bits above that hold the kind, and the bits of          *)
(* 0x1333333333333333.                                                     *)
(***************************************************************************)
EXTENDS Integers, Sequences

CONSTANTS
  Spans,      (* bound: the days, from the first of a year to a last one   *)
  Kinds,      (* kinds of the values: 0 none, 1 UTC, 2 and 3 local         *)
  Times,      (* milliseconds of the day, and the ticks beyond             *)
  Width       (* the buffer FormatDateTime's callers hand in, in WCHARs    *)

DayMs == 86400000

\* What the module takes for granted of its parameters.
DateAssumption ==
  /\ \A s \in Spans : s.first \in Nat /\ s.year \in Nat \ {0} /\ s.last \in Nat
  /\ Kinds \subseteq 0..3
  /\ Times \subseteq (0..(DayMs - 1)) \X (0..9999)
  /\ Width \in Nat

VARIABLES
  ticks,      (* the value, see Ticks                                      *)
  date        (* the calendar                                              *)

vars == <<ticks, date>>

(* kind: bits 63 and 62.  low: whether any bit of the mask is set below,   *)
(* as in every value of the spans but the first.                           *)
Ticks == [kind: Kinds, low: BOOLEAN, day: Nat, time: 0..(DayMs - 1), rest: 0..9999]

-----------------------------------------------------------------------------
(* The code. *)

DaysToMonth365 == <<0, 31, 59, 90, 120, 151, 181, 212, 243, 273, 304, 334, 365>>
DaysToMonth366 == <<0, 31, 60, 91, 121, 152, 182, 213, 244, 274, 305, 335, 366>>

AtMost3(n) == IF n = 4 THEN 3 ELSE n

\* The years of four and of one that are over, and the days left.
Cycles(day) ==
  LET in400 == day % 146097
      c100  == AtMost3(in400 \div 36524)
      in100 == in400 - c100 * 36524
      in4   == in100 % 1461
      c1    == AtMost3(in4 \div 365)
  IN  [c400 |-> day \div 146097, c100 |-> c100, c4 |-> in100 \div 1461, c1 |-> c1,
       left |-> in4 - c1 * 365]

\* A slip: a year that ends a century is always a leap year.
LeapEveryFourth(c) == c.c1 = 3

Leap(c) == c.c1 = 3 /\ (c.c4 # 24 \/ c.c100 = 3)

(* GetDateTimeDatePart for year, month and day; the search for the month   *)
(* starts at a month that is not past the one looked for.                  *)
GetDateTimeDatePart(day) ==
  LET c == Cycles(day)
      month == IF Leap(c) THEN DaysToMonth366 ELSE DaysToMonth365
      index == CHOOSE i \in (c.left \div 64)..12 :
                 /\ c.left < month[i + 1]
                 /\ \A j \in (c.left \div 64)..(i - 1) : c.left >= month[j + 1]
  IN  [year |-> c.c400 * 400 + c.c100 * 100 + c.c4 * 4 + c.c1 + 1, month |-> index,
       day |-> c.left - month[index] + 1]

\* A slip: the hours are those of a twelve hour clock.
ClockOfHalfDays(time) ==
  [hour |-> (time \div 3600000) % 12, minute |-> (time \div 60000) % 60,
   second |-> (time \div 1000) % 60, millisecond |-> time % 1000]

Clock(time) ==
  [hour |-> (time \div 3600000) % 24, minute |-> (time \div 60000) % 60,
   second |-> (time \div 1000) % 60, millisecond |-> time % 1000]

(* The mask for the kind has none of the bits that hold it.                *)
Kind(t) == IF t.low THEN "KIND_LOCAL" ELSE "KIND_UNSPECIFIED"

GetDateTimeFromTicks(t) ==
  [kind |-> Kind(t), date |-> GetDateTimeDatePart(t.day), clock |-> Clock(t.time)]

Digits(n) == IF n < 10 THEN 1 ELSE IF n < 100 THEN 2 ELSE IF n < 1000 THEN 3
             ELSE IF n < 10000 THEN 4 ELSE 5

(* The remainder by 2^62 - 1 is not the value without its kind: it is that *)
(* and as many ticks as the kind counts, which may be on the next day.     *)
FormattedDay(t) == t.day + (t.time + (t.rest + t.kind) \div 10000) \div DayMs

\* A slip: the fraction of the second is written too, in ticks.
FormatFraction(t) ==
  LET d == GetDateTimeDatePart(FormattedDay(t)) IN Digits(d.month) + Digits(d.day) + Digits(d.year) + 20

(* What swprintf_s writes, with the 0 at its end: it ends the process where*)
(* there is no room for it.                                                *)
FormatDateTime(t) ==
  LET d == GetDateTimeDatePart(FormattedDay(t)) IN Digits(d.month) + Digits(d.day) + Digits(d.year) + 12

-----------------------------------------------------------------------------
(* The calendar. *)

IsLeapYear(y) == y % 4 = 0 /\ (y % 100 # 0 \/ y % 400 = 0)

DaysIn(m, y) ==
  CASE m = 2 -> IF IsLeapYear(y) THEN 29 ELSE 28
    [] m \in {4, 6, 9, 11} -> 30
    [] OTHER -> 31

Init ==
  \E s \in Spans, k \in Kinds, t \in Times :
    /\ ticks = [kind |-> k, low |-> s.first + t[1] + t[2] > 0, day |-> s.first,
                time |-> t[1], rest |-> t[2]]
    /\ date = [year |-> s.year, month |-> 1, day |-> 1]

Tomorrow ==
  /\ \E s \in Spans : s.first <= ticks.day /\ ticks.day < s.last
  /\ ticks' = [ticks EXCEPT !.day = @ + 1, !.low = TRUE]
  /\ date' = IF date.day < DaysIn(date.month, date.year) THEN [date EXCEPT !.day = @ + 1]
             ELSE IF date.month < 12 THEN [date EXCEPT !.month = @ + 1, !.day = 1]
             ELSE [year |-> date.year + 1, month |-> 1, day |-> 1]

Spec == Init /\ [][Tomorrow]_vars

-----------------------------------------------------------------------------
(* The date is the calendar's, on every day.                               *)
DateRight == GetDateTimeFromTicks(ticks).date = date

(* The parts of the clock make up the time again and are those of a clock. *)
ClockRight ==
  LET c == GetDateTimeFromTicks(ticks).clock IN
  /\ c.hour < 24 /\ c.minute < 60 /\ c.second < 60 /\ c.millisecond < 1000
  /\ ((c.hour * 60 + c.minute) * 60 + c.second) * 1000 + c.millisecond = ticks.time

(* A date fits the buffers it is formatted into, whatever bits are taken   *)
(* for one.                                                                *)
DateFits == FormatDateTime(ticks) <= Width
=============================================================================
