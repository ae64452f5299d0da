------------------------------ MODULE Calendar ------------------------------
(***************************************************************************)
(* The calendar that the dates of dbf.c are compared with: days counted    *)
(* one by one, in the Julian calendar up to 4 October 1582 and in the      *)
(* Gregorian calendar from 15 October 1582, the day after.                 *)
(***************************************************************************)
EXTENDS Integers, Sequences

CONSTANTS
  Anchors,   \* days whose date and day of the week are known
  MaxDays    \* bound: days counted from an anchor

VARIABLES
  jdn,    \* the number of the day since 1 January -4712
  date,   \* its year, month and day
  wday,   \* its day of the week, 0 for Sunday
  yday,   \* the days since 1 January
  count   \* the days since the anchor

cvars == <<jdn, date, wday, yday, count>>

(* From 15 October 1582 on.                                                *)
Gregorian(d) == 10000 * d.year + 100 * d.month + d.day >= 15821015

LeapYear(d) ==
  /\ d.year % 4 = 0
  /\ \/ ~Gregorian(d)
     \/ d.year % 100 # 0
     \/ d.year % 400 = 0

LastOfMonth(d) ==
  CASE d.month \in {4, 6, 9, 11} -> 30
    [] d.month = 2 -> IF LeapYear(d) THEN 29 ELSE 28
    [] OTHER -> 31

DayAfter(d) ==
  IF d = [year |-> 1582, month |-> 10, day |-> 4] THEN [d EXCEPT !.day = 15]
  ELSE IF d.day < LastOfMonth(d) THEN [d EXCEPT !.day = d.day + 1]
  ELSE IF d.month < 12 THEN [year |-> d.year, month |-> d.month + 1, day |-> 1]
  ELSE [year |-> d.year + 1, month |-> 1, day |-> 1]

Init == \E a \in Anchors :
  /\ jdn = a.jdn /\ date = a.date /\ wday = a.wday /\ yday = a.yday
  /\ count = 0

NextDay ==
  /\ count < MaxDays
  /\ jdn' = jdn + 1
  /\ date' = DayAfter(date)
  /\ wday' = (wday + 1) % 7
  /\ yday' = IF date'.year # date.year THEN 0 ELSE yday + 1
  /\ count' = count + 1

Spec == Init /\ [][NextDay]_cvars
=============================================================================
