----------------------------- MODULE MCDbfDates -----------------------------
(***************************************************************************)
(* The conversions of dbf.c for every day around the turns of the          *)
(* calendar, against the calendar that counts days.                        *)
(***************************************************************************)
EXTENDS DbfDates, Calendar

Anchor(jd, year, month, day, weekday, dayOfYear) ==
  [jdn |-> jd, date |-> [year |-> year, month |-> month, day |-> day],
   wday |-> weekday, yday |-> dayOfYear]

(* The first day, a century and the reform of the Julian calendar, and     *)
(* centuries of the Gregorian calendar with and without a leap day.        *)
KnownDays ==
  {Anchor(0, -4712, 1, 1, 1, 0), Anchor(1355808, -1000, 1, 1, 0, 0),
   Anchor(2298884, 1582, 1, 1, 1, 0), Anchor(2305448, 1600, 1, 1, 6, 0),
   Anchor(2415021, 1900, 1, 1, 1, 0), Anchor(2451545, 2000, 1, 1, 6, 0)}

RecentDays == {Anchor(2451545, 2000, 1, 1, 6, 0)}

(* Counting begins with a day that is known, and an int has 16 bits or     *)
(* more.                                                                   *)
ASSUME MCDbfDatesAssumption ==
  /\ Anchors \subseteq KnownDays
  /\ IntMax >= 32767

(* Times of day for each day counted: of whole hours, of whole minutes and *)
(* of some seconds, on the second, shortly after it and before the next.   *)
TimesOfDay ==
  {1000 * ((unit * count) % 86400) + ms : unit \in {53, 60, 3600}, ms \in {0, 1, 500, 999}}

(* The text of a date, "YYYYMMDD", and the years that have one.            *)
TextOf(year, month, day) ==
  <<48 + (year \div 1000), 48 + ((year \div 100) % 10), 48 + ((year \div 10) % 10), 48 + (year % 10),
    48 + (month \div 10), 48 + (month % 10), 48 + (day \div 10), 48 + (day % 10)>>

HasText(d) == Gregorian(d) /\ d.year <= 9999

-----------------------------------------------------------------------------
(***************************************************************************)
(* A Julian date becomes the date of that day.  The 31st of January, March *)
(* and August comes out as the 0th of the month that follows, the same day *)
(* to mktime, and is counted as such here.                                 *)
(***************************************************************************)
SameDay(d) ==
  IF d.day > 0 THEN d
  ELSE [year |-> d.year, month |-> d.month - 1,
        day |-> LastOfMonth([d EXCEPT !.month = d.month - 1])]

JulianDateIsSameDay == SameDay(julian_date(jdn)) = date

(***************************************************************************)
(* tm_wday and tm_yday are right for every date from 1583 on, whichever of *)
(* the two conversions computes them and by whichever formula.             *)
(***************************************************************************)
WeekAndYearDay ==
  date.year > 1582 =>
    LET text == dbf_yyyymmdd_to_tm(TextOf(date.year, date.month, date.day))
    IN  /\ tm_wday(jdn) = wday
        /\ tm_yday(julian_date(jdn)) = yday
        /\ HasText(date) /\ text.ok = 1 => text.wday = wday /\ text.yday = yday

(***************************************************************************)
(* A text is accepted if it is a date and refused if it is none: no other  *)
(* day of the month, no other month, nothing before or behind it, no digit *)
(* too few; 31 July apart, which is refused.                               *)
(***************************************************************************)
July31(d) == d.month = 7 /\ d.day = 31

AcceptsDates ==
  LET accepts(text) == dbf_yyyymmdd_to_tm(text).ok = 1
      text == TextOf(date.year, date.month, date.day)
  IN  HasText(date) =>
        /\ ~July31(date) => dbf_yyyymmdd_to_tm(text).date = date
        /\ \A day \in {0, LastOfMonth(date) + 1, 32, 99} :
             ~accepts(TextOf(date.year, date.month, day))
        /\ \A month \in {0, 13, 20, 99} : ~accepts(TextOf(date.year, month, date.day))
        /\ ~accepts(<<32>> \o text) /\ ~accepts(Append(text, 32)) /\ ~accepts(Tail(text))
        /\ accepts(<<48>> \o text) = accepts(text)

(***************************************************************************)
(* The time of day has its hour, and with the minutes and seconds it is    *)
(* the time since midnight short of the milliseconds, however the hours    *)
(* and minutes were rounded: a minute that is lost comes back as a 60th    *)
(* second, and only of seconds within a minute one more may be lost.       *)
(***************************************************************************)
LostSeconds(jt, hour, min, sec) == (jt \div 1000) - (3600 * hour + 60 * min + sec)

TimeIsNear ==
  \A jt \in TimesOfDay : \A hour \in tm_hour(jt) :
    \A min \in tm_min(jt, hour) : \A sec \in tm_sec(jt, hour, min) :
      /\ hour \in 0 .. 23 /\ min \in 0 .. 59 /\ sec \in 0 .. 60
      /\ sec = 60 => jt % 60000 = 0
      /\ LostSeconds(jt, hour, min, sec) \in
           IF jt % 1000 = 0 /\ jt % 60000 # 0 THEN {0, 1} ELSE {0}

-----------------------------------------------------------------------------
(***************************************************************************)
(* dbf.h:142: dbf_jd_to_tm "calculates the calendar date from a Julian     *)
(* date".                                                                  *)
(***************************************************************************)
JulianDateIsDate == julian_date(jdn) = date

(***************************************************************************)
(* dbf.h:169: dbf_yyyymmdd_to_tm returns "true on success", which a date   *)
(* in the format "YYYYMMDD" is.                                            *)
(***************************************************************************)
AcceptsEveryDate ==
  dbf_yyyymmdd_to_tm(TextOf(date.year, date.month, date.day)).ok = 1
=============================================================================
