------------------------------ MODULE DbfDates ------------------------------
(***************************************************************************)
(* The conversion of dates in dbf.c: from the text "YYYYMMDD" and from a   *)
(* Julian date with the milliseconds since midnight to a tm structure.     *)
(*                                                                         *)
(* The divisions of doubles that dbf_jd_to_tm truncates are made here with *)
(* integers.  Rounding may put a double beside the exact quotient, and the *)
(* truncation then gives one less where that is a whole number; this       *)
(* happens to the time of day, and it does not to the date, whose inexact  *)
(* quotients stay clear of whole numbers.                                  *)
(***************************************************************************)
EXTENDS Integers, Sequences

CONSTANTS
  IntMax,       \* INT_MAX
  SizeModulus   \* SIZE_MAX + 1

ASSUME DbfDatesAssumption ==
  /\ {IntMax, SizeModulus} \subseteq Nat \ {0}
  /\ SizeModulus % (2 * (IntMax + 1)) = 0    \* a size_t has the bits of an int

(* Division as in C, truncated toward zero.                                *)
cdiv(a, b) == IF a >= 0 THEN a \div b ELSE -((-a) \div b)
cmod(a, b) == a - b * cdiv(a, b)

(* What an int keeps of a size_t.                                          *)
int(n) ==
  LET m == n % (2 * (IntMax + 1)) IN IF m > IntMax THEN m - 2 * (IntMax + 1) ELSE m

-----------------------------------------------------------------------------
NoCenturies(year) == year % 4 = 0    \* mutant: as in the Julian calendar

is_leap_year(year) == year % 4 = 0 /\ (year % 100 # 0 \/ year % 400 = 0)

days_in_month(month, year) ==
  LET february == IF is_leap_year(year) THEN 29 ELSE 28
  IN  <<31, february, 31, 30, 31, 30, 30, 31, 30, 31, 30, 31>>[month]

day_of_week(day, month, year) ==
  LET t == <<0, 3, 2, 5, 0, 3, 5, 1, 4, 6, 2, 4>>
      y == IF month < 3 THEN year - 1 ELSE year
  IN  cmod(y + cdiv(y, 4) - cdiv(y, 100) + cdiv(y, 400) + t[month] + day, 7)

day_of_year(day, month, year) ==
  LET before == <<0, 31, 59, 90, 120, 151, 181, 212, 243, 273, 304, 334>>[month]
      leap   == IF is_leap_year(year) /\ month > 2 THEN 1 ELSE 0
  IN  before + leap + day

-----------------------------------------------------------------------------
(***************************************************************************)
(* dbf_jd_to_tm, the date, for the days since 1 January -4712.             *)
(* 306 / 10 is month_days_without_jan_feb.                                 *)
(***************************************************************************)
OctoberFourth == 2299160             \* mutant: the reform comes a day early

GregorianFrom == 2299161

GregorianDay(jd) ==
  LET alpha == cdiv(4 * jd - 7468865, 146097)
  IN  IF jd >= GregorianFrom THEN jd + 1 + alpha - alpha \div 4 ELSE jd

julian_date(jd) ==
  LET b == GregorianDay(jd) + 1524
      c == cdiv(20 * b - 2442, 7305)
      d == cdiv(1461 * c, 4)
      e == cdiv(10 * (b - d), 306)
      monthDay == b - d - cdiv(306 * e, 10)
      month == IF e > 13 THEN e - 13 ELSE e - 1
      day   == IF month = 2 /\ monthDay > 28 THEN 29 ELSE monthDay
      year  == IF (month = 2 /\ day = 29 /\ e = 3) \/ month > 2 THEN c - 4716 ELSE c - 4715
  IN  [year |-> year, month |-> month, day |-> day]

tm_wday(jd) == cmod(jd + 1, 7)
tm_yday(d) == day_of_year(d.day, d.month, d.year) - 1

(***************************************************************************)
(* dbf_jd_to_tm, the time, from the seconds s, the minutes m and the hours *)
(* h since midnight.  A double holds those that are a whole number of      *)
(* halves, quarters, ..., that is, of 1875 ms for m and of 28125 ms for h; *)
(* any other is rounded, by far less than half a millisecond, and what is  *)
(* computed from it is off by as little.                                   *)
(***************************************************************************)
m_exact(jt) == jt % 1875 = 0
h_exact(jt) == jt % 28125 = 0

Nearest(n, d, exact) == {cdiv(2 * n + d, 2 * d)}   \* mutant: rounds instead of truncating

(* What the cast to int may make of a double that stands for n / d.        *)
Truncated(n, d, exact) == {cdiv(2 * n + err, 2 * d) : err \in IF exact THEN {0} ELSE -1 .. 1}

(* hour is taken from h, min from h - hour, and sec from m - min.          *)
tm_hour(jt) == Truncated(jt, 3600000, h_exact(jt))
tm_min(jt, hour) == Truncated(jt - 3600000 * hour, 60000, h_exact(jt))
tm_sec(jt, hour, min) == Truncated(jt - 3600000 * hour - 60000 * min, 1000, m_exact(jt))

-----------------------------------------------------------------------------
(***************************************************************************)
(* dbf_yyyymmdd_to_tm.  A text is a sequence of bytes.  The digits are     *)
(* taken from the end; the year may have more than four.                   *)
(***************************************************************************)
IsDigit(c) == c \in 48 .. 57

TrailingDigits(text) ==
  LET others == {i \in 1 .. Len(text) : ~IsDigit(text[i])}
  IN  Len(text) - (CHOOSE i \in others \cup {0} : \A j \in others : j <= i)

(* The digit in place k, counted from the end, or 0 if there is none.      *)
Digit(text, k) == IF k < TrailingDigits(text) THEN text[Len(text) - k] - 48 ELSE 0

TwoDigits(text, k) == Digit(text, k) + 10 * Digit(text, k + 1)

YearOf(text) ==
  LET year[k \in 3 .. TrailingDigits(text)] ==
        IF k = 3 THEN [value |-> 0, z |-> 1]
        ELSE [value |-> int((year[k - 1].value + year[k - 1].z * Digit(text, k)) % SizeModulus),
              z     |-> (year[k - 1].z * 10) % SizeModulus]
  IN  IF TrailingDigits(text) < 5 THEN 0 ELSE year[TrailingDigits(text) - 1].value

AcceptedPrefix(text) ==              \* mutant: what is before the digits is ignored
  /\ TrailingDigits(text) >= 8
  /\ TwoDigits(text, 2) \in 1 .. 12
  /\ TwoDigits(text, 0) \in 1 .. days_in_month(TwoDigits(text, 2), YearOf(text))

AcceptedDate(text) ==
  /\ TrailingDigits(text) = Len(text)
  /\ Len(text) >= 8
  /\ TwoDigits(text, 2) \in 1 .. 12
  /\ TwoDigits(text, 0) \in 1 .. days_in_month(TwoDigits(text, 2), YearOf(text))

(* The tm structure is zeroed, but for tm_isdst, when the text is refused. *)
dbf_yyyymmdd_to_tm(text) ==
  LET read == [year |-> YearOf(text), month |-> TwoDigits(text, 2), day |-> TwoDigits(text, 0)]
  IN  IF AcceptedDate(text)
      THEN [ok |-> 1, date |-> read, wday |-> day_of_week(read.day, read.month, read.year),
            yday |-> tm_yday(read)]
      ELSE [ok |-> 0, date |-> [year |-> 0, month |-> 0, day |-> 0], wday |-> 0, yday |-> 0]
=============================================================================
