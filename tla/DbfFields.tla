----------------------------- MODULE DbfFields ------------------------------
(***************************************************************************)
(* The fields of a record of dbf.c that hold text: strings, dates, logical *)
(* values and numbers, and the null values among them.  A byte is its      *)
(* ASCII code.                                                             *)
(***************************************************************************)
EXTENDS DbfBinary, DbfDates

CONSTANTS
  BufferSize,    \* 256: a number's text and its terminator fit in buf
  LongMax,       \* LONG_MAX
  LongLongMax,   \* LLONG_MAX
  DoubleMax,     \* 2 ^ 53: a double holds the whole numbers up to it
  LongDoubleMax, \* the same of a long double
  Places         \* decimal places that the model keeps of a double

ASSUME DbfFieldsAssumption ==
  /\ {BufferSize, LongMax, LongLongMax, DoubleMax, LongDoubleMax, Places} \subseteq Nat \ {0}
  /\ LongMax <= LongLongMax
  /\ DoubleMax <= LongDoubleMax

NUL == 0
Space == 32
Asterisk == 42
Point == 46
Zero == 48

(* dbf_type_t, the types of these fields: 'C', 'D', 'F', 'L', 'N'          *)
CHARACTER == 67
DATE      == 68
FLOAT     == 70
LOGICAL   == 76
NUMBER    == 78
TextTypes == {CHARACTER, DATE, FLOAT, LOGICAL, NUMBER}

(* True: 'T', 't', 'Y', 'y'; false: 'F', 'f', 'N', 'n'; and the list that  *)
(* dbf_record_is_null has of its own.                                      *)
Trues    == {84, 116, 89, 121}
Falses   == {70, 102, 78, 110}
Logicals == {70, 102, 78, 110, 84, 116, 89, 121}

-----------------------------------------------------------------------------
(* The loops that cut the spaces behind and before a string: n bytes are   *)
(* left of it, and the last of them is s[n - 1] or the first one is s[0].  *)
NoEmptyString(record, field) ==      \* mutant: n > 0 forgotten, n wraps around
  LET length[n \in 0 .. field.size] ==
        IF record[field.offset + n] # Space THEN n
        ELSE IF n = 0 THEN Len(record) - field.offset ELSE length[n - 1]
  IN  SubSeq(record, field.offset + 1, field.offset + length[field.size])

get_left_justified_string(record, field) ==
  LET length[n \in 0 .. field.size] ==
        IF n > 0 /\ record[field.offset + n] = Space THEN length[n - 1] ELSE n
  IN  SubSeq(record, field.offset + 1, field.offset + length[field.size])

get_right_justified_string(record, field) ==
  LET end == field.offset + field.size
      length[n \in 0 .. field.size] ==
        IF n > 0 /\ record[end - n + 1] = Space THEN length[n - 1] ELSE n
  IN  SubSeq(record, end - length[field.size] + 1, end)

dbf_record_string(record, field) == get_left_justified_string(record, field)

dbf_record_strdup(record, field) == Append(get_left_justified_string(record, field), NUL)

dbf_record_date(record, field) == dbf_yyyymmdd_to_tm(get_bytes_readonly(record, field))

-----------------------------------------------------------------------------
dbf_record_logical(record, field) ==
  LET s == get_bytes_readonly(record, field) IN IF Len(s) = 1 THEN s[1] ELSE NUL

dbf_record_logical_is_false(record, field) ==
  IF dbf_record_logical(record, field) \in Falses THEN 1 ELSE 0

dbf_record_logical_is_true(record, field) ==
  IF dbf_record_logical(record, field) \in Trues THEN 1 ELSE 0

BeginsWith(s, c) ==                  \* mutant: compares the first byte only
  s # <<>> => s[1] = c

is_all(s, c) == \A i \in DOMAIN s : s[i] = c

IsNull(record, field) ==
  LET left  == get_left_justified_string(record, field)
      right == get_right_justified_string(record, field)
  IN  \/ field.type = CHARACTER /\ left = <<>>
      \/ field.type = DATE /\ is_all(left, Zero)
      \/ field.type \in {FLOAT, NUMBER} /\ (right = <<>> \/ right[1] = Asterisk)
      \/ field.type = LOGICAL /\ dbf_record_logical(record, field) \notin Logicals

dbf_record_is_null(record, field) == IF IsNull(record, field) THEN 1 ELSE 0

-----------------------------------------------------------------------------
(***************************************************************************)
(* The C library's conversions, of a string up to its terminator, in base  *)
(* 10: the value and the number of bytes it was made from.  A double is    *)
(* counted in units of 10 ^ -Places.  A numeral is a sign, digits and, for *)
(* a double, a point with digits behind it; exponents, hexadecimal numbers *)
(* and names are left out, white space before the sign too.                *)
(***************************************************************************)
CString(s) ==
  LET ends == {i \in DOMAIN s : s[i] = NUL}
  IN  IF ends = {} THEN s ELSE SubSeq(s, 1, (CHOOSE i \in ends : \A j \in ends : i <= j) - 1)

SignLength(s) == IF s # <<>> /\ s[1] \in {43, 45} THEN 1 ELSE 0
Sign(s) == IF s # <<>> /\ s[1] = 45 THEN -1 ELSE 1

(* The number of digits from position i on.                                *)
DigitsFrom(s, i) ==
  CHOOSE n \in 0 .. Len(s) :
    /\ \A k \in i .. i + n - 1 : k \in DOMAIN s /\ IsDigit(s[k])
    /\ ~(i + n \in DOMAIN s /\ IsDigit(s[i + n]))

(* The value of the n digits from position i on.                           *)
DigitsValue(s, i, n) ==
  LET value[k \in 0 .. n] == IF k = 0 THEN 0 ELSE 10 * value[k - 1] + s[i + k - 1] - 48
  IN  value[n]

Numeral(s) ==
  LET n == DigitsFrom(s, SignLength(s) + 1)
  IN  [value |-> DigitsValue(s, SignLength(s) + 1, n), end |-> IF n = 0 THEN 0 ELSE SignLength(s) + n]

Between(low, n, high) == IF n < low THEN low ELSE IF n > high THEN high ELSE n

strtol(s, max) ==
  [value |-> Between(-max - 1, Sign(s) * Numeral(s).value, max), end |-> Numeral(s).end]

(* A number behind a minus is negated in the unsigned type.                *)
strtoul(s, max) ==
  [value |-> IF Numeral(s).value > max THEN max ELSE (Sign(s) * Numeral(s).value) % (max + 1),
   end   |-> Numeral(s).end]

(* What a floating-point type that holds the whole numbers up to max keeps *)
(* of a larger one: the nearest multiple of the distance of its numbers,   *)
(* and the even one of two.                                                *)
Held(n, max) ==
  LET ulp[k \in Nat] == IF k <= max THEN 1 ELSE 2 * ulp[(k + 1) \div 2]
      u    == ulp[n]
      down == n \div u
      up   == 2 * (n % u) > u \/ (2 * (n % u) = u /\ down % 2 = 1)
  IN  IF n <= max THEN n ELSE u * (IF up THEN down + 1 ELSE down)

(* A fraction is kept to its decimal places where there is room for one,    *)
(* and is not looked at where there is none.                               *)
strtod(s, max) ==
  LET i      == SignLength(s) + 1
      digits == DigitsFrom(s, i)
      whole  == DigitsValue(s, i, digits)
      point  == i + digits \in DOMAIN s /\ s[i + digits] = Point
      part   == IF point THEN DigitsFrom(s, i + digits + 1) ELSE 0
      kept   == IF whole > max THEN 0 ELSE IF part < Places THEN part ELSE Places
  IN  [value |-> Sign(s) * (Held(whole, max) * 10 ^ Places +
                            DigitsValue(s, i + digits + 1, kept) * 10 ^ (Places - kept)),
       end   |-> IF digits + part = 0 THEN 0
                 ELSE SignLength(s) + digits + part + (IF point THEN 1 ELSE 0)]

-----------------------------------------------------------------------------
(***************************************************************************)
(* The number fields.  The text is copied to buf, where a terminator can   *)
(* follow it, and converted; all of it has to be part of the number.       *)
(***************************************************************************)
FitsExactly(s, size) == Len(s) \in 1 .. size  \* mutant: leaves no room for the terminator

FitsBuffer(s, size) == Len(s) \in 1 .. size - 1

Converted(s, size, result) ==
  IF FitsBuffer(s, size)
  THEN [ok |-> IF result.end = Len(CString(s)) THEN 1 ELSE 0, value |-> result.value]
  ELSE Failed

dbf_record_strtod(record, field) ==
  LET s == get_right_justified_string(record, field)
  IN  Converted(s, BufferSize, strtod(CString(s), DoubleMax))

dbf_record_strtold(record, field) ==
  LET s == get_right_justified_string(record, field)
  IN  Converted(s, BufferSize, strtod(CString(s), LongDoubleMax))

dbf_record_strtol(record, field) ==
  LET s == get_right_justified_string(record, field)
  IN  Converted(s, BufferSize, strtol(CString(s), LongMax))

dbf_record_strtoll(record, field) ==
  LET s == get_right_justified_string(record, field)
  IN  Converted(s, BufferSize, strtol(CString(s), LongLongMax))

LargerBuffer(record, field) ==       \* mutant: one buffer is larger than the others
  LET s == get_right_justified_string(record, field)
  IN  Converted(s, BufferSize + 1, strtoul(CString(s), 2 * LongMax + 1))

dbf_record_strtoul(record, field) ==
  LET s == get_right_justified_string(record, field)
  IN  Converted(s, BufferSize, strtoul(CString(s), 2 * LongMax + 1))

dbf_record_strtoull(record, field) ==
  LET s == get_right_justified_string(record, field)
  IN  Converted(s, BufferSize, strtoul(CString(s), 2 * LongLongMax + 1))
=============================================================================
