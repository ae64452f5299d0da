---------------------------- MODULE MCDbfFields -----------------------------
(***************************************************************************)
(* Every record that can be put together from some texts behind the        *)
(* deletion flag, and the fields at its end, with bytes of other fields    *)
(* before and behind them.                                                 *)
(***************************************************************************)
EXTENDS DbfFields

CONSTANTS
  Pieces,    \* the texts that a record is written with
  MaxPieces  \* bound: texts in a record

(* The texts are of bytes, and a long long holds the numbers that are      *)
(* written below.                                                          *)
ASSUME MCDbfFieldsAssumption ==
  /\ Pieces \subseteq Seq(0 .. 255)
  /\ LongLongMax >= 91

VARIABLES
  record,    \* the bytes of the record
  written    \* how many texts it is made from

(* A space, NUL, '*', '-', '.', '1', '9', 'y', "0000" and "0101"           *)
SomePieces ==
  {<<c>> : c \in {Space, NUL, Asterisk, 45, Point, 49, 57, 121}} \cup
  {<<48, 48, 48, 48>>, <<48, 49, 48, 49>>}

NoText == record = <<Space>> /\ written = 0

WriteText(piece) ==
  /\ written < MaxPieces
  /\ record' = record \o piece
  /\ written' = written + 1

rvars == <<record, written>>

FieldsOf(type) ==
  {f \in [type : {type}, offset : 1 .. 2, size : Len(record) - 3 .. Len(record) - 1] :
     f.size >= 0 /\ f.offset + f.size <= Len(record)}

-----------------------------------------------------------------------------
(***************************************************************************)
(* A field that dbf_record_is_null calls null has no value: no conversion  *)
(* of a null number or date succeeds, a null text is the empty one, and a  *)
(* null logical value is neither true nor false.                           *)
(***************************************************************************)
Conversions(f) ==
  {dbf_record_strtol(record, f), dbf_record_strtoll(record, f), dbf_record_strtoul(record, f),
   dbf_record_strtoull(record, f), dbf_record_strtod(record, f), dbf_record_strtold(record, f)}

NullHasNoValue ==
  \A f \in UNION {FieldsOf(type) : type \in TextTypes} :
    dbf_record_is_null(record, f) = 1 =>
      /\ f.type \in {FLOAT, NUMBER} => \A c \in Conversions(f) : c.ok = 0
      /\ f.type = DATE => dbf_record_date(record, f).ok = 0
      /\ f.type = CHARACTER => dbf_record_strdup(record, f) = <<NUL>>
      /\ f.type = LOGICAL =>
           dbf_record_logical_is_true(record, f) = 0 /\ dbf_record_logical_is_false(record, f) = 0

(***************************************************************************)
(* The six conversions agree on a number field, each with a buffer of its  *)
(* own: the whole numbers that strtoll takes are taken by all, with the    *)
(* same value, or the nearest that the integer type has; a floating-point  *)
(* type has the same value as far as it holds every whole number; and no   *)
(* other text is taken by the integer ones.  The ends of the range of long *)
(* long may stand for a number beyond it.                                  *)
(***************************************************************************)
SameNumber(double, whole, max) ==
  /\ whole.ok = 1 => double.ok = 1
  /\ whole.ok = 1 /\ whole.value \in -max .. max /\ whole.value \in -LongLongMax .. LongLongMax - 1 =>
       double.value = whole.value * 10 ^ Places

NumbersAgree ==
  \A f \in FieldsOf(NUMBER) :
    LET whole   == dbf_record_strtoll(record, f)
        natural == dbf_record_strtoull(record, f)
    IN  /\ dbf_record_strtol(record, f) =
             [ok |-> whole.ok, value |-> Between(-LongMax - 1, whole.value, LongMax)]
        /\ dbf_record_strtoul(record, f).ok = whole.ok
        /\ natural.ok = whole.ok
        /\ whole.value >= 0 =>
             /\ whole.value = Between(0, natural.value, LongLongMax)
             /\ dbf_record_strtoul(record, f).value = Between(0, natural.value, 2 * LongMax + 1)
        /\ dbf_record_strtod(record, f).ok = dbf_record_strtold(record, f).ok
        /\ SameNumber(dbf_record_strtod(record, f), whole, DoubleMax)
        /\ SameNumber(dbf_record_strtold(record, f), whole, LongDoubleMax)

(***************************************************************************)
(* A number that is written into a field as dBASE does, with spaces before *)
(* it, is read back, however long the field is, as long as the number's    *)
(* text leaves room for the terminator in buf.                             *)
(***************************************************************************)
Text(v) == IF v < 10 THEN <<48 + v>> ELSE <<48 + (v \div 10), 48 + (v % 10)>>
SignedText(v) == IF v < 0 THEN <<45>> \o Text(-v) ELSE Text(v)

Written(f, text) ==
  /\ f.size >= Len(text)
  /\ dbf_record_bytes(record, f) = [i \in 1 .. f.size - Len(text) |-> Space] \o text

NumberReadsBack ==
  \A f \in FieldsOf(NUMBER), v \in {-19, -9, 0, 1, 9, 91} :
    Written(f, SignedText(v)) =>
      dbf_record_strtoll(record, f) =
        IF Len(SignedText(v)) < BufferSize THEN Success(v) ELSE Failed

(***************************************************************************)
(* A text that does not end in a space and is written into a field as      *)
(* dBASE does, with spaces behind it, is read back: spaces inside and      *)
(* before it are kept, and of a text that is empty nothing is left,        *)
(* whatever bytes are before the field and behind it.                      *)
(***************************************************************************)
EndsInSpace(text) == text # <<>> /\ text[Len(text)] = Space

Padded(text, size) == text \o [i \in 1 .. size - Len(text) |-> Space]

StringReadsBack ==
  \A f \in FieldsOf(CHARACTER) : \A n \in 0 .. f.size :
    LET text == SubSeq(record, f.offset + 1, f.offset + n)
    IN  ~EndsInSpace(text) /\ dbf_record_bytes(record, f) = Padded(text, f.size) =>
          /\ dbf_record_string(record, f) = text
          /\ CString(dbf_record_strdup(record, f)) = CString(text)

=============================================================================
