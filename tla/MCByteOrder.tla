---------------------------- MODULE MCByteOrder -----------------------------
(***************************************************************************)
(* The conversions of byteorder.h, and the binary fields of dbf.c, on      *)
(* machines of both orders, for numbers that a writer puts into a file     *)
(* byte by byte.                                                           *)
(***************************************************************************)
EXTENDS Integers, Sequences

CONSTANTS
  Radix,   \* values of a byte
  Digits   \* the values that are written

Little == INSTANCE DbfBinary WITH Base <- Radix, WORDS_BIGENDIAN <- FALSE
Big    == INSTANCE DbfBinary WITH Base <- Radix, WORDS_BIGENDIAN <- TRUE

ASSUME MCByteOrderAssumption ==
  /\ Radix \in Nat \ {0} /\ Radix % 2 = 0
  /\ Digits \subseteq 0 .. Radix - 1

VARIABLES
  bytes,   \* the file, the least significant byte first
  number   \* the unsigned number that has been written

NoBytes == bytes = <<>> /\ number = 0

WriteByte(d) ==
  /\ Len(bytes) < 8
  /\ bytes' = Append(bytes, d)
  /\ number' = number + d * Little!Power(Len(bytes))

bvars == <<bytes, number>>

-----------------------------------------------------------------------------
Mirrored == [i \in 1 .. Len(bytes) |-> bytes[Len(bytes) + 1 - i]]

(* The signed number with the same bytes is the one number in the signed   *)
(* range that differs by a multiple of the modulus.                        *)
IsSigned(n) ==
  /\ -Little!Power(Len(bytes)) <= 2 * n
  /\ 2 * n < Little!Power(Len(bytes))
  /\ (number - n) % Little!Power(Len(bytes)) = 0

(***************************************************************************)
(* What was written in one order is read back from that order, by a        *)
(* machine of either order; negative numbers by the signed conversions.    *)
(***************************************************************************)
ReadsBack ==
  CASE Len(bytes) = 2 ->
         {Little!shp_le16_to_uint16(bytes), Big!shp_le16_to_uint16(bytes)} = {number}
    [] Len(bytes) = 4 ->
         /\ {Little!shp_le32_to_uint32(bytes), Big!shp_le32_to_uint32(bytes),
             Little!shp_be32_to_uint32(Mirrored), Big!shp_be32_to_uint32(Mirrored)} = {number}
         /\ \A n \in {Little!shp_le32_to_int32(bytes), Big!shp_le32_to_int32(bytes),
                      Little!shp_be32_to_int32(Mirrored), Big!shp_be32_to_int32(Mirrored)} :
              IsSigned(n)
    [] Len(bytes) = 8 ->
         /\ {Little!shp_le64_to_double(bytes), Big!shp_le64_to_double(bytes)} = {number}
         /\ \A n \in {Little!shp_le64_to_int64(bytes), Big!shp_le64_to_int64(bytes)} :
              IsSigned(n)
    [] OTHER -> TRUE

(***************************************************************************)
(* A field of the width of its type holds the number that was written, a   *)
(* field of another width has no value, and a date and time is the two     *)
(* numbers one after the other.                                            *)
(***************************************************************************)
Field(offset, size) == [offset |-> offset, size |-> size]

IsValue(result, n) == result = [ok |-> 1, value |-> n]

BinaryFields ==
  \A size \in 0 .. Len(bytes) :
    LET f      == Field(Len(bytes) - size, size)
        first4 == Field(f.offset, 4)
        last4  == Field(f.offset + 4, 4)
        int32  == Little!dbf_record_int32(bytes, f)
        int64  == Little!dbf_record_int64(bytes, f)
        date   == Little!dbf_record_datetime(bytes, f)
    IN  /\ int32.ok = (IF size = 4 THEN 1 ELSE 0)
        /\ {int64.ok, date.ok, Big!dbf_record_double(bytes, f).ok} = {IF size = 8 THEN 1 ELSE 0}
        /\ int32.ok = 0 => int32.value = 0
        /\ Len(bytes) = 4 /\ int32.ok = 1 => IsSigned(int32.value)
        /\ size = 8 =>
             /\ IsSigned(int64.value)
             /\ IsValue(Big!dbf_record_int32(bytes, first4), date.value.jdn)
             /\ IsValue(Big!dbf_record_int32(bytes, last4), date.value.jt)
=============================================================================
