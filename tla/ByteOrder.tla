----------------------------- MODULE ByteOrder ------------------------------
(***************************************************************************)
(* byteorder.h: numbers from bytes that lie in a file in little-endian or  *)
(* big-endian order.  The bytes are copied into a variable as they are     *)
(* where the machine has the order of the file, and one by one to the      *)
(* other end where it has not.                                             *)
(*                                                                         *)
(* A double is its bit pattern, here an integer of the same width.         *)
(***************************************************************************)
EXTENDS Integers, Sequences

CONSTANTS
  Base,           \* values of a byte: 256
  WORDS_BIGENDIAN \* the machine stores the most significant byte first

ASSUME ByteOrderAssumption ==
  /\ Base \in Nat \ {0} /\ Base % 2 = 0
  /\ WORDS_BIGENDIAN \in BOOLEAN

IsBytes(bytes, n) == bytes \in [1 .. n -> 0 .. Base - 1]

-----------------------------------------------------------------------------
(* The machine: what a variable holds whose memory is mem, as an unsigned  *)
(* and as a signed number.                                                 *)
Significance(mem, i) == IF WORDS_BIGENDIAN THEN Len(mem) - i ELSE i - 1

Power(k) == LET power[i \in 0 .. k] == IF i = 0 THEN 1 ELSE Base * power[i - 1] IN power[k]

unsigned(mem) ==
  LET sum[i \in 0 .. Len(mem)] ==
        IF i = 0 THEN 0 ELSE sum[i - 1] + mem[i] * Power(Significance(mem, i))
  IN  sum[Len(mem)]

signed(mem) ==
  IF 2 * unsigned(mem) >= Power(Len(mem)) THEN unsigned(mem) - Power(Len(mem)) ELSE unsigned(mem)

-----------------------------------------------------------------------------
Swapped2(bytes) == <<bytes[2], bytes[1]>>
Swapped4(bytes) == <<bytes[4], bytes[3], bytes[2], bytes[1]>>
Swapped8(bytes) == <<bytes[8], bytes[7], bytes[6], bytes[5],
                     bytes[4], bytes[3], bytes[2], bytes[1]>>

AlwaysSwapped(bytes) == signed(Swapped4(bytes))   \* mutant: forgets the test for the machine

shp_le16_to_uint16(bytes) == unsigned(IF WORDS_BIGENDIAN THEN Swapped2(bytes) ELSE bytes)
shp_be32_to_int32(bytes)  == signed(IF WORDS_BIGENDIAN THEN bytes ELSE Swapped4(bytes))
shp_le32_to_int32(bytes)  == signed(IF WORDS_BIGENDIAN THEN Swapped4(bytes) ELSE bytes)
shp_be32_to_uint32(bytes) == unsigned(IF WORDS_BIGENDIAN THEN bytes ELSE Swapped4(bytes))
shp_le32_to_uint32(bytes) == unsigned(IF WORDS_BIGENDIAN THEN Swapped4(bytes) ELSE bytes)
shp_le64_to_int64(bytes)  == signed(IF WORDS_BIGENDIAN THEN Swapped8(bytes) ELSE bytes)
shp_le64_to_double(bytes) == unsigned(IF WORDS_BIGENDIAN THEN Swapped8(bytes) ELSE bytes)
=============================================================================
