----------------------------- MODULE ShpLayout ------------------------------
(***************************************************************************)
(* How shp.c decides that the content of a record is a shape and where it  *)
(* finds the shape's arrays: the thirteen get_* functions, from get_point  *)
(* to get_multipatch, and the switch of read_record that calls them.       *)
(*                                                                         *)
(* A record is what those functions read of the bytes: the content length  *)
(* in 16-bit words, the type, NumParts and NumPoints.  Coordinates, bounds *)
(* and the entries of the part tables are not looked at by this code.      *)
(***************************************************************************)
EXTENDS Integers

CONSTANTS
  CountLimit,    \* 2^32: the counts and the length are unsigned 32-bit fields
  SizeModulus    \* 2^64 or 2^32: size_t arithmetic wraps there

(* A size_t holds the 32-bit counts.  Where it has no more bits than they  *)
(* have, the sizes of the arrays that they count may wrap.                 *)
ASSUME ShpLayoutAssumption ==
  /\ CountLimit \in Nat \ {0}
  /\ SizeModulus \in Nat
  /\ CountLimit <= SizeModulus

Count == {n \in Nat : n < CountLimit}

Record == [len : Count, type : Int, parts : Count, points : Count]

NoMessage == "none"

size_t(n) == n % SizeModulus

-----------------------------------------------------------------------------
(* The shape types, shp.h's SHP_TYPE_* values, by what their records hold. *)
NullType     == 0
PointTypes   == {1, 11, 21}
PolyTypes    == {3, 5, 13, 15, 23, 25, 31}
MultiTypes   == {8, 18, 28}
MULTIPATCH   == 31
ZTypes       == {13, 15, 18, 31}
MTypes       == ZTypes \cup {23, 25, 28}

PointSize(type) == CASE type = 1 -> 20 [] type = 21 -> 28 [] type = 11 -> 36

(* The bytes before the first array.                                       *)
FixedSize(type) == IF type \in PolyTypes THEN 44 ELSE 40

(* A range of two doubles stands before the Z array and the M array.       *)
MinSize(type) ==
  FixedSize(type) + (IF type \in ZTypes THEN 16 ELSE 0) + (IF type \in MTypes THEN 16 ELSE 0)

record_size(r) == size_t(2 * r.len)
parts_size(r)  == IF r.type \in PolyTypes THEN size_t(4 * r.parts) ELSE 0
types_size(r)  == IF r.type = MULTIPATCH THEN parts_size(r) ELSE 0

CountedIn32Bits(r) == (16 * r.points) % CountLimit   \* mutant: an unsigned int's product

points_size(r) == size_t(16 * r.points)
z_size(r)      == IF r.type \in ZTypes THEN size_t(8 * r.points) ELSE 0
m_size(r)      == IF r.type \in MTypes THEN size_t(8 * r.points) ELSE 0

OneTableExpected(r) ==               \* mutant: forgets a multipatch's part types
  size_t(MinSize(r.type) + parts_size(r) + points_size(r) + z_size(r) + m_size(r))

expected_size(r) ==
  size_t(MinSize(r.type) + parts_size(r) + types_size(r) + points_size(r) + z_size(r) + m_size(r))

(***************************************************************************)
(* The verdict on the content: the message, or none when the shape is      *)
(* accepted.  A null shape may carry any number of bytes.                  *)
(***************************************************************************)
PointError(r) ==
  IF record_size(r) # PointSize(r.type) THEN "expected_record" ELSE NoMessage

ShapeError(r) ==
  IF record_size(r) < MinSize(r.type) THEN "record_size_is_too_small"
  ELSE IF record_size(r) # expected_size(r) THEN "expected_record" ELSE NoMessage

ParseError(r) ==
  CASE r.type = NullType -> NoMessage
    [] r.type \in PointTypes -> PointError(r)
    [] r.type \in PolyTypes \cup MultiTypes -> ShapeError(r)
    [] OTHER -> "shape_type_is_unknown"

Accepted(r) == ParseError(r) = NoMessage

-----------------------------------------------------------------------------
(* Where the code points its arrays, as offsets into the content.  Each    *)
(* pointer is computed from the one before it, as in the source.           *)
parts_at(r)   == 44
types_at(r)   == parts_at(r) + parts_size(r)
points_at(r)  == IF r.type \in PolyTypes THEN types_at(r) + types_size(r) ELSE 40
z_range_at(r) == points_at(r) + points_size(r)
z_array_at(r) == z_range_at(r) + 16
m_range_at(r) == IF r.type \in ZTypes THEN z_array_at(r) + z_size(r)
                                      ELSE points_at(r) + points_size(r)
m_array_at(r) == m_range_at(r) + 16

Extent(name, at, size) == [name |-> name, at |-> at, size |-> size]

(* The arrays as the program indexes them, with an item for each part or   *)
(* each point that the record counts.                                      *)
Arrays(r) ==
  (IF r.type \in PolyTypes THEN {Extent("parts", parts_at(r), 4 * r.parts)} ELSE {}) \cup
  (IF r.type = MULTIPATCH THEN {Extent("types", types_at(r), 4 * r.parts)} ELSE {}) \cup
  (IF r.type \in PolyTypes \cup MultiTypes
   THEN {Extent("points", points_at(r), 16 * r.points)} ELSE {}) \cup
  (IF r.type \in ZTypes THEN {Extent("z_range", z_range_at(r), 16),
                              Extent("z_array", z_array_at(r), 8 * r.points)} ELSE {}) \cup
  (IF r.type \in MTypes THEN {Extent("m_range", m_range_at(r), 16),
                              Extent("m_array", m_array_at(r), 8 * r.points)} ELSE {})

-----------------------------------------------------------------------------
(* The bytes that the fixed fields and the arrays take, and whether a      *)
(* size_t holds that number.                                               *)
NeededSize(r) ==
  MinSize(r.type) + (IF r.type \in PolyTypes THEN 4 * r.parts ELSE 0)
    + (IF r.type = MULTIPATCH THEN 4 * r.parts ELSE 0) + 16 * r.points
    + (IF r.type \in ZTypes THEN 8 * r.points ELSE 0)
    + (IF r.type \in MTypes THEN 8 * r.points ELSE 0)

SizesFit(r) == r.type \in PolyTypes \cup MultiTypes => NeededSize(r) < SizeModulus

Inside(a, r)   == a.at >= FixedSize(r.type) /\ a.at + a.size <= record_size(r)
Disjoint(a, b) == a.at + a.size <= b.at \/ b.at + b.size <= a.at
Covers(a, byte) == a.at <= byte /\ byte < a.at + a.size

(***************************************************************************)
(* The arrays of a shape lie in the bytes of its content that were read,   *)
(* after the fixed fields, no two of them share a byte, and every byte     *)
(* belongs to one.  It is what the exact size check of get_multipoint ..   *)
(* get_multipatch has to guarantee before shp_*_points and shp_*_parts     *)
(* index the arrays without a check of the record's size.                  *)
(***************************************************************************)
ArraysTile(r) ==
  /\ \A a \in Arrays(r) : Inside(a, r)
  /\ \A a, b \in Arrays(r) : a # b => Disjoint(a, b)
  /\ r.type \in PolyTypes \cup MultiTypes =>
       \A byte \in FixedSize(r.type) .. record_size(r) - 1 :
         \E a \in Arrays(r) : Covers(a, byte)
=============================================================================
