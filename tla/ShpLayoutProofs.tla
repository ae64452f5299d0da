-------------------------- MODULE ShpLayoutProofs ---------------------------
(***************************************************************************)
(* The size check of the get_* functions is exact, for all counts, all     *)
(* lengths and all widths of size_t: the arrays of an accepted record tile *)
(* it, unless their sizes are more than a size_t holds.                    *)
(***************************************************************************)
EXTENDS ShpLayout, TLAPS

(* size_t arithmetic does not wrap below its modulus.                      *)
LEMMA NoWrap ==
  ASSUME NEW n \in Nat, n < SizeModulus
  PROVE  size_t(n) = n
BY ShpLayoutAssumption DEF size_t

(* The numbers of a record.                                                *)
LEMMA NumbersOfRecord ==
  ASSUME NEW r \in Record
  PROVE  /\ r.len \in Nat /\ r.parts \in Nat /\ r.points \in Nat /\ r.type \in Int
         /\ NeededSize(r) \in Nat
         /\ MinSize(r.type) \in 40 .. 76
         /\ MinSize(r.type) = FixedSize(r.type) + (IF r.type \in ZTypes THEN 16 ELSE 0)
                                + (IF r.type \in MTypes THEN 16 ELSE 0)
         /\ FixedSize(r.type) = IF r.type \in PolyTypes THEN 44 ELSE 40
<1>1. r.len \in Nat /\ r.parts \in Nat /\ r.points \in Nat /\ r.type \in Int
  BY DEF Record, Count
<1>2. MinSize(r.type) \in 40 .. 76
  BY DEF MinSize, FixedSize, MTypes, ZTypes, PolyTypes
<1>3. NeededSize(r) \in Nat
  BY <1>1, <1>2 DEF NeededSize
<1>. QED
  BY <1>1, <1>2, <1>3 DEF MinSize, FixedSize

(* The remainder of a division, as the code computes a size.               *)
LEMMA SizeIsSmall ==
  ASSUME NEW n \in Nat
  PROVE  size_t(n) \in Nat /\ size_t(n) < SizeModulus
BY ShpLayoutAssumption DEF size_t

(* The sizes that the code computes from the counts of a record are the    *)
(* true ones.                                                              *)
SizesAreTrue(r) ==
  /\ parts_size(r) = IF r.type \in PolyTypes THEN 4 * r.parts ELSE 0
  /\ types_size(r) = IF r.type = MULTIPATCH THEN 4 * r.parts ELSE 0
  /\ points_size(r) = 16 * r.points
  /\ z_size(r) = IF r.type \in ZTypes THEN 8 * r.points ELSE 0
  /\ m_size(r) = IF r.type \in MTypes THEN 8 * r.points ELSE 0

(* They are if a size_t holds them together.                               *)
LEMMA TrueSizes ==
  ASSUME NEW r \in Record, r.type \in PolyTypes \cup MultiTypes, SizesFit(r)
  PROVE  SizesAreTrue(r) /\ expected_size(r) = NeededSize(r)
<1>. DEFINE needed == NeededSize(r)
<1>1. /\ r.parts \in Nat /\ r.points \in Nat
      /\ MinSize(r.type) \in Nat
      /\ needed \in Nat /\ needed < SizeModulus
  BY NumbersOfRecord DEF SizesFit
<1>2. /\ needed = MinSize(r.type) + (IF r.type \in PolyTypes THEN 4 * r.parts ELSE 0)
                    + (IF r.type = MULTIPATCH THEN 4 * r.parts ELSE 0) + 16 * r.points
                    + (IF r.type \in ZTypes THEN 8 * r.points ELSE 0)
                    + (IF r.type \in MTypes THEN 8 * r.points ELSE 0)
  BY DEF NeededSize
<1>. HIDE DEF needed
<1>3. /\ r.type \in PolyTypes => 4 * r.parts < SizeModulus
      /\ 16 * r.points < SizeModulus /\ 8 * r.points < SizeModulus
  BY <1>1, <1>2, ShpLayoutAssumption
<1>4. /\ r.type \in PolyTypes => size_t(4 * r.parts) = 4 * r.parts
      /\ size_t(16 * r.points) = 16 * r.points
      /\ size_t(8 * r.points) = 8 * r.points
  BY <1>1, <1>3, NoWrap
<1>5. r.type = MULTIPATCH => r.type \in PolyTypes
  BY DEF MULTIPATCH, PolyTypes
<1>6. SizesAreTrue(r)
  BY <1>4, <1>5 DEF SizesAreTrue, parts_size, types_size, points_size, z_size, m_size
<1>7. expected_size(r) = size_t(needed)
  BY <1>2, <1>6 DEF expected_size, SizesAreTrue
<1>. QED
  BY <1>1, <1>6, <1>7, NoWrap DEF needed

(* Where the arrays begin, from the bytes that stand before them, and that *)
(* the last one ends with the bytes that are needed.                       *)
LEMMA TruePositions ==
  ASSUME NEW r \in Record, r.type \in PolyTypes \cup MultiTypes, SizesAreTrue(r)
  PROVE  /\ FixedSize(r.type) \in Nat
         /\ parts_size(r) \in Nat /\ types_size(r) \in Nat /\ points_size(r) \in Nat
         /\ z_size(r) \in Nat /\ m_size(r) \in Nat
         /\ r.type \in PolyTypes => FixedSize(r.type) = 44
         /\ r.type \notin PolyTypes => parts_size(r) = 0
         /\ r.type # MULTIPATCH => types_size(r) = 0
         /\ parts_at(r) = 44
         /\ types_at(r) = 44 + parts_size(r)
         /\ points_at(r) = FixedSize(r.type) + parts_size(r) + types_size(r)
         /\ z_range_at(r) = points_at(r) + points_size(r)
         /\ z_array_at(r) = points_at(r) + points_size(r) + 16
         /\ r.type \notin ZTypes => m_range_at(r) = points_at(r) + points_size(r)
         /\ r.type \in ZTypes => m_range_at(r) = points_at(r) + points_size(r) + 16 + z_size(r)
         /\ m_array_at(r) = m_range_at(r) + 16
         /\ r.type \notin MTypes => NeededSize(r) = points_at(r) + points_size(r)
         /\ r.type \in MTypes => NeededSize(r) = m_range_at(r) + 16 + m_size(r)
<1>1. r.parts \in Nat /\ r.points \in Nat /\ r.type \in Int
  BY NumbersOfRecord
<1>2. /\ parts_size(r) \in Nat /\ types_size(r) \in Nat /\ points_size(r) \in Nat
      /\ z_size(r) \in Nat /\ m_size(r) \in Nat
  BY <1>1 DEF SizesAreTrue
<1>3. r.type # MULTIPATCH => types_size(r) = 0
  BY DEF SizesAreTrue
<1>4. FixedSize(r.type) = IF r.type \in PolyTypes THEN 44 ELSE 40
  BY NumbersOfRecord
<1>5. r.type \notin PolyTypes => parts_size(r) = 0 /\ types_size(r) = 0
  BY <1>1, <1>3 DEF SizesAreTrue, PolyTypes, MULTIPATCH
<1>6. /\ parts_at(r) = 44
      /\ types_at(r) = 44 + parts_size(r)
      /\ points_at(r) = FixedSize(r.type) + parts_size(r) + types_size(r)
  BY <1>2, <1>3, <1>4, <1>5 DEF points_at, types_at, parts_at
<1>7. /\ r.type \notin ZTypes => z_size(r) = 0
      /\ r.type \in ZTypes => r.type \in MTypes
      /\ r.type \notin MTypes => m_size(r) = 0
  BY DEF SizesAreTrue, MTypes
<1>8. NeededSize(r) = MinSize(r.type) + parts_size(r) + types_size(r)
                        + points_size(r) + z_size(r) + m_size(r)
  BY DEF SizesAreTrue, NeededSize
<1>9. MinSize(r.type) = FixedSize(r.type) + (IF r.type \in ZTypes THEN 16 ELSE 0)
                          + (IF r.type \in MTypes THEN 16 ELSE 0)
  BY NumbersOfRecord
<1>10. points_at(r) \in Nat /\ FixedSize(r.type) \in Nat
  BY <1>2, <1>3, <1>4, <1>6
<1>11. /\ z_range_at(r) = points_at(r) + points_size(r)
       /\ z_array_at(r) = points_at(r) + points_size(r) + 16
       /\ r.type \notin ZTypes => m_range_at(r) = points_at(r) + points_size(r)
       /\ r.type \in ZTypes => m_range_at(r) = points_at(r) + points_size(r) + 16 + z_size(r)
       /\ m_array_at(r) = m_range_at(r) + 16
  BY <1>2, <1>10 DEF m_array_at, m_range_at, z_array_at, z_range_at
<1>12. /\ r.type \notin MTypes => NeededSize(r) = points_at(r) + points_size(r)
       /\ r.type \in MTypes => NeededSize(r) = m_range_at(r) + 16 + m_size(r)
  <2>1. CASE r.type \in ZTypes
    BY <2>1, <1>1, <1>2, <1>3, <1>6, <1>7, <1>8, <1>9, <1>10, <1>11
  <2>2. CASE r.type \notin ZTypes
    BY <2>2, <1>1, <1>2, <1>3, <1>6, <1>7, <1>8, <1>9, <1>10, <1>11
  <2>. QED
    BY <2>1, <2>2
<1>. QED
  BY <1>1, <1>2, <1>3, <1>4, <1>5, <1>6, <1>10, <1>11, <1>12

(* An accepted record has the bytes that the code expects.                 *)
LEMMA AcceptedSize ==
  ASSUME NEW r \in Record, r.type \in PolyTypes \cup MultiTypes, Accepted(r)
  PROVE  /\ record_size(r) = expected_size(r)
         /\ record_size(r) \in Nat /\ record_size(r) < SizeModulus
<1>1. r.type # NullType /\ r.type \notin PointTypes
  BY NumbersOfRecord DEF PolyTypes, MultiTypes, NullType, PointTypes
<1>2. ShapeError(r) = NoMessage
  BY <1>1 DEF ParseError, Accepted
<1>3. record_size(r) = expected_size(r)
  BY <1>2 DEF ShapeError, NoMessage
<1>4. 2 * r.len \in Nat
  BY NumbersOfRecord
<1>. QED
  BY <1>3, <1>4, SizeIsSmall DEF record_size

(* The arrays of a record, one by one.                                     *)
LEMMA ArrayCases ==
  ASSUME NEW r, NEW a \in Arrays(r)
  PROVE  \/ r.type \in PolyTypes /\ a = Extent("parts", parts_at(r), 4 * r.parts)
         \/ r.type = MULTIPATCH /\ a = Extent("types", types_at(r), 4 * r.parts)
         \/ a = Extent("points", points_at(r), 16 * r.points)
         \/ r.type \in ZTypes /\ a = Extent("z_range", z_range_at(r), 16)
         \/ r.type \in ZTypes /\ a = Extent("z_array", z_array_at(r), 8 * r.points)
         \/ r.type \in MTypes /\ a = Extent("m_range", m_range_at(r), 16)
         \/ r.type \in MTypes /\ a = Extent("m_array", m_array_at(r), 8 * r.points)
BY DEF Arrays

(* And all of them.                                                        *)
LEMMA ArraysOfTypes ==
  ASSUME NEW r, r.type \in PolyTypes \cup MultiTypes
  PROVE  /\ r.type \in PolyTypes =>
              Extent("parts", parts_at(r), 4 * r.parts) \in Arrays(r)
         /\ r.type = MULTIPATCH =>
              Extent("types", types_at(r), 4 * r.parts) \in Arrays(r)
         /\ Extent("points", points_at(r), 16 * r.points) \in Arrays(r)
         /\ r.type \in ZTypes =>
              /\ Extent("z_range", z_range_at(r), 16) \in Arrays(r)
              /\ Extent("z_array", z_array_at(r), 8 * r.points) \in Arrays(r)
         /\ r.type \in MTypes =>
              /\ Extent("m_range", m_range_at(r), 16) \in Arrays(r)
              /\ Extent("m_array", m_array_at(r), 8 * r.points) \in Arrays(r)
BY DEF Arrays

(* The fields of an extent.                                                *)
LEMMA ExtentFields ==
  ASSUME NEW name, NEW at, NEW size
  PROVE  Extent(name, at, size).at = at /\ Extent(name, at, size).size = size
BY DEF Extent

(* If the sizes fit, the arrays of an accepted record tile it.             *)
LEMMA FittingArraysTile ==
  ASSUME NEW r \in Record, r.type \in PolyTypes \cup MultiTypes, Accepted(r), SizesFit(r)
  PROVE  ArraysTile(r)
<1>1. SizesAreTrue(r) /\ record_size(r) = NeededSize(r)
  BY TrueSizes, AcceptedSize
<1>2. /\ r.type = MULTIPATCH => r.type \in PolyTypes
      /\ r.type \in ZTypes => r.type \in MTypes
  BY DEF MULTIPATCH, PolyTypes, MTypes
<1>3. /\ r.type \in PolyTypes => parts_size(r) = 4 * r.parts
      /\ r.type = MULTIPATCH => types_size(r) = 4 * r.parts
      /\ points_size(r) = 16 * r.points
      /\ r.type \in ZTypes => z_size(r) = 8 * r.points
      /\ r.type \in MTypes => m_size(r) = 8 * r.points
  BY <1>1 DEF SizesAreTrue
<1>4. \A a \in Arrays(r) : Inside(a, r)
  BY <1>1, <1>2, <1>3, TruePositions, ArrayCases, ExtentFields DEF Inside
<1>5. \A a, b \in Arrays(r) : a # b => Disjoint(a, b)
  BY <1>1, <1>2, <1>3, TruePositions, ArrayCases, ExtentFields DEF Disjoint
<1>6. ASSUME NEW byte \in FixedSize(r.type) .. record_size(r) - 1
      PROVE  \E a \in Arrays(r) : Covers(a, byte)
  <2>. DEFINE CoveredBy(name, at, size) ==
                Extent(name, at, size) \in Arrays(r) /\ at <= byte /\ byte < at + size
  <2>1. ASSUME NEW name, NEW at, NEW size, CoveredBy(name, at, size)
        PROVE  \E a \in Arrays(r) : Covers(a, byte)
    BY <2>1, ExtentFields DEF Covers
  <2>2. \/ CoveredBy("parts", parts_at(r), 4 * r.parts)
        \/ CoveredBy("types", types_at(r), 4 * r.parts)
        \/ CoveredBy("points", points_at(r), 16 * r.points)
        \/ CoveredBy("z_range", z_range_at(r), 16)
        \/ CoveredBy("z_array", z_array_at(r), 8 * r.points)
        \/ CoveredBy("m_range", m_range_at(r), 16)
        \/ CoveredBy("m_array", m_array_at(r), 8 * r.points)
    BY <1>1, <1>2, <1>3, ArraysOfTypes, TruePositions
  <2>. HIDE DEF CoveredBy
  <2>. QED
    BY <2>1, <2>2
<1>. QED
  BY <1>4, <1>5, <1>6 DEF ArraysTile

(* If they do not fit, an array reaches beyond the record, whatever the    *)
(* code computed: arrays that all lie in it leave nothing to wrap.         *)
LEMMA TilingArraysFit ==
  ASSUME NEW r \in Record, r.type \in PolyTypes \cup MultiTypes, Accepted(r), ArraysTile(r)
  PROVE  SizesFit(r)
<1>1. /\ r.parts \in Nat /\ r.points \in Nat /\ r.type \in Int
      /\ FixedSize(r.type) \in Nat
      /\ record_size(r) \in Nat /\ record_size(r) < SizeModulus
      /\ SizeModulus \in Nat
  BY NumbersOfRecord, AcceptedSize, ShpLayoutAssumption
<1>2. ASSUME NEW name, NEW at, NEW size, Extent(name, at, size) \in Arrays(r)
      PROVE  at >= FixedSize(r.type) /\ at + size <= record_size(r)
  BY <1>2, ExtentFields DEF ArraysTile, Inside
<1>3. /\ r.type \in PolyTypes => parts_at(r) + 4 * r.parts <= record_size(r)
      /\ points_at(r) >= FixedSize(r.type)
      /\ points_at(r) + 16 * r.points <= record_size(r)
      /\ r.type \in MTypes => m_array_at(r) + 8 * r.points <= record_size(r)
  BY <1>2, ArraysOfTypes
<1>4. /\ parts_size(r) \in Nat /\ types_size(r) \in Nat
      /\ points_at(r) \in Nat /\ parts_at(r) = 44
  <2>1. /\ 4 * r.parts \in Nat
        /\ size_t(4 * r.parts) \in Nat
    BY <1>1, SizeIsSmall
  <2>2. parts_size(r) \in Nat /\ types_size(r) \in Nat
    BY <2>1 DEF parts_size, types_size
  <2>. QED
    BY <2>2 DEF points_at, types_at, parts_at
<1>5. /\ r.type \in PolyTypes => 4 * r.parts < SizeModulus
      /\ 16 * r.points < SizeModulus /\ 8 * r.points < SizeModulus
  BY <1>1, <1>3, <1>4
<1>6. SizesAreTrue(r)
  <2>1. /\ r.type \in PolyTypes => size_t(4 * r.parts) = 4 * r.parts
        /\ size_t(16 * r.points) = 16 * r.points
        /\ size_t(8 * r.points) = 8 * r.points
    BY <1>1, <1>5, NoWrap
  <2>2. r.type = MULTIPATCH => r.type \in PolyTypes
    BY DEF MULTIPATCH, PolyTypes
  <2>. QED
    BY <2>1, <2>2 DEF SizesAreTrue, parts_size, types_size, points_size, z_size, m_size
<1>7. NeededSize(r) <= record_size(r)
  <2>1. /\ r.type \notin MTypes => NeededSize(r) = points_at(r) + points_size(r)
        /\ r.type \in MTypes => NeededSize(r) = m_array_at(r) + m_size(r)
    BY <1>6, TruePositions
  <2>2. /\ points_size(r) = 16 * r.points
        /\ r.type \in MTypes => m_size(r) = 8 * r.points
    BY <1>6 DEF SizesAreTrue
  <2>. QED
    BY <1>3, <2>1, <2>2
<1>. QED
  BY <1>1, <1>7, NumbersOfRecord DEF SizesFit

(***************************************************************************)
(* The size check of the get_* functions is exact: the arrays of a record  *)
(* that they accept tile it if and only if a size_t holds the bytes that   *)
(* the arrays need, for every width of size_t.  Where it has 64 bits they  *)
(* tile every accepted record (WideSizesFit); where it has 32 bits they do *)
(* not if the expected size wraps.                                         *)
(***************************************************************************)
THEOREM AcceptedArraysTile ==
  ASSUME NEW r \in Record, Accepted(r)
  PROVE  ArraysTile(r) <=> SizesFit(r)
<1>1. CASE r.type \notin PolyTypes \cup MultiTypes
  <2>1. Arrays(r) = {}
    BY <1>1, NumbersOfRecord DEF Arrays, PolyTypes, MultiTypes, ZTypes, MTypes, MULTIPATCH
  <2>. QED
    BY <1>1, <2>1 DEF ArraysTile, SizesFit
<1>2. CASE r.type \in PolyTypes \cup MultiTypes
  BY <1>2, FittingArraysTile, TilingArraysFit
<1>. QED
  BY <1>1, <1>2

(* The sizes of every record fit if those of the largest do.               *)
LEMMA WideSizesFit ==
  ASSUME NEW r \in Record, 76 + 40 * CountLimit <= SizeModulus
  PROVE  SizesFit(r)
<1>1. /\ r.parts \in Nat /\ r.parts < CountLimit
      /\ r.points \in Nat /\ r.points < CountLimit
  BY DEF Record, Count
<1>2. MinSize(r.type) \in 40 .. 76
  BY NumbersOfRecord
<1>3. NeededSize(r) <= 76 + 8 * r.parts + 32 * r.points
  BY <1>1, <1>2 DEF NeededSize
<1>4. NeededSize(r) < SizeModulus
  BY <1>1, <1>3, NumbersOfRecord, ShpLayoutAssumption
<1>. QED
  BY <1>4 DEF SizesFit
=============================================================================
