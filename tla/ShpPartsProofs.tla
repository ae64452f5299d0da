--------------------------- MODULE ShpPartsProofs ---------------------------
(***************************************************************************)
(* The functions that give the parts and the points of a shape, for all    *)
(* records, all part tables and all part types, and the answer of          *)
(* shp_point_in_polygon for rings of every length on a grid of any size.   *)
(***************************************************************************)
EXTENDS MCShpShapes, ShpLayoutProofs, FiniteSetTheorems, SequenceTheorems, WellFoundedInduction

(* The least number principle for a set instead of for a predicate: it is  *)
(* how these proofs argue by induction.                                    *)
LEMMA LeastNumber ==
  ASSUME NEW S \in SUBSET Nat, S # {}
  PROVE  \E least \in S : \A k \in S : least <= k
<1>1. PICK least \in S : \A k \in S : <<k, least>> \notin OpToRel(<, Nat)
  BY NatLessThanWellFounded, WFMin, Zenon
<1>2. \A k \in S : ~(k < least)
  BY <1>1 DEF OpToRel
<1>. QED
  BY <1>2

(* The counts of a shape, and the classes its type is in.                  *)
LEMMA ShapeFacts ==
  ASSUME NEW s, IsShape(s)
  PROVE  /\ s.rec \in Record /\ Accepted(s.rec) /\ SizesFit(s.rec) /\ s.rec.type \in Int
         /\ s.rec.type \in PolyTypes \cup MultiTypes
         /\ s.rec.parts \in Nat /\ s.rec.points \in Nat
         /\ s.rec.points < SizeModulus
         /\ s.rec.type \in ZTypes => s.rec.type \in MTypes
         /\ s.rec.type = MULTIPATCH => s.rec.type \in PolyTypes
<1>1. /\ s.rec \in Record /\ Accepted(s.rec) /\ SizesFit(s.rec)
      /\ s.rec.type \in PolyTypes \cup MultiTypes
  BY DEF IsShape
<1>2. /\ s.rec.parts \in Nat /\ s.rec.points \in Nat /\ s.rec.points < CountLimit
      /\ s.rec.type \in Int
  BY <1>1 DEF Record, Count
<1>3. s.rec.points < SizeModulus
  BY <1>2, ShpLayoutAssumption
<1>4. /\ s.rec.type \in ZTypes => s.rec.type \in MTypes
      /\ s.rec.type = MULTIPATCH => s.rec.type \in PolyTypes
  BY <1>2 DEF MTypes, MULTIPATCH, PolyTypes
<1>. QED
  BY <1>1, <1>2, <1>3, <1>4

(* Only the types with parts have them.                                    *)
LEMMA PartsArePoly ==
  ASSUME NEW s, IsShape(s), NEW p \in PartNums(s.rec)
  PROVE  s.rec.type \in PolyTypes
<1>1. s.rec.parts # 0
  BY ShapeFacts DEF PartNums
<1>. QED
  BY <1>1 DEF IsShape

(* The arrays of a shape, by their names, with their true sizes.           *)
LEMMA ShapeArrays ==
  ASSUME NEW s, IsShape(s), NEW r, r = s.rec
  PROVE  /\ r.type \in PolyTypes =>
              Extent("parts", parts_at(r), 4 * r.parts) \in Arrays(r)
         /\ r.type = MULTIPATCH =>
              Extent("types", types_at(r), 4 * r.parts) \in Arrays(r)
         /\ Extent("points", points_at(r), 16 * r.points) \in Arrays(r)
         /\ r.type \in ZTypes => Extent("z_array", z_array_at(r), 8 * r.points) \in Arrays(r)
         /\ r.type \in MTypes => Extent("m_array", m_array_at(r), 8 * r.points) \in Arrays(r)
BY ShapeFacts, ArraysOfTypes

(* Where the arrays begin is a number.                                     *)
LEMMA ShapePositions ==
  ASSUME NEW s, IsShape(s), NEW r, r = s.rec
  PROVE  /\ parts_at(r) = 44
         /\ r.type \in PolyTypes => types_at(r) \in Nat
         /\ points_at(r) \in Nat
         /\ r.type \in ZTypes => z_array_at(r) \in Nat
         /\ r.type \in MTypes => m_array_at(r) \in Nat
<1>1. r \in Record /\ r.type \in PolyTypes \cup MultiTypes /\ SizesAreTrue(r)
  BY ShapeFacts, TrueSizes
<1>2. /\ FixedSize(r.type) \in Nat
      /\ parts_size(r) \in Nat /\ types_size(r) \in Nat /\ points_size(r) \in Nat
      /\ z_size(r) \in Nat /\ m_size(r) \in Nat
      /\ parts_at(r) = 44
      /\ types_at(r) = 44 + parts_size(r)
      /\ points_at(r) = FixedSize(r.type) + parts_size(r) + types_size(r)
      /\ z_array_at(r) = points_at(r) + points_size(r) + 16
      /\ r.type \notin ZTypes => m_range_at(r) = points_at(r) + points_size(r)
      /\ r.type \in ZTypes => m_range_at(r) = points_at(r) + points_size(r) + 16 + z_size(r)
      /\ m_array_at(r) = m_range_at(r) + 16
  BY <1>1, TruePositions
<1>3. points_at(r) \in Nat /\ m_range_at(r) \in Nat
  BY <1>2
<1>. QED
  BY <1>2, <1>3

(* An item of an array lies in the array.                                  *)
LEMMA ItemWithin ==
  ASSUME NEW r, NEW name, NEW at \in Nat, NEW step \in Nat, NEW count \in Nat,
         NEW i \in 0 .. count - 1,
         Extent(name, at, step * count) \in Arrays(r)
  PROVE  Within(Extent(name, at + step * i, step), r)
<1>1. step * i + step = step * (i + 1)
  OBVIOUS
<1>2. step * (i + 1) <= step * count
  <2>1. i + 1 \in Nat /\ i + 1 <= count
    OBVIOUS
  <2>2. PICK d \in Nat : count = i + 1 + d
    <3>1. count - (i + 1) \in Nat
      BY <2>1
    <3>. QED
      BY <3>1
  <2>3. step * count = step * (i + 1) + step * d
    BY <2>2
  <2>4. step * d \in Nat /\ step * (i + 1) \in Nat
    BY <2>2
  <2>. QED
    BY <2>3, <2>4
<1>3. at <= at + step * i /\ at + step * i + step <= at + step * count
  BY <1>1, <1>2
<1>. DEFINE a == Extent(name, at + step * i, step)
            b == Extent(name, at, step * count)
<1>4. b \in Arrays(r) /\ b.name = a.name /\ b.at <= a.at /\ a.at + a.size <= b.at + b.size
  BY <1>3 DEF Extent
<1>. QED
  BY <1>4 DEF Within

-----------------------------------------------------------------------------
(* A point whose number is below NumPoints is read from the arrays.        *)
LEMMA PointWithin ==
  ASSUME NEW s, IsShape(s), NEW n \in PointNums(s.rec), NEW a \in point(s.rec, n)
  PROVE  Within(a, s.rec)
<1>. DEFINE r == s.rec
<1>1. /\ r.points \in Nat /\ n \in 0 .. r.points - 1 /\ r.type \in Int
      /\ r.type \in PolyTypes \cup MultiTypes
  BY ShapeFacts DEF PointNums
<1>2. Within(xy(r, n), r)
  BY <1>1, ShapeArrays, ShapePositions, ItemWithin DEF xy
<1>3. r.type \in ZTypes => Within(z(r, n), r)
  <2>1. r.type \in ZTypes =>
          z_array_at(r) \in Nat /\ Extent("z_array", z_array_at(r), 8 * r.points) \in Arrays(r)
    BY ShapeArrays, ShapePositions
  <2>. QED
    BY <1>1, <2>1, ItemWithin DEF z
<1>4. r.type \in MTypes => Within(m(r, n), r)
  <2>1. r.type \in MTypes =>
          m_array_at(r) \in Nat /\ Extent("m_array", m_array_at(r), 8 * r.points) \in Arrays(r)
    BY ShapeArrays, ShapePositions
  <2>. QED
    BY <1>1, <2>1, ItemWithin DEF m
<1>5. \/ a = xy(r, n)
      \/ r.type \in ZTypes /\ a = z(r, n)
      \/ r.type \in MTypes /\ a = m(r, n)
  BY <1>1 DEF point, shp_multipoint_point, shp_multipointm_pointm, shp_multipointz_pointz,
       shp_polyline_point, shp_polylinem_pointm, shp_polylinez_pointz, shp_polygon_point,
       shp_polygonm_pointm, shp_polygonz_pointz, shp_multipatch_pointz,
       PolyTypes, MultiTypes, ZTypes, MTypes
<1>. QED
  BY <1>2, <1>3, <1>4, <1>5

(* The entries and the part type that are looked at are in their tables.   *)
LEMMA EntryWithin ==
  ASSUME NEW s, IsShape(s), NEW p \in PartNums(s.rec), NEW a \in EntryReads(s.rec, p)
  PROVE  Within(a, s.rec)
<1>. DEFINE r == s.rec
<1>1. r.parts \in Nat /\ r.type \in PolyTypes
  BY ShapeFacts, PartsArePoly
<1>2. ASSUME NEW q \in PartNums(r)
      PROVE  Within(Extent("parts", parts_at(r) + 4 * q, 4), r)
  BY <1>1, ShapeArrays, ShapePositions, ItemWithin DEF PartNums
<1>3. r.type = MULTIPATCH => Within(Extent("types", types_at(r) + 4 * p, 4), r)
  BY <1>1, ShapeArrays, ShapePositions, ItemWithin DEF PartNums
<1>4. \/ \E q \in PartNums(r) : a = Extent("parts", parts_at(r) + 4 * q, 4)
      \/ r.type = MULTIPATCH /\ a = Extent("types", types_at(r) + 4 * p, 4)
  BY DEF EntryReads
<1>. QED
  BY <1>2, <1>3, <1>4

-----------------------------------------------------------------------------
(* An entry of the part table is a size_t.                                 *)
LEMMA EntryFacts ==
  ASSUME NEW s, IsShape(s), NEW p \in PartNums(s.rec)
  PROVE  Entry(s, p) \in Nat
<1>1. s.table[p] \in Int
  BY ShpPartsAssumption DEF IsShape, Int32
<1>2. SizeModulus \in Nat /\ SizeModulus > 0
  BY ShpLayoutAssumption
<1>. QED
  BY <1>1, <1>2 DEF Entry, size_t

(* Each function that gives a part's points computes the same range.       *)
LEMMA PartPointsFacts ==
  ASSUME NEW s, IsShape(s), NEW p \in PartNums(s.rec)
  PROVE  part_points(s, p) = part_range(s, p)
<1>1. s.rec.type \in PolyTypes
  BY PartsArePoly
<1>. QED
  BY <1>1 DEF part_points, PolyTypes, shp_polyline_points, shp_polylinem_points,
       shp_polylinez_points, shp_polygon_points, shp_polygonm_points, shp_polygonz_points,
       shp_multipatch_points

(* Where a part ends: where the next one begins, or at the last point.     *)
EndOfPart(s, p) == IF p + 1 < s.rec.parts THEN Entry(s, p + 1) ELSE s.rec.points

(* A valid part has the points from its entry to its end, which lie in the *)
(* shape; a part that is not valid has none.                               *)
LEMMA RangeFacts ==
  ASSUME NEW s, IsShape(s), NEW p \in PartNums(s.rec)
  PROVE  /\ part_points(s, p).start = Entry(s, p)
         /\ Entry(s, p) \in Nat /\ EndOfPart(s, p) \in Nat
         /\ IsPartValid(s, p) =>
              /\ Entry(s, p) < EndOfPart(s, p) /\ EndOfPart(s, p) <= s.rec.points
              /\ PointsOfPart(s, p) = Entry(s, p) .. EndOfPart(s, p) - 1
         /\ ~IsPartValid(s, p) => PointsOfPart(s, p) = {}
<1>. DEFINE i == Entry(s, p)
            j == EndOfPart(s, p)
            part == part_points(s, p)
<1>1. s.rec.points \in Nat /\ s.rec.points < SizeModulus /\ s.rec.parts \in Nat
  BY ShapeFacts
<1>2. i \in Nat
  BY EntryFacts
<1>3. j \in Nat
  <2>1. p + 1 < s.rec.parts => p + 1 \in PartNums(s.rec)
    BY <1>1 DEF PartNums
  <2>. QED
    BY <1>1, <2>1, EntryFacts DEF EndOfPart
<1>4. /\ part.start = i
      /\ part.num_points = IF ValidRange(i, j, s.rec.points) THEN size_t(j - i) ELSE 0
  BY PartPointsFacts DEF part_range, EndOfPart
<1>. HIDE DEF i, j, part
<1>5. CASE ValidRange(i, j, s.rec.points)
  <2>0. i < j /\ j <= s.rec.points
    BY <1>5, Zenon DEF ValidRange
  <2>1. j - i \in Nat /\ j - i < SizeModulus /\ j - i > 0 /\ i < j /\ j <= s.rec.points
    BY <1>1, <1>2, <1>3, <2>0, ShpLayoutAssumption
  <2>2. part.num_points = j - i
    BY <1>4, <1>5, <2>1, NoWrap
  <2>3. part.start + part.num_points - 1 = j - 1
    BY <1>2, <1>3, <1>4, <2>2
  <2>. QED
    BY <1>2, <1>3, <1>4, <2>1, <2>2, <2>3 DEF IsPartValid, PointsOfPart, i, j, part
<1>6. CASE ~ValidRange(i, j, s.rec.points)
  <2>1. part.num_points = 0 /\ part.start = i
    BY <1>4, <1>6
  <2>2. part.start .. part.start + part.num_points - 1 = {}
    BY <1>2, <2>1
  <2>. QED
    BY <1>2, <1>3, <1>4, <2>1, <2>2 DEF IsPartValid, PointsOfPart, i, j, part
<1>. QED
  BY <1>5, <1>6

(***************************************************************************)
(* Whatever a part table says, shp_*_points and shp_*_point read nothing   *)
(* outside of the arrays of the shape.                                     *)
(***************************************************************************)
THEOREM ReadsStay == ReadsInside
<1>1. SUFFICES ASSUME IsShape(shape)
               PROVE  ReadsStayInside(shape)
  BY DEF ReadsInside, HasTable
<1>2. ASSUME NEW p \in PartNums(shape.rec), NEW a \in EntryReads(shape.rec, p)
      PROVE  Within(a, shape.rec)
  BY <1>1, <1>2, EntryWithin
<1>3. ASSUME NEW p \in PartNums(shape.rec), NEW n \in PointsOfPart(shape, p)
      PROVE  n \in PointNums(shape.rec)
  BY <1>1, <1>3, RangeFacts, ShapeFacts DEF PointNums
<1>4. ASSUME NEW n \in PointNums(shape.rec), NEW a \in point(shape.rec, n)
      PROVE  Within(a, shape.rec)
  BY <1>1, <1>4, PointWithin
<1>. QED
  BY <1>2, <1>3, <1>4 DEF ReadsStayInside

(***************************************************************************)
(* If all parts of a shape are valid, each point from the first part's     *)
(* start on is in exactly one part, for every number of parts.             *)
(***************************************************************************)
THEOREM PartsShare == PartsTile
<1>. DEFINE s == shape
            From(p) == Entry(s, p)
<1>1. SUFFICES ASSUME IsShape(s), s.rec.parts > 0,
                      \A p \in PartNums(s.rec) : IsPartValid(s, p),
                      NEW n \in PointNums(s.rec), n >= part_points(s, 0).start
               PROVE  \E p \in PartNums(s.rec) :
                        /\ n \in PointsOfPart(s, p)
                        /\ \A q \in PartNums(s.rec) \ {p} : n \notin PointsOfPart(s, q)
  BY DEF PartsTile, HasTable, ValidPartsTile
<1>2. /\ s.rec.parts \in Nat /\ s.rec.points \in Nat
      /\ n \in Nat /\ n < s.rec.points
  BY <1>1, ShapeFacts DEF PointNums
<1>3. \A p \in PartNums(s.rec) :
        /\ p \in Nat /\ From(p) \in Nat /\ EndOfPart(s, p) \in Nat
        /\ From(p) < EndOfPart(s, p)
        /\ PointsOfPart(s, p) = From(p) .. EndOfPart(s, p) - 1
  BY <1>1, RangeFacts DEF PartNums
<1>4. n >= From(0)
  BY <1>1, <1>2, RangeFacts DEF PartNums
<1>5. \A p, q \in PartNums(s.rec) : q = p + 1 => EndOfPart(s, p) = From(q)
  BY <1>2 DEF PartNums, EndOfPart
<1>6. \A p \in PartNums(s.rec) : p + 1 = s.rec.parts => n < EndOfPart(s, p)
  BY <1>2 DEF EndOfPart
<1>7. PartNums(s.rec) = 0 .. s.rec.parts - 1
  BY DEF PartNums
<1>. HIDE DEF s, From
(* The part of n is the first one that ends behind it.                     *)
<1>. DEFINE Behind == {p \in PartNums(s.rec) : n < EndOfPart(s, p)}
<1>8. PICK p \in Behind : \A k \in Behind : p <= k
  <2>1. s.rec.parts - 1 \in Behind
    BY <1>1, <1>2, <1>6, <1>7
  <2>2. Behind \in SUBSET Nat /\ Behind # {}
    BY <1>2, <1>7, <2>1
  <2>. QED
    BY <2>2, LeastNumber, Zenon
<1>9. p \in PartNums(s.rec) /\ n < EndOfPart(s, p)
  BY <1>8
<1>10. From(p) <= n
  <2>1. CASE p = 0
    BY <1>4, <2>1
  <2>2. CASE p # 0
    <3>1. p - 1 \in PartNums(s.rec) /\ p - 1 \notin Behind
      BY <1>2, <1>7, <1>8, <1>9, <2>2
    <3>2. EndOfPart(s, p - 1) <= n
      BY <1>2, <1>3, <3>1
    <3>3. EndOfPart(s, p - 1) = From(p)
      <4>1. p = (p - 1) + 1
        BY <1>3, <1>9
      <4>. QED
        BY <1>5, <1>9, <3>1, <4>1, Zenon
    <3>. QED
      BY <3>2, <3>3
  <2>. QED
    BY <2>1, <2>2
<1>11. ASSUME NEW q \in PartNums(s.rec), q < p
       PROVE  n \notin PointsOfPart(s, q)
  <2>1. q \notin Behind
    BY <1>3, <1>8, <1>9, <1>11
  <2>. QED
    BY <1>2, <1>3, <2>1
<1>12. ASSUME NEW q \in PartNums(s.rec), p < q
       PROVE  n \notin PointsOfPart(s, q)
  <2>. DEFINE Reaching == {k \in PartNums(s.rec) : p < k /\ From(k) <= n}
  <2>1. Reaching = {}
    <3>1. SUFFICES ASSUME Reaching # {}
                   PROVE  FALSE
      OBVIOUS
    <3>2. PICK k \in Reaching : \A l \in Reaching : k <= l
      <4>1. Reaching \in SUBSET Nat /\ Reaching # {}
        BY <1>2, <1>7, <3>1
      <4>. QED
        BY <4>1, LeastNumber, Zenon
    <3>3. k - 1 \in PartNums(s.rec) /\ k - 1 \notin Reaching /\ k = (k - 1) + 1
      BY <1>2, <1>7, <1>9, <3>2
    <3>4. EndOfPart(s, k - 1) = From(k)
      BY <1>5, <3>2, <3>3
    <3>5. From(k) <= n
      BY <3>2
    <3>6. CASE k - 1 = p
      BY <1>2, <1>3, <1>9, <3>2, <3>4, <3>5, <3>6
    <3>7. CASE k - 1 # p
      <4>1. p < k - 1
        BY <1>7, <1>9, <3>2, <3>7
      <4>2. n < From(k - 1)
        BY <1>2, <1>3, <3>3, <4>1
      <4>. QED
        BY <1>2, <1>3, <3>2, <3>3, <3>4, <3>5, <4>2
    <3>. QED
      BY <3>6, <3>7
  <2>2. n < From(q)
    BY <1>2, <1>3, <1>12, <2>1
  <2>. QED
    BY <1>2, <1>3, <2>2
<1>13. n \in PointsOfPart(s, p)
  BY <1>2, <1>3, <1>9, <1>10
<1>. QED
  BY <1>7, <1>9, <1>11, <1>12, <1>13

-----------------------------------------------------------------------------
(* The shapes are those of records with 32-bit counts and length.          *)
ShapeInv ==
  /\ shape = [rec |-> shape.rec, table |-> shape.table, types |-> shape.types]
  /\ shape.rec \in Record

(* A type that exists, or 7, is a number.                                  *)
LEMMA TypesAreNumbers ==
  ASSUME NEW type \in Types
  PROVE  type \in Int
BY DEF Types, PointTypes, PolyTypes, MultiTypes, NullType

(* An empty record has a type and no arrays.                               *)
LEMMA ShapeInit ==
  ASSUME NEW type \in Types, shape = Empty(type)
  PROVE  ShapeInv
<1>1. type \in Int
  BY TypesAreNumbers
<1>2. 2 \in Count /\ 0 \in Count
  BY MCShpShapesAssumption, ShpLayoutAssumption DEF Count
<1>3. [len |-> 2, type |-> type, parts |-> 0, points |-> 0] \in Record
  BY <1>1, <1>2 DEF Record
<1>. QED
  BY <1>3 DEF ShapeInv, Empty

(* A record grows up to the bounds, and a table leaves its record alone.   *)
LEMMA ShapeNext ==
  ASSUME ShapeInv, [Next]_<<shape, ring, others>>
  PROVE  ShapeInv'
<1>. DEFINE rec == shape.rec
<1>1. /\ rec = [len |-> rec.len, type |-> rec.type, parts |-> rec.parts, points |-> rec.points]
      /\ rec.len \in Count /\ rec.type \in Int /\ rec.parts \in Count /\ rec.points \in Count
      /\ shape = [rec |-> shape.rec, table |-> shape.table, types |-> shape.types]
      /\ rec \in Record
  BY DEF ShapeInv, Record
<1>2. ASSUME NEW n \in Count, NEW m1 \in {MaxLen, MaxParts, MaxPoints}, n < m1
      PROVE  n + 1 \in Count
  BY <1>2, MCShpShapesAssumption, ShpLayoutAssumption DEF Count
<1>3. CASE Longer
  <2>1. shape' = [shape EXCEPT !.rec.len = @ + 1] /\ rec.len + 1 \in Count
    BY <1>1, <1>2, <1>3 DEF Longer
  <2>2. /\ shape' = [rec |-> shape'.rec, table |-> shape'.table, types |-> shape'.types]
        /\ shape'.rec = [len |-> rec.len + 1, type |-> rec.type, parts |-> rec.parts, points |-> rec.points]
    BY <1>1, <2>1
  <2>. HIDE DEF rec
  <2>. QED
    BY <1>1, <2>1, <2>2 DEF ShapeInv, Record
<1>4. CASE MoreParts
  <2>1. shape' = [shape EXCEPT !.rec.parts = @ + 1] /\ rec.parts + 1 \in Count
    BY <1>1, <1>2, <1>4 DEF MoreParts
  <2>2. /\ shape' = [rec |-> shape'.rec, table |-> shape'.table, types |-> shape'.types]
        /\ shape'.rec = [len |-> rec.len, type |-> rec.type, parts |-> rec.parts + 1, points |-> rec.points]
    BY <1>1, <2>1
  <2>. HIDE DEF rec
  <2>. QED
    BY <1>1, <2>1, <2>2 DEF ShapeInv, Record
<1>5. CASE MorePoints
  <2>1. shape' = [shape EXCEPT !.rec.points = @ + 1] /\ rec.points + 1 \in Count
    BY <1>1, <1>2, <1>5 DEF MorePoints
  <2>2. /\ shape' = [rec |-> shape'.rec, table |-> shape'.table, types |-> shape'.types]
        /\ shape'.rec = [len |-> rec.len, type |-> rec.type, parts |-> rec.parts, points |-> rec.points + 1]
    BY <1>1, <2>1
  <2>. HIDE DEF rec
  <2>. QED
    BY <1>1, <2>1, <2>2 DEF ShapeInv, Record
<1>6. ASSUME NEW entry \in Entries, Fill(entry)
      PROVE  ShapeInv'
  <2>1. shape' = [shape EXCEPT !.table = Extended(@, entry), !.types = Extended(@, 0)]
    BY <1>6 DEF Fill
  <2>2. shape' = [rec |-> shape.rec, table |-> Extended(shape.table, entry), types |-> Extended(shape.types, 0)]
    BY <1>1, <2>1
  <2>3. shape'.rec = rec /\ shape' = [rec |-> shape'.rec, table |-> shape'.table, types |-> shape'.types]
    BY <2>2
  <2>. HIDE DEF rec
  <2>. QED
    BY <1>1, <2>3 DEF ShapeInv
<1>7. CASE UNCHANGED shape
  BY <1>7 DEF ShapeInv
<1>. QED
  BY <1>3, <1>4, <1>5, <1>6, <1>7 DEF Next, RingStep

(***************************************************************************)
(* AcceptedTiles: the arrays of a record that the get_* functions accept   *)
(* tile it, unless its sizes are more than a size_t holds, and then they   *)
(* do not; for all lengths, all counts and all widths of size_t.           *)
(***************************************************************************)
THEOREM AcceptedRecordsTile == Spec => []AcceptedTiles
<1>1. Init => ShapeInv
  <2>1. NullType \in Types
    BY DEF Types
  <2>. QED
    BY <2>1, ShapeInit DEF Init
<1>2. ShapeInv /\ [Next]_<<shape, ring, others>> => ShapeInv'
  BY ShapeNext
<1>3. ShapeInv => AcceptedTiles
  BY AcceptedArraysTile DEF AcceptedTiles, ShapeInv
<1>. QED
  BY <1>1, <1>2, <1>3, PTL DEF Spec

-----------------------------------------------------------------------------
(* The sign of a product.                                                  *)
LEMMA SignOfProduct ==
  ASSUME NEW a \in Int, NEW b \in Int
  PROVE  /\ a * b \in Int
         /\ a > 0 /\ b > 0 => a * b > 0
         /\ a < 0 /\ b < 0 => a * b > 0
         /\ a > 0 /\ b < 0 => a * b < 0
         /\ a < 0 /\ b > 0 => a * b < 0
         /\ a = 0 \/ b = 0 => a * b = 0
OBVIOUS

(* The smaller and the larger of two numbers.                              *)
LEMMA MinMaxOfTwo ==
  ASSUME NEW a \in Int, NEW b \in Int
  PROVE  /\ Min({a, b}) = IF a <= b THEN a ELSE b
         /\ Max({a, b}) = IF a <= b THEN b ELSE a
BY DEF Min, Max

(* A number between two others, in whichever order they are.               *)
LEMMA InRange ==
  ASSUME NEW n \in Int, NEW a \in Int, NEW b \in Int
  PROVE  n \in Min({a, b}) .. Max({a, b}) <=>
           (a - n <= 0 /\ 0 <= b - n) \/ (b - n <= 0 /\ 0 <= a - n)
<1>1. Min({a, b}) = IF a <= b THEN a ELSE b
  BY MinMaxOfTwo
<1>2. Max({a, b}) = IF a <= b THEN b ELSE a
  BY MinMaxOfTwo
<1>. QED
  BY <1>1, <1>2

-----------------------------------------------------------------------------
(* The points of the plane.                                                *)
Point == [x : Int, y : Int]

(* An edge as the point sees it.                                           *)
LEMMA EdgeFacts ==
  ASSUME NEW p \in Point, NEW a \in Point, NEW b \in Point
  PROVE  /\ Edge(p, a, b).u1 = a.x - p.x /\ Edge(p, a, b).v1 = a.y - p.y
         /\ Edge(p, a, b).u2 = b.x - p.x /\ Edge(p, a, b).v2 = b.y - p.y
         /\ {a.x - p.x, a.y - p.y, b.x - p.x, b.y - p.y} \subseteq Int
         /\ f(Edge(p, a, b)) = (a.x - p.x) * (b.y - p.y) - (b.x - p.x) * (a.y - p.y)
         /\ f(Edge(p, a, b)) \in Int
<1>1. {a.x, a.y, b.x, b.y, p.x, p.y} \subseteq Int
  BY DEF Point
<1>. QED
  BY <1>1 DEF Edge, f

(* The sign of an area is that of f, from whichever point it is taken.     *)
LEMMA SideIsF ==
  ASSUME NEW p \in Point, NEW a \in Point, NEW b \in Point
  PROVE  /\ Side(p, a, b) = f(Edge(p, a, b))
         /\ Side(a, b, p) = f(Edge(p, a, b))
<1>1. /\ a.x \in Int /\ a.y \in Int /\ b.x \in Int /\ b.y \in Int
      /\ p.x \in Int /\ p.y \in Int
  BY DEF Point
<1>2. f(Edge(p, a, b)) = (a.x - p.x) * (b.y - p.y) - (b.x - p.x) * (a.y - p.y)
  BY EdgeFacts
<1>3. Side(p, a, b) = (a.x - p.x) * (b.y - p.y) - (b.x - p.x) * (a.y - p.y)
  BY DEF Side
<1>4. Side(a, b, p) = (b.x - a.x) * (p.y - a.y) - (p.x - a.x) * (b.y - a.y)
  BY DEF Side
<1>5. (b.x - a.x) * (p.y - a.y) - (p.x - a.x) * (b.y - a.y)
        = (a.x - p.x) * (b.y - p.y) - (b.x - p.x) * (a.y - p.y)
  BY <1>1, SMT
<1>. QED
  BY <1>2, <1>3, <1>4, <1>5, Zenon

(***************************************************************************)
(* shp_point_in_polygon returns -1 for an edge just when the point is on   *)
(* it, level with an end of the edge or not.                               *)
(***************************************************************************)
LEMMA TouchesIsOnSegment ==
  ASSUME NEW p \in Point, NEW a \in Point, NEW b \in Point
  PROVE  Touches(Edge(p, a, b)) <=> OnSegment(p, a, b)
<1>. DEFINE e == Edge(p, a, b)
            u1 == a.x - p.x
            v1 == a.y - p.y
            u2 == b.x - p.x
            v2 == b.y - p.y
<1>1. /\ e.u1 = u1 /\ e.v1 = v1 /\ e.u2 = u2 /\ e.v2 = v2
      /\ u1 \in Int /\ v1 \in Int /\ u2 \in Int /\ v2 \in Int
      /\ f(e) = u1 * v2 - u2 * v1
  BY EdgeFacts
<1>2. OnSegment(p, a, b) <=> /\ f(e) = 0
                             /\ (u1 <= 0 /\ 0 <= u2) \/ (u2 <= 0 /\ 0 <= u1)
                             /\ (v1 <= 0 /\ 0 <= v2) \/ (v2 <= 0 /\ 0 <= v1)
  <2>1. {a.x, a.y, b.x, b.y, p.x, p.y} \subseteq Int
    BY DEF Point
  <2>2. p.x \in Min({a.x, b.x}) .. Max({a.x, b.x}) <=> (u1 <= 0 /\ 0 <= u2) \/ (u2 <= 0 /\ 0 <= u1)
    BY <2>1, InRange
  <2>3. p.y \in Min({a.y, b.y}) .. Max({a.y, b.y}) <=> (v1 <= 0 /\ 0 <= v2) \/ (v2 <= 0 /\ 0 <= v1)
    BY <2>1, InRange
  <2>4. Side(a, b, p) = f(e)
    BY SideIsF
  <2>. HIDE DEF e, u1, v1, u2, v2
  <2>. QED
    BY <2>2, <2>3, <2>4 DEF OnSegment
<1>. HIDE DEF e, u1, v1, u2, v2
<1>3. Touches(e) <=> \/ f(e) = 0 /\ ((v2 > 0 /\ v1 <= 0) \/ (v1 > 0 /\ v2 <= 0))
                     \/ f(e) = 0 /\ v2 = 0 /\ v1 < 0
                     \/ f(e) = 0 /\ v1 = 0 /\ v2 < 0
                     \/ v1 = 0 /\ v2 = 0 /\ u2 <= 0 /\ u1 >= 0
                     \/ v1 = 0 /\ v2 = 0 /\ u1 <= 0 /\ u2 >= 0
  BY <1>1 DEF Touches, UpOrDown
(* Where the heights of the ends differ, f = 0 has the point between them. *)
<1>4. ASSUME f(e) = 0, (v1 <= 0 /\ 0 <= v2) \/ (v2 <= 0 /\ 0 <= v1), v1 # v2
      PROVE  (u1 <= 0 /\ 0 <= u2) \/ (u2 <= 0 /\ 0 <= u1)
  <2>1. u1 * v2 = u2 * v1 /\ u1 * v2 \in Int /\ u2 * v1 \in Int
    BY <1>1, <1>4
  <2>2. /\ u1 > 0 /\ v2 > 0 => u1 * v2 > 0
        /\ u1 < 0 /\ v2 < 0 => u1 * v2 > 0
        /\ u1 > 0 /\ v2 < 0 => u1 * v2 < 0
        /\ u1 < 0 /\ v2 > 0 => u1 * v2 < 0
        /\ u1 = 0 \/ v2 = 0 => u1 * v2 = 0
    BY <1>1, SignOfProduct
  <2>3. /\ u2 > 0 /\ v1 > 0 => u2 * v1 > 0
        /\ u2 < 0 /\ v1 < 0 => u2 * v1 > 0
        /\ u2 > 0 /\ v1 < 0 => u2 * v1 < 0
        /\ u2 < 0 /\ v1 > 0 => u2 * v1 < 0
        /\ u2 = 0 \/ v1 = 0 => u2 * v1 = 0
    BY <1>1, SignOfProduct
  <2>. DEFINE P == u1 * v2
              Q == u2 * v1
  <2>4. P = Q /\ P \in Int /\ Q \in Int
    BY <2>1
  <2>. HIDE DEF P, Q
  <2>5. /\ u1 > 0 /\ v2 > 0 => P > 0
        /\ u1 < 0 /\ v2 < 0 => P > 0
        /\ u1 > 0 /\ v2 < 0 => P < 0
        /\ u1 < 0 /\ v2 > 0 => P < 0
        /\ u1 = 0 \/ v2 = 0 => P = 0
        /\ u2 > 0 /\ v1 > 0 => Q > 0
        /\ u2 < 0 /\ v1 < 0 => Q > 0
        /\ u2 > 0 /\ v1 < 0 => Q < 0
        /\ u2 < 0 /\ v1 > 0 => Q < 0
        /\ u2 = 0 \/ v1 = 0 => Q = 0
    BY <2>2, <2>3 DEF P, Q
  <2>. QED
    BY <1>1, <1>4, <2>4, <2>5
<1>5. v1 = 0 /\ v2 = 0 => f(e) = 0
  BY <1>1
<1>. QED
  BY <1>1, <1>2, <1>3, <1>4, <1>5 DEF e

(* A point is in the range of coordinates in which the line is flat.       *)
Near(p, a) == a.x - p.x < 3 * Reach /\ p.x - a.x < 3 * Reach

(* On which side of the flat line a point lies.                            *)
LEMMA SideOfLine ==
  ASSUME NEW p \in Point, NEW a \in Point, Near(p, a)
  PROVE  /\ Side(p, FarFrom(p), a) \in Int
         /\ Side(p, FarFrom(p), a) > 0 <=> a.y > p.y \/ (a.y = p.y /\ a.x < p.x)
         /\ Side(p, FarFrom(p), a) < 0 <=> a.y < p.y \/ (a.y = p.y /\ a.x > p.x)
<1>. DEFINE s == Side(p, FarFrom(p), a)
            u == a.x - p.x
            v == a.y - p.y
            w == 3 * Reach
<1>1. a.x \in Int /\ a.y \in Int /\ p.x \in Int /\ p.y \in Int /\ w \in Int /\ w > 0
  BY MCPointInPolygonAssumption DEF Point
<1>2. s = w * v - u
  <2>. DEFINE b == FarFrom(p)
  <2>1. b.x - p.x = w /\ b.y - p.y = 1
    <3>. HIDE DEF w
    <3>1. b.x = p.x + w /\ b.y = p.y + 1
      BY DEF FarFrom, Pt, w
    <3>. HIDE DEF b
    <3>. QED
      BY <1>1, <3>1
  <2>2. s = (b.x - p.x) * v - u * (b.y - p.y)
    BY DEF Side
  <2>3. u * 1 = u /\ u \in Int
    BY <1>1
  <2>. HIDE DEF b, s, u, v, w
  <2>. QED
    BY <2>1, <2>2, <2>3
<1>3. -w < u /\ u < w
  BY <1>1 DEF Near
<1>4. /\ v > 0 <=> a.y > p.y
      /\ v < 0 <=> a.y < p.y
      /\ v = 0 <=> a.y = p.y
      /\ u < 0 <=> a.x < p.x
      /\ u > 0 <=> a.x > p.x
      /\ u \in Int /\ v \in Int
  BY <1>1
<1>. DEFINE wv == w * v
<1>. HIDE DEF s, u, v, w
<1>5. /\ wv \in Int
      /\ v > 0 => wv >= w
      /\ v < 0 => wv <= -w
      /\ v = 0 => wv = 0
  <2>1. wv = w * (v - 1) + w /\ wv = w * (v + 1) - w
    BY <1>1, <1>4
  <2>2. w * (v - 1) \in Int /\ w * (v + 1) \in Int
    BY <1>1, <1>4
  <2>3. v > 0 => w * (v - 1) >= 0
    BY <1>1, <1>4, SignOfProduct
  <2>4. v < 0 => w * (v + 1) <= 0
    BY <1>1, <1>4, SignOfProduct
  <2>5. wv \in Int /\ (v = 0 => wv = 0)
    BY <1>1, <1>4, SignOfProduct
  <2>. HIDE DEF wv
  <2>. QED
    BY <1>1, <2>1, <2>2, <2>3, <2>4, <2>5
<1>6. s = wv - u
  BY <1>2
<1>. HIDE DEF wv
<1>7. s \in Int /\ (s > 0 <=> v > 0 \/ (v = 0 /\ u < 0)) /\ (s < 0 <=> v < 0 \/ (v = 0 /\ u > 0))
  BY <1>1, <1>3, <1>4, <1>5, <1>6
<1>. QED
  BY <1>4, <1>7 DEF s

(***************************************************************************)
(* An edge that is counted is one that a flat line from the point cuts:    *)
(* the ends that are level with the point are given to one side of it.     *)
(***************************************************************************)
LEMMA CrossesIsCut ==
  ASSUME NEW p \in Point, NEW a \in Point, NEW b \in Point, Near(p, a), Near(p, b)
  PROVE  Crosses(Edge(p, a, b)) <=> CutsLine(p, a, b)
<1>. DEFINE e == Edge(p, a, b)
            u1 == a.x - p.x
            v1 == a.y - p.y
            u2 == b.x - p.x
            v2 == b.y - p.y
            sa == Side(p, FarFrom(p), a)
            sb == Side(p, FarFrom(p), b)
<1>1. /\ e.u1 = u1 /\ e.v1 = v1 /\ e.u2 = u2 /\ e.v2 = v2
      /\ u1 \in Int /\ v1 \in Int /\ u2 \in Int /\ v2 \in Int
      /\ f(e) = u1 * v2 - u2 * v1 /\ f(e) \in Int
  BY EdgeFacts
<1>2. /\ sa > 0 <=> v1 > 0 \/ (v1 = 0 /\ u1 < 0)
      /\ sa < 0 <=> v1 < 0 \/ (v1 = 0 /\ u1 > 0)
      /\ sb > 0 <=> v2 > 0 \/ (v2 = 0 /\ u2 < 0)
      /\ sb < 0 <=> v2 < 0 \/ (v2 = 0 /\ u2 > 0)
  <2>1. {a.x, a.y, b.x, b.y, p.x, p.y} \subseteq Int
    BY DEF Point
  <2>. HIDE DEF sa, sb
  <2>2. /\ sa > 0 <=> a.y > p.y \/ (a.y = p.y /\ a.x < p.x)
        /\ sa < 0 <=> a.y < p.y \/ (a.y = p.y /\ a.x > p.x)
        /\ sb > 0 <=> b.y > p.y \/ (b.y = p.y /\ b.x < p.x)
        /\ sb < 0 <=> b.y < p.y \/ (b.y = p.y /\ b.x > p.x)
    BY SideOfLine DEF sa, sb
  <2>. QED
    BY <2>1, <2>2
<1>3. CutsLine(p, a, b) <=> (sa < 0 /\ sb > 0 /\ f(e) > 0) \/ (sa > 0 /\ sb < 0 /\ f(e) < 0)
  BY SideIsF DEF CutsLine
<1>. HIDE DEF e, u1, v1, u2, v2, sa, sb
<1>4. Crosses(e) <=> (v2 > 0 /\ v1 <= 0 /\ f(e) > 0) \/ (v1 > 0 /\ v2 <= 0 /\ f(e) < 0)
  BY <1>1 DEF Crosses
<1>5. v1 = 0 /\ v2 > 0 /\ f(e) > 0 => u1 > 0
  BY <1>1, SignOfProduct
<1>6. v2 = 0 /\ v1 > 0 /\ f(e) < 0 => u2 > 0
  BY <1>1, SignOfProduct
<1>7. v2 = 0 /\ u2 < 0 /\ v1 < 0 => f(e) < 0
  BY <1>1, SignOfProduct
<1>8. v1 = 0 /\ u1 < 0 /\ v2 < 0 => f(e) > 0
  BY <1>1, SignOfProduct
<1>9. v1 = 0 /\ v2 = 0 => f(e) = 0
  BY <1>1
<1>. QED
  BY <1>1, <1>2, <1>3, <1>4, <1>5, <1>6, <1>7, <1>8, <1>9 DEF e

-----------------------------------------------------------------------------
(* How often the values of a sequence of two values change.                *)
Changes(up, n) == {i \in 1 .. n - 1 : up[i] # up[i + 1]}

(* They change an even number of times between equal values.               *)
LEMMA EvenChanges ==
  ASSUME NEW n \in Nat \ {0}, NEW up \in [1 .. n -> {0, 1}]
  PROVE  /\ IsFiniteSet(Changes(up, n))
         /\ Cardinality(Changes(up, n)) % 2 = 0 <=> up[1] = up[n]
<1>. DEFINE Parity(k) == /\ IsFiniteSet(Changes(up, k)) /\ Cardinality(Changes(up, k)) \in Nat
                         /\ Cardinality(Changes(up, k)) % 2 = 0 <=> up[1] = up[k]
            Bad == {k \in 1 .. n : ~Parity(k)}
<1>1. Parity(1)
  <2>1. Changes(up, 1) = {}
    BY DEF Changes
  <2>2. IsFiniteSet({}) /\ Cardinality({}) = 0
    BY FS_EmptySet
  <2>3. IsFiniteSet(Changes(up, 1)) /\ Cardinality(Changes(up, 1)) = 0
    BY <2>1, <2>2
  <2>. QED
    BY <2>3
<1>2. ASSUME NEW k \in 1 .. n, k > 1, Parity(k - 1)
      PROVE  Parity(k)
  <2>1. /\ k - 1 \in 1 .. n /\ up[k - 1] \in {0, 1} /\ up[k] \in {0, 1} /\ up[1] \in {0, 1}
        /\ k - 1 + 1 = k
    BY <1>2
  <2>. DEFINE old == Changes(up, k - 1)
              new == Changes(up, k)
  <2>2. /\ IsFiniteSet(old) /\ Cardinality(old) \in Nat
        /\ Cardinality(old) % 2 = 0 <=> up[1] = up[k - 1]
    BY <1>2
  <2>3. k - 1 \notin old
    BY <2>1 DEF Changes
  <2>4. CASE up[k - 1] = up[k]
    <3>1. new = old
      BY <1>2, <2>1, <2>4 DEF Changes
    <3>. HIDE DEF old, new
    <3>. QED
      BY <2>2, <2>4, <3>1 DEF new
  <2>5. CASE up[k - 1] # up[k]
    <3>1. new = old \cup {k - 1}
      BY <1>2, <2>1, <2>5 DEF Changes
    <3>. HIDE DEF old, new
    <3>2. IsFiniteSet(new) /\ Cardinality(new) = Cardinality(old) + 1
      BY <2>2, <2>3, <3>1, FS_AddElement
    <3>. DEFINE c == Cardinality(old)
    <3>3. (c + 1) % 2 = 0 <=> c % 2 # 0
      BY <2>2
    <3>4. up[1] = up[k] <=> up[1] # up[k - 1]
      BY <2>1, <2>5
    <3>. QED
      BY <2>2, <3>2, <3>3, <3>4 DEF new
  <2>. QED
    BY <2>4, <2>5
<1>. HIDE DEF Parity
<1>3. Bad = {}
  <2>1. SUFFICES ASSUME Bad # {} PROVE FALSE
    OBVIOUS
  <2>2. PICK k \in Bad : \A j \in Bad : k <= j
    <3>1. Bad \in SUBSET Nat
      OBVIOUS
    <3>. HIDE DEF Bad
    <3>. QED
      BY <2>1, <3>1, LeastNumber
  <2>3. k \in 1 .. n /\ ~Parity(k)
    OBVIOUS
  <2>4. k # 1
    BY <1>1, <2>3
  <2>5. k - 1 \in 1 .. n /\ k - 1 \notin Bad
    BY <2>2, <2>3, <2>4
  <2>. QED
    BY <1>2, <2>3, <2>4, <2>5
<1>4. Parity(n)
  BY <1>3
<1>. QED
  BY <1>4 DEF Parity

(* The least and the largest of some coordinates.                          *)
LEMMA LeastAndLargest ==
  ASSUME NEW S, S # {}, S \subseteq -Reach .. Reach
  PROVE  /\ Min(S) \in S /\ \A y \in S : Min(S) <= y
         /\ Max(S) \in S /\ \A y \in S : Max(S) >= y
<1>. DEFINE r == Reach
<1>0. r \in Nat /\ \A x \in S : x \in Int /\ -r <= x /\ x <= r
  BY MCPointInPolygonAssumption
<1>. HIDE DEF r
<1>1. \E x \in S : \A y \in S : x <= y
  <2>. DEFINE T == {x + r : x \in S}
  <2>1. T \in SUBSET Nat /\ T # {}
    <3>1. \A x \in S : x + r \in Nat /\ x + r \in T
      BY <1>0
    <3>2. PICK x \in S : TRUE
      OBVIOUS
    <3>. QED
      BY <3>1, <3>2
  <2>2. PICK t \in T : \A k \in T : t <= k
    <3>. HIDE DEF T
    <3>. QED
      BY <2>1, LeastNumber
  <2>3. PICK x \in S : t = x + r
    OBVIOUS
  <2>4. \A y \in S : x + r <= y + r
    BY <2>2, <2>3
  <2>5. ASSUME NEW y \in S PROVE x <= y
    <3>1. x \in Int /\ y \in Int /\ x + r <= y + r /\ r \in Nat
      BY <1>0, <2>4
    <3>. HIDE DEF T
    <3>. QED
      BY <3>1
  <2>. QED
    BY <2>5
<1>2. \E x \in S : \A y \in S : x >= y
  <2>. DEFINE T == {r - x : x \in S}
  <2>1. T \in SUBSET Nat /\ T # {}
    <3>1. \A x \in S : r - x \in Nat /\ r - x \in T
      BY <1>0
    <3>2. PICK x \in S : TRUE
      OBVIOUS
    <3>. QED
      BY <3>1, <3>2
  <2>2. PICK t \in T : \A k \in T : t <= k
    <3>. HIDE DEF T
    <3>. QED
      BY <2>1, LeastNumber
  <2>3. PICK x \in S : t = r - x
    OBVIOUS
  <2>4. \A y \in S : r - x <= r - y
    BY <2>2, <2>3
  <2>5. ASSUME NEW y \in S PROVE x >= y
    <3>1. x \in Int /\ y \in Int /\ r - x <= r - y /\ r \in Nat
      BY <1>0, <2>4
    <3>. HIDE DEF T
    <3>. QED
      BY <3>1
  <2>. QED
    BY <2>5
<1>. QED
  BY <1>1, <1>2 DEF Min, Max

-----------------------------------------------------------------------------
(* The rings that are drawn, and the rings around or across them.          *)
Small == [x : -Reach .. Reach, y : -Reach .. Reach]

RingInv ==
  /\ ring \in Seq(Small) /\ Len(ring) <= MaxRing
  /\ others \in {<< <<>>, <<>> >>, <<Square(-1, 5), <<>> >>, << <<>>, Square(1, 4)>>}

(* It holds at first.                                                      *)
LEMMA RingInit ==
  ASSUME Init
  PROVE  RingInv
<1>1. ring = <<>> /\ others \in {<< <<>>, <<>> >>, <<Square(-1, 5), <<>> >>, << <<>>, Square(1, 4)>>}
  BY DEF Init, NoRing, FirstRing
<1>2. Len(<<>>) = 0 /\ <<>> \in Seq(Small)
  OBVIOUS
<1>. QED
  BY <1>1, <1>2, MCPointInPolygonAssumption DEF RingInv

(* Every step keeps it: only RingStep adds a corner.                       *)
LEMMA RingNext ==
  ASSUME RingInv, [Next]_<<shape, ring, others>>
  PROVE  RingInv'
<1>1. CASE UNCHANGED <<ring, others>>
  BY <1>1 DEF RingInv
<1>2. ASSUME NEW x \in Grid, NEW y \in Grid, AddCorner(x, y)
      PROVE  RingInv'
  <2>1. Pt(x, y) \in Small
    BY MCPointInPolygonAssumption DEF Pt, Small
  <2>2. ring' = Append(ring, Pt(x, y)) /\ others' = others /\ Len(ring) < MaxRing /\ ring \in Seq(Small)
    BY <1>2 DEF AddCorner, RingInv
  <2>3. ring' \in Seq(Small) /\ Len(ring') = Len(ring) + 1
    BY <2>1, <2>2
  <2>. QED
    BY <2>2, <2>3, MCPointInPolygonAssumption DEF RingInv
<1>. QED
  BY <1>1, <1>2 DEF Next, Longer, MoreParts, MorePoints, Fill, Grow, RingStep, DrawRing

(* A ring ends where it begins.                                            *)
IsRing(r) == r \in Seq(Small) /\ Len(r) >= 2 /\ r[1] = r[Len(r)]

(* The second rings are closed.                                            *)
LEMMA SquareIsRing ==
  ASSUME NEW low \in -Reach .. Reach, NEW high \in -Reach .. Reach
  PROVE  IsRing(Square(low, high)) /\ Len(Square(low, high)) = 5
<1>1. {Pt(low, low), Pt(low, high), Pt(high, high), Pt(high, low)} \subseteq Small
  BY DEF Pt, Small
<1>. DEFINE a == Pt(low, low)
            b == Pt(low, high)
            c == Pt(high, high)
            d == Pt(high, low)
<1>2. a \in Small /\ b \in Small /\ c \in Small /\ d \in Small
  BY <1>1
<1>3. Square(low, high) = <<a, b, c, d, a>>
  BY DEF Square
<1>. HIDE DEF a, b, c, d
<1>. QED
  BY <1>2, <1>3 DEF IsRing

(* So is the ring that is drawn, if it has a point.                        *)
LEMMA ClosedIsRing ==
  ASSUME RingInv
  PROVE  /\ Closed = <<>> \/ IsRing(Closed)
         /\ Closed \in Seq(Small) /\ Len(Closed) <= MaxRing + 1
<1>1. ring \in Seq(Small) /\ Len(ring) <= MaxRing /\ MaxRing \in Nat /\ Len(ring) \in Nat
  BY MCPointInPolygonAssumption DEF RingInv
<1>2. CASE ring = <<>>
  <2>1. Closed = <<>> /\ Len(<<>>) = 0 /\ <<>> \in Seq(Small)
    BY <1>2 DEF Closed
  <2>. QED
    BY <1>1, <2>1
<1>3. CASE ring # <<>>
  <2>1. Closed = Append(ring, ring[1]) /\ ring[1] \in Small /\ Len(ring) >= 1
    BY <1>1, <1>3 DEF Closed
  <2>2. /\ Closed \in Seq(Small) /\ Len(Closed) = Len(ring) + 1
        /\ Closed[1] = ring[1] /\ Closed[Len(ring) + 1] = ring[1]
    BY <1>1, <2>1
  <2>. QED
    BY <1>1, <2>1, <2>2 DEF IsRing
<1>. QED
  BY <1>2, <1>3

(* There is no ring, or one, or one behind another.                        *)
RingForms(rings, path) ==
  \/ rings = <<>>
  \/ \E r : IsRing(r) /\ rings = <<r>> /\ path = r
  \/ \E r, q : IsRing(r) /\ IsRing(q) /\ rings = <<r, q>> /\ path = r \o q

(* Nothing before or behind a sequence.                                    *)
LEMMA NothingBeside ==
  ASSUME NEW S, NEW s \in Seq(S)
  PROVE  <<>> \o s = s /\ s \o <<>> = s
BY ConcatEmptySeq

(* Two sequences of one element.                                           *)
LEMMA OneBehindOne ==
  ASSUME NEW a, NEW b
  PROVE  <<a>> \o <<b>> = <<a, b>>
<1>. DEFINE t == <<a>> \o <<b>>
<1>1. <<a>> \in Seq({a, b}) /\ <<b>> \in Seq({a, b}) /\ Len(<<a>>) = 1 /\ Len(<<b>>) = 1
  OBVIOUS
<1>2. /\ t \in Seq({a, b}) /\ Len(t) = 1 + 1
      /\ \A i \in 1 .. 1 + 1 : t[i] = IF i <= 1 THEN <<a>>[i] ELSE <<b>>[i - 1]
  BY <1>1, ConcatProperties
<1>. HIDE DEF t
<1>3. Len(t) = 2 /\ t[1] = a /\ t[2] = b
  BY <1>2
<1>4. t = <<a, b>>
  BY <1>2, <1>3
<1>. QED
  BY <1>4 DEF t

(* The rings have one of these forms, and few points.                      *)
LEMMA RingsFacts ==
  ASSUME RingInv
  PROVE  /\ RingForms(Rings, Path)
         /\ Path \in Seq(Small) /\ Len(Path) <= MaxRing + 6
<1>. DEFINE c == Closed
            one == OneRing(c)
<1>1. c = <<>> \/ IsRing(c)
  BY ClosedIsRing
<1>2. c \in Seq(Small) /\ Len(c) <= MaxRing + 1 /\ MaxRing \in Nat
  BY ClosedIsRing, MCPointInPolygonAssumption
<1>3. /\ c = <<>> => one = <<>>
      /\ c # <<>> => one = <<c>>
  BY DEF OneRing
<1>4. one \in Seq({c})
  <2>1. <<>> \in Seq({c}) /\ <<c>> \in Seq({c})
    OBVIOUS
  <2>. HIDE DEF one, c
  <2>. QED
    BY <1>3, <2>1
<1>5. OneRing(<<>>) = <<>>
  BY DEF OneRing
<1>6. \A r : IsRing(r) => r # <<>> /\ OneRing(r) = <<r>> /\ r \in Seq(Small)
  <2>1. ASSUME NEW r, IsRing(r) PROVE r # <<>> /\ r \in Seq(Small)
    <3>1. Len(r) >= 2 /\ Len(<<>>) = 0
      BY <2>1 DEF IsRing
    <3>. QED
      BY <2>1, <3>1 DEF IsRing
  <2>. QED
    BY <2>1 DEF OneRing
<1>7. /\ Rings = OneRing(others[1]) \o one \o OneRing(others[2])
      /\ Path = others[1] \o c \o others[2]
  BY DEF Rings, Path
<1>. HIDE DEF c, one
<1>8. CASE others = << <<>>, <<>> >>
  <2>1. Rings = <<>> \o one \o <<>> /\ Path = <<>> \o c \o <<>>
    BY <1>5, <1>7, <1>8
  <2>2. Rings = one /\ Path = c
    BY <1>2, <1>4, <2>1, NothingBeside
  <2>. QED
    BY <1>1, <1>2, <1>3, <2>2 DEF RingForms
<1>9. CASE others = <<Square(-1, 5), <<>> >>
  <2>. DEFINE q == Square(-1, 5)
  <2>1. IsRing(q) /\ Len(q) = 5
    <3>1. -1 \in -Reach .. Reach /\ 5 \in -Reach .. Reach
      BY MCPointInPolygonAssumption
    <3>. QED
      BY <3>1, SquareIsRing
  <2>. HIDE DEF q
  <2>2. others = <<q, <<>> >>
    BY <1>9 DEF q
  <2>3. Rings = <<q>> \o one \o <<>> /\ Path = q \o c \o <<>>
    BY <1>5, <1>6, <1>7, <2>1, <2>2
  <2>4. q \o c \in Seq(Small) /\ Len(q \o c) = 5 + Len(c) /\ q \in Seq(Small)
    <3>1. q \in Seq(Small) /\ c \in Seq(Small) /\ Len(c) \in Nat
      BY <1>2, <1>6, <2>1
    <3>2. q \o c \in Seq(Small) /\ Len(q \o c) = Len(q) + Len(c)
      BY <3>1, ConcatProperties
    <3>. QED
      BY <2>1, <3>1, <3>2
  <2>5. Path = q \o c
    BY <2>3, <2>4, NothingBeside
  <2>6. CASE c = <<>>
    <3>1. Rings = <<q>> /\ Path = q
      BY <1>3, <2>3, <2>4, <2>5, <2>6, NothingBeside
    <3>. QED
      BY <1>2, <2>1, <2>4, <3>1 DEF RingForms
  <2>7. CASE c # <<>>
    <3>1. Rings = <<q, c>>
      <4>1. Rings = (<<q>> \o <<c>>) \o <<>>
        BY <1>3, <2>3, <2>7
      <4>2. <<q>> \o <<c>> = <<q, c>> /\ <<q, c>> \in Seq({q, c})
        BY OneBehindOne
      <4>. QED
        BY <4>1, <4>2, NothingBeside
    <3>2. RingForms(Rings, Path)
      BY <1>1, <2>1, <2>5, <2>7, <3>1, Zenon DEF RingForms
    <3>. QED
      BY <1>2, <2>4, <2>5, <3>2
  <2>. QED
    BY <2>6, <2>7
<1>10. CASE others = << <<>>, Square(1, 4)>>
  <2>. DEFINE q == Square(1, 4)
  <2>1. IsRing(q) /\ Len(q) = 5
    <3>1. 1 \in -Reach .. Reach /\ 4 \in -Reach .. Reach
      BY MCPointInPolygonAssumption
    <3>. QED
      BY <3>1, SquareIsRing
  <2>. HIDE DEF q
  <2>2. others = << <<>>, q>>
    BY <1>10 DEF q
  <2>3. Rings = <<>> \o one \o <<q>> /\ Path = <<>> \o c \o q
    BY <1>5, <1>6, <1>7, <2>1, <2>2
  <2>4. c \o q \in Seq(Small) /\ Len(c \o q) = 5 + Len(c) /\ q \in Seq(Small)
    <3>1. q \in Seq(Small) /\ c \in Seq(Small) /\ Len(c) \in Nat
      BY <1>2, <1>6, <2>1
    <3>2. c \o q \in Seq(Small) /\ Len(c \o q) = Len(c) + Len(q)
      BY <3>1, ConcatProperties
    <3>. QED
      BY <2>1, <3>1, <3>2
  <2>5. Path = c \o q /\ Rings = one \o <<q>>
    BY <1>2, <1>4, <2>3, NothingBeside
  <2>6. CASE c = <<>>
    <3>1. Rings = <<q>> /\ Path = q
      <4>1. Rings = <<>> \o <<q>> /\ Path = <<>> \o q
        BY <1>3, <2>5, <2>6
      <4>2. <<q>> \in Seq({q})
        OBVIOUS
      <4>. QED
        BY <2>4, <4>1, <4>2, NothingBeside
    <3>. QED
      BY <1>2, <2>1, <2>4, <3>1 DEF RingForms
  <2>7. CASE c # <<>>
    <3>1. Rings = <<c, q>>
      BY <1>3, <2>5, <2>7, OneBehindOne
    <3>2. RingForms(Rings, Path)
      BY <1>1, <2>1, <2>5, <2>7, <3>1, Zenon DEF RingForms
    <3>. QED
      BY <1>2, <2>4, <2>5, <3>2
  <2>. QED
    BY <2>6, <2>7
<1>. QED
  BY <1>8, <1>9, <1>10 DEF RingInv

-----------------------------------------------------------------------------
(* The rings follow one another on the path.                               *)
LEMMA RingPlaces ==
  ASSUME RingInv, NEW k \in 1 .. Len(Rings)
  PROVE  /\ Len(Rings) \in {0, 1, 2} /\ IsRing(Rings[k])
         /\ Before(k) \in Nat /\ Len(Rings[k]) \in Nat
         /\ k < Len(Rings) => Before(k + 1) = Before(k) + Len(Rings[k])
         /\ k = Len(Rings) => Before(k) + Len(Rings[k]) = Len(Path)
         /\ \A i \in 1 .. Len(Rings[k]) : Path[Before(k) + i] = Rings[k][i]
<1>1. RingForms(Rings, Path)
  BY RingsFacts
<1>2. CASE Rings = <<>>
  BY <1>2
<1>3. ASSUME NEW r, IsRing(r), Rings = <<r>>, Path = r
      PROVE  /\ Len(Rings) = 1 /\ k = 1 /\ Rings[k] = r /\ Before(k) = 0
             /\ Len(r) \in Nat /\ Before(k) + Len(r) = Len(Path)
             /\ \A i \in 1 .. Len(r) : Path[Before(k) + i] = r[i]
  <2>1. Len(Rings) = 1 /\ k = 1 /\ Rings[1] = r
    BY <1>3
  <2>2. Before(k) = 0
    BY <2>1 DEF Before
  <2>3. Len(r) \in Nat
    BY <1>3 DEF IsRing
  <2>. QED
    BY <1>3, <2>1, <2>2, <2>3
<1>4. CASE \E r : IsRing(r) /\ Rings = <<r>> /\ Path = r
  <2>1. PICK r : IsRing(r) /\ Rings = <<r>> /\ Path = r
    BY <1>4
  <2>. QED
    BY <1>3, <2>1
<1>5. CASE \E r, q : IsRing(r) /\ IsRing(q) /\ Rings = <<r, q>> /\ Path = r \o q
  <2>1. PICK r, q : IsRing(r) /\ IsRing(q) /\ Rings = <<r, q>> /\ Path = r \o q
    BY <1>5
  <2>2. Len(Rings) = 2 /\ k \in {1, 2} /\ Rings[1] = r /\ Rings[2] = q
    BY <2>1
  <2>3. Before(1) = 0 /\ Before(2) = Len(r)
    BY <2>2 DEF Before
  <2>4. r \in Seq(Small) /\ q \in Seq(Small) /\ Len(r) \in Nat /\ Len(q) \in Nat
    BY <2>1 DEF IsRing
  <2>5. /\ Len(Path) = Len(r) + Len(q)
        /\ \A i \in 1 .. Len(r) + Len(q) : Path[i] = IF i <= Len(r) THEN r[i] ELSE q[i - Len(r)]
    BY <2>1, <2>4, ConcatProperties
  <2>6. CASE k = 1
    <3>1. \A i \in 1 .. Len(r) : Path[0 + i] = r[i]
      BY <2>4, <2>5
    <3>2. 1 + 1 = 2 /\ 0 + Len(r) = Len(r)
      BY <2>4
    <3>3. /\ Rings[k] = r /\ Before(k) = 0 /\ Before(k + 1) = Len(r) /\ Len(Rings) = 2
          /\ IsRing(r) /\ Len(r) \in Nat
      BY <2>1, <2>2, <2>3, <2>4, <2>6, <3>2
    <3>4. \A i \in 1 .. Len(Rings[k]) : Path[Before(k) + i] = Rings[k][i]
      BY ONLY <3>1, <3>3
    <3>. QED
      BY ONLY <2>6, <3>3, <3>4
  <2>7. CASE k = 2
    <3>1. ASSUME NEW i \in 1 .. Len(q) PROVE Path[Len(r) + i] = q[i]
      <4>1. Len(r) + i \in 1 .. Len(r) + Len(q) /\ ~(Len(r) + i <= Len(r)) /\ Len(r) + i - Len(r) = i
        BY <2>4
      <4>. QED
        BY <2>5, <4>1
    <3>2. /\ Rings[k] = q /\ Before(k) = Len(r) /\ Len(Rings) = 2 /\ IsRing(q)
          /\ Len(r) \in Nat /\ Len(q) \in Nat /\ Len(Path) = Len(r) + Len(q)
      BY <2>1, <2>2, <2>3, <2>4, <2>5, <2>7
    <3>3. \A i \in 1 .. Len(Rings[k]) : Path[Before(k) + i] = Rings[k][i]
      BY ONLY <3>1, <3>2
    <3>. QED
      BY ONLY <2>7, <3>2, <3>3
  <2>. QED
    BY <2>2, <2>6, <2>7
<1>. QED
  BY <1>1, <1>2, <1>4, <1>5 DEF RingForms

(* Rings do not overlap on the path, and end on it.                        *)
LEMMA RingsApart ==
  ASSUME RingInv, NEW k \in 1 .. Len(Rings), NEW l \in 1 .. Len(Rings)
  PROVE  /\ Before(k) + Len(Rings[k]) <= Len(Path)
         /\ k < l => Before(k) + Len(Rings[k]) <= Before(l)
<1>1. Len(Rings) \in {0, 1, 2}
  BY RingPlaces
<1>2. Len(Path) \in Nat
  BY RingsFacts
<1>3. CASE k = Len(Rings)
  BY <1>1, <1>2, <1>3, RingPlaces
<1>4. CASE k < Len(Rings)
  <2>1. k + 1 \in 1 .. Len(Rings) /\ k + 1 = Len(Rings) /\ (k < l => l = k + 1)
    <3>1. k \in Int /\ k >= 1 /\ l \in Int /\ l <= Len(Rings) /\ Len(Rings) \in Int
      BY <1>1
    <3>2. Len(Rings) = 2
      BY <1>1, <1>4, <3>1
    <3>3. k = 1 /\ l <= 2
      BY <1>4, <3>1, <3>2
    <3>4. k + 1 = 2 /\ (k < l => l = 2)
      BY <3>1, <3>3
    <3>. QED
      BY <3>2, <3>4
  <2>2. Before(k + 1) = Before(k) + Len(Rings[k]) /\ Before(k) \in Nat /\ Len(Rings[k]) \in Nat
    BY <1>4, RingPlaces
  <2>3. /\ Before(k + 1) + Len(Rings[k + 1]) = Len(Path)
        /\ Before(k + 1) \in Nat /\ Len(Rings[k + 1]) \in Nat
    BY <2>1, RingPlaces
  <2>4. Before(k) + Len(Rings[k]) <= Len(Path)
    BY <1>2, <2>2, <2>3
  <2>. QED
    BY <2>1, <2>2, <2>4
<1>. QED
  BY <1>1, <1>3, <1>4

(* The part table says where the rings are.                                *)
LEMMA RingIsPart ==
  ASSUME RingInv, NEW k \in 1 .. Len(Rings)
  PROVE  shp_polygon_points(Polygon.shape, k - 1) =
           [start |-> Before(k), end |-> Before(k) + Len(Rings[k]), num_points |-> Len(Rings[k])]
<1>. DEFINE s == Polygon.shape
            i == Before(k)
            n == Len(Rings[k])
<1>1. /\ s.rec.parts = Len(Rings) /\ s.rec.points = Len(Path)
      /\ s.table = [p \in 0 .. Len(Rings) - 1 |-> Before(p + 1)]
  BY DEF Polygon
<1>2. /\ Len(Rings) \in {0, 1, 2} /\ i \in Nat /\ n \in Nat /\ n > 0
  BY RingPlaces DEF IsRing
<1>3. i + n <= Len(Path) /\ Len(Path) \in Nat /\ Len(Path) < SizeModulus
  <2>1. Len(Path) \in Nat /\ Len(Path) <= MaxRing + 6
    BY RingsFacts
  <2>2. MaxRing + 6 < SizeModulus /\ MaxRing \in Nat /\ SizeModulus \in Nat
    BY MCPointInPolygonAssumption, ShpLayoutAssumption
  <2>. QED
    BY <2>1, <2>2, RingsApart
<1>4. k - 1 \in 0 .. Len(Rings) - 1 /\ k - 1 + 1 = k
  BY <1>2
<1>. HIDE DEF s, i, n
<1>5. Entry(s, k - 1) = i
  <2>1. s.table[k - 1] = i
    BY <1>1, <1>4 DEF i
  <2>2. i < SizeModulus
    BY <1>2, <1>3, ShpLayoutAssumption
  <2>. QED
    BY <1>2, <2>1, <2>2, NoWrap DEF Entry
<1>6. (IF k - 1 + 1 < s.rec.parts THEN Entry(s, k - 1 + 1) ELSE s.rec.points) = i + n
  <2>1. CASE k < Len(Rings)
    <3>1. k \in 0 .. Len(Rings) - 1 /\ s.table[k] = Before(k + 1)
      BY <1>1, <1>2, <2>1
    <3>2. Before(k + 1) = i + n
      BY <2>1, RingPlaces DEF i, n
    <3>3. size_t(i + n) = i + n
      <4>1. i + n \in Nat /\ i + n < SizeModulus
        BY <1>2, <1>3, ShpLayoutAssumption
      <4>. QED
        BY <4>1, NoWrap
    <3>. QED
      BY <1>1, <1>4, <2>1, <3>1, <3>2, <3>3 DEF Entry
  <2>2. CASE ~(k < Len(Rings))
    <3>1. k = Len(Rings)
      BY <1>2, <2>2
    <3>2. i + n = Len(Path)
      BY <3>1, RingPlaces DEF i, n
    <3>. QED
      BY <1>1, <1>4, <2>2, <3>2
  <2>. QED
    BY <2>1, <2>2
<1>7. ValidRange(i, i + n, s.rec.points)
  BY <1>1, <1>2, <1>3 DEF ValidRange
<1>8. size_t((i + n) - i) = n
  <2>1. (i + n) - i = n /\ n < SizeModulus
    BY <1>2, <1>3, ShpLayoutAssumption
  <2>. QED
    BY <1>2, <2>1, NoWrap
<1>. QED
  BY <1>5, <1>6, <1>7, <1>8 DEF shp_polygon_points, part_range, s, i, n

-----------------------------------------------------------------------------
(* Each element of one set stands for one of the other.                    *)
LEMMA SameNumber ==
  ASSUME NEW A, NEW B, NEW g \in [A -> B], IsFiniteSet(B),
         \A x, y \in A : g[x] = g[y] => x = y,
         \A y \in B : \E x \in A : g[x] = y
  PROVE  IsFiniteSet(A) /\ Cardinality(A) = Cardinality(B)
<1>1. g \in Injection(A, B)
  BY DEF Injection, IsInjective
<1>2. g \in Surjection(A, B)
  BY DEF Surjection
<1>. QED
  BY <1>1, <1>2, FS_Injection

(* A corner is a point, with its coordinates in reach.                     *)
LEMMA SmallIsPoint ==
  ASSUME NEW a \in Small
  PROVE  /\ a \in Point
         /\ a.x \in -Reach .. Reach /\ a.y \in -Reach .. Reach
         /\ a.x \in Int /\ a.y \in Int
<1>1. a.x \in -Reach .. Reach /\ a.y \in -Reach .. Reach /\ a = [x |-> a.x, y |-> a.y]
  BY DEF Small
<1>2. a.x \in Int /\ a.y \in Int
  BY <1>1
<1>3. a \in Point
  BY <1>1, <1>2 DEF Point
<1>. QED
  BY <1>1, <1>2, <1>3

(* The ends of an edge, and its place among the points of the polygon.     *)
EndA(e)   == Rings[e[1]][e[2]]
EndB(e)   == Rings[e[1]][e[2] + 1]
EdgeAt(e) == Before(e[1]) + e[2] - 1

(* Both ends of an edge are on the path, one behind the other.             *)
LEMMA EdgesOfRings ==
  ASSUME RingInv, NEW e \in RingEdges
  PROVE  /\ e = <<e[1], e[2]>> /\ e[1] \in 1 .. Len(Rings) /\ e[2] \in 1 .. Len(Rings[e[1]]) - 1
         /\ Len(Rings[e[1]]) >= 4
         /\ EndA(e) \in Small /\ EndB(e) \in Small
         /\ EdgeAt(e) \in 0 .. Len(Path) - 2
         /\ EndA(e) = Path[EdgeAt(e) + 1] /\ EndB(e) = Path[EdgeAt(e) + 2]
<1>1. PICK k \in {j \in DOMAIN Rings : Len(Rings[j]) >= 4} :
        e \in {<<k, i>> : i \in 1 .. Len(Rings[k]) - 1}
  BY DEF RingEdges
<1>2. PICK i \in 1 .. Len(Rings[k]) - 1 : e = <<k, i>>
  BY <1>1
<1>3. e[1] = k /\ e[2] = i /\ Len(Rings[k]) >= 4
  BY <1>1, <1>2
<1>4. k \in 1 .. Len(Rings)
  <2>1. DOMAIN Rings = 1 .. Len(Rings)
    <3>1. RingForms(Rings, Path)
      BY RingsFacts
    <3>2. ASSUME NEW r PROVE DOMAIN <<r>> = 1 .. Len(<<r>>)
      OBVIOUS
    <3>3. ASSUME NEW r, NEW q PROVE DOMAIN <<r, q>> = 1 .. Len(<<r, q>>)
      OBVIOUS
    <3>4. DOMAIN <<>> = 1 .. Len(<<>>)
      OBVIOUS
    <3>. QED
      BY <3>1, <3>2, <3>3, <3>4 DEF RingForms
  <2>. QED
    BY <1>1, <2>1
<1>5. /\ Before(k) \in Nat /\ Len(Rings[k]) \in Nat /\ Rings[k] \in Seq(Small)
      /\ \A j \in 1 .. Len(Rings[k]) : Path[Before(k) + j] = Rings[k][j]
  BY <1>4, RingPlaces DEF IsRing
<1>6. Before(k) + Len(Rings[k]) <= Len(Path) /\ Len(Path) \in Nat
  BY <1>4, RingsApart, RingsFacts
<1>7. i \in Int /\ 1 <= i /\ i + 1 <= Len(Rings[k])
  BY <1>2, <1>5
<1>8. i \in 1 .. Len(Rings[k]) /\ i + 1 \in 1 .. Len(Rings[k])
  BY <1>5, <1>7
<1>9. Rings[k][i] \in Small /\ Rings[k][i + 1] \in Small
  BY <1>5, <1>8
<1>10. EdgeAt(e) = Before(k) + i - 1
  BY <1>3 DEF EdgeAt
<1>11. /\ EdgeAt(e) \in 0 .. Len(Path) - 2
       /\ EdgeAt(e) + 1 = Before(k) + i /\ EdgeAt(e) + 2 = Before(k) + (i + 1)
  BY <1>5, <1>6, <1>7, <1>10
<1>12. EndA(e) = Rings[k][i] /\ EndB(e) = Rings[k][i + 1]
  BY <1>3 DEF EndA, EndB
<1>. QED
  BY <1>2, <1>3, <1>4, <1>5, <1>8, <1>9, <1>11, <1>12

(* Two edges do not have the same place.                                   *)
LEMMA EdgesApart ==
  ASSUME RingInv, NEW d \in RingEdges, NEW e \in RingEdges, EdgeAt(d) = EdgeAt(e)
  PROVE  d = e
<1>. DEFINE k == d[1]
            i == d[2]
            l == e[1]
            j == e[2]
<1>1. /\ d = <<k, i>> /\ k \in 1 .. Len(Rings) /\ i \in 1 .. Len(Rings[k]) - 1
      /\ e = <<l, j>> /\ l \in 1 .. Len(Rings) /\ j \in 1 .. Len(Rings[l]) - 1
  BY EdgesOfRings
<1>2. Before(k) + i - 1 = Before(l) + j - 1
  BY DEF EdgeAt
<1>. HIDE DEF k, i, l, j
<1>3. /\ Before(k) \in Nat /\ Len(Rings[k]) \in Nat /\ Before(l) \in Nat /\ Len(Rings[l]) \in Nat
      /\ k \in Int /\ l \in Int
  BY <1>1, RingPlaces
<1>4. ~(k < l)
  <2>1. k \in 1 .. Len(Rings) /\ l \in 1 .. Len(Rings)
    BY <1>1
  <2>2. k < l => Before(k) + Len(Rings[k]) <= Before(l)
    BY ONLY <2>1, RingInv, RingsApart
  <2>3. i \in Int /\ i <= Len(Rings[k]) - 1 /\ j \in Int /\ j >= 1
    BY <1>1, <1>3
  <2>. QED
    BY ONLY <1>2, <1>3, <2>2, <2>3
<1>5. ~(l < k)
  <2>1. l < k => Before(l) + Len(Rings[l]) <= Before(k)
    <3>1. k \in 1 .. Len(Rings) /\ l \in 1 .. Len(Rings)
      BY <1>1
    <3>. QED
      BY ONLY <3>1, RingInv, RingsApart
  <2>. QED
    BY <1>1, <1>2, <1>3, <2>1
<1>6. k = l
  BY <1>3, <1>4, <1>5
<1>7. i = j
  BY <1>1, <1>2, <1>3, <1>6
<1>. QED
  BY <1>1, <1>6, <1>7

(* The points of a part that begin an edge.                                *)
EdgeStartsOf(part) == {i \in part.start .. part.end - 2 : part.num_points >= 4}

(* The points that begin an edge are the places of the rings' edges.       *)
LEMMA StartsAreEdges ==
  ASSUME RingInv, Rings # <<>>
  PROVE  EdgeStarts(Polygon.shape) = {EdgeAt(e) : e \in RingEdges}
<1>. DEFINE s == Polygon.shape
            Starts(p) == EdgeStartsOf(shp_polygon_points(s, p))
<1>1. PartNums(s.rec) = 0 .. Len(Rings) - 1
  BY DEF Polygon, PartNums
<1>2. Len(Rings) \in Nat /\ DOMAIN Rings = 1 .. Len(Rings)
  <2>1. RingForms(Rings, Path)
    BY RingsFacts
  <2>2. ASSUME NEW r PROVE DOMAIN <<r>> = 1 .. Len(<<r>>) /\ Len(<<r>>) \in Nat
    OBVIOUS
  <2>3. ASSUME NEW r, NEW q PROVE DOMAIN <<r, q>> = 1 .. Len(<<r, q>>) /\ Len(<<r, q>>) \in Nat
    OBVIOUS
  <2>. QED
    BY <2>1, <2>2, <2>3 DEF RingForms
<1>3. EdgeStarts(s) = UNION {Starts(p) : p \in 0 .. Len(Rings) - 1}
  BY <1>1 DEF EdgeStarts, EdgeStartsOf
<1>4. ASSUME NEW k \in 1 .. Len(Rings)
      PROVE  \A n : n \in Starts(k - 1) <=>
                      n \in Before(k) .. Before(k) + Len(Rings[k]) - 2 /\ Len(Rings[k]) >= 4
  <2>. DEFINE part == [start |-> Before(k), end |-> Before(k) + Len(Rings[k]), num_points |-> Len(Rings[k])]
  <2>1. Starts(k - 1) = EdgeStartsOf(part)
    BY <1>4, RingIsPart
  <2>2. part.start = Before(k) /\ part.end = Before(k) + Len(Rings[k]) /\ part.num_points = Len(Rings[k])
    OBVIOUS
  <2>. HIDE DEF part, Starts
  <2>3. \A n : n \in EdgeStartsOf(part) <=>
                n \in Before(k) .. Before(k) + Len(Rings[k]) - 2 /\ Len(Rings[k]) >= 4
    <3>1. Before(k) \in Int /\ Len(Rings[k]) \in Int
      BY <1>4, RingPlaces
    <3>2. part.start \in Int /\ part.end \in Int
      BY <2>2, <3>1
    <3>. QED
      BY <2>2, <3>1, <3>2 DEF EdgeStartsOf
  <2>. QED
    BY <2>1, <2>3, Zenon
<1>. HIDE DEF s, Starts
<1>5. ASSUME NEW n \in EdgeStarts(s)
      PROVE  \E e \in RingEdges : n = EdgeAt(e)
  <2>1. PICK p \in 0 .. Len(Rings) - 1 : n \in Starts(p)
    BY <1>3
  <2>. DEFINE k == p + 1
  <2>2. k \in 1 .. Len(Rings) /\ k - 1 = p
    BY <1>2
  <2>. HIDE DEF k
  <2>3. n \in Before(k) .. Before(k) + Len(Rings[k]) - 2 /\ Len(Rings[k]) >= 4
    BY <1>4, <2>1, <2>2
  <2>4. Before(k) \in Nat /\ Len(Rings[k]) \in Nat
    BY <2>2, RingPlaces
  <2>. DEFINE i == n - Before(k) + 1
  <2>5. i \in 1 .. Len(Rings[k]) - 1 /\ Before(k) + i - 1 = n
    BY <2>3, <2>4
  <2>. HIDE DEF i
  <2>6. <<k, i>> \in RingEdges
    <3>1. k \in {j \in DOMAIN Rings : Len(Rings[j]) >= 4}
      BY <1>2, <2>2, <2>3
    <3>2. <<k, i>> \in {<<k, h>> : h \in 1 .. Len(Rings[k]) - 1}
      BY <2>5
    <3>. QED
      BY <3>1, <3>2 DEF RingEdges
  <2>7. EdgeAt(<<k, i>>) = n
    BY <2>5 DEF EdgeAt
  <2>. QED
    BY <2>6, <2>7
<1>6. ASSUME NEW e \in RingEdges
      PROVE  EdgeAt(e) \in EdgeStarts(s)
  <2>. DEFINE k == e[1]
              i == e[2]
  <2>1. k \in 1 .. Len(Rings) /\ i \in 1 .. Len(Rings[k]) - 1 /\ Len(Rings[k]) >= 4
    BY EdgesOfRings
  <2>2. EdgeAt(e) = Before(k) + i - 1
    BY DEF EdgeAt
  <2>. HIDE DEF k, i
  <2>3. Before(k) \in Nat /\ Len(Rings[k]) \in Nat
    BY <2>1, RingPlaces
  <2>4. EdgeAt(e) \in Before(k) .. Before(k) + Len(Rings[k]) - 2
    BY <2>1, <2>2, <2>3
  <2>5. EdgeAt(e) \in Starts(k - 1)
    BY <1>4, <2>1, <2>4
  <2>6. k - 1 \in 0 .. Len(Rings) - 1
    BY <1>2, <2>1
  <2>. QED
    BY <1>3, <2>5, <2>6
<1>. QED
  BY <1>5, <1>6 DEF s

(* There are finitely many edges.                                          *)
LEMMA FiniteEdges ==
  ASSUME RingInv
  PROVE  IsFiniteSet(RingEdges)
<1>1. Len(Path) \in Nat
  BY RingsFacts
<1>. DEFINE Places == {EdgeAt(e) : e \in RingEdges}
            g == [e \in RingEdges |-> EdgeAt(e)]
<1>2. IsFiniteSet(Places)
  <2>1. \A e \in RingEdges : EdgeAt(e) \in 0 .. Len(Path) - 2
    BY EdgesOfRings
  <2>2. Places \in SUBSET (0 .. Len(Path) - 2)
    BY <2>1
  <2>3. IsFiniteSet(0 .. Len(Path) - 2)
    BY <1>1, FS_Interval
  <2>. QED
    BY <2>2, <2>3, FS_Subset
<1>3. g \in [RingEdges -> Places] /\ \A e \in RingEdges : g[e] = EdgeAt(e)
  OBVIOUS
<1>4. \A d, e \in RingEdges : g[d] = g[e] => d = e
  BY EdgesApart
<1>5. \A y \in Places : \E e \in RingEdges : g[e] = y
  OBVIOUS
<1>. HIDE DEF Places, g
<1>. QED
  BY <1>2, <1>3, <1>4, <1>5, SameNumber

(***************************************************************************)
(* What shp_point_in_polygon sees of the edges is what they are: it        *)
(* counts as many edges as the flat line cuts and finds the point on an    *)
(* edge when it is on one.                                                 *)
(***************************************************************************)
LEMMA EdgesAreSeen ==
  ASSUME RingInv, Rings # <<>>, NEW p \in Point, \A a \in Small : Near(p, a)
  PROVE  LET e == EdgesSeen(p, Polygon)
         IN  /\ Cardinality({i \in DOMAIN e : Crosses(e[i])}) =
                  Cardinality({d \in RingEdges : CutsLine(p, EndA(d), EndB(d))})
             /\ (\E i \in DOMAIN e : Touches(e[i])) <=>
                  \E d \in RingEdges : OnSegment(p, EndA(d), EndB(d))
<1>. DEFINE e == EdgesSeen(p, Polygon)
<1>1. DOMAIN e = {EdgeAt(d) : d \in RingEdges}
  BY StartsAreEdges DEF EdgesSeen
<1>2. ASSUME NEW d \in RingEdges
      PROVE  /\ EdgeAt(d) \in DOMAIN e /\ e[EdgeAt(d)] = Edge(p, EndA(d), EndB(d))
             /\ Crosses(e[EdgeAt(d)]) <=> CutsLine(p, EndA(d), EndB(d))
             /\ Touches(e[EdgeAt(d)]) <=> OnSegment(p, EndA(d), EndB(d))
  <2>. DEFINE n == EdgeAt(d)
  <2>1. /\ EndA(d) \in Small /\ EndB(d) \in Small /\ n \in 0 .. Len(Path) - 2
        /\ EndA(d) = Path[n + 1] /\ EndB(d) = Path[n + 2]
    BY EdgesOfRings
  <2>2. n \in DOMAIN e
    BY <1>1
  <2>. HIDE DEF n
  <2>3. e[n] = Edge(p, Polygon.points[n], Polygon.points[n + 1])
    BY <2>2 DEF EdgesSeen
  <2>4. Polygon.points = [i \in 0 .. Len(Path) - 1 |-> Path[i + 1]]
    BY DEF Polygon
  <2>5. Len(Path) \in Nat
    BY RingsFacts
  <2>6. /\ n \in 0 .. Len(Path) - 1 /\ n + 1 \in 0 .. Len(Path) - 1 /\ n + 1 + 1 = n + 2
    BY <2>1, <2>5
  <2>7. Polygon.points[n] = Path[n + 1] /\ Polygon.points[n + 1] = Path[n + 2]
    BY <2>4, <2>6
  <2>8. e[n] = Edge(p, EndA(d), EndB(d))
    BY <2>1, <2>3, <2>7
  <2>9. EndA(d) \in Point /\ EndB(d) \in Point
    BY <2>1, SmallIsPoint
  <2>10. Crosses(Edge(p, EndA(d), EndB(d))) <=> CutsLine(p, EndA(d), EndB(d))
    BY <2>1, <2>9, CrossesIsCut
  <2>11. Touches(Edge(p, EndA(d), EndB(d))) <=> OnSegment(p, EndA(d), EndB(d))
    BY <2>9, TouchesIsOnSegment
  <2>. HIDE DEF e
  <2>. QED
    BY <2>2, <2>8, <2>10, <2>11 DEF n
<1>. HIDE DEF e
<1>. DEFINE A == {d \in RingEdges : CutsLine(p, EndA(d), EndB(d))}
            B == {i \in DOMAIN e : Crosses(e[i])}
            g == [d \in A |-> EdgeAt(d)]
<1>3. g \in [A -> B] /\ \A d \in A : g[d] = EdgeAt(d)
  BY <1>2
<1>4. \A c, d \in A : g[c] = g[d] => c = d
  BY <1>3, EdgesApart
<1>5. \A y \in B : \E d \in A : g[d] = y
  BY <1>1, <1>2
<1>6. IsFiniteSet(B)
  <2>1. Len(Path) \in Nat
    BY RingsFacts
  <2>2. B \in SUBSET (0 .. Len(Path) - 2)
    BY <1>1, EdgesOfRings
  <2>3. IsFiniteSet(0 .. Len(Path) - 2)
    BY <2>1, FS_Interval
  <2>. HIDE DEF B
  <2>. QED
    BY <2>2, <2>3, FS_Subset
<1>7. Cardinality(A) = Cardinality(B)
  <2>. HIDE DEF A, B, g
  <2>. QED
    BY <1>3, <1>4, <1>5, <1>6, SameNumber
<1>8. (\E i \in DOMAIN e : Touches(e[i])) <=> \E d \in RingEdges : OnSegment(p, EndA(d), EndB(d))
  BY <1>1, <1>2
<1>. QED
  BY <1>7, <1>8 DEF e

-----------------------------------------------------------------------------
(* No corner of the rings is outside the box of the polygon.               *)
LEMMA CornersInBox ==
  ASSUME RingInv, NEW e \in RingEdges
  PROVE  LET box == Polygon.box
         IN  /\ {box.x_min, box.x_max, box.y_min, box.y_max} \subseteq Int
             /\ \A a \in {EndA(e), EndB(e)} : /\ box.x_min <= a.x /\ a.x <= box.x_max
                                            /\ box.y_min <= a.y /\ a.y <= box.y_max
<1>. DEFINE Xs == {Path[i].x : i \in DOMAIN Path}
            Ys == {Path[i].y : i \in DOMAIN Path}
            box == Polygon.box
<1>1. box.x_min = Min(Xs) /\ box.x_max = Max(Xs) /\ box.y_min = Min(Ys) /\ box.y_max = Max(Ys)
  BY DEF Polygon
<1>2. /\ Path \in Seq(Small) /\ Len(Path) \in Nat /\ DOMAIN Path = 1 .. Len(Path)
  BY RingsFacts
<1>3. /\ Xs \subseteq -Reach .. Reach /\ Ys \subseteq -Reach .. Reach
      /\ Xs \subseteq Int /\ Ys \subseteq Int
  <2>1. \A i \in 1 .. Len(Path) : Path[i] \in Small
    BY <1>2
  <2>. QED
    BY <1>2, <2>1, SmallIsPoint
<1>4. {EndA(e).x, EndB(e).x} \subseteq Xs /\ {EndA(e).y, EndB(e).y} \subseteq Ys
  <2>1. EdgeAt(e) \in 0 .. Len(Path) - 2 /\ EndA(e) = Path[EdgeAt(e) + 1] /\ EndB(e) = Path[EdgeAt(e) + 2]
    BY EdgesOfRings
  <2>2. EdgeAt(e) + 1 \in DOMAIN Path /\ EdgeAt(e) + 2 \in DOMAIN Path
    BY <1>2, <2>1
  <2>. QED
    BY <2>1, <2>2
<1>. HIDE DEF Xs, Ys, box
<1>5. /\ Min(Xs) \in Xs /\ \A y \in Xs : Min(Xs) <= y
      /\ Max(Xs) \in Xs /\ \A y \in Xs : Max(Xs) >= y
  BY <1>3, <1>4, LeastAndLargest
<1>6. /\ Min(Ys) \in Ys /\ \A y \in Ys : Min(Ys) <= y
      /\ Max(Ys) \in Ys /\ \A y \in Ys : Max(Ys) >= y
  BY <1>3, <1>4, LeastAndLargest
<1>7. {box.x_min, box.x_max, box.y_min, box.y_max} \subseteq Int
  BY <1>1, <1>3, <1>5, <1>6
<1>8. ASSUME NEW a \in {EndA(e), EndB(e)}
      PROVE  /\ box.x_min <= a.x /\ a.x <= box.x_max
             /\ box.y_min <= a.y /\ a.y <= box.y_max
  <2>1. a.x \in Xs /\ a.y \in Ys
    BY <1>4
  <2>2. a.x \in Int /\ a.y \in Int
    BY <1>3, <2>1
  <2>. QED
    BY <1>1, <1>5, <1>6, <1>7, <2>1, <2>2
<1>. QED
  BY <1>7, <1>8 DEF box

(* On which side of the box a point is; all corners are on the other.      *)
Beside(p, a, b) ==
  \/ a.y < p.y /\ b.y < p.y
  \/ a.y > p.y /\ b.y > p.y
  \/ a.x < p.x /\ b.x < p.x

LeftOf(p, a, b) == a.x > p.x /\ b.x > p.x

(* What it is for a point to be outside the box.                           *)
LEMMA OutsideBox ==
  ASSUME RingInv, NEW p \in Point, shp_point_in_bounding_box(p, Polygon.box) = 0
  PROVE  \/ \A e \in RingEdges : Beside(p, EndA(e), EndB(e))
         \/ \A e \in RingEdges : LeftOf(p, EndA(e), EndB(e))
<1>. DEFINE box == Polygon.box
<1>1. ~(p.x >= box.x_min /\ p.x <= box.x_max /\ p.y >= box.y_min /\ p.y <= box.y_max)
  <2>. HIDE DEF box
  <2>1. 0 # 1 /\ 0 # -1
    OBVIOUS
  <2>2. shp_point_in_bounding_box(p, box) = 0
    BY DEF box
  <2>. QED
    BY <2>1, <2>2 DEF shp_point_in_bounding_box
<1>2. p.x \in Int /\ p.y \in Int
  BY DEF Point
<1>3. ASSUME NEW e \in RingEdges
      PROVE  /\ {box.x_min, box.x_max, box.y_min, box.y_max} \subseteq Int
             /\ \A a \in {EndA(e), EndB(e)} : /\ box.x_min <= a.x /\ a.x <= box.x_max
                                            /\ box.y_min <= a.y /\ a.y <= box.y_max
                                            /\ a.x \in Int /\ a.y \in Int
  <2>1. \A a \in {EndA(e), EndB(e)} : a.x \in Int /\ a.y \in Int
    <3>1. EndA(e) \in Small /\ EndB(e) \in Small
      BY EdgesOfRings
    <3>. QED
      BY <3>1, SmallIsPoint
  <2>. QED
    BY <2>1, CornersInBox
<1>. HIDE DEF box
<1>4. ASSUME NEW e \in RingEdges, p.x < box.x_min
      PROVE  LeftOf(p, EndA(e), EndB(e))
  BY <1>2, <1>3, <1>4 DEF LeftOf
<1>5. ASSUME NEW e \in RingEdges, p.x > box.x_max
      PROVE  Beside(p, EndA(e), EndB(e))
  BY <1>2, <1>3, <1>5 DEF Beside
<1>6. ASSUME NEW e \in RingEdges, p.y < box.y_min
      PROVE  Beside(p, EndA(e), EndB(e))
  BY <1>2, <1>3, <1>6 DEF Beside
<1>7. ASSUME NEW e \in RingEdges, p.y > box.y_max
      PROVE  Beside(p, EndA(e), EndB(e))
  BY <1>2, <1>3, <1>7 DEF Beside
<1>8. CASE RingEdges = {}
  BY <1>8
<1>9. CASE RingEdges # {}
  <2>1. {box.x_min, box.x_max, box.y_min, box.y_max} \subseteq Int
    BY <1>3, <1>9
  <2>2. p.x < box.x_min \/ p.x > box.x_max \/ p.y < box.y_min \/ p.y > box.y_max
    BY <1>1, <1>2, <2>1
  <2>. QED
    BY <1>4, <1>5, <1>6, <1>7, <2>2
<1>. QED
  BY <1>8, <1>9

(* Which ends of an edge are above the point.                              *)
Above(p, a) == IF a.y > p.y THEN 1 ELSE 0

(* An edge on one side of the point is not counted; an edge to the right   *)
(* of it is counted when one of its ends is above the point.               *)
LEMMA EdgeOutside ==
  ASSUME NEW p \in Point, NEW a \in Point, NEW b \in Point
  PROVE  /\ Beside(p, a, b) => ~Crosses(Edge(p, a, b)) /\ ~OnSegment(p, a, b)
         /\ LeftOf(p, a, b) => /\ Crosses(Edge(p, a, b)) <=> Above(p, a) # Above(p, b)
                               /\ ~OnSegment(p, a, b)
<1>. DEFINE e == Edge(p, a, b)
            u1 == a.x - p.x
            v1 == a.y - p.y
            u2 == b.x - p.x
            v2 == b.y - p.y
<1>1. /\ e.u1 = u1 /\ e.v1 = v1 /\ e.u2 = u2 /\ e.v2 = v2
      /\ u1 \in Int /\ v1 \in Int /\ u2 \in Int /\ v2 \in Int
      /\ f(e) = u1 * v2 - u2 * v1 /\ f(e) \in Int
  BY EdgeFacts
<1>2. {a.x, a.y, b.x, b.y, p.x, p.y} \subseteq Int
  BY DEF Point
<1>3. /\ a.x < p.x <=> u1 < 0
      /\ a.x > p.x <=> u1 > 0
      /\ b.x < p.x <=> u2 < 0
      /\ b.x > p.x <=> u2 > 0
      /\ a.y < p.y <=> v1 < 0
      /\ a.y > p.y <=> v1 > 0
      /\ b.y < p.y <=> v2 < 0
      /\ b.y > p.y <=> v2 > 0
  BY <1>2
<1>4. OnSegment(p, a, b) => /\ (u1 <= 0 /\ 0 <= u2) \/ (u2 <= 0 /\ 0 <= u1)
                            /\ (v1 <= 0 /\ 0 <= v2) \/ (v2 <= 0 /\ 0 <= v1)
  <2>1. p.x \in Min({a.x, b.x}) .. Max({a.x, b.x}) <=> (u1 <= 0 /\ 0 <= u2) \/ (u2 <= 0 /\ 0 <= u1)
    BY <1>2, InRange
  <2>2. p.y \in Min({a.y, b.y}) .. Max({a.y, b.y}) <=> (v1 <= 0 /\ 0 <= v2) \/ (v2 <= 0 /\ 0 <= v1)
    BY <1>2, InRange
  <2>. HIDE DEF u1, v1, u2, v2
  <2>. QED
    BY <2>1, <2>2 DEF OnSegment
<1>. DEFINE g == f(e)
<1>5. /\ u1 * v2 \in Int /\ u2 * v1 \in Int
      /\ u1 > 0 /\ v2 > 0 => u1 * v2 > 0
      /\ u1 < 0 /\ v2 < 0 => u1 * v2 > 0
      /\ u1 > 0 /\ v2 < 0 => u1 * v2 < 0
      /\ u1 < 0 /\ v2 > 0 => u1 * v2 < 0
      /\ u1 = 0 \/ v2 = 0 => u1 * v2 = 0
  BY <1>1, SignOfProduct
<1>6. /\ u2 > 0 /\ v1 > 0 => u2 * v1 > 0
      /\ u2 < 0 /\ v1 < 0 => u2 * v1 > 0
      /\ u2 > 0 /\ v1 < 0 => u2 * v1 < 0
      /\ u2 < 0 /\ v1 > 0 => u2 * v1 < 0
      /\ u2 = 0 \/ v1 = 0 => u2 * v1 = 0
  BY <1>1, SignOfProduct
<1>7. g = u1 * v2 - u2 * v1
  BY <1>1
<1>8. Crosses(e) <=> (v2 > 0 /\ v1 <= 0 /\ g > 0) \/ (v1 > 0 /\ v2 <= 0 /\ g < 0)
  BY <1>1 DEF Crosses
<1>9. Above(p, a) # Above(p, b) <=> (v2 > 0 /\ ~(v1 > 0)) \/ (v1 > 0 /\ ~(v2 > 0))
  <2>. HIDE DEF v1, v2
  <2>. QED
    BY <1>3 DEF Above
<1>. DEFINE P == u1 * v2
            Q == u2 * v1
<1>10. /\ g = P - Q /\ P \in Int /\ Q \in Int
       /\ u1 > 0 /\ v2 > 0 => P > 0
       /\ u1 < 0 /\ v2 < 0 => P > 0
       /\ u1 > 0 /\ v2 < 0 => P < 0
       /\ u1 < 0 /\ v2 > 0 => P < 0
       /\ u1 = 0 \/ v2 = 0 => P = 0
       /\ u2 > 0 /\ v1 > 0 => Q > 0
       /\ u2 < 0 /\ v1 < 0 => Q > 0
       /\ u2 > 0 /\ v1 < 0 => Q < 0
       /\ u2 < 0 /\ v1 > 0 => Q < 0
       /\ u2 = 0 \/ v1 = 0 => Q = 0
  BY <1>5, <1>6, <1>7
<1>. HIDE DEF e, u1, v1, u2, v2, P, Q, g
<1>11. u1 < 0 /\ u2 < 0 => ~Crosses(e)
  BY <1>1, <1>8, <1>10
<1>12. (v1 < 0 /\ v2 < 0) \/ (v1 > 0 /\ v2 > 0) => ~Crosses(e)
  BY <1>1, <1>8
<1>13. u1 > 0 /\ u2 > 0 => (Crosses(e) <=> (v2 > 0 /\ ~(v1 > 0)) \/ (v1 > 0 /\ ~(v2 > 0)))
  BY <1>1, <1>8, <1>10
<1>14. ASSUME Beside(p, a, b) PROVE ~Crosses(e) /\ ~OnSegment(p, a, b)
  <2>1. (v1 < 0 /\ v2 < 0) \/ (v1 > 0 /\ v2 > 0) \/ (u1 < 0 /\ u2 < 0)
    BY <1>3, <1>14 DEF Beside
  <2>2. ~OnSegment(p, a, b)
    BY <1>1, <1>4, <2>1
  <2>. QED
    BY <1>11, <1>12, <2>1, <2>2
<1>15. ASSUME LeftOf(p, a, b)
       PROVE  (Crosses(e) <=> Above(p, a) # Above(p, b)) /\ ~OnSegment(p, a, b)
  <2>1. u1 > 0 /\ u2 > 0
    BY <1>3, <1>15 DEF LeftOf
  <2>2. ~OnSegment(p, a, b)
    BY <1>1, <1>4, <2>1
  <2>. QED
    BY <1>9, <1>13, <2>1, <2>2
<1>. QED
  BY <1>14, <1>15 DEF e

-----------------------------------------------------------------------------
(* The edges of a ring that the flat line cuts.                            *)
CutsOn(p, k) == {e \in RingEdges : e[1] = k /\ CutsLine(p, EndA(e), EndB(e))}

(***************************************************************************)
(* To the left of the box the line cuts each ring an even number of times, *)
(* for a ring ends at the height at which it begins.                       *)
(***************************************************************************)
LEMMA EvenOnRing ==
  ASSUME RingInv, NEW p \in Point, \A a \in Small : Near(p, a), NEW k,
         \A e \in RingEdges : LeftOf(p, EndA(e), EndB(e))
  PROVE  /\ IsFiniteSet(CutsOn(p, k)) /\ Cardinality(CutsOn(p, k)) \in Nat
         /\ Cardinality(CutsOn(p, k)) % 2 = 0
<1>. DEFINE B == CutsOn(p, k)
<1>1. IsFiniteSet(B) /\ Cardinality(B) \in Nat
  <2>1. B \in SUBSET RingEdges
    BY DEF CutsOn
  <2>. HIDE DEF B
  <2>2. IsFiniteSet(B)
    BY <2>1, FiniteEdges, FS_Subset
  <2>. QED
    BY <2>2, FS_CardinalityType
<1>2. CASE \A e \in RingEdges : e[1] # k
  <2>1. B = {}
    BY <1>2 DEF CutsOn
  <2>2. Cardinality(B) = 0
    BY <2>1, FS_EmptySet
  <2>. QED
    BY <1>1, <2>2
<1>3. CASE \E e \in RingEdges : e[1] = k
  <2>. DEFINE r == Rings[k]
              n == Len(r)
              up == [i \in 1 .. n |-> Above(p, r[i])]
              A == Changes(up, n)
              g == [i \in A |-> <<k, i>>]
  <2>1. k \in 1 .. Len(Rings) /\ n >= 4
    BY <1>3, EdgesOfRings
  <2>2. r \in Seq(Small) /\ n \in Nat \ {0} /\ r[1] = r[n]
    BY <2>1, RingPlaces DEF IsRing
  <2>3. up \in [1 .. n -> {0, 1}] /\ \A i \in 1 .. n : up[i] = Above(p, r[i])
    BY DEF Above
  <2>4. up[1] = up[n]
    BY <2>2, <2>3
  <2>5. ASSUME NEW i \in 1 .. n - 1
        PROVE  /\ <<k, i>> \in RingEdges
               /\ CutsLine(p, EndA(<<k, i>>), EndB(<<k, i>>)) <=> up[i] # up[i + 1]
    <3>1. <<k, i>> \in RingEdges
      <4>1. \E e \in RingEdges : e[1] = k
        BY <1>3
      <4>2. PICK e \in RingEdges : e[1] = k
        BY <4>1
      <4>3. PICK j \in {h \in DOMAIN Rings : Len(Rings[h]) >= 4} :
              e \in {<<j, h>> : h \in 1 .. Len(Rings[j]) - 1}
        BY DEF RingEdges
      <4>4. j = k
        BY <4>2, <4>3
      <4>5. k \in {h \in DOMAIN Rings : Len(Rings[h]) >= 4}
        BY <4>3, <4>4
      <4>6. <<k, i>> \in {<<k, h>> : h \in 1 .. Len(Rings[k]) - 1}
        OBVIOUS
      <4>. HIDE DEF r, n
      <4>. QED
        BY <4>5, <4>6 DEF RingEdges
    <3>. DEFINE e == <<k, i>>
                a == EndA(e)
                b == EndB(e)
    <3>2. a = r[i] /\ b = r[i + 1]
      BY DEF EndA, EndB
    <3>3. a \in Small /\ b \in Small /\ LeftOf(p, a, b)
      BY <3>1, EdgesOfRings
    <3>4. i \in 1 .. n /\ i + 1 \in 1 .. n
      BY <2>2
    <3>5. up[i] = Above(p, a) /\ up[i + 1] = Above(p, b)
      BY <2>3, <3>2, <3>4
    <3>6. a \in Point /\ b \in Point /\ Near(p, a) /\ Near(p, b)
      BY <3>3, SmallIsPoint
    <3>. HIDE DEF a, b, r, n, up
    <3>7. Crosses(Edge(p, a, b)) <=> CutsLine(p, a, b)
      BY <3>6, CrossesIsCut
    <3>8. Crosses(Edge(p, a, b)) <=> Above(p, a) # Above(p, b)
      BY <3>3, <3>6, EdgeOutside
    <3>9. CutsLine(p, a, b) <=> up[i] # up[i + 1]
      BY <3>5, <3>7, <3>8
    <3>. QED
      BY <3>1, <3>9 DEF a, b
  <2>. HIDE DEF up
  <2>6. g \in [A -> B] /\ \A i \in A : g[i] = <<k, i>>
    <3>1. \A i \in A : i \in 1 .. n - 1 /\ up[i] # up[i + 1]
      BY DEF Changes
    <3>2. \A i \in A : <<k, i>> \in B
      BY <2>5, <3>1 DEF CutsOn
    <3>. HIDE DEF A, B
    <3>. QED
      BY <3>2
  <2>7. \A i, j \in A : g[i] = g[j] => i = j
    BY <2>6
  <2>8. \A y \in B : \E i \in A : g[i] = y
    <3>1. ASSUME NEW y \in B
          PROVE  \E i \in A : y = <<k, i>>
      <4>1. y \in RingEdges /\ y[1] = k /\ CutsLine(p, EndA(y), EndB(y))
        BY DEF CutsOn
      <4>2. y = <<k, y[2]>> /\ y[2] \in 1 .. n - 1
        BY <4>1, EdgesOfRings
      <4>3. up[y[2]] # up[y[2] + 1]
        BY <2>5, <4>1, <4>2
      <4>4. y[2] \in A
        BY <4>2, <4>3 DEF Changes
      <4>. QED
        BY <4>2, <4>4
    <3>. QED
      BY <2>6, <3>1
  <2>9. IsFiniteSet(A) /\ Cardinality(A) = Cardinality(B)
    <3>. HIDE DEF A, B, g
    <3>. QED
      BY <1>1, <2>6, <2>7, <2>8, SameNumber
  <2>10. Cardinality(A) % 2 = 0
    <3>. HIDE DEF n, r
    <3>. QED
      BY <2>2, <2>3, <2>4, EvenChanges
  <2>. QED
    BY <1>1, <2>9, <2>10
<1>. QED
  BY <1>1, <1>2, <1>3 DEF B

(* There are two rings at most.                                            *)
LEMMA EvenOnAll ==
  ASSUME RingInv, NEW p \in Point, \A a \in Small : Near(p, a),
         \A e \in RingEdges : LeftOf(p, EndA(e), EndB(e))
  PROVE  Cardinality({e \in RingEdges : CutsLine(p, EndA(e), EndB(e))}) % 2 = 0
<1>. DEFINE A == CutsOn(p, 1)
            B == CutsOn(p, 2)
            C == {e \in RingEdges : CutsLine(p, EndA(e), EndB(e))}
<1>1. C = A \cup B
  <2>1. \A e \in RingEdges : e[1] = 1 \/ e[1] = 2
    <3>1. ASSUME NEW e \in RingEdges PROVE e[1] = 1 \/ e[1] = 2
      <4>. DEFINE k == e[1]
                  n == Len(Rings)
      <4>1. k \in 1 .. n
        BY EdgesOfRings
      <4>2. n \in {0, 1, 2}
        BY <4>1, RingPlaces
      <4>. HIDE DEF k, n
      <4>3. n \in Int /\ n <= 2
        BY <4>2
      <4>4. k = 1 \/ k = 2
        BY <4>1, <4>3
      <4>. QED
        BY <4>4 DEF k
    <3>. QED
      BY <3>1
  <2>. QED
    BY <2>1 DEF CutsOn
<1>2. A \cap B = {}
  BY DEF CutsOn
<1>3. /\ IsFiniteSet(A) /\ Cardinality(A) \in Nat /\ Cardinality(A) % 2 = 0
      /\ IsFiniteSet(B) /\ Cardinality(B) \in Nat /\ Cardinality(B) % 2 = 0
  BY EvenOnRing
<1>. HIDE DEF A, B, C
<1>4. Cardinality(C) = Cardinality(A) + Cardinality(B)
  <2>1. Cardinality(A \cup B) = Cardinality(A) + Cardinality(B) - Cardinality(A \cap B)
    BY <1>3, FS_Union
  <2>2. Cardinality(A \cap B) = 0
    BY <1>2, FS_EmptySet
  <2>. QED
    BY <1>1, <1>3, <2>1, <2>2
<1>5. (Cardinality(A) + Cardinality(B)) % 2 = 0
  BY <1>3
<1>. QED
  BY <1>4, <1>5 DEF C

(* A point asked for is so near that the line is flat.                     *)
LEMMA AskedIsNear ==
  ASSUME NEW p \in Asked
  PROVE  p \in Point /\ \A a \in Small : Near(p, a)
<1>1. Min(Grid) \in -Reach .. Reach /\ Max(Grid) \in -Reach .. Reach
  BY MCPointInPolygonAssumption, LeastAndLargest
<1>2. PICK x \in Min(Grid) - 1 .. Max(Grid) + 1, y \in Min(Grid) - 1 .. Max(Grid) + 1 : p = Pt(x, y)
  BY DEF Asked
<1>3. x \in Int /\ y \in Int /\ -Reach - 1 <= x /\ x <= Reach + 1
  BY <1>1, <1>2, MCPointInPolygonAssumption
<1>4. p.x = x /\ p \in Point
  BY <1>2, <1>3 DEF Pt, Point
<1>5. ASSUME NEW a \in Small PROVE Near(p, a)
  <2>1. a.x \in Int /\ -Reach <= a.x /\ a.x <= Reach
    BY SmallIsPoint
  <2>. QED
    BY <1>3, <1>4, <2>1, MCPointInPolygonAssumption DEF Near
<1>. QED
  BY <1>4, <1>5

(* The two answers, with the number of edges left open.                    *)
LEMMA InsideOf ==
  ASSUME NEW p
  PROVE  IsInside(p) = IF \E e \in RingEdges : OnSegment(p, EndA(e), EndB(e)) THEN -1
                       ELSE Cardinality({e \in RingEdges : CutsLine(p, EndA(e), EndB(e))}) % 2
BY DEF IsInside, EndA, EndB

(***************************************************************************)
(* shp_point_in_polygon gives the answer of the even-odd rule for every    *)
(* point near the rings.                                                   *)
(***************************************************************************)
LEMMA AnswerIsInside ==
  ASSUME RingInv, Rings # <<>>, NEW p \in Asked
  PROVE  shp_point_in_polygon(p, Polygon) = IsInside(p)
<1>. DEFINE e == EdgesSeen(p, Polygon)
            C == {d \in RingEdges : CutsLine(p, EndA(d), EndB(d))}
            k == Cardinality({i \in DOMAIN e : Crosses(e[i])})
            touched == \E i \in DOMAIN e : Touches(e[i])
            onEdge == \E d \in RingEdges : OnSegment(p, EndA(d), EndB(d))
            outside == shp_point_in_bounding_box(p, Polygon.box) = 0
<1>1. p \in Point /\ \A a \in Small : Near(p, a)
  BY AskedIsNear
<1>2. k = Cardinality(C) /\ (touched <=> onEdge)
  BY <1>1, EdgesAreSeen
<1>3. shp_point_in_polygon(p, Polygon) =
        IF outside THEN 0 ELSE IF touched THEN -1 ELSE IF k % 2 = 0 THEN 0 ELSE 1
  BY DEF shp_point_in_polygon
<1>4. IsInside(p) = IF onEdge THEN -1 ELSE Cardinality(C) % 2
  BY InsideOf
<1>5. Cardinality(C) \in Nat
  <2>1. C \in SUBSET RingEdges
    OBVIOUS
  <2>. HIDE DEF C
  <2>. QED
    BY <2>1, FiniteEdges, FS_Subset, FS_CardinalityType
<1>6. ASSUME outside PROVE ~onEdge /\ Cardinality(C) % 2 = 0
  <2>1. ASSUME NEW d \in RingEdges
        PROVE  /\ EndA(d) \in Point /\ EndB(d) \in Point
               /\ Near(p, EndA(d)) /\ Near(p, EndB(d))
    BY <1>1, EdgesOfRings, SmallIsPoint
  <2>2. CASE \A d \in RingEdges : Beside(p, EndA(d), EndB(d))
    <3>1. ASSUME NEW d \in RingEdges PROVE ~OnSegment(p, EndA(d), EndB(d)) /\ ~CutsLine(p, EndA(d), EndB(d))
      BY <1>1, <2>1, <2>2, EdgeOutside, CrossesIsCut
    <3>2. C = {}
      BY <3>1
    <3>3. Cardinality(C) = 0
      BY <3>2, FS_EmptySet
    <3>. QED
      BY <3>1, <3>3
  <2>3. CASE \A d \in RingEdges : LeftOf(p, EndA(d), EndB(d))
    <3>1. ASSUME NEW d \in RingEdges PROVE ~OnSegment(p, EndA(d), EndB(d))
      BY <1>1, <2>1, <2>3, EdgeOutside
    <3>2. Cardinality(C) % 2 = 0
      BY <1>1, <2>3, EvenOnAll
    <3>. QED
      BY <3>1, <3>2
  <2>. QED
    BY <1>1, <1>6, <2>2, <2>3, OutsideBox
<1>. HIDE DEF C, k, touched, onEdge, outside
<1>7. Cardinality(C) % 2 = 0 \/ Cardinality(C) % 2 = 1
  BY <1>5
<1>. QED
  BY <1>2, <1>3, <1>4, <1>6, <1>7

(***************************************************************************)
(* InsideIsEvenOdd: shp_point_in_polygon agrees with the even-odd rule for *)
(* rings of every length, with every corner, around one another or not.    *)
(***************************************************************************)
THEOREM InsideIsTheEvenOddRule == Spec => []InsideIsEvenOdd
<1>1. Init => RingInv
  BY RingInit
<1>2. RingInv /\ [Next]_<<shape, ring, others>> => RingInv'
  BY RingNext
<1>3. RingInv => InsideIsEvenOdd
  BY AnswerIsInside DEF InsideIsEvenOdd
<1>. QED
  BY <1>1, <1>2, <1>3, PTL DEF Spec
=============================================================================
