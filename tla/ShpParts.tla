------------------------------ MODULE ShpParts ------------------------------
(***************************************************************************)
(* The parts and points of a shape: the functions shp_*_points, which say  *)
(* which points form a part, and shp_*_point, shp_*_pointm and             *)
(* shp_*_pointz, which get a point, each written once for a shape type.    *)
(*                                                                         *)
(* A shape is a record that ShpLayout accepts, with its part table and a   *)
(* multipatch's part types.  Points are told by the bytes they are read    *)
(* from.                                                                   *)
(***************************************************************************)
EXTENDS ShpLayout

CONSTANT IntLimit   \* 2^31: the entries of the part table are signed

ASSUME ShpPartsAssumption == IntLimit \in Nat \ {0} /\ CountLimit = 2 * IntLimit

Int32 == -IntLimit .. IntLimit - 1

PartNums(r)  == 0 .. r.parts - 1
PointNums(r) == 0 .. r.points - 1

(* A multipoint has no parts: its record has no NumParts.                  *)
IsShape(s) ==
  /\ s.rec \in Record /\ Accepted(s.rec) /\ SizesFit(s.rec)
  /\ s.rec.type \in PolyTypes \cup MultiTypes
  /\ s.rec.type \in MultiTypes => s.rec.parts = 0
  /\ s.table \in [PartNums(s.rec) -> Int32]
  /\ s.types \in [PartNums(s.rec) -> Int32]

-----------------------------------------------------------------------------
(***************************************************************************)
(* The range of a part.  An entry becomes a size_t with its sign extended. *)
(* start and end are set for an invalid part too, which has no points.     *)
(***************************************************************************)
Entry(s, part_num) == size_t(s.table[part_num])

AnyOrder(i, j, m) == i < m /\ j <= m      \* mutant: a part may end before it starts
AnyEnd(i, j, m) == i < m /\ i < j         \* mutant: a part may end behind the points

ValidRange(i, j, m) == i < m /\ j <= m /\ i < j

part_range(s, part_num) ==
  LET m == s.rec.points
      i == Entry(s, part_num)
      j == IF part_num + 1 < s.rec.parts THEN Entry(s, part_num + 1) ELSE m
  IN  [start |-> i, end |-> j, num_points |-> IF ValidRange(i, j, m) THEN size_t(j - i) ELSE 0]

shp_polyline_points(s, part_num)   == part_range(s, part_num)
shp_polylinem_points(s, part_num)  == part_range(s, part_num)
shp_polylinez_points(s, part_num)  == part_range(s, part_num)
shp_polygon_points(s, part_num)    == part_range(s, part_num)
shp_polygonm_points(s, part_num)   == part_range(s, part_num)
shp_polygonz_points(s, part_num)   == part_range(s, part_num)

(* A part's type may be a number that shp_part_type_t does not name.       *)
shp_multipatch_points(s, part_num) ==
  [range |-> part_range(s, part_num), part_type |-> s.types[part_num]]

part_points(s, part_num) ==
  CASE s.rec.type = 3  -> shp_polyline_points(s, part_num)
    [] s.rec.type = 23 -> shp_polylinem_points(s, part_num)
    [] s.rec.type = 13 -> shp_polylinez_points(s, part_num)
    [] s.rec.type = 5  -> shp_polygon_points(s, part_num)
    [] s.rec.type = 25 -> shp_polygonm_points(s, part_num)
    [] s.rec.type = 15 -> shp_polygonz_points(s, part_num)
    [] s.rec.type = 31 -> shp_multipatch_points(s, part_num).range

(* The bytes of the tables that these functions look at.                   *)
EntryReads(r, part_num) ==
  {Extent("parts", parts_at(r) + 4 * p, 4) : p \in {part_num, part_num + 1} \cap PartNums(r)} \cup
  (IF r.type = MULTIPATCH THEN {Extent("types", types_at(r) + 4 * part_num, 4)} ELSE {})

-----------------------------------------------------------------------------
(* The bytes that a point's coordinates, its Z and its measure are read    *)
(* from.                                                                   *)
xy(r, point_num) == Extent("points", points_at(r) + 16 * point_num, 16)
z(r, point_num)  == Extent("z_array", z_array_at(r) + 8 * point_num, 8)
m(r, point_num)  == Extent("m_array", m_array_at(r) + 8 * point_num, 8)

shp_multipoint_point(r, n)   == {xy(r, n)}
shp_multipointm_pointm(r, n) == {xy(r, n), m(r, n)}
shp_multipointz_pointz(r, n) == {xy(r, n), z(r, n), m(r, n)}
shp_polyline_point(r, n)     == {xy(r, n)}
shp_polylinem_pointm(r, n)   == {xy(r, n), m(r, n)}
shp_polylinez_pointz(r, n)   == {xy(r, n), z(r, n), m(r, n)}
shp_polygon_point(r, n)      == {xy(r, n)}
shp_polygonm_pointm(r, n)    == {xy(r, n), m(r, n)}
shp_polygonz_pointz(r, n)    == {xy(r, n), z(r, n), m(r, n)}
shp_multipatch_pointz(r, n)  == {xy(r, n), z(r, n), m(r, n)}

point(r, n) ==
  CASE r.type = 8  -> shp_multipoint_point(r, n)
    [] r.type = 28 -> shp_multipointm_pointm(r, n)
    [] r.type = 18 -> shp_multipointz_pointz(r, n)
    [] r.type = 3  -> shp_polyline_point(r, n)
    [] r.type = 23 -> shp_polylinem_pointm(r, n)
    [] r.type = 13 -> shp_polylinez_pointz(r, n)
    [] r.type = 5  -> shp_polygon_point(r, n)
    [] r.type = 25 -> shp_polygonm_pointm(r, n)
    [] r.type = 15 -> shp_polygonz_pointz(r, n)
    [] r.type = 31 -> shp_multipatch_pointz(r, n)

-----------------------------------------------------------------------------
(* The points of a part, as a caller that heeds the number goes through    *)
(* them.                                                                   *)
PointsOfPart(s, p) ==
  LET part == part_points(s, p) IN part.start .. part.start + part.num_points - 1

IsPartValid(s, p) == part_points(s, p).num_points > 0

(***************************************************************************)
(* Whatever a part table says, the functions stay inside the shape: they   *)
(* look at the entries and part types there are, and a point of any part   *)
(* is read from the arrays the record has for it.                          *)
(***************************************************************************)
Within(a, r) ==
  \E b \in Arrays(r) : b.name = a.name /\ b.at <= a.at /\ a.at + a.size <= b.at + b.size

ReadsStayInside(s) ==
  /\ \A p \in PartNums(s.rec) :
       /\ \A a \in EntryReads(s.rec, p) : Within(a, s.rec)
       /\ \A n \in PointsOfPart(s, p) : \A a \in point(s.rec, n) : Within(a, s.rec)
  /\ s.rec.type \in MultiTypes =>
       \A n \in PointNums(s.rec) : \A a \in point(s.rec, n) : Within(a, s.rec)

(***************************************************************************)
(* If every part is valid, the parts follow one another without a gap up   *)
(* to the last point: each point from the first part's start on belongs to *)
(* exactly one part.                                                       *)
(***************************************************************************)
ValidPartsTile(s) ==
  (s.rec.parts > 0 /\ \A p \in PartNums(s.rec) : IsPartValid(s, p)) =>
    \A n \in PointNums(s.rec) :
      n >= part_points(s, 0).start =>
        \E p \in PartNums(s.rec) :
          /\ n \in PointsOfPart(s, p)
          /\ \A q \in PartNums(s.rec) \ {p} : n \notin PointsOfPart(s, q)
=============================================================================
