--------------------------- MODULE PointInPolygon ---------------------------
(***************************************************************************)
(* shp_point_in_bounding_box and shp_point_in_polygon.  A polygon is a     *)
(* shape with the coordinates of its points and its bounding box.          *)
(* Coordinates are integers: what a double's rounding adds is left out.    *)
(***************************************************************************)
EXTENDS ShpParts, FiniteSets

shp_point_in_bounding_box(p, box) ==
  IF ~(p.x >= box.x_min /\ p.x <= box.x_max /\ p.y >= box.y_min /\ p.y <= box.y_max) THEN 0
  ELSE IF p.x \in {box.x_min, box.x_max} \/ p.y \in {box.y_min, box.y_max} THEN -1 ELSE 1

-----------------------------------------------------------------------------
(* An edge from (u1, v1) to (u2, v2), as seen from the point at the        *)
(* origin: f tells on which side of the edge the point lies.               *)
Edge(p, a, b) ==
  [u1 |-> a.x - p.x, v1 |-> a.y - p.y, u2 |-> b.x - p.x, v2 |-> b.y - p.y]

f(e) == e.u1 * e.v2 - e.u2 * e.v1

UpOrDown(e) == (e.v2 > 0 /\ e.v1 <= 0) \/ (e.v1 > 0 /\ e.v2 <= 0)

(* The point lies on the edge.                                             *)
Touches(e) ==
  \/ f(e) = 0 /\ UpOrDown(e)
  \/ f(e) = 0 /\ e.v2 = 0 /\ e.v1 < 0
  \/ f(e) = 0 /\ e.v1 = 0 /\ e.v2 < 0
  \/ e.v1 = 0 /\ e.v2 = 0 /\ e.u2 <= 0 /\ e.u1 >= 0
  \/ e.v1 = 0 /\ e.v2 = 0 /\ e.u1 <= 0 /\ e.u2 >= 0

BothEnds(e) ==                       \* mutant: counts an end at the point's height twice
  \/ e.v2 >= 0 /\ e.v1 <= 0 /\ f(e) > 0
  \/ e.v1 >= 0 /\ e.v2 <= 0 /\ f(e) < 0

(* The edge is crossed on the way from the point to the right.  Of its two *)
(* ends, the lower one belongs to it when it is level with the point.      *)
Crosses(e) ==
  \/ e.v2 > 0 /\ e.v1 <= 0 /\ f(e) > 0
  \/ e.v1 > 0 /\ e.v2 <= 0 /\ f(e) < 0

-----------------------------------------------------------------------------
(* The points that begin an edge: all but the last of every part with four *)
(* points or more.                                                         *)
EdgeStarts(s) ==
  UNION {LET part == shp_polygon_points(s, p)
         IN  {i \in part.start .. part.end - 2 : part.num_points >= 4} : p \in PartNums(s.rec)}

EdgesSeen(p, polygon) ==
  [i \in EdgeStarts(polygon.shape) |-> Edge(p, polygon.points[i], polygon.points[i + 1])]

shp_point_in_polygon(p, polygon) ==
  LET e == EdgesSeen(p, polygon)
      k == Cardinality({i \in DOMAIN e : Crosses(e[i])})
  IN  IF shp_point_in_bounding_box(p, polygon.box) = 0 THEN 0
      ELSE IF \E i \in DOMAIN e : Touches(e[i]) THEN -1
      ELSE IF k % 2 = 0 THEN 0 ELSE 1
=============================================================================
