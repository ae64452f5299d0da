-------------------------- MODULE MCPointInPolygon --------------------------
(***************************************************************************)
(* Every ring of a few points on a grid, on its own, inside a second ring, *)
(* and with that ring before or behind it, against a definition of inside  *)
(* that draws a line which meets no point of the grid.                     *)
(***************************************************************************)
EXTENDS PointInPolygon, Sequences, FiniteSetsExt

CONSTANTS
  Reach,     \* bound: no coordinate is further from 0
  Grid,      \* coordinates of the ring's points: even numbers
  MaxRing    \* bound: points of the ring, without the one that closes it

(* The second rings reach 5; a polygon's points are counted in 32 bits.    *)
ASSUME MCPointInPolygonAssumption ==
  /\ Reach \in Nat /\ Reach >= 5
  /\ Grid \subseteq -Reach .. Reach /\ Grid # {}
  /\ MaxRing \in Nat /\ MaxRing + 6 < CountLimit

VARIABLES
  ring,      \* the points of the ring so far
  others     \* the rings before it and behind it

Pt(x, y) == [x |-> x, y |-> y]

(* The points asked for lie on the grid, between its lines and outside it. *)
Asked == {Pt(x, y) : x, y \in Min(Grid) - 1 .. Max(Grid) + 1}

Square(low, high) == <<Pt(low, low), Pt(low, high), Pt(high, high), Pt(high, low), Pt(low, low)>>

EvenGrid == {0, 2, 4}

NoRing == ring = <<>> /\ others = << <<>>, <<>> >>

FirstRing ==
  /\ ring = <<>>
  /\ others \in {<< <<>>, <<>> >>, <<Square(-1, 5), <<>> >>, << <<>>, Square(1, 4)>>}

AddCorner(x, y) ==
  /\ Len(ring) < MaxRing
  /\ ring' = Append(ring, Pt(x, y))
  /\ UNCHANGED others

DrawRing == \E x, y \in Grid : AddCorner(x, y)

-----------------------------------------------------------------------------
(* The rings, each closed by its first point, as a polygon record.         *)
Closed == IF ring = <<>> THEN <<>> ELSE Append(ring, ring[1])

OneRing(r) == IF r = <<>> THEN <<>> ELSE <<r>>

Rings == OneRing(others[1]) \o OneRing(Closed) \o OneRing(others[2])

Path == others[1] \o Closed \o others[2]

(* The points before a ring: there are two rings at most.                  *)
Before(k) == IF k = 1 THEN 0 ELSE Len(Rings[1])

Polygon ==
  LET Xs == {Path[i].x : i \in DOMAIN Path}
      Ys == {Path[i].y : i \in DOMAIN Path}
  IN  [shape  |-> [rec   |-> [len |-> 0, type |-> 5, parts |-> Len(Rings), points |-> Len(Path)],
                   table |-> [p \in 0 .. Len(Rings) - 1 |-> Before(p + 1)],
                   types |-> <<>>],
       points |-> [n \in 0 .. Len(Path) - 1 |-> Path[n + 1]],
       box    |-> [x_min |-> Min(Xs), x_max |-> Max(Xs), y_min |-> Min(Ys), y_max |-> Max(Ys)]]

-----------------------------------------------------------------------------
(* The side of the line from a to b that c is on.                          *)
Side(a, b, c) == (b.x - a.x) * (c.y - a.y) - (c.x - a.x) * (b.y - a.y)

OnSegment(p, a, b) ==
  /\ Side(a, b, p) = 0
  /\ p.x \in Min({a.x, b.x}) .. Max({a.x, b.x})
  /\ p.y \in Min({a.y, b.y}) .. Max({a.y, b.y})

(* A line from p so flat that no other point of the grid is on it, and     *)
(* whether the edge from a to b crosses it, ahead of p.                    *)
FarFrom(p) == Pt(p.x + 3 * Reach, p.y + 1)

CutsLine(p, a, b) ==
  LET sa == Side(p, FarFrom(p), a)
      sb == Side(p, FarFrom(p), b)
  IN  \/ sa < 0 /\ sb > 0 /\ Side(p, a, b) > 0
      \/ sa > 0 /\ sb < 0 /\ Side(p, a, b) < 0

(* A ring is one if it has four points or more.                            *)
RingEdges ==
  UNION {{<<k, i>> : i \in 1 .. Len(Rings[k]) - 1} : k \in {j \in DOMAIN Rings : Len(Rings[j]) >= 4}}

IsInside(p) ==
  LET from(e) == Rings[e[1]][e[2]]
      to(e)   == Rings[e[1]][e[2] + 1]
  IN  IF \E e \in RingEdges : OnSegment(p, from(e), to(e)) THEN -1
      ELSE Cardinality({e \in RingEdges : CutsLine(p, from(e), to(e))}) % 2

(***************************************************************************)
(* The answer is -1 for the points on the rings and tells the points       *)
(* inside an odd number of rings from the others, wherever the rings have  *)
(* corners and edges level with the point, and in whatever order they are. *)
(***************************************************************************)
InsideIsEvenOdd ==
  Rings # <<>> => LET polygon == Polygon
                  IN  \A p \in Asked : shp_point_in_polygon(p, polygon) = IsInside(p)
=============================================================================
