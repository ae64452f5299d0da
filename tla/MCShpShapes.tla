---------------------------- MODULE MCShpShapes -----------------------------
(***************************************************************************)
(* Every record up to a length and up to some counts, of each shape type   *)
(* and of a type that does not exist, by growing a record step by step;    *)
(* and for those that the reader accepts, every part table of a few        *)
(* entries, by filling it step by step.  On its own, and from the empty    *)
(* record, the rings of MCPointInPolygon.                                  *)
(***************************************************************************)
EXTENDS MCPointInPolygon

CONSTANTS
  Entries,    \* the entries of the part tables
  MaxLen,     \* bound: content length in words
  MaxParts,   \* bound: NumParts
  MaxPoints   \* bound: NumPoints

(* A record's length and its counts have 32 bits.                          *)
ASSUME MCShpShapesAssumption ==
  /\ {MaxLen, MaxParts, MaxPoints} \subseteq Count
  /\ MaxLen >= 2

VARIABLE shape

Types == {NullType, 7} \cup PointTypes \cup PolyTypes \cup MultiTypes

(* The numbers of points, the first that is none, and the extreme ones.    *)
SomeEntries == {-IntLimit, -1, IntLimit - 1, MaxPoints, MaxPoints + 1} \cup 0 .. 3

EmptyTable == [p \in {} |-> 0]
Filled     == Cardinality(DOMAIN shape.table)

Empty(type) ==
  [rec   |-> [len |-> 2, type |-> type, parts |-> 0, points |-> 0],
   table |-> EmptyTable, types |-> EmptyTable]

Grow == Filled = 0 /\ UNCHANGED <<ring, others>>

Longer ==
  shape.rec.len < MaxLen /\ Grow /\ shape' = [shape EXCEPT !.rec.len = @ + 1]
MoreParts ==
  shape.rec.parts < MaxParts /\ Grow /\ shape' = [shape EXCEPT !.rec.parts = @ + 1]
MorePoints ==
  shape.rec.points < MaxPoints /\ Grow /\ shape' = [shape EXCEPT !.rec.points = @ + 1]

Extended(table, entry) == [p \in 0 .. Filled |-> IF p < Filled THEN table[p] ELSE entry]

Fill(entry) ==
  /\ Accepted(shape.rec)
  /\ shape.rec.type \in PolyTypes
  /\ Filled < shape.rec.parts
  /\ shape' = [shape EXCEPT !.table = Extended(@, entry), !.types = Extended(@, 0)]
  /\ UNCHANGED <<ring, others>>

RingStep == shape = Empty(NullType) /\ DrawRing /\ UNCHANGED shape

Init ==
  \/ shape \in {Empty(type) : type \in Types} /\ NoRing
  \/ shape = Empty(NullType) /\ FirstRing

Next ==
  \/ ring = <<>> /\ (Longer \/ MoreParts \/ MorePoints \/ \E entry \in Entries : Fill(entry))
  \/ RingStep

Spec == Init /\ [][Next]_<<shape, ring, others>>

-----------------------------------------------------------------------------
(***************************************************************************)
(* Every record that the get_* functions accept has its arrays in order -  *)
(* no array reaches beyond the record, none overlaps another, no byte of   *)
(* the record is left out - unless its sizes are more than a size_t holds, *)
(* and then they are not in order: the check is exact up to a wrap.        *)
(***************************************************************************)
AcceptedTiles == Accepted(shape.rec) => (ArraysTile(shape.rec) <=> SizesFit(shape.rec))

(***************************************************************************)
(* The same where a size_t has the 32 bits of the counts, so that sizes do *)
(* wrap.                                                                   *)
(***************************************************************************)
Narrow == INSTANCE ShpLayout WITH SizeModulus <- CountLimit

NarrowTiles ==
  Narrow!Accepted(shape.rec) => (Narrow!ArraysTile(shape.rec) <=> Narrow!SizesFit(shape.rec))

HasTable == IsShape(shape)

(***************************************************************************)
(* No function reads outside of the arrays of a shape, whatever its part   *)
(* table says.                                                             *)
(***************************************************************************)
ReadsInside == HasTable => ReadsStayInside(shape)

(***************************************************************************)
(* Valid parts share the points out among them.                            *)
(***************************************************************************)
PartsTile == HasTable => ValidPartsTile(shape)
=============================================================================
