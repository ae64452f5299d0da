----------------------------- MODULE MCDataset ------------------------------
(***************************************************************************)
(* Values for the constants of Dataset: datasets whose shapes are good,    *)
(* bad, cut off or missing, with whole and with truncated indexes.         *)
(***************************************************************************)
EXTENDS Dataset

Shape(len, type, parts, points) == [len |-> len, type |-> type, parts |-> parts, points |-> points]

point      == Shape(10, 1, 0, 0)
polygon    == Shape(32, 5, 1, 1)
badPolygon == Shape(31, 5, 1, 1)

Starts(recs) ==
  LET start[i \in 1 .. Len(recs) + 1] ==
        IF i = 1 THEN HeaderSize ELSE start[i - 1] + 8 + 2 * recs[i - 1].len
  IN  start

ShapeFile(recs, missing) ==
  [size |-> Starts(recs)[Len(recs) + 1] - missing, code |-> 9994, recs |-> recs,
   start |-> Starts(recs)]

IndexFile(recs, missing) ==
  [size |-> HeaderSize + 8 * Len(recs) - missing, code |-> 9994,
   entries |-> [i \in 1 .. Len(recs) |-> [offset |-> Starts(recs)[i] \div 2, len |-> recs[i].len]]]

three == <<point, badPolygon, polygon>>
two   == <<point, point>>

(* The last shape is whole, ends a byte early, or is not there.            *)
ShapeFiles == {ShapeFile(three, 0), ShapeFile(two, 1), ShapeFile(two, 24)}
IndexFiles == {IndexFile(three, 4), IndexFile(two, 0)}

GarbageRecords == {badPolygon}
NoiseEntries   == {[offset |-> 50, len |-> 10]}
=============================================================================
