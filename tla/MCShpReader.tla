---------------------------- MODULE MCShpReader -----------------------------
(***************************************************************************)
(* Values for the constants of ShpReader: records of each kind, and files  *)
(* that end at every place where the code looks.                           *)
(***************************************************************************)
EXTENDS ShpCursor

Shape(len, type, parts, points) == [len |-> len, type |-> type, parts |-> parts, points |-> points]

null       == Shape(2, 0, 0, 0)
point      == Shape(10, 1, 0, 0)
polygon    == Shape(32, 5, 1, 1)
badPolygon == Shape(31, 5, 1, 1)
unknown    == Shape(2, 7, 0, 0)
runt0      == Shape(0, 0, 0, 0)
runt1      == Shape(1, 0, 0, 0)

(* The offset of record i, from the lengths of those before it.            *)
Starts(recs) ==
  LET start[i \in 1 .. Len(recs) + 1] ==
        IF i = 1 THEN HeaderSize ELSE start[i - 1] + 8 + 2 * recs[i - 1].len
  IN  start

FileOf(recs, code, size) == [size |-> size, code |-> code, recs |-> recs, start |-> Starts(recs)]

Whole(recs)    == FileOf(recs, 9994, Starts(recs)[Len(recs) + 1])
Cut(recs, n)   == FileOf(recs, 9994, Starts(recs)[Len(recs) + 1] - n)

(* The last record ends in its header, behind it, or a byte too early.     *)
CutPoints(rec) == {2 * rec.len + 5, 2 * rec.len, 1} \ {0}

Short == {FileOf(<<>>, 9994, n) : n \in {0, 40, 99}} \cup {FileOf(<<>>, 9993, 100)}

Contents == {<<>>, <<null>>, <<point, polygon>>, <<polygon, point, null>>,
             <<badPolygon, point>>, <<null, unknown, point>>,
             <<runt0, point>>, <<runt1, point, null>>}

CutContents == {<<null>>, <<point, polygon>>, <<polygon, point, null>>,
                <<badPolygon, point>>, <<runt1, point, null>>}

(* A file that ends at the header of its second record.                    *)
Missing == FileOf(<<point, null>>, 9994, 128)

SequentialFiles ==
  {Missing} \cup
  Short \cup {Whole(recs) : recs \in Contents} \cup
  UNION {{Cut(recs, n) : n \in CutPoints(recs[Len(recs)])} : recs \in CutContents}

GarbageRecords == {null, badPolygon, runt0, Shape(60, 5, 1, 1)}

RandomFiles == {Whole(<<polygon, point>>), Cut(<<null, polygon>>, 1),
                Whole(<<runt1, point, null>>)}

PlainFiles == {Whole(<<polygon, point, point, null>>)}

Offsets == {0, 100, 172, 180, 2000, 5000}
=============================================================================
