---------------------------- MODULE MCDbfReader -----------------------------
(***************************************************************************)
(* Values for the constants of DbfReader: headers of both kinds, good and  *)
(* bad, and tables that end at every place where the code looks.           *)
(***************************************************************************)
EXTENDS DbfReader

(* A descriptor for both kinds of header, and one that terminates.         *)
Desc(type, length, decimals) ==
  [k \in Looked |-> CASE k = 0 -> 65 [] k = 11 -> type [] k \in {12, 16} -> length
                      [] OTHER -> decimals]

Text1   == Desc(CHARACTER, 1, 0)
Text256 == Desc(CHARACTER, 0, 1)
Number1 == Desc(78, 1, 0)
Number2 == Desc(78, 2, 5)
Nothing == Desc(78, 0, 0)
EndMark == [k \in Looked |-> IF k = 0 THEN CR ELSE 0]

(* dBASE II has room for 32 descriptors, whatever the table needs.         *)
Area(version, ds) == ds \o [i \in 1 .. (IF version = DBASE2 THEN 32 ELSE 1) |-> EndMark]

Header(version, ds, header_size, record_size, num_records) ==
  [version |-> version, num_records |-> num_records, header_size |-> header_size,
   record_size |-> record_size, area |-> Area(version, ds)]

(* A header of dBASE III whose area ends behind the terminator.            *)
Plain(ds, record_size, num_records) ==
  Header(3, ds, 33 + 32 * Len(ds), record_size, num_records)

TableOf(head, bytes, marks) ==
  [head |-> head, size |-> FirstRow(head) + bytes,
   marks |-> {FirstRow(head) + m : m \in marks}]

(* The rows of the plain tables have two bytes.                            *)
Two(num_records) == Plain(<<Text1>>, 2, num_records)
Old(num_records) == Header(DBASE2, <<Number1>>, 0, 2, num_records)

GoodTables ==
  {TableOf(Two(2), 4, {}), TableOf(Two(2), 5, {4}), TableOf(Two(3), 5, {4}),
   TableOf(Two(3), 4, {}), TableOf(Two(3), 5, {}), TableOf(Two(0), 0, {}),
   TableOf(Two(2), 8, {2, 6}), TableOf(Two(0), 1, {0}), TableOf(Two(1), 4, {}),
   TableOf(Old(2), 5, {4}), TableOf(Old(3), 4, {})}

(* Areas that end in a descriptor, which then overhangs, or at one.        *)
OddHeads ==
  {Header(131, <<Text1, Number1>>, 32 + size, record_size, 1) :
     size \in {1, 12, 17, 20, 32, 49, 52, 64, 65}, record_size \in {2, 3, 4, 257}}

OtherHeads ==
  {Plain(<<>>, 1, 0), Plain(<<Text256, Nothing, Number2>>, 259, 1),
   Plain(<<Number2>>, 2, 1), Plain(<<Number2>>, 4, 1), Plain(<<Text1>>, 0, 1),
   Header(3, <<Text1>>, 31, 2, 1), Header(3, <<Text1>>, 32, 2, 1),
   Header(DBASE7, <<Text1>>, 65, 2, 1), Header(0, <<Text1>>, 65, 2, 1),
   Header(DBASE2, [i \in 1 .. 33 |-> Number1], 0, 33, 1),
   Header(DBASE2, [i \in 1 .. 33 |-> Number1], 0, 34, 1),
   Header(DBASE2, <<Number2>>, 0, 0, 1)}

Truncated == {[head |-> Two(1), size |-> n, marks |-> {}] : n \in {0, 1, 31, 32, 40, 64}} \cup
             {[head |-> Old(1), size |-> n, marks |-> {}] : n \in {1, 520}}

HeaderTables ==
  Truncated \cup {TableOf(h, h.record_size, {}) : h \in OddHeads \cup OtherHeads}

(* One descriptor more than a header may have.                             *)
ManyFields ==
  TableOf([Header(3, <<>>, 65535, 2, 1) EXCEPT !.area = [i \in 1 .. 2047 |-> Nothing]], 2, {})

SequentialTables == GoodTables \cup HeaderTables \cup {ManyFields}

RandomTables == {TableOf(Two(2), 5, {4}), TableOf(Two(3), 5, {}), TableOf(Two(2), 8, {2, 6})}
=============================================================================
