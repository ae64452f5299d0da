---------------------------- MODULE MCShxReader -----------------------------
(***************************************************************************)
(* Values for the constants of ShxReader: indexes with good and bad        *)
(* entries that end at an entry, inside one, and inside the header.        *)
(***************************************************************************)
EXTENDS ShxReader

Place(offset, len) == [offset |-> offset, len |-> len]

first   == Place(50, 10)
second  == Place(64, 32)
third   == Place(100, 2)
tooLow  == Place(49, 10)
tooTiny == Place(64, 1)

Whole(entries)       == [size |-> EntryStart(Len(entries) + 1), code |-> 9994, entries |-> entries]
CutTo(size, entries) == [size |-> size, code |-> 9994, entries |-> entries]

IndexFiles ==
  {Whole(<<>>), Whole(<<first>>), Whole(<<first, second, third>>),
   Whole(<<tooLow, second>>), Whole(<<first, tooTiny, third>>)} \cup
  {CutTo(size, <<first, second>>) : size \in {0, 99, 100, 104, 107, 108, 109, 115}} \cup
  {[size |-> 108, code |-> 9995, entries |-> <<first>>]}

NoiseEntries == {first, tooLow}

PlainIndex == {Whole(<<first, second>>)}
=============================================================================
