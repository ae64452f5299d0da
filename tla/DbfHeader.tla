----------------------------- MODULE DbfHeader ------------------------------
(***************************************************************************)
(* The header of a ".dbf" file, dbf.c: the version, the sizes, and the     *)
(* field descriptors that follow one another in an area behind them, up to *)
(* a '\r'.  A descriptor has 16 bytes in dBASE II and 32 bytes in later    *)
(* versions; only the bytes that the code looks at are kept.               *)
(***************************************************************************)
EXTENDS Integers, Sequences, FiniteSets, FiniteSetsExt

CONSTANT HeapBytes   \* what may be read behind the end of a block

Byte   == 0 .. 255
UInt16 == {n \in Nat : n < 65536}

ASSUME DbfHeaderAssumption == HeapBytes \subseteq Byte /\ HeapBytes # {}

(* dbf_version_t                                                           *)
DBASE2   == 2
DBASE7   == 140
DBASE3Up == {3, 4, 5, 7, 48, 49, 50, 131, 135, 139, 245}

database_type(version) ==
  IF version = DBASE2 THEN "dbase2"
  ELSE IF version \in DBASE3Up THEN "dbase3"
  ELSE IF version = DBASE7 THEN "dbase7" ELSE "unknown"

(* The name's first byte, the type, and the two places for the sizes.      *)
Looked     == {0, 11, 12, 15, 16, 17}
Descriptor == [Looked -> Byte]
CR         == 13
Terminates(d) == d[0] = CR

(***************************************************************************)
(* What the file holds where the header is: header_size and record_size as *)
(* it says, and the area in steps of one descriptor, far enough for every  *)
(* step that the code takes.                                               *)
(***************************************************************************)
HeadBytes == [version : Byte, num_records : Nat, header_size : UInt16,
              record_size : UInt16, area : Seq(Descriptor)]

DescriptorsSize(h) == h.header_size - 32
StepsUpTo(size, step) == (size + step - 1) \div step

(* The rows begin where reading the header ends.                           *)
FirstRow(h) == IF h.version = DBASE2 THEN 521 ELSE h.header_size

-----------------------------------------------------------------------------
CHARACTER == 67

(* A string may be longer than a byte can say.                             *)
field_size(type, length, decimal_places) ==
  IF type = CHARACTER THEN 256 * decimal_places + length ELSE length

get_field_dbase2(d, offset) == [offset |-> offset, size |-> field_size(d[11], d[12], d[15])]
get_field_dbase3(d, offset) == [offset |-> offset, size |-> field_size(d[11], d[16], d[17])]

get_field(h, d, offset) ==
  IF h.version = DBASE2 THEN get_field_dbase2(d, offset) ELSE get_field_dbase3(d, offset)

(* Descriptors up to the first that terminates, or as many as there may be.*)
Limit(h) == IF h.version = DBASE2 THEN 32 ELSE StepsUpTo(DescriptorsSize(h), 32)

num_fields(h) ==
  LET ends == {i \in 1 .. Limit(h) : Terminates(h.area[i])}
  IN  IF ends = {} THEN Limit(h) ELSE Min(ends) - 1

(***************************************************************************)
(* If the area's size is no multiple of 32 and nothing terminates it, the  *)
(* last descriptor goes on behind the block it was read into.              *)
(***************************************************************************)
Overhang(h, i) == h.version # DBASE2 /\ 32 * i > DescriptorsSize(h)

Readings(h, i) ==
  IF Overhang(h, i)
  THEN {d \in [Looked -> HeapBytes \cup {h.area[i][k] : k \in Looked}] :
          \A k \in Looked : IF k < DescriptorsSize(h) - 32 * (i - 1)
                            THEN d[k] = h.area[i][k] ELSE d[k] \in HeapBytes}
  ELSE {h.area[i]}

(* The fields of the descriptors, one behind the other; byte 0 of a record *)
(* says whether it is deleted.                                             *)
Fields(h, ds) ==
  LET fields[i \in 0 .. Len(ds)] ==
        IF i = 0 THEN <<>>
        ELSE LET before == fields[i - 1]
                 offset == IF i = 1 THEN 1
                           ELSE before[i - 1].offset + before[i - 1].size
             IN  Append(before, get_field(h, ds[i], offset))
  IN  fields[Len(ds)]

EndOfFields(fields) ==
  IF fields = <<>> THEN 1 ELSE fields[Len(fields)].offset + fields[Len(fields)].size

(* The descriptors that are read; only the last one can overhang.          *)
DescriptorsRead(h) ==
  LET n == num_fields(h)
  IN  IF n = 0 THEN {<<>>}
      ELSE {Append(SubSeq(h.area, 1, n - 1), d) : d \in Readings(h, n)}

(***************************************************************************)
(* The fields of a record lie side by side behind the deletion flag and    *)
(* fill the record: every byte belongs to one field and no field reaches   *)
(* beyond.                                                                 *)
(***************************************************************************)
FieldsTile(fields, record_size) ==
  /\ \A i \in DOMAIN fields : fields[i].offset >= 1
                              /\ fields[i].offset + fields[i].size <= record_size
  /\ \A b \in 1 .. record_size - 1 :
       Cardinality({i \in DOMAIN fields :
                      b \in fields[i].offset .. fields[i].offset + fields[i].size - 1}) = 1
=============================================================================
