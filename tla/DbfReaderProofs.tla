-------------------------- MODULE DbfReaderProofs ---------------------------
(***************************************************************************)
(* The reader of dbf.c, for all files, fields and bounds.                  *)
(***************************************************************************)
EXTENDS DbfReader, FileStreamProofs, FiniteSetTheorems

Field == [offset : Nat, size : Nat]

-----------------------------------------------------------------------------
(* The fields of a header, however many there are.                         *)

(* A field begins where it is told to.                                     *)
LEMMA GetFieldFacts ==
  ASSUME NEW h, NEW d \in Descriptor, NEW offset \in Nat
  PROVE  get_field(h, d, offset) \in Field /\ get_field(h, d, offset).offset = offset
<1>1. /\ d[11] \in Nat /\ d[12] \in Nat /\ d[15] \in Nat
      /\ d[16] \in Nat /\ d[17] \in Nat
  BY DEF Descriptor, Looked, Byte
<1>2. /\ field_size(d[11], d[12], d[15]) \in Nat
      /\ field_size(d[11], d[16], d[17]) \in Nat
  BY <1>1 DEF field_size
<1>. QED
  BY <1>2 DEF get_field, get_field_dbase2, get_field_dbase3, Field

(* One round of the loop over the descriptors, from the fields so far.     *)
OffsetAfter(before, i) ==
  IF i = 1 THEN 1 ELSE before[i - 1].offset + before[i - 1].size

Round(h, ds, fs, i) ==
  IF i = 0 THEN <<>> ELSE Append(fs[i - 1], get_field(h, ds[i], OffsetAfter(fs[i - 1], i)))

(* The loop has a result: the recursive definition of the fields defines   *)
(* something.                                                              *)
LEMMA RoundsExist ==
  ASSUME NEW h, NEW ds, NEW n \in Nat
  PROVE  \E fs : fs = [i \in 0 .. n |-> Round(h, ds, fs, i)]
<1>. DEFINE Rounds(fs, k) == fs = [i \in 0 .. k |-> Round(h, ds, fs, i)]
            Missing == {k \in Nat : ~\E fs : Rounds(fs, k)}
<1>1. Missing = {}
  <2>1. SUFFICES ASSUME Missing # {}
                 PROVE  FALSE
    OBVIOUS
  <2>2. PICK k \in Missing : \A l \in Missing : k <= l
    <3>1. Missing \in SUBSET Nat
      OBVIOUS
    <3>. HIDE DEF Missing
    <3>. QED
      BY <2>1, <3>1, LeastNumber, Zenon
  <2>3. k \in Nat /\ ~\E fs : Rounds(fs, k)
    BY <2>2
  <2>4. CASE k = 0
    <3>. DEFINE gs == [i \in {0} |-> <<>>]
    <3>1. 0 .. 0 = {0}
      OBVIOUS
    <3>2. gs = [i \in 0 .. 0 |-> Round(h, ds, gs, i)]
      BY <3>1 DEF Round
    <3>. QED
      BY <2>3, <2>4, <3>2
  <2>5. CASE k # 0
    <3>1. k - 1 \in Nat /\ k - 1 \notin Missing
      BY <2>2, <2>3, <2>5
    <3>2. PICK fs : Rounds(fs, k - 1)
      BY <3>1
    <3>. DEFINE gs == [i \in 0 .. k |-> IF i = k THEN Round(h, ds, fs, k) ELSE fs[i]]
    <3>3. \A i \in 0 .. k - 1 : gs[i] = fs[i] /\ fs[i] = Round(h, ds, fs, i)
      BY <2>3, <3>2
    <3>4. \A i \in 0 .. k : Round(h, ds, gs, i) = Round(h, ds, fs, i)
      <4>1. \A i \in 0 .. k : i # 0 => i - 1 \in 0 .. k - 1
        BY <2>3
      <4>. HIDE DEF gs
      <4>. QED
        BY <3>3, <4>1 DEF Round
    <3>5. \A i \in 0 .. k : gs[i] = Round(h, ds, gs, i)
      <4>1. \A i \in 0 .. k : i = k \/ i \in 0 .. k - 1
        BY <2>3
      <4>2. gs[k] = Round(h, ds, fs, k)
        BY <2>3
      <4>. QED
        BY <2>3, <3>3, <3>4, <4>1, <4>2
    <3>6. gs = [i \in 0 .. k |-> gs[i]]
      OBVIOUS
    <3>7. Rounds(gs, k)
      <4>. HIDE DEF gs
      <4>. QED
        BY <3>5, <3>6
    <3>. QED
      BY <2>3, <3>7
  <2>. QED
    BY <2>4, <2>5
<1>. QED
  BY <1>1

(* The fields of a header are what the last round leaves.                  *)
LEMMA FieldsAreRounds ==
  ASSUME NEW h, NEW ds \in Seq(Descriptor)
  PROVE  \E fs : /\ fs = [i \in 0 .. Len(ds) |-> Round(h, ds, fs, i)]
                 /\ Fields(h, ds) = fs[Len(ds)]
<1>. DEFINE fs == CHOOSE gs : gs = [i \in 0 .. Len(ds) |-> Round(h, ds, gs, i)]
<1>1. \E gs : gs = [i \in 0 .. Len(ds) |-> Round(h, ds, gs, i)]
  <2>1. Len(ds) \in Nat
    OBVIOUS
  <2>. QED
    BY <2>1, RoundsExist, Zenon
<1>2. fs = [i \in 0 .. Len(ds) |-> Round(h, ds, fs, i)]
  BY <1>1, Zenon
<1>3. Fields(h, ds) = fs[Len(ds)]
  BY DEF Fields, Round, OffsetAfter
<1>. QED
  BY <1>2, <1>3
(* Fields that follow one another from byte 1 on.                          *)
Chain(fs) ==
  /\ fs \in Seq(Field)
  /\ fs # <<>> => fs[1].offset = 1
  /\ \A i \in 1 .. Len(fs) - 1 : fs[i + 1].offset = fs[i].offset + fs[i].size

(* A field where the others end goes on with the chain.                    *)
LEMMA ChainGoesOn ==
  ASSUME NEW fs, Chain(fs), NEW f \in Field, f.offset = OffsetAfter(fs, Len(fs) + 1)
  PROVE  Chain(Append(fs, f)) /\ Len(Append(fs, f)) = Len(fs) + 1
<1>. DEFINE gs == Append(fs, f)
<1>1. fs \in Seq(Field) /\ Len(fs) \in Nat
  BY DEF Chain
<1>2. /\ gs \in Seq(Field) /\ Len(gs) = Len(fs) + 1
      /\ gs[Len(fs) + 1] = f
      /\ \A i \in 1 .. Len(fs) : gs[i] = fs[i]
  BY <1>1
<1>. HIDE DEF gs
<1>3. gs # <<>> => gs[1].offset = 1
  <2>1. CASE Len(fs) = 0
    BY <1>2, <2>1 DEF OffsetAfter
  <2>2. CASE Len(fs) # 0
    BY <1>1, <1>2, <2>2 DEF Chain
  <2>. QED
    BY <2>1, <2>2
<1>4. ASSUME NEW i \in 1 .. Len(gs) - 1
      PROVE  gs[i + 1].offset = gs[i].offset + gs[i].size
  <2>1. CASE i = Len(fs)
    BY <1>1, <1>2, <2>1 DEF OffsetAfter
  <2>2. CASE i # Len(fs)
    <3>1. i \in 1 .. Len(fs) - 1 /\ i + 1 \in 1 .. Len(fs)
      BY <1>1, <1>2, <1>4, <2>2
    <3>. QED
      BY <1>2, <3>1 DEF Chain
  <2>. QED
    BY <2>1, <2>2
<1>. QED
  BY <1>2, <1>3, <1>4 DEF Chain, gs

(* There is a field for each descriptor, and they are a chain.             *)
LEMMA FieldsFacts ==
  ASSUME NEW h, NEW ds \in Seq(Descriptor)
  PROVE  Chain(Fields(h, ds)) /\ Len(Fields(h, ds)) = Len(ds)
<1>1. PICK fs : /\ fs = [i \in 0 .. Len(ds) |-> Round(h, ds, fs, i)]
                /\ Fields(h, ds) = fs[Len(ds)]
  BY FieldsAreRounds
<1>2. Len(ds) \in Nat /\ \A i \in 1 .. Len(ds) : ds[i] \in Descriptor
  OBVIOUS
<1>3. \A i \in 0 .. Len(ds) : fs[i] = Round(h, ds, fs, i)
  BY <1>1
<1>. DEFINE Broken == {k \in 0 .. Len(ds) : ~(Chain(fs[k]) /\ Len(fs[k]) = k)}
<1>4. Broken = {}
  <2>1. SUFFICES ASSUME Broken # {}
                 PROVE  FALSE
    OBVIOUS
  <2>2. PICK k \in Broken : \A l \in Broken : k <= l
    <3>1. Broken \in SUBSET Nat
      OBVIOUS
    <3>. HIDE DEF Broken
    <3>. QED
      BY <2>1, <3>1, LeastNumber, Zenon
  <2>3. k \in 0 .. Len(ds) /\ ~(Chain(fs[k]) /\ Len(fs[k]) = k)
    BY <2>2
  <2>4. CASE k = 0
    <3>1. fs[0] = <<>>
      BY <1>2, <1>3 DEF Round
    <3>. QED
      BY <2>3, <2>4, <3>1 DEF Chain
  <2>5. CASE k # 0
    <3>1. k - 1 \in 0 .. Len(ds) /\ k - 1 \notin Broken /\ k \in 1 .. Len(ds)
      BY <1>2, <2>2, <2>3, <2>5
    <3>2. Chain(fs[k - 1]) /\ Len(fs[k - 1]) = k - 1
      BY <3>1
    <3>. DEFINE offset == OffsetAfter(fs[k - 1], k)
                f == get_field(h, ds[k], offset)
    <3>3. fs[k] = Append(fs[k - 1], f)
      BY <1>3, <2>3, <2>5 DEF Round
    <3>4. offset \in Nat
      <4>1. k - 1 # 0 => fs[k - 1][k - 1] \in Field
        BY <3>1, <3>2 DEF Chain
      <4>. QED
        BY <3>1, <4>1 DEF OffsetAfter, Field
    <3>5. f \in Field /\ f.offset = offset
      BY <1>2, <3>1, <3>4, GetFieldFacts
    <3>6. k = Len(fs[k - 1]) + 1
      BY <3>1, <3>2
    <3>. HIDE DEF f
    <3>7. Chain(Append(fs[k - 1], f)) /\ Len(Append(fs[k - 1], f)) = k
      BY <3>2, <3>5, <3>6, ChainGoesOn
    <3>. QED
      BY <2>3, <3>3, <3>7
  <2>. QED
    BY <2>4, <2>5
<1>5. Len(ds) \in 0 .. Len(ds) /\ Len(ds) \notin Broken
  BY <1>2, <1>4
<1>. QED
  BY <1>1, <1>5

(* In a chain a field ends before any later one begins.                    *)
LEMMA ChainOrdered ==
  ASSUME NEW fs, Chain(fs)
  PROVE  /\ \A i \in 1 .. Len(fs) : /\ fs[i].offset \in Nat /\ fs[i].size \in Nat
                                  /\ fs[i].offset >= 1
         /\ \A i, j \in 1 .. Len(fs) : i < j => fs[i].offset + fs[i].size <= fs[j].offset
<1>1. /\ Len(fs) \in Nat
      /\ \A i \in 1 .. Len(fs) : fs[i].offset \in Nat /\ fs[i].size \in Nat
  <2>1. Len(fs) \in Nat /\ \A i \in 1 .. Len(fs) : fs[i] \in Field
    BY DEF Chain
  <2>. QED
    BY <2>1 DEF Field
<1>2. ASSUME NEW i \in 1 .. Len(fs), NEW j \in 1 .. Len(fs), i < j
      PROVE  fs[i].offset + fs[i].size <= fs[j].offset
  <2>. DEFINE Early == {k \in 1 .. Len(fs) : i < k /\ fs[k].offset < fs[i].offset + fs[i].size}
  <2>1. Early = {}
    <3>1. SUFFICES ASSUME Early # {}
                   PROVE  FALSE
      OBVIOUS
    <3>2. PICK k \in Early : \A l \in Early : k <= l
      <4>1. Early \in SUBSET Nat
        OBVIOUS
      <4>. HIDE DEF Early
      <4>. QED
        BY <3>1, <4>1, LeastNumber, Zenon
    <3>3. k - 1 \in 1 .. Len(fs) - 1 /\ k - 1 \in 1 .. Len(fs) /\ k - 1 \notin Early
      <4>1. k \in 1 .. Len(fs) /\ i < k
        BY <3>2
      <4>2. k - 1 \in 1 .. Len(fs) - 1 /\ k - 1 \in 1 .. Len(fs) /\ ~(k <= k - 1)
        BY <1>1, <4>1
      <4>3. k - 1 \notin Early
        <5>. HIDE DEF Early
        <5>. QED
          BY <3>2, <4>2, Zenon
      <4>. QED
        BY <4>2, <4>3
    <3>4. fs[k].offset = fs[k - 1].offset + fs[k - 1].size
      BY <1>1, <3>2, <3>3 DEF Chain
    <3>5. k \in 1 .. Len(fs) /\ i < k /\ fs[k].offset < fs[i].offset + fs[i].size
      BY <3>2
    <3>6. /\ fs[i].offset \in Nat /\ fs[i].size \in Nat /\ fs[k].offset \in Nat
          /\ fs[k - 1].offset \in Nat /\ fs[k - 1].size \in Nat
      BY <1>1, <3>3, <3>5
    <3>7. CASE i = k - 1
      BY <3>4, <3>5, <3>6, <3>7
    <3>8. CASE i # k - 1
      <4>1. i < k - 1
        BY <3>5, <3>8
      <4>2. ~(fs[k - 1].offset < fs[i].offset + fs[i].size)
        BY <3>3, <4>1
      <4>. QED
        BY <3>4, <3>5, <3>6, <4>2
    <3>. QED
      BY <3>7, <3>8
  <2>2. ~(fs[j].offset < fs[i].offset + fs[i].size)
    BY <1>2, <2>1
  <2>3. fs[j].offset \in Nat /\ fs[i].offset \in Nat /\ fs[i].size \in Nat
    BY <1>1
  <2>. QED
    BY <2>2, <2>3
<1>3. ASSUME NEW i \in 1 .. Len(fs)
      PROVE  fs[i].offset >= 1
  <2>1. fs[1].offset = 1 /\ 1 \in 1 .. Len(fs)
    BY <1>1 DEF Chain
  <2>. QED
    BY <1>1, <1>2, <2>1
<1>. QED
  BY <1>1, <1>2, <1>3

(***************************************************************************)
(* Fields that are a chain and end with the record fill the record: what   *)
(* the check of the sum in read_header_dbase2 and read_header_dbase3 is    *)
(* for.                                                                    *)
(***************************************************************************)
THEOREM ChainFillsRecord ==
  ASSUME NEW fs, Chain(fs), NEW size, EndOfFields(fs) = size
  PROVE  FieldsTile(fs, size)
<1>. DEFINE end(i) == fs[i].offset + fs[i].size
<1>0. Len(fs) \in Nat
  BY DEF Chain
<1>1. /\ Len(fs) \in Nat /\ DOMAIN fs = 1 .. Len(fs)
      /\ \A i \in 1 .. Len(fs) : /\ fs[i].offset \in Nat /\ fs[i].size \in Nat
                               /\ fs[i].offset >= 1
      /\ \A i, j \in 1 .. Len(fs) : i < j => end(i) <= fs[j].offset
  BY ChainOrdered DEF Chain
<1>2. IF fs = <<>> THEN size = 1 ELSE Len(fs) \in 1 .. Len(fs) /\ size = end(Len(fs))
  BY <1>1 DEF EndOfFields, Chain
<1>3. size \in Nat
  BY <1>1, <1>2
<1>4. \A i \in 1 .. Len(fs) : end(i) <= size
  <2>1. SUFFICES ASSUME NEW i \in 1 .. Len(fs)
                 PROVE  end(i) <= size
    OBVIOUS
  <2>2. size = end(Len(fs)) /\ Len(fs) \in 1 .. Len(fs)
    BY <1>1, <1>2
  <2>3. CASE i = Len(fs)
    BY <1>1, <2>2, <2>3
  <2>4. CASE i < Len(fs)
    <3>1. end(i) <= fs[Len(fs)].offset
      BY <1>1, <2>2, <2>4
    <3>. QED
      BY <1>1, <2>2, <3>1
  <2>5. i = Len(fs) \/ i < Len(fs)
    BY <1>0
  <2>. QED
    BY <2>3, <2>4, <2>5
<1>5. ASSUME NEW b \in 1 .. size - 1
      PROVE  Cardinality({i \in DOMAIN fs : b \in fs[i].offset .. end(i) - 1}) = 1
  <2>. DEFINE Beyond == {i \in 1 .. Len(fs) : b < end(i)}
              Owners == {i \in DOMAIN fs : b \in fs[i].offset .. end(i) - 1}
  <2>1. PICK i \in Beyond : \A k \in Beyond : i <= k
    <3>1. fs # <<>> /\ b < size
      BY <1>2, <1>3
    <3>2. Len(fs) \in Beyond
      BY <1>2, <3>1
    <3>3. Beyond \in SUBSET Nat /\ Beyond # {}
      BY <3>2
    <3>. HIDE DEF Beyond
    <3>. QED
      BY <3>3, LeastNumber, Zenon
  <2>2. i \in 1 .. Len(fs) /\ b < end(i)
    BY <2>1
  <2>3. fs[i].offset <= b
    <3>1. CASE i = 1
      <4>1. fs[1].offset = 1
        BY <1>1, <2>2, <3>1 DEF Chain
      <4>. QED
        BY <1>3, <3>1, <4>1
    <3>2. CASE i # 1
      <4>1. i - 1 \in 1 .. Len(fs) /\ i - 1 \in 1 .. Len(fs) - 1 /\ i - 1 \notin Beyond
        BY <1>1, <2>1, <2>2, <3>2
      <4>2. end(i - 1) <= b
        BY <1>1, <1>3, <4>1
      <4>3. (i - 1) + 1 = i
        BY <2>2
      <4>4. fs[i].offset = end(i - 1)
        BY <4>1, <4>3 DEF Chain
      <4>. QED
        BY <4>2, <4>4
    <3>. QED
      BY <3>1, <3>2
  <2>4. \A k \in 1 .. Len(fs) : k # i => ~(b \in fs[k].offset .. end(k) - 1)
    <3>1. SUFFICES ASSUME NEW k \in 1 .. Len(fs), k # i, b \in fs[k].offset .. end(k) - 1
                   PROVE  FALSE
      OBVIOUS
    <3>2. fs[k].offset <= b /\ b < end(k)
      BY <1>1, <3>1
    <3>3. i < k \/ k < i
      BY <2>2, <3>1
    <3>. QED
      BY <1>1, <1>3, <2>2, <2>3, <3>2, <3>3
  <2>5. Owners = {i}
    <3>1. b \in fs[i].offset .. end(i) - 1
      BY <1>1, <1>3, <2>2, <2>3
    <3>. QED
      BY <1>1, <2>2, <2>4, <3>1
  <2>. HIDE DEF Owners
  <2>6. Cardinality(Owners) = 1
    BY <2>5, FS_Singleton
  <2>. QED
    BY <2>6 DEF Owners
<1>. QED
  BY <1>1, <1>4, <1>5 DEF FieldsTile
-----------------------------------------------------------------------------
(* The descriptors of a header, however many there are.                    *)

(* What a file has for a header.                                           *)
LEMMA HeadFacts ==
  ASSUME file \in Tables
  PROVE  /\ file.head.version \in Byte
         /\ file.head.header_size \in UInt16
         /\ file.head.record_size \in UInt16
         /\ file.head.num_records \in Nat
         /\ file.head.area \in Seq(Descriptor)
         /\ Len(file.head.area) >= Limit(file.head)
         /\ file.size \in Nat /\ file.marks \subseteq Nat
         /\ \A pos \in file.marks : Aligned(file, pos)
         /\ FirstRow(file.head) \in UInt16
<1>1. IsTable(file)
  BY DbfReaderAssumption
<1>2. file.head \in HeadBytes
  BY <1>1 DEF IsTable
<1>3. /\ file.head.version \in Byte
      /\ file.head.header_size \in UInt16
      /\ file.head.record_size \in UInt16
      /\ file.head.num_records \in Nat
      /\ file.head.area \in Seq(Descriptor)
  BY <1>2 DEF HeadBytes
<1>4. FirstRow(file.head) \in UInt16
  BY <1>3 DEF FirstRow, UInt16
<1>. QED
  BY <1>1, <1>3, <1>4 DEF IsTable

(* A header whose descriptors are read has a place for them.               *)
HasArea(h) == h.version = DBASE2 \/ h.header_size > 32

(* The number of fields is at most the number of steps.                    *)
LEMMA NumFieldsFacts ==
  ASSUME file \in Tables, HasArea(file.head)
  PROVE  num_fields(file.head) \in 0 .. Limit(file.head) /\ Limit(file.head) \in Nat
<1>. DEFINE h == file.head
            ends == {i \in 1 .. Limit(h) : Terminates(h.area[i])}
<1>1. Limit(h) \in Nat
  <2>1. h.header_size \in Nat
    BY HeadFacts DEF UInt16
  <2>. QED
    BY <2>1 DEF HasArea, Limit, StepsUpTo, DescriptorsSize
<1>2. CASE ends = {}
  BY <1>1, <1>2 DEF num_fields
<1>3. CASE ends # {}
  <2>1. \E least \in ends : \A k \in ends : least <= k
    <3>1. ends \in SUBSET Nat
      BY <1>1
    <3>. HIDE DEF ends
    <3>. QED
      BY <1>3, <3>1, LeastNumber, Zenon
  <2>2. Min(ends) \in ends
    <3>. HIDE DEF ends
    <3>. QED
      BY <2>1, Zenon DEF Min
  <2>3. num_fields(h) = Min(ends) - 1
    BY <1>3 DEF num_fields
  <2>. QED
    BY <1>1, <2>2, <2>3
<1>. QED
  BY <1>2, <1>3

(* What is read of a descriptor is one, also if it overhangs its area.     *)
LEMMA ReadingsFacts ==
  ASSUME NEW h, NEW i, h.area[i] \in Descriptor
  PROVE  Readings(h, i) \subseteq Descriptor
<1>1. HeapBytes \cup {h.area[i][k] : k \in Looked} \subseteq Byte
  BY DbfHeaderAssumption DEF Descriptor
<1>. QED
  BY <1>1 DEF Readings, Descriptor

(* The code reads descriptors and nothing else for its fields.             *)
LEMMA DescriptorsReadFacts ==
  ASSUME file \in Tables, HasArea(file.head)
  PROVE  DescriptorsRead(file.head) \subseteq Seq(Descriptor)
<1>. DEFINE h == file.head
            n == num_fields(h)
<1>1. /\ n \in 0 .. Limit(h) /\ Limit(h) \in Nat /\ h.area \in Seq(Descriptor)
      /\ Len(h.area) >= Limit(h) /\ Len(h.area) \in Nat
  BY NumFieldsFacts, HeadFacts
<1>. HIDE DEF h, n
<1>2. CASE n = 0
  <2>1. DescriptorsRead(h) = {<<>>}
    BY <1>2 DEF DescriptorsRead, n
  <2>. QED
    BY <2>1 DEF h
<1>3. CASE n # 0
  <2>1. n \in 1 .. Len(h.area) /\ n - 1 \in 0 .. Len(h.area)
    BY <1>1, <1>3
  <2>2. SubSeq(h.area, 1, n - 1) \in Seq(Descriptor)
    BY <1>1, <2>1
  <2>3. Readings(h, n) \subseteq Descriptor
    BY <1>1, <2>1, ReadingsFacts
  <2>4. DescriptorsRead(h) = {Append(SubSeq(h.area, 1, n - 1), d) : d \in Readings(h, n)}
    BY <1>3 DEF DescriptorsRead, n
  <2>5. ASSUME NEW d \in Readings(h, n)
        PROVE  Append(SubSeq(h.area, 1, n - 1), d) \in Seq(Descriptor)
    BY <2>2, <2>3
  <2>. QED
    BY <2>4, <2>5 DEF h
<1>. QED
  BY <1>2, <1>3
-----------------------------------------------------------------------------
(* A call in progress.                                                     *)
Sizes  == [header : UInt16, record : UInt16]
Blocks == {"header", "descriptors", "record"}

CallState ==
  [rc : {-1, 0, 1}, message : Messages, stream : Stream, nr : Nat, faults : Nat,
   blocks : SUBSET Blocks, sizes : Sizes, fields : Seq(Field), start : Nat]

(* What every stage of a call keeps of the call it continues.              *)
Progress(c, b) ==
  /\ b \in CallState
  /\ b.start = c.start
  /\ b.faults <= c.faults
  /\ b.nr - c.nr \in Nat
  /\ b.stream.pos = c.stream.pos + (b.nr - c.nr)
  /\ c.stream.pos <= file.size => b.stream.pos <= file.size
  /\ ferror(c.stream) => ferror(b.stream)

(* A stage that does not use the stream.                                   *)
Quiet(c, b) ==
  /\ b \in CallState
  /\ b.start = c.start /\ b.stream = c.stream /\ b.nr = c.nr
  /\ b.faults <= c.faults

(* What the handle has before a header is read, or after that failed.      *)
SameHeader(c, b) == b.sizes = c.sizes /\ b.fields = c.fields

Begun(c) == c \in CallState /\ c.rc = -1 /\ Running(c)

(* A call that has failed and has nothing in hand.                         *)
Failed(b) == b.rc = -1 /\ ~Running(b) /\ b.blocks = {}

(* What reads nothing moves nothing.                                       *)
LEMMA QuietProgress ==
  ASSUME file \in Tables, NEW c \in CallState, NEW b, Quiet(c, b)
  PROVE  Progress(c, b)
<1>1. c.nr \in Nat /\ c.stream.pos \in Nat
  BY DEF CallState, Stream
<1>. QED
  BY <1>1 DEF Quiet, Progress

(* A step on the way keeps what the steps before it kept.                  *)
LEMMA ProgressTransitive ==
  ASSUME file \in Tables, NEW a \in CallState, NEW b, NEW c, Progress(a, b), Progress(b, c)
  PROVE  Progress(a, c)
<1>1. /\ a.nr \in Nat /\ a.faults \in Nat /\ a.stream.pos \in Nat
      /\ b.nr \in Nat /\ b.faults \in Nat /\ b.stream.pos \in Nat
      /\ c.nr \in Nat /\ c.faults \in Nat /\ c.stream.pos \in Nat
  BY DEF Progress, CallState, Stream
<1>. QED
  BY <1>1 DEF Progress

(* A call that begins: nothing read, no message, nothing in hand.          *)
LEMMA NewCallFacts ==
  ASSUME sizes \in Sizes, fields \in Seq(Field), NEW s \in Stream, NEW budget \in Nat,
         NEW c, c = Call(s, budget)
  PROVE  /\ Begun(c)
         /\ c.stream = s /\ c.nr = 0 /\ c.faults = budget /\ c.blocks = {}
         /\ c.sizes = sizes /\ c.fields = fields /\ c.start = s.pos
<1>1. s.pos \in Nat
  BY DEF Stream
<1>. QED
  BY <1>1 DEF Call, Begun, Running, CallState, Messages, NoMessage

(* A message is all that changes when it is set.                           *)
LEMMA ExplainedFacts ==
  ASSUME NEW c \in CallState, NEW message \in Messages,
         NEW b, b = Explained(c, message)
  PROVE  /\ Quiet(c, b) /\ SameHeader(c, b)
         /\ b.rc = c.rc /\ b.blocks = c.blocks /\ b.message = message
<1>1. c.faults \in Nat
  BY DEF CallState
<1>. QED
  BY <1>1 DEF Explained, Quiet, SameHeader, CallState

(* A result is all that changes when it is set.                            *)
LEMMA AnsweredFacts ==
  ASSUME NEW c \in CallState, NEW rc \in {-1, 0, 1},
         NEW b, b = Answered(c, rc)
  PROVE  /\ Quiet(c, b) /\ SameHeader(c, b)
         /\ b.rc = rc /\ b.blocks = c.blocks /\ b.message = c.message
<1>1. c.faults \in Nat
  BY DEF CallState
<1>. QED
  BY <1>1 DEF Answered, Quiet, SameHeader, CallState

(* A test sets a message or changes nothing.                               *)
LEMMA CheckFacts ==
  ASSUME NEW c \in CallState, NEW ok \in BOOLEAN, NEW message \in Messages \ {NoMessage},
         NEW b, b = Check(c, ok, message)
  PROVE  /\ Quiet(c, b) /\ SameHeader(c, b)
         /\ b.rc = c.rc /\ b.blocks = c.blocks
         /\ Running(b) <=> Running(c) /\ ok
<1>1. CASE Running(c) /\ ~ok
  <2>1. b = Explained(c, message)
    BY <1>1 DEF Check
  <2>. QED
    BY <1>1, <2>1, ExplainedFacts DEF Running
<1>2. CASE ~(Running(c) /\ ~ok)
  <2>1. b = c
    BY <1>2 DEF Check
  <2>2. c.faults \in Nat
    BY DEF CallState
  <2>. QED
    BY <1>2, <2>1, <2>2 DEF Quiet, SameHeader
<1>. QED
  BY <1>1, <1>2

(* A block in hand.                                                        *)
LEMMA AllocatedFacts ==
  ASSUME NEW c \in CallState, NEW block \in Blocks,
         NEW b, b = Allocated(c, block)
  PROVE  /\ Quiet(c, b) /\ SameHeader(c, b)
         /\ b.rc = c.rc /\ b.message = c.message /\ b.blocks = c.blocks \cup {block}
<1>1. c.faults \in Nat /\ c.blocks \cup {block} \in SUBSET Blocks
  BY DEF CallState
<1>. QED
  BY <1>1 DEF Allocated, Quiet, SameHeader, CallState

(* A block that is freed.                                                  *)
LEMMA FreeFacts ==
  ASSUME NEW c \in CallState, NEW block,
         NEW b, b = free(c, block)
  PROVE  /\ Quiet(c, b) /\ SameHeader(c, b)
         /\ b.rc = c.rc /\ b.message = c.message /\ b.blocks = c.blocks \ {block}
<1>1. c.faults \in Nat /\ c.blocks \ {block} \in SUBSET Blocks
  BY DEF CallState
<1>. QED
  BY <1>1 DEF free, Quiet, SameHeader, CallState

(* malloc gives a block, or fails with a message and uses up a fault.      *)
LEMMA MallocFacts ==
  ASSUME NEW c \in CallState, Running(c), NEW block \in Blocks,
         NEW b \in malloc(c, block)
  PROVE  /\ Quiet(c, b) /\ SameHeader(c, b) /\ b.rc = c.rc
         /\ Running(b) => b.blocks = c.blocks \cup {block}
         /\ ~Running(b) => b.blocks = c.blocks
<1>1. CASE b = Allocated(c, block)
  BY <1>1, AllocatedFacts DEF Running
<1>2. CASE \E n \in 1 .. c.faults :
             b = Explained([c EXCEPT !.faults = c.faults - 1], "cannot_allocate")
  <2>1. c.faults \in Nat /\ c.faults > 0
    BY <1>2 DEF CallState
  <2>. DEFINE d == [c EXCEPT !.faults = c.faults - 1]
  <2>2. c.faults - 1 \in Nat /\ c.faults - 1 <= c.faults
    BY <2>1
  <2>3. /\ Quiet(c, d) /\ SameHeader(c, d)
        /\ d \in CallState /\ d.rc = c.rc /\ d.blocks = c.blocks
        /\ d.faults \in Nat /\ d.faults <= c.faults
    BY <2>2 DEF Quiet, SameHeader, CallState
  <2>4. b = Explained(d, "cannot_allocate") /\ "cannot_allocate" \in Messages \ {NoMessage}
    BY <1>2 DEF Messages, NoMessage
  <2>. HIDE DEF d
  <2>5. /\ Quiet(d, b) /\ SameHeader(d, b)
        /\ b.rc = d.rc /\ b.blocks = d.blocks /\ b.message # NoMessage
    BY <2>3, <2>4, ExplainedFacts
  <2>6. b.faults <= c.faults
    BY <2>1, <2>3, <2>5 DEF Quiet, CallState
  <2>. QED
    BY <2>3, <2>5, <2>6 DEF Quiet, SameHeader, Running
<1>. QED
  BY <1>1, <1>2 DEF malloc

(* file_fread counts what it reads, which is where the stream moved.       *)
LEMMA FileFreadFacts ==
  ASSUME file \in Tables, NEW c \in CallState, NEW count \in Nat,
         NEW b \in file_fread(c, count)
  PROVE  /\ Progress(c, b) /\ SameHeader(c, b)
         /\ b.rc = c.rc /\ b.message = c.message /\ b.blocks = c.blocks
         /\ b.nr - c.nr \in 0 .. count
         /\ b.nr - c.nr < count => feof(b.stream) \/ ferror(b.stream)
         /\ ~ferror(b.stream) =>
              b.nr - c.nr = IF count <= Available(c.stream, file.size)
                            THEN count ELSE Available(c.stream, file.size)
<1>1. /\ c.stream \in Stream /\ c.faults \in Nat /\ c.nr \in Nat
      /\ file.size \in Nat /\ c.stream.pos \in Nat
  BY HeadFacts DEF CallState, Stream
<1>2. PICK r \in fread(c.stream, file.size, count, c.faults) :
        b = [c EXCEPT !.stream = r.stream, !.nr = c.nr + r.nr, !.faults = c.faults - r.fault]
  BY DEF file_fread
<1>3. /\ r.stream \in Stream /\ r.nr \in 0 .. count
      /\ r.stream.pos = c.stream.pos + r.nr
      /\ r.nr > 0 => r.stream.pos <= file.size
  BY <1>1, FreadFacts
<1>4. /\ r.nr < count => feof(r.stream) \/ ferror(r.stream)
      /\ ferror(c.stream) => ferror(r.stream)
      /\ r.fault \in Nat /\ r.fault <= c.faults
  BY <1>1, FreadFacts
<1>5. ~ferror(r.stream) =>
        r.nr = IF count <= Available(c.stream, file.size)
               THEN count ELSE Available(c.stream, file.size)
  BY <1>1, FreadOutcomes
<1>6. c.nr + r.nr \in Nat /\ c.faults - r.fault \in Nat
  BY <1>1, <1>3, <1>4
<1>7. /\ b \in CallState /\ SameHeader(c, b)
      /\ b.stream = r.stream /\ b.nr = c.nr + r.nr /\ b.faults = c.faults - r.fault
      /\ b.rc = c.rc /\ b.message = c.message /\ b.blocks = c.blocks
      /\ b.start = c.start
  <2>. DEFINE s == r.stream
              nr == c.nr + r.nr
              budget == c.faults - r.fault
  <2>1. b = [c EXCEPT !.stream = s, !.nr = nr, !.faults = budget]
    BY <1>2
  <2>2. s \in Stream /\ nr \in Nat /\ budget \in Nat
    BY <1>3, <1>6
  <2>. HIDE DEF s, nr, budget
  <2>3. /\ b \in CallState /\ SameHeader(c, b)
        /\ b.stream = s /\ b.nr = nr /\ b.faults = budget
        /\ b.rc = c.rc /\ b.message = c.message /\ b.blocks = c.blocks
        /\ b.start = c.start
    BY <2>1, <2>2 DEF CallState, SameHeader
  <2>. QED
    BY <2>3, Zenon DEF s, nr, budget
<1>8. b.nr - c.nr = r.nr /\ b.faults <= c.faults
  BY <1>1, <1>3, <1>4, <1>7
<1>9. c.stream.pos <= file.size => b.stream.pos <= file.size
  BY <1>1, <1>3, <1>7
<1>10. Progress(c, b)
  <2>1. r.nr \in Nat /\ b.stream.pos = c.stream.pos + (b.nr - c.nr)
    BY <1>3, <1>7, <1>8
  <2>. QED
    BY <1>4, <1>7, <1>8, <1>9, <2>1 DEF Progress
<1>. QED
  BY <1>3, <1>4, <1>5, <1>7, <1>8, <1>10

(* A block that was read has all its bytes and no error, or a message.     *)
LEMMA ReadBlockFacts ==
  ASSUME file \in Tables, NEW c, Begun(c), NEW count \in Nat,
         NEW unreadable \in Messages \ {NoMessage}, NEW short \in Messages \ {NoMessage},
         NEW b \in ReadBlock(c, count, unreadable, short)
  PROVE  /\ Progress(c, b) /\ SameHeader(c, b)
         /\ b.rc = -1 /\ b.blocks = c.blocks
         /\ Running(b) => ~ferror(b.stream) /\ b.nr = c.nr + count
<1>1. c \in CallState /\ Running(c) /\ c.rc = -1
  BY DEF Begun
<1>2. PICK r \in file_fread(c, count) :
        b = Check(Check(r, ~ferror(r.stream), unreadable), r.nr = c.nr + count, short)
  BY DEF ReadBlock
<1>3. /\ Progress(c, r) /\ SameHeader(c, r) /\ r \in CallState
      /\ r.rc = c.rc /\ r.blocks = c.blocks /\ Running(r)
  BY <1>1, FileFreadFacts DEF Running, Progress
<1>. DEFINE good == ~ferror(r.stream)
            whole == r.nr = c.nr + count
            d == Check(r, good, unreadable)
<1>. good \in BOOLEAN /\ whole \in BOOLEAN
  BY DEF ferror
<1>4. /\ Quiet(r, d) /\ SameHeader(r, d) /\ d.rc = r.rc /\ d.blocks = r.blocks
      /\ Running(d) <=> Running(r) /\ good
      /\ d \in CallState /\ d.stream = r.stream
  <2>. HIDE DEF good
  <2>. QED
    BY <1>3, CheckFacts DEF Quiet
<1>5. b = Check(d, whole, short)
  BY <1>2
<1>6. /\ Quiet(d, b) /\ SameHeader(d, b) /\ b.rc = d.rc /\ b.blocks = d.blocks
      /\ Running(b) <=> Running(d) /\ whole
  <2>. HIDE DEF d, whole
  <2>. QED
    BY <1>4, <1>5, CheckFacts
<1>. HIDE DEF d
<1>7. Progress(c, b)
  <2>1. Progress(r, d) /\ Progress(d, b)
    BY <1>3, <1>4, <1>6, QuietProgress
  <2>. QED
    BY <1>1, <1>3, <2>1, ProgressTransitive
<1>8. b.stream = r.stream /\ b.nr = r.nr
  BY <1>4, <1>6 DEF Quiet
<1>. QED
  BY <1>1, <1>3, <1>4, <1>6, <1>7, <1>8 DEF SameHeader
-----------------------------------------------------------------------------
(* How the header is read, stage by stage.                                 *)

(* What a stage that is to read the header has established at its end.     *)
Built(c, b) ==
  /\ b.sizes = c.sizes
  /\ b.rc \in {-1, 1}
  /\ b.rc = 1 => /\ Running(b)
                 /\ b.blocks = c.blocks \cup {"header"}
                 /\ FieldsTile(b.fields, file.head.record_size)
  /\ b.rc = -1 => /\ ~Running(b)
                  /\ b.blocks = c.blocks
                  /\ b.fields = c.fields

(* The sum of the field lengths decides: the header with fields that fill  *)
(* the record, or no header.                                               *)
LEMMA SumCheckedFacts ==
  ASSUME NEW c \in CallState, "header" \notin c.blocks, c.rc = -1, Running(c),
         NEW d, d = Allocated(c, "header"),
         NEW fs, Chain(fs), NEW b, b = SumChecked(d, fs)
  PROVE  Quiet(c, b) /\ Built(c, b)
<1>1. /\ Quiet(c, d) /\ SameHeader(c, d) /\ d \in CallState
      /\ d.rc = -1 /\ Running(d) /\ d.blocks = c.blocks \cup {"header"}
  BY AllocatedFacts DEF Quiet, Blocks, Running
<1>2. CASE EndOfFields(fs) # file.head.record_size
  <2>. DEFINE message == "sum_of_field_lengths_differs"
              e == Explained(d, message)
  <2>1. message \in Messages \ {NoMessage}
    BY DEF Messages, NoMessage
  <2>2. /\ Quiet(d, e) /\ SameHeader(d, e) /\ e \in CallState
        /\ e.rc = -1 /\ ~Running(e) /\ e.blocks = d.blocks
    BY <1>1, <2>1, ExplainedFacts DEF Quiet, Running
  <2>. HIDE DEF e
  <2>3. b = free(e, "header")
    BY <1>2 DEF SumChecked, e
  <2>4. /\ Quiet(e, b) /\ SameHeader(e, b)
        /\ b.rc = -1 /\ ~Running(b) /\ b.blocks = e.blocks \ {"header"}
    BY <2>2, <2>3, FreeFacts DEF Running
  <2>5. b.blocks = c.blocks
    BY <1>1, <2>2, <2>4
  <2>6. Quiet(c, b)
    <3>1. c.faults \in Nat /\ d.faults \in Nat /\ e.faults \in Nat /\ b.faults \in Nat
      BY <1>1, <2>2, <2>4 DEF Quiet, CallState
    <3>. QED
      BY <1>1, <2>2, <2>4, <3>1 DEF Quiet
  <2>. QED
    BY <1>1, <2>2, <2>4, <2>5, <2>6 DEF Built, SameHeader
<1>3. CASE EndOfFields(fs) = file.head.record_size
  <2>1. b = [d EXCEPT !.rc = 1, !.fields = fs]
    BY <1>3 DEF SumChecked
  <2>2. fs \in Seq(Field)
    BY DEF Chain
  <2>3. /\ b \in CallState /\ b.rc = 1 /\ b.fields = fs
        /\ b.message = d.message /\ b.stream = d.stream /\ b.nr = d.nr
        /\ b.faults = d.faults /\ b.blocks = d.blocks /\ b.sizes = d.sizes
        /\ b.start = d.start
    BY <1>1, <2>1, <2>2 DEF CallState
  <2>4. FieldsTile(fs, file.head.record_size)
    BY <1>3, ChainFillsRecord
  <2>5. Quiet(c, b)
    BY <1>1, <2>3 DEF Quiet
  <2>. QED
    BY <1>1, <2>3, <2>4, <2>5 DEF Built, SameHeader, Running
<1>. QED
  BY <1>2, <1>3

(* The header is allocated and has fields that fill the record, or there   *)
(* is a message and nothing more allocated than before.                    *)
LEMMA BuildHeaderFacts ==
  ASSUME file \in Tables, HasArea(file.head), NEW c, Begun(c), "header" \notin c.blocks,
         NEW b \in BuildHeader(c)
  PROVE  Quiet(c, b) /\ Built(c, b)
<1>1. c \in CallState /\ c.rc = -1 /\ Running(c) /\ "header" \in Blocks
  BY DEF Begun, Blocks
<1>2. PICK m \in malloc(c, "header") :
        b \in IF Running(m)
              THEN {SumChecked(m, Fields(file.head, ds)) : ds \in DescriptorsRead(file.head)}
              ELSE {m}
  BY DEF BuildHeader
<1>3. CASE Running(m)
  <2>1. m = Allocated(c, "header")
    <3>1. ASSUME NEW d \in CallState
          PROVE  ~Running(Explained(d, "cannot_allocate"))
      <4>1. "cannot_allocate" \in Messages \ {NoMessage}
        BY DEF Messages, NoMessage
      <4>. QED
        BY <4>1, ExplainedFacts DEF Running
    <3>2. ASSUME NEW n \in 1 .. c.faults
          PROVE  [c EXCEPT !.faults = c.faults - 1] \in CallState
      <4>1. c.faults \in Nat
        BY <1>1 DEF CallState
      <4>2. c.faults - 1 \in Nat
        BY <3>2, <4>1
      <4>. QED
        BY <1>1, <4>2 DEF CallState
    <3>. QED
      BY <1>3, <3>1, <3>2 DEF malloc
  <2>2. PICK ds \in DescriptorsRead(file.head) : b = SumChecked(m, Fields(file.head, ds))
    BY <1>2, <1>3
  <2>3. ds \in Seq(Descriptor)
    BY <2>2, DescriptorsReadFacts
  <2>4. Chain(Fields(file.head, ds))
    BY <2>3, FieldsFacts
  <2>. QED
    BY <1>1, <2>1, <2>2, <2>4, SumCheckedFacts
<1>4. CASE ~Running(m)
  <2>1. b = m
    BY <1>2, <1>4
  <2>. QED
    BY <1>1, <1>4, <2>1, MallocFacts DEF Built, SameHeader
<1>. QED
  BY <1>3, <1>4

(* A stage that reads the header from where the call stands.               *)
HeaderRead(c, b, count) ==
  /\ Progress(c, b)
  /\ Built(c, b)
  /\ b.rc = 1 => ~ferror(b.stream) /\ b.nr = c.nr + count /\ file.head.record_size >= 1

(* A stage that goes on where an earlier one succeeded.                    *)
LEMMA HeaderReadAfter ==
  ASSUME file \in Tables, NEW c \in CallState, NEW h, Progress(c, h), SameHeader(c, h),
         h.blocks = c.blocks, ~ferror(h.stream), NEW count \in Nat, h.nr = c.nr + count,
         file.head.record_size >= 1, NEW b, Quiet(h, b), Built(h, b)
  PROVE  HeaderRead(c, b, count)
<1>1. h \in CallState /\ b.stream = h.stream /\ b.nr = h.nr
  BY DEF Progress, Quiet
<1>2. Progress(c, b)
  BY <1>1, QuietProgress, ProgressTransitive
<1>. QED
  BY <1>1, <1>2 DEF HeaderRead, Built, SameHeader

(* A stage that has set a message.                                         *)
LEMMA HeaderReadFails ==
  ASSUME file \in Tables, NEW c, NEW b, Progress(c, b), SameHeader(c, b),
         b.blocks = c.blocks, b.rc = -1, ~Running(b), NEW count
  PROVE  HeaderRead(c, b, count)
BY DEF HeaderRead, Built, SameHeader

(* One check after another: what they leave a call that goes on is true.   *)
LEMMA ProgressCheck ==
  ASSUME file \in Tables, NEW c \in CallState, NEW b, Progress(c, b), SameHeader(c, b),
         b.blocks = c.blocks, b.rc = -1,
         NEW ok \in BOOLEAN, NEW message \in Messages \ {NoMessage},
         NEW h, h = Check(b, ok, message)
  PROVE  /\ Progress(c, h) /\ SameHeader(c, h) /\ h.blocks = c.blocks /\ h.rc = -1
         /\ h.stream = b.stream /\ h.nr = b.nr /\ h \in CallState
         /\ Running(h) <=> Running(b) /\ ok
<1>1. b \in CallState
  BY DEF Progress
<1>2. /\ Quiet(b, h) /\ SameHeader(b, h) /\ h.rc = b.rc /\ h.blocks = b.blocks
      /\ Running(h) <=> Running(b) /\ ok
  BY <1>1, CheckFacts
<1>3. Progress(c, h)
  BY <1>1, <1>2, QuietProgress, ProgressTransitive
<1>. QED
  BY <1>2, <1>3 DEF SameHeader, Quiet

(* A dBASE II header.                                                      *)
LEMMA ReadHeaderDbase2Facts ==
  ASSUME file \in Tables, file.head.version = DBASE2,
         NEW c, Begun(c), "header" \notin c.blocks,
         NEW b \in read_header_dbase2(c)
  PROVE  HeaderRead(c, b, 520)
<1>. DEFINE unreadable == "cannot_read_file_header"
            short == "expected_file_header"
            invalid == "record_size_is_invalid"
            ok == file.head.record_size >= 1
<1>1. {unreadable, short, invalid} \subseteq Messages \ {NoMessage} /\ ok \in BOOLEAN
  BY DEF Messages, NoMessage
<1>2. PICK r \in ReadBlock(c, 520, unreadable, short) :
        b \in IF Running(Check(r, ok, invalid))
              THEN BuildHeader(Check(r, ok, invalid)) ELSE {Check(r, ok, invalid)}
  BY DEF read_header_dbase2
<1>. HIDE DEF unreadable, short, invalid, ok
<1>3. /\ Progress(c, r) /\ SameHeader(c, r) /\ r.rc = -1 /\ r.blocks = c.blocks
      /\ Running(r) => ~ferror(r.stream) /\ r.nr = c.nr + 520
  BY <1>1, <1>2, ReadBlockFacts
<1>. DEFINE h == Check(r, ok, invalid)
<1>. c \in CallState
  BY DEF Begun
<1>4. /\ Progress(c, h) /\ SameHeader(c, h) /\ h.blocks = c.blocks /\ h.rc = -1
      /\ h.stream = r.stream /\ h.nr = r.nr /\ h \in CallState
      /\ Running(h) <=> Running(r) /\ ok
  BY <1>1, <1>3, ProgressCheck
<1>5. b \in IF Running(h) THEN BuildHeader(h) ELSE {h}
  BY <1>2
<1>. HIDE DEF h
<1>6. CASE Running(h)
  <2>1. Begun(h) /\ "header" \notin h.blocks /\ HasArea(file.head)
    BY <1>4, <1>6 DEF Begun, HasArea
  <2>2. Quiet(h, b) /\ Built(h, b)
    BY <1>5, <1>6, <2>1, BuildHeaderFacts
  <2>3. ~ferror(h.stream) /\ h.nr = c.nr + 520 /\ file.head.record_size >= 1
    BY <1>3, <1>4, <1>6 DEF ok
  <2>. QED
    BY <1>4, <2>2, <2>3, HeaderReadAfter
<1>7. CASE ~Running(h)
  BY <1>4, <1>5, <1>7, HeaderReadFails
<1>. QED
  BY <1>6, <1>7

(* The descriptors and what is built from them.                            *)
LEMMA ReadDescriptorsFacts ==
  ASSUME file \in Tables, HasArea(file.head), DescriptorsSize(file.head) \in Nat,
         file.head.record_size >= 1,
         NEW c, Begun(c), "header" \notin c.blocks,
         NEW b \in ReadDescriptors(c)
  PROVE  HeaderRead(c, b, DescriptorsSize(file.head))
<1>. DEFINE unreadable == "cannot_read_field_descriptors"
            short == "expected_field_descriptors"
            many == "expected_fewer_fields"
            ok == num_fields(file.head) <= 2046
            count == DescriptorsSize(file.head)
<1>1. {unreadable, short, many} \subseteq Messages \ {NoMessage} /\ ok \in BOOLEAN
  BY DEF Messages, NoMessage
<1>2. PICK r \in ReadBlock(c, count, unreadable, short) :
        b \in IF Running(Check(r, ok, many))
              THEN BuildHeader(Check(r, ok, many)) ELSE {Check(r, ok, many)}
  BY DEF ReadDescriptors
<1>. count \in Nat
  OBVIOUS
<1>. HIDE DEF unreadable, short, many, ok, count
<1>3. /\ Progress(c, r) /\ SameHeader(c, r) /\ r.rc = -1 /\ r.blocks = c.blocks
      /\ Running(r) => ~ferror(r.stream) /\ r.nr = c.nr + count
  BY <1>1, <1>2, ReadBlockFacts
<1>. DEFINE h == Check(r, ok, many)
<1>. c \in CallState
  BY DEF Begun
<1>4. /\ Progress(c, h) /\ SameHeader(c, h) /\ h.blocks = c.blocks /\ h.rc = -1
      /\ h.stream = r.stream /\ h.nr = r.nr /\ h \in CallState
      /\ Running(h) <=> Running(r) /\ ok
  BY <1>1, <1>3, ProgressCheck
<1>5. b \in IF Running(h) THEN BuildHeader(h) ELSE {h}
  BY <1>2
<1>. HIDE DEF h
<1>6. CASE Running(h)
  <2>1. Begun(h) /\ "header" \notin h.blocks
    BY <1>4, <1>6 DEF Begun
  <2>2. Quiet(h, b) /\ Built(h, b)
    BY <1>5, <1>6, <2>1, BuildHeaderFacts
  <2>3. ~ferror(h.stream) /\ h.nr = c.nr + count
    BY <1>3, <1>4, <1>6
  <2>4. HeaderRead(c, b, count)
    BY <1>4, <2>2, <2>3, HeaderReadAfter
  <2>. QED
    BY <2>4 DEF count
<1>7. CASE ~Running(h)
  BY <1>4, <1>5, <1>7, HeaderReadFails
<1>. QED
  BY <1>6, <1>7

(* The sizes of a header that goes on leave room for descriptors.          *)
LEMMA SizesCheckedFacts ==
  ASSUME file \in Tables, NEW c \in CallState, NEW b, Progress(c, b), SameHeader(c, b),
         b.blocks = c.blocks, b.rc = -1, NEW h, h = SizesChecked(b)
  PROVE  /\ Progress(c, h) /\ SameHeader(c, h) /\ h.blocks = c.blocks /\ h.rc = -1
         /\ h.stream = b.stream /\ h.nr = b.nr /\ h \in CallState
         /\ Running(h) <=> /\ Running(b)
                           /\ file.head.header_size > 32 /\ file.head.record_size >= 1
<1>. DEFINE first == "header_size_is_invalid"
            second == "record_size_is_invalid"
            third == "no_field_descriptors"
            long == file.head.header_size >= 32
            row == file.head.record_size >= 1
            some == file.head.header_size # 32
            d == Check(b, long, first)
            e == Check(d, row, second)
            f == Check(e, some, third)
<1>1. /\ {first, second, third} \subseteq Messages \ {NoMessage}
      /\ long \in BOOLEAN /\ row \in BOOLEAN /\ some \in BOOLEAN
  BY DEF Messages, NoMessage
<1>2. h = f
  BY DEF SizesChecked
<1>3. long /\ some /\ row <=> file.head.header_size > 32 /\ file.head.record_size >= 1
  <2>1. file.head.header_size \in Nat
    BY HeadFacts DEF UInt16
  <2>. QED
    BY <2>1
<1>. HIDE DEF first, second, third, long, row, some
<1>4. /\ Progress(c, d) /\ SameHeader(c, d) /\ d.blocks = c.blocks /\ d.rc = -1
      /\ d.stream = b.stream /\ d.nr = b.nr
      /\ Running(d) <=> Running(b) /\ long
  BY <1>1, ProgressCheck
<1>. HIDE DEF d
<1>5. /\ Progress(c, e) /\ SameHeader(c, e) /\ e.blocks = c.blocks /\ e.rc = -1
      /\ e.stream = d.stream /\ e.nr = d.nr
      /\ Running(e) <=> Running(d) /\ row
  BY <1>1, <1>4, ProgressCheck
<1>. HIDE DEF e
<1>6. /\ Progress(c, f) /\ SameHeader(c, f) /\ f.blocks = c.blocks /\ f.rc = -1
      /\ f.stream = e.stream /\ f.nr = e.nr /\ f \in CallState
      /\ Running(f) <=> Running(e) /\ some
  BY <1>1, <1>5, ProgressCheck
<1>. HIDE DEF f
<1>. QED
  BY <1>2, <1>3, <1>4, <1>5, <1>6

(* The header of a later version: the descriptors are in hand only while   *)
(* the fields are built from them.                                         *)
LEMMA ReadHeaderDbase3Facts ==
  ASSUME file \in Tables, NEW c, Begun(c), c.blocks = {},
         NEW b \in read_header_dbase3(c)
  PROVE  HeaderRead(c, b, 31 + DescriptorsSize(file.head))
<1>. DEFINE unreadable == "cannot_read_file_header"
            short == "expected_file_header"
            count == DescriptorsSize(file.head)
<1>1. {unreadable, short} \subseteq Messages \ {NoMessage} /\ "descriptors" \in Blocks
  BY DEF Messages, NoMessage, Blocks
<1>2. PICK r \in ReadBlock(c, 31, unreadable, short) :
        LET h == SizesChecked(r)
        IN  b \in IF ~Running(h) THEN {h}
                  ELSE UNION {IF Running(m)
                              THEN {free(d, "descriptors") : d \in ReadDescriptors(m)}
                              ELSE {m} : m \in malloc(h, "descriptors")}
  BY DEF read_header_dbase3
<1>. HIDE DEF unreadable, short
<1>3. /\ Progress(c, r) /\ SameHeader(c, r) /\ r.rc = -1 /\ r.blocks = c.blocks
      /\ Running(r) => ~ferror(r.stream) /\ r.nr = c.nr + 31
  BY <1>1, <1>2, ReadBlockFacts
<1>. DEFINE h == SizesChecked(r)
<1>. c \in CallState
  BY DEF Begun
<1>4. /\ Progress(c, h) /\ SameHeader(c, h) /\ h.blocks = c.blocks /\ h.rc = -1
      /\ h.stream = r.stream /\ h.nr = r.nr /\ h \in CallState
      /\ Running(h) <=> /\ Running(r)
                        /\ file.head.header_size > 32 /\ file.head.record_size >= 1
  BY <1>3, SizesCheckedFacts
<1>5. b \in IF ~Running(h) THEN {h}
            ELSE UNION {IF Running(m)
                        THEN {free(d, "descriptors") : d \in ReadDescriptors(m)}
                        ELSE {m} : m \in malloc(h, "descriptors")}
  BY <1>2
<1>. HIDE DEF h
<1>6. CASE ~Running(h)
  BY <1>4, <1>5, <1>6, HeaderReadFails
<1>7. CASE Running(h)
  <2>1. PICK m \in malloc(h, "descriptors") :
          b \in IF Running(m) THEN {free(d, "descriptors") : d \in ReadDescriptors(m)} ELSE {m}
    BY <1>5, <1>7
  <2>2. /\ Quiet(h, m) /\ SameHeader(h, m) /\ m.rc = -1 /\ m \in CallState
        /\ Running(m) => m.blocks = {"descriptors"}
        /\ ~Running(m) => m.blocks = {}
    BY <1>1, <1>4, <1>7, <2>1, MallocFacts DEF Quiet
  <2>3. Progress(c, m) /\ SameHeader(c, m)
    BY <1>4, <2>2, QuietProgress, ProgressTransitive DEF SameHeader
  <2>4. CASE ~Running(m)
    BY <2>1, <2>2, <2>3, <2>4, HeaderReadFails
  <2>5. CASE Running(m)
    <3>1. PICK d \in ReadDescriptors(m) : b = free(d, "descriptors")
      BY <2>1, <2>5
    <3>2. count \in Nat /\ HasArea(file.head) /\ file.head.record_size >= 1
      <4>1. file.head.header_size \in Nat /\ file.head.header_size > 32
        BY <1>4, <1>7, HeadFacts DEF UInt16
      <4>. QED
        BY <1>4, <1>7, <4>1 DEF DescriptorsSize, HasArea
    <3>3. HeaderRead(m, d, count)
      <4>1. Begun(m) /\ "header" \notin m.blocks
        BY <2>2, <2>5 DEF Begun
      <4>. QED
        BY <3>1, <3>2, <4>1, ReadDescriptorsFacts
    <3>4. d \in CallState
      BY <3>3 DEF HeaderRead, Progress
    <3>5. /\ Quiet(d, b) /\ SameHeader(d, b) /\ b.rc = d.rc /\ b.message = d.message
          /\ b.blocks = d.blocks \ {"descriptors"}
      BY <3>1, <3>4, FreeFacts
    <3>6. Progress(c, b)
      <4>1. Progress(m, d) /\ Progress(d, b)
        BY <3>3, <3>4, <3>5, QuietProgress DEF HeaderRead
      <4>. QED
        BY <2>2, <2>3, <3>4, <4>1, ProgressTransitive
    <3>7. Built(c, b)
      <4>1. d.rc = 1 => b.blocks = {"header"}
        BY <2>2, <2>5, <3>3, <3>5 DEF HeaderRead, Built
      <4>2. d.rc = -1 => b.blocks = {}
        BY <2>2, <2>5, <3>3, <3>5 DEF HeaderRead, Built
      <4>. QED
        BY <2>3, <3>3, <3>5, <4>1, <4>2 DEF HeaderRead, Built, SameHeader, Running
    <3>8. b.rc = 1 => ~ferror(b.stream) /\ b.nr = c.nr + (31 + count)
      <4>1. ASSUME b.rc = 1
            PROVE  ~ferror(b.stream) /\ b.nr = m.nr + count
        BY <3>3, <3>5, <4>1 DEF HeaderRead, Quiet
      <4>2. m.nr = c.nr + 31
        BY <1>3, <1>4, <1>7, <2>2 DEF Quiet
      <4>3. c.nr \in Nat
        BY DEF CallState
      <4>. HIDE DEF count
      <4>. QED
        BY <3>2, <4>1, <4>2, <4>3
    <3>. QED
      BY <3>2, <3>6, <3>7, <3>8 DEF HeaderRead
  <2>. QED
    BY <2>4, <2>5
<1>. QED
  BY <1>6, <1>7

(* What dbf_read_header has established when it returns.                   *)
HeaderSizes == [header |-> FirstRow(file.head), record |-> file.head.record_size]

HeaderSound(c, b) ==
  /\ Progress(c, b)
  /\ b.rc \in {-1, 1}
  /\ b.rc = 1 => /\ ~ferror(b.stream)
                 /\ Running(b)
                 /\ b.blocks = {"header"}
                 /\ b.sizes = HeaderSizes
                 /\ file.head.record_size >= 1
                 /\ FieldsTile(b.fields, file.head.record_size)
                 /\ b.nr = FirstRow(file.head) /\ b.nr > 0
  /\ b.rc = -1 => Failed(b) /\ SameHeader(c, b)

(* After the version byte the header is read as its version has it, or the *)
(* version is refused.                                                     *)
LEMMA ReadVersionFacts ==
  ASSUME file \in Tables, NEW c \in CallState, c.rc = -1, c.blocks = {},
         NEW b \in ReadVersion(c)
  PROVE  HeaderRead(c, b, FirstRow(file.head) - 1)
<1>1. FirstRow(file.head) \in Nat /\ file.head.header_size \in Nat
  BY HeadFacts DEF UInt16
<1>2. CASE ~Running(c)
  <2>1. b = c
    BY <1>2 DEF ReadVersion
  <2>2. c.faults \in Nat
    BY DEF CallState
  <2>3. Quiet(c, c) /\ SameHeader(c, c)
    BY <2>2 DEF Quiet, SameHeader
  <2>. QED
    BY <1>2, <2>1, <2>3, QuietProgress, HeaderReadFails
<1>3. CASE Running(c) /\ file.head.version = DBASE2
  <2>1. b \in read_header_dbase2(c) /\ FirstRow(file.head) - 1 = 520
    BY <1>3 DEF ReadVersion, database_type, FirstRow
  <2>. QED
    BY <1>3, <2>1, ReadHeaderDbase2Facts DEF Begun
<1>4. CASE Running(c) /\ file.head.version # DBASE2 /\ b \in read_header_dbase3(c)
  <2>1. FirstRow(file.head) - 1 = 31 + DescriptorsSize(file.head)
    BY <1>1, <1>4 DEF FirstRow, DescriptorsSize
  <2>. QED
    BY <1>4, <2>1, ReadHeaderDbase3Facts DEF Begun
<1>5. CASE Running(c) /\ b = Explained(c, "version_is_not_supported")
  <2>1. "version_is_not_supported" \in Messages \ {NoMessage}
    BY DEF Messages, NoMessage
  <2>2. /\ Quiet(c, b) /\ SameHeader(c, b) /\ b.rc = -1 /\ b.blocks = c.blocks
        /\ b.message # NoMessage
    BY <1>5, <2>1, ExplainedFacts
  <2>. QED
    BY <2>2, QuietProgress, HeaderReadFails DEF Running
<1>. QED
  BY <1>2, <1>3, <1>4, <1>5 DEF ReadVersion, database_type

(* dbf_read_header delivers a header whose fields fill the record, or has  *)
(* a message, nothing allocated and the sizes as they were.                *)
LEMMA ReadHeaderFacts ==
  ASSUME file \in Tables, NEW c, Begun(c), c.blocks = {}, c.nr = 0,
         NEW b \in dbf_read_header(c)
  PROVE  HeaderSound(c, b)
<1>. DEFINE unreadable == "cannot_read_file_version"
            short == "expected_1_byte"
<1>1. {unreadable, short} \subseteq Messages \ {NoMessage}
  BY DEF Messages, NoMessage
<1>2. PICK r \in ReadBlock(c, 1, unreadable, short) :
        \E h \in ReadVersion(r) : b = SizesKept(h)
  BY DEF dbf_read_header
<1>3. PICK h \in ReadVersion(r) : b = SizesKept(h)
  BY <1>2
<1>. HIDE DEF unreadable, short
<1>4. /\ Progress(c, r) /\ SameHeader(c, r) /\ r.rc = -1 /\ r.blocks = {}
      /\ Running(r) => ~ferror(r.stream) /\ r.nr = 1
  BY <1>1, <1>2, ReadBlockFacts
<1>. c \in CallState /\ r \in CallState
  BY <1>4 DEF Begun, Progress
<1>5. HeaderRead(r, h, FirstRow(file.head) - 1)
  BY <1>3, <1>4, ReadVersionFacts
<1>6. h \in CallState /\ Progress(c, h)
  BY <1>4, <1>5, ProgressTransitive DEF HeaderRead, Progress
<1>7. CASE h.rc = 1
  <2>1. b = [h EXCEPT !.sizes = HeaderSizes]
    BY <1>3, <1>7 DEF SizesKept, HeaderSizes
  <2>2. HeaderSizes \in Sizes
    BY HeadFacts DEF HeaderSizes, Sizes
  <2>3. /\ b \in CallState /\ b.rc = 1 /\ b.message = h.message /\ b.stream = h.stream
        /\ b.nr = h.nr /\ b.faults = h.faults /\ b.blocks = h.blocks
        /\ b.sizes = HeaderSizes /\ b.fields = h.fields /\ b.start = h.start
    <3>. HIDE DEF HeaderSizes
    <3>. QED
      BY <1>6, <1>7, <2>1, <2>2 DEF CallState
  <2>4. h.nr = r.nr + (FirstRow(file.head) - 1) /\ ~ferror(h.stream)
    BY <1>5, <1>7 DEF HeaderRead
  <2>5. r.nr = 1
    <3>1. CASE Running(r)
      BY <1>4, <3>1
    <3>2. CASE ~Running(r)
      <4>1. h = r
        BY <1>3, <3>2 DEF ReadVersion
      <4>. QED
        BY <1>4, <1>7, <4>1
    <3>. QED
      BY <3>1, <3>2
  <2>6. b.nr = FirstRow(file.head) /\ b.nr > 0
    <3>1. FirstRow(file.head) \in Nat
      BY HeadFacts DEF UInt16
    <3>2. h.nr - r.nr \in Nat /\ h.nr \in Nat
      BY <1>5, <1>6 DEF HeaderRead, Progress, CallState
    <3>. QED
      BY <2>3, <2>4, <2>5, <3>1, <3>2
  <2>7. /\ Running(h) /\ h.blocks = {"header"} /\ file.head.record_size >= 1
        /\ FieldsTile(h.fields, file.head.record_size)
    BY <1>4, <1>5, <1>7 DEF HeaderRead, Built
  <2>8. Progress(c, b)
    BY <1>6, <2>3 DEF Progress
  <2>. QED
    BY <2>3, <2>4, <2>6, <2>7, <2>8 DEF HeaderSound, Running
<1>8. CASE h.rc # 1
  <2>1. b = h /\ h.rc = -1
    BY <1>3, <1>5, <1>8 DEF SizesKept, HeaderRead, Built
  <2>2. ~Running(h) /\ h.blocks = {} /\ h.fields = r.fields /\ h.sizes = r.sizes
    BY <1>4, <1>5, <2>1 DEF HeaderRead, Built
  <2>. QED
    BY <1>4, <1>6, <2>1, <2>2 DEF HeaderSound, Failed, SameHeader
<1>. QED
  BY <1>7, <1>8
-----------------------------------------------------------------------------
(* How a record is read.                                                   *)

(* What dbf_read_record makes of the bytes it got.                         *)
LEMMA RecordReadFacts ==
  ASSUME NEW c, Begun(c), NEW marker \in BOOLEAN, NEW b, b = RecordRead(c, marker)
  PROVE  /\ Quiet(c, b) /\ SameHeader(c, b) /\ b.blocks = c.blocks
         /\ b.rc \in {-1, 0, 1}
         /\ Running(b) <=> b.rc # -1
         /\ b.rc = 1 => /\ ~ferror(c.stream) /\ ~feof(c.stream)
                        /\ c.nr > 0 => ~marker /\ c.nr = c.sizes.record
         /\ b.rc = 0 => \/ c.nr > 0 /\ marker
                        \/ /\ ~ferror(c.stream) /\ feof(c.stream)
                           /\ c.nr > 0 => c.nr = c.sizes.record
         /\ b.rc = -1 /\ ~ferror(c.stream) => c.nr > 0 /\ ~marker /\ c.nr # c.sizes.record
<1>1. c \in CallState /\ Running(c) /\ c.rc = -1
  BY DEF Begun
<1>2. ASSUME NEW message \in {"expected_record", "cannot_read_record"}
      PROVE  message \in Messages /\ message # NoMessage
  BY <1>2 DEF Messages, NoMessage
<1>3. CASE c.nr > 0 /\ marker
  <2>1. b = Answered(c, 0)
    BY <1>3 DEF RecordRead
  <2>2. /\ Quiet(c, b) /\ SameHeader(c, b) /\ b.blocks = c.blocks
        /\ b.rc = 0 /\ Running(b)
    BY <1>1, <2>1, AnsweredFacts DEF Running
  <2>3. b.rc # -1 /\ b.rc # 1 /\ b.rc \in {-1, 0, 1}
    BY <2>2
  <2>. QED
    BY <1>3, <2>2, <2>3, Zenon
<1>4. CASE c.nr > 0 /\ ~marker /\ c.nr # c.sizes.record
  <2>1. b = Explained(c, "expected_record")
    BY <1>4 DEF RecordRead
  <2>. QED
    BY <1>1, <1>2, <1>4, <2>1, ExplainedFacts DEF Running
<1>5. CASE ~(c.nr > 0 /\ marker) /\ ~(c.nr > 0 /\ c.nr # c.sizes.record)
  <2>1. b = IF ferror(c.stream) THEN Explained(c, "cannot_read_record")
            ELSE IF feof(c.stream) THEN Answered(c, 0) ELSE Answered(c, 1)
    BY <1>5 DEF RecordRead
  <2>2. CASE ferror(c.stream)
    <3>1. b = Explained(c, "cannot_read_record")
      BY <2>1, <2>2
    <3>. QED
      BY <1>1, <1>2, <2>2, <3>1, ExplainedFacts DEF Running
  <2>3. CASE ~ferror(c.stream) /\ feof(c.stream)
    <3>1. b = Answered(c, 0)
      BY <2>1, <2>3
    <3>. QED
      BY <1>1, <1>5, <2>3, <3>1, AnsweredFacts DEF Running
  <2>4. CASE ~ferror(c.stream) /\ ~feof(c.stream)
    <3>1. b = Answered(c, 1)
      BY <2>1, <2>4
    <3>. QED
      BY <1>1, <1>5, <2>4, <3>1, AnsweredFacts DEF Running
  <2>. QED
    BY <2>2, <2>3, <2>4
<1>. QED
  BY <1>3, <1>4, <1>5

(* Where the answer can be "no record" although there was a read error.    *)
NoRow(pos) == pos \in file.marks \/ ~Aligned(file, pos)

(* A marker is seen where one stands, or where no row begins.              *)
LEMMA MarkerFacts ==
  ASSUME NEW pos, NEW marker \in MarkerAt(pos)
  PROVE  marker \in BOOLEAN /\ (marker => NoRow(pos))
BY DEF MarkerAt, NoRow

(* What a call that is to read a record has established when it returns.   *)
RecordSound(c, b) ==
  /\ Progress(c, b)
  /\ SameHeader(c, b)
  /\ b.rc \in {-1, 0, 1}
  /\ b.rc = 1 => ~ferror(b.stream) /\ b.blocks = {"record"} /\ b.nr = c.sizes.record
  /\ b.rc # 1 => b.blocks = {}
  /\ b.rc = 0 => (ferror(b.stream) => NoRow(c.start))
  /\ b.rc = -1 => ~Running(b)

(* A row was read in full, or the block for it is freed.                   *)
LEMMA ReadRowFacts ==
  ASSUME file \in Tables, NEW c, Begun(c), c.blocks = {"record"}, c.nr = 0,
         NEW b \in ReadRow(c)
  PROVE  RecordSound(c, b)
<1>. c \in CallState
  BY DEF Begun
<1>1. c.sizes.record \in Nat
  BY DEF CallState, Sizes, UInt16
<1>2. PICK r \in file_fread(c, c.sizes.record), marker \in MarkerAt(c.start) :
        b = FreedUnlessRead(RecordRead(r, marker))
  BY DEF ReadRow
<1>3. /\ Progress(c, r) /\ SameHeader(c, r)
      /\ r.rc = c.rc /\ r.message = c.message /\ r.blocks = c.blocks
      /\ r.nr - c.nr \in 0 .. c.sizes.record
      /\ r.nr - c.nr < c.sizes.record => feof(r.stream) \/ ferror(r.stream)
  BY <1>1, <1>2, FileFreadFacts
<1>4. Begun(r) /\ r.nr \in 0 .. c.sizes.record /\ r \in CallState
  BY <1>3 DEF Begun, Running, Progress, CallState
<1>5. marker \in BOOLEAN /\ (marker => NoRow(c.start))
  BY <1>2, MarkerFacts
<1>. DEFINE d == RecordRead(r, marker)
<1>6. /\ Quiet(r, d) /\ SameHeader(r, d) /\ d.blocks = r.blocks
      /\ d.rc \in {-1, 0, 1}
      /\ Running(d) <=> d.rc # -1
      /\ d.rc = 1 => ~ferror(r.stream) /\ ~feof(r.stream)
      /\ d.rc = 0 => marker \/ ~ferror(r.stream)
  BY <1>4, <1>5, RecordReadFacts
<1>7. b = FreedUnlessRead(d) /\ d \in CallState
  BY <1>2, <1>6 DEF Quiet
<1>. HIDE DEF d
<1>8. Progress(c, d) /\ SameHeader(c, d) /\ d.stream = r.stream /\ d.nr = r.nr
  BY <1>3, <1>4, <1>6, QuietProgress, ProgressTransitive DEF SameHeader, Quiet
<1>9. CASE d.rc = 1
  <2>1. b = d
    BY <1>7, <1>9 DEF FreedUnlessRead
  <2>2. ~(r.nr - c.nr < c.sizes.record)
    BY <1>3, <1>6, <1>9
  <2>3. r.nr = c.sizes.record
    BY <1>1, <1>4, <2>2
  <2>. QED
    BY <1>3, <1>6, <1>8, <1>9, <2>1, <2>3 DEF RecordSound
<1>10. CASE d.rc # 1
  <2>1. b = free(d, "record")
    BY <1>7, <1>10 DEF FreedUnlessRead
  <2>2. /\ Quiet(d, b) /\ SameHeader(d, b) /\ b.rc = d.rc /\ b.message = d.message
        /\ b.blocks = d.blocks \ {"record"}
    BY <1>7, <2>1, FreeFacts
  <2>3. Progress(c, b) /\ SameHeader(c, b)
    BY <1>7, <1>8, <2>2, QuietProgress, ProgressTransitive DEF SameHeader
  <2>4. b.blocks = {} /\ b.stream = r.stream
    BY <1>3, <1>6, <1>8, <2>2 DEF Quiet
  <2>5. b.rc = 0 => (ferror(b.stream) => NoRow(c.start))
    BY <1>5, <1>6, <2>2, <2>4
  <2>. QED
    BY <1>6, <1>10, <2>2, <2>3, <2>4, <2>5 DEF RecordSound, Running
<1>. QED
  BY <1>9, <1>10

(* dbf_read_record delivers a row, the end of the table or a message.      *)
LEMMA ReadRecordFacts ==
  ASSUME file \in Tables, NEW c, Begun(c), c.blocks = {}, c.nr = 0,
         NEW b \in dbf_read_record(c)
  PROVE  RecordSound(c, b)
<1>. c \in CallState /\ "record" \in Blocks
  BY DEF Begun, Blocks
<1>1. PICK m \in malloc(c, "record") : b \in IF Running(m) THEN ReadRow(m) ELSE {m}
  BY DEF dbf_read_record
<1>2. /\ Quiet(c, m) /\ SameHeader(c, m) /\ m.rc = -1 /\ m \in CallState
      /\ Running(m) => m.blocks = {"record"}
      /\ ~Running(m) => m.blocks = {}
  BY <1>1, MallocFacts DEF Begun, Quiet
<1>3. Progress(c, m)
  BY <1>2, QuietProgress
<1>4. CASE Running(m)
  <2>1. Begun(m) /\ m.blocks = {"record"} /\ m.nr = 0 /\ b \in ReadRow(m)
    BY <1>1, <1>2, <1>4 DEF Begun, Quiet
  <2>2. RecordSound(m, b)
    BY <2>1, ReadRowFacts
  <2>3. Progress(c, b)
    BY <1>2, <1>3, <2>2, ProgressTransitive DEF RecordSound
  <2>. QED
    BY <1>2, <2>2, <2>3 DEF RecordSound, SameHeader, Quiet
<1>5. CASE ~Running(m)
  <2>1. b = m
    BY <1>1, <1>5
  <2>. QED
    BY <1>2, <1>3, <1>5, <2>1 DEF RecordSound
<1>. QED
  BY <1>4, <1>5

(* dbf_seek_record reads from where it has set the stream, or reads not.   *)
LEMMA SeekRecordFacts ==
  ASSUME file \in Tables, stream \in Stream, faults \in Nat, sizes \in Sizes,
         fields \in Seq(Field), NEW n \in Nat, NEW b \in dbf_seek_record(n)
  PROVE  \E c : /\ Begun(c) /\ SameHeader([sizes |-> sizes, fields |-> fields], c)
                /\ ferror(stream) => ferror(c.stream)
                /\ c.faults <= faults
                /\ RecordSound(c, b)
<1>1. file_offset(n) \in Nat
  <2>. DEFINE product == n * sizes.record
  <2>1. product \in Nat /\ sizes.header \in Nat
    BY DEF Sizes, UInt16
  <2>2. SizeModulus \in Nat \ {0}
    BY DbfReaderAssumption
  <2>. HIDE DEF product
  <2>3. (product + sizes.header) % SizeModulus \in Nat
    BY <2>1, <2>2
  <2>. QED
    BY <2>3 DEF file_offset, product
<1>2. PICK p \in fsetpos(stream, file_offset(n), faults) :
        b \in IF p.rc = 0
              THEN dbf_read_record(Call(p.stream, faults - p.fault))
              ELSE {Explained(Call(p.stream, faults - p.fault), "cannot_set_file_position")}
  BY DEF dbf_seek_record
<1>3. /\ p.stream \in Stream /\ (ferror(stream) => ferror(p.stream))
      /\ p.fault \in Nat /\ p.fault <= faults
  BY <1>1, <1>2, FsetposFacts
<1>. DEFINE budget == faults - p.fault
            c == Call(p.stream, budget)
<1>4. budget \in Nat /\ budget <= faults
  BY <1>3
<1>5. /\ Begun(c) /\ c.stream = p.stream /\ c.nr = 0 /\ c.blocks = {}
      /\ c.sizes = sizes /\ c.fields = fields /\ c.faults = budget
  <2>. HIDE DEF budget
  <2>. QED
    BY <1>3, <1>4, NewCallFacts
<1>6. IF p.rc = 0 THEN b \in dbf_read_record(c)
                  ELSE b = Explained(c, "cannot_set_file_position")
  BY <1>2
<1>. HIDE DEF c
<1>7. RecordSound(c, b)
  <2>1. CASE p.rc = 0
    BY <1>5, <1>6, <2>1, ReadRecordFacts
  <2>2. CASE p.rc # 0
    <3>1. c \in CallState /\ c.rc = -1
      BY <1>5 DEF Begun
    <3>2. "cannot_set_file_position" \in Messages \ {NoMessage}
      BY DEF Messages, NoMessage
    <3>3. /\ Quiet(c, b) /\ SameHeader(c, b) /\ b.rc = -1 /\ b.blocks = {} /\ ~Running(b)
      BY <1>5, <1>6, <2>2, <3>1, <3>2, ExplainedFacts DEF Running
    <3>. QED
      BY <3>1, <3>3, QuietProgress DEF RecordSound
  <2>. QED
    BY <2>1, <2>2
<1>8. c.faults <= faults
  BY <1>4, <1>5
<1>. QED
  BY <1>3, <1>5, <1>7, <1>8 DEF SameHeader

(* What dbf_read's loop makes of the bytes it got.                         *)
LEMMA LoopReadFacts ==
  ASSUME NEW c, Begun(c), NEW marker \in BOOLEAN, NEW b, b = LoopRead(c, marker),
         loop.num \in Nat, file.head.num_records \in Nat
  PROVE  /\ Quiet(c, b) /\ SameHeader(c, b) /\ b.blocks = c.blocks
         /\ b.rc \in {-1, 0, 1}
         /\ Running(b) <=> b.rc # -1
         /\ b.rc = 1 => c.nr > 0 /\ c.nr = c.sizes.record
         /\ b.rc = 0 => \/ c.nr > 0 /\ marker
                        \/ /\ c.nr = 0 /\ ~ferror(c.stream)
                           /\ loop.num >= file.head.num_records
         /\ b.rc = -1 /\ ~ferror(c.stream) =>
              \/ c.nr > 0 /\ c.nr # c.sizes.record
              \/ c.nr = 0 /\ loop.num < file.head.num_records
<1>1. c \in CallState /\ Running(c) /\ c.rc = -1 /\ c.nr \in Nat
  BY DEF Begun, CallState
<1>2. ASSUME NEW message \in {"expected_record", "cannot_read_record", "expected_records"},
             b = Explained(c, message)
      PROVE  /\ Quiet(c, b) /\ SameHeader(c, b) /\ b.blocks = c.blocks
             /\ b.rc = -1 /\ ~Running(b)
  <2>1. message \in Messages /\ message # NoMessage
    BY <1>2 DEF Messages, NoMessage
  <2>. QED
    BY <1>1, <1>2, <2>1, ExplainedFacts DEF Running
<1>3. ASSUME NEW rc \in {0, 1}, b = Answered(c, rc)
      PROVE  /\ Quiet(c, b) /\ SameHeader(c, b) /\ b.blocks = c.blocks
             /\ b.rc = rc /\ Running(b)
  BY <1>1, <1>3, AnsweredFacts DEF Running
<1>4. CASE c.nr > 0 /\ marker
  <2>1. b = Answered(c, 0)
    BY <1>4 DEF LoopRead
  <2>2. /\ Quiet(c, b) /\ SameHeader(c, b) /\ b.blocks = c.blocks
        /\ b.rc = 0 /\ Running(b) /\ b.rc # -1 /\ b.rc # 1 /\ b.rc \in {-1, 0, 1}
    BY <1>3, <2>1
  <2>. QED
    BY <1>4, <2>2, Zenon
<1>5. CASE c.nr > 0 /\ ~marker /\ c.nr # c.sizes.record
  <2>1. b = Explained(c, "expected_record")
    BY <1>5 DEF LoopRead
  <2>. QED
    BY <1>2, <1>5, <2>1
<1>6. CASE c.nr > 0 /\ ~marker /\ c.nr = c.sizes.record
  <2>1. b = Answered(c, 1)
    BY <1>6 DEF LoopRead
  <2>. QED
    BY <1>3, <1>6, <2>1
<1>7. CASE c.nr = 0
  <2>1. b = IF ferror(c.stream) THEN Explained(c, "cannot_read_record")
            ELSE IF loop.num < file.head.num_records THEN Explained(c, "expected_records")
            ELSE Answered(c, 0)
    BY <1>7 DEF LoopRead
  <2>2. CASE ferror(c.stream)
    <3>1. b = Explained(c, "cannot_read_record")
      BY <2>1, <2>2
    <3>. QED
      BY <1>2, <2>2, <3>1
  <2>3. CASE ~ferror(c.stream) /\ loop.num < file.head.num_records
    <3>1. b = Explained(c, "expected_records")
      BY <2>1, <2>3
    <3>. QED
      BY <1>2, <1>7, <2>3, <3>1
  <2>4. CASE ~ferror(c.stream) /\ ~(loop.num < file.head.num_records)
    <3>1. b = Answered(c, 0) /\ loop.num >= file.head.num_records
      BY <2>1, <2>4
    <3>. QED
      BY <1>3, <1>7, <2>4, <3>1
  <2>. QED
    BY <2>2, <2>3, <2>4
<1>8. c.nr > 0 \/ c.nr = 0
  BY <1>1
<1>. QED
  BY <1>4, <1>5, <1>6, <1>7, <1>8

(* What dbf_read has in hand when it calls back for the header.            *)
ReadSound(c, b) ==
  /\ Progress(c, b)
  /\ b.rc \in {-1, 1}
  /\ b.rc = 1 => /\ ~ferror(b.stream)
                 /\ b.blocks = {"header", "record"}
                 /\ b.sizes = HeaderSizes
                 /\ file.head.record_size >= 1
                 /\ FieldsTile(b.fields, file.head.record_size)
                 /\ b.nr = FirstRow(file.head) /\ b.nr > 0
  /\ b.rc = -1 => /\ ~Running(b) /\ b.blocks = {}
                  /\ \/ SameHeader(c, b)
                     \/ /\ b.sizes = HeaderSizes
                        /\ FieldsTile(b.fields, file.head.record_size)

(* The block for the rows comes after the header, which is freed when it   *)
(* cannot be had.                                                          *)
LEMMA RecordForLoopFacts ==
  ASSUME file \in Tables, NEW c \in CallState, NEW h, HeaderSound(c, h),
         NEW b \in RecordForLoop(h)
  PROVE  ReadSound(c, b)
<1>. h \in CallState /\ "record" \in Blocks
  BY DEF HeaderSound, Progress, Blocks
<1>1. CASE h.rc # 1
  <2>1. b = h /\ h.rc = -1
    BY <1>1 DEF RecordForLoop, HeaderSound
  <2>. QED
    BY <2>1 DEF HeaderSound, ReadSound, Failed
<1>2. CASE h.rc = 1
  <2>1. PICK m \in malloc(h, "record") :
          b = IF Running(m) THEN m ELSE free(Answered(m, -1), "header")
    BY <1>2 DEF RecordForLoop
  <2>2. Running(h) /\ h.blocks = {"header"}
    BY <1>2 DEF HeaderSound
  <2>3. /\ Quiet(h, m) /\ SameHeader(h, m) /\ m.rc = 1 /\ m \in CallState
        /\ Running(m) => m.blocks = {"header", "record"}
        /\ ~Running(m) => m.blocks = {"header"}
    BY <1>2, <2>1, <2>2, MallocFacts DEF Quiet
  <2>4. Progress(c, m)
    BY <2>3, QuietProgress, ProgressTransitive DEF HeaderSound
  <2>5. CASE Running(m)
    <3>1. b = m
      BY <2>1, <2>5
    <3>. QED
      BY <1>2, <2>3, <2>4, <2>5, <3>1 DEF HeaderSound, ReadSound, SameHeader, Quiet
  <2>6. CASE ~Running(m)
    <3>. DEFINE d == Answered(m, -1)
    <3>1. /\ Quiet(m, d) /\ SameHeader(m, d)
          /\ d.rc = -1 /\ d.blocks = m.blocks /\ d.message = m.message
          /\ d \in CallState
      BY <2>3, AnsweredFacts DEF Quiet
    <3>2. b = free(d, "header")
      BY <2>1, <2>6
    <3>. HIDE DEF d
    <3>3. /\ Quiet(d, b) /\ SameHeader(d, b)
          /\ b.rc = -1 /\ b.blocks = {} /\ b.message = m.message
      BY <2>3, <2>6, <3>1, <3>2, FreeFacts
    <3>4. Progress(c, b)
      BY <2>3, <2>4, <3>1, <3>3, QuietProgress, ProgressTransitive
    <3>5. b.sizes = HeaderSizes /\ FieldsTile(b.fields, file.head.record_size)
      BY <1>2, <2>3, <3>1, <3>3 DEF HeaderSound, SameHeader
    <3>. QED
      BY <2>6, <3>3, <3>4, <3>5 DEF ReadSound, Running
  <2>. QED
    BY <2>5, <2>6
<1>. QED
  BY <1>1, <1>2

(* The loop has a row, the end of the table or a message.                  *)
LoopSound(c, b) ==
  /\ Progress(c, b)
  /\ SameHeader(c, b)
  /\ b.rc \in {-1, 0, 1}
  /\ b.rc = 0 => (ferror(b.stream) => NoRow(c.start))
  /\ b.rc = -1 => ~Running(b)

(* What a round of dbf_read's loop establishes.                            *)
LEMMA NextRowFacts ==
  ASSUME file \in Tables, loop.num \in Nat, NEW c, Begun(c), c.nr = 0, c.sizes = sizes,
         NEW r \in file_fread(c, sizes.record), NEW marker \in MarkerAt(c.start),
         NEW b, b = LoopRead(r, marker)
  PROVE  LoopSound(c, b)
<1>. c \in CallState
  BY DEF Begun
<1>1. sizes.record \in Nat
  BY DEF CallState, Sizes, UInt16
<1>2. Progress(c, r) /\ SameHeader(c, r) /\ r.rc = c.rc /\ r.message = c.message
  BY <1>1, FileFreadFacts
<1>3. Begun(r) /\ r \in CallState
  BY <1>2 DEF Begun, Running, Progress
<1>4. marker \in BOOLEAN /\ (marker => NoRow(c.start)) /\ file.head.num_records \in Nat
  BY MarkerFacts, HeadFacts
<1>5. /\ Quiet(r, b) /\ SameHeader(r, b)
      /\ b.rc \in {-1, 0, 1}
      /\ Running(b) <=> b.rc # -1
      /\ b.rc = 0 => marker \/ ~ferror(r.stream)
  BY <1>3, <1>4, LoopReadFacts
<1>6. Progress(c, b) /\ SameHeader(c, b) /\ b.stream = r.stream
  BY <1>2, <1>3, <1>5, QuietProgress, ProgressTransitive DEF SameHeader, Quiet
<1>7. b.rc = 0 => (ferror(b.stream) => NoRow(c.start))
  BY <1>4, <1>5, <1>6
<1>. QED
  BY <1>5, <1>6, <1>7 DEF LoopSound

-----------------------------------------------------------------------------
(* What a step does with the stream and the header in the handle.          *)

Result == [rc : {-1, 0, 1}, start : Nat]

(* What every function that has read leaves in the handle.                 *)
LEMMA DoneFacts ==
  ASSUME num_bytes \in Nat, error \in Messages, NEW b \in CallState, Done(b)
  PROVE  /\ stream' = b.stream /\ stream' \in Stream
         /\ num_bytes' = num_bytes + b.nr /\ num_bytes' \in Nat
         /\ error' \in Messages /\ faults' \in Nat
         /\ sizes' = b.sizes /\ sizes' \in Sizes
         /\ fields' = b.fields /\ fields' \in Seq(Field)
         /\ got' \in Result /\ got'.rc = b.rc /\ got'.start = b.start
         /\ ~Running(b) => error' # NoMessage
         /\ error # NoMessage => error' # NoMessage
<1>1. /\ b.stream \in Stream /\ b.nr \in Nat /\ b.message \in Messages /\ b.faults \in Nat
      /\ b.rc \in {-1, 0, 1} /\ b.start \in Nat
      /\ b.sizes \in Sizes /\ b.fields \in Seq(Field)
  BY DEF CallState
<1>2. got' \in Result /\ got'.rc = b.rc /\ got'.start = b.start
  BY <1>1 DEF Done, Result
<1>3. error' \in Messages /\ (~Running(b) => error' # NoMessage)
      /\ (error # NoMessage => error' # NoMessage)
  BY <1>1 DEF Done, Running
<1>. QED
  BY <1>1, <1>2, <1>3 DEF Done

(* A step that leaves the file alone.                                      *)
ReadsNothing ==
  /\ UNCHANGED <<stream, num_bytes, sizes, fields, got, faults>>
  /\ error' \in {error, "set_by_program"}

(* A step that reads, as a call that came to its end.                      *)
Reads(b) ==
  /\ b \in CallState
  /\ Done(b)
  /\ ferror(stream) => ferror(b.stream)
  /\ b.rc = 1 => ~ferror(b.stream) \/ at = "loop"
  /\ b.rc = 0 => (ferror(b.stream) => NoRow(b.start))
  /\ b.rc = -1 => ~Running(b)
  /\ \/ b.sizes = sizes /\ b.fields = fields
     \/ b.sizes = HeaderSizes /\ FieldsTile(b.fields, file.head.record_size)
  /\ (\E n \in RecordNumbers : SeekRecord(n)) \/ Progress(Call(stream, faults), b)

(* The call that an operation begins with the handle as it is.             *)
LEMMA CallFacts ==
  ASSUME TypeOK, NEW c, c = Call(stream, faults)
  PROVE  /\ Begun(c) /\ c \in CallState /\ c.stream = stream /\ c.nr = 0 /\ c.blocks = {}
         /\ c.sizes = sizes /\ c.fields = fields /\ c.start = stream.pos
<1>1. /\ sizes \in Sizes /\ fields \in Seq(Field) /\ stream \in Stream /\ faults \in Nat
  BY DEF TypeOK, Sizes, Field
<1>. QED
  BY <1>1, NewCallFacts DEF Begun

(* Every step reads and ends, or reads nothing.                            *)
LEMMA StepReads ==
  ASSUME TypeOK, Next
  PROVE  file' = file /\ (ReadsNothing \/ \E b : Reads(b))
<1>. DEFINE c == Call(stream, faults)
<1>1. /\ file \in Tables /\ stream \in Stream /\ faults \in Nat /\ loop.num \in Nat
      /\ sizes \in Sizes /\ fields \in Seq(Field)
  BY DEF TypeOK, Sizes, Field
<1>2. /\ Begun(c) /\ c \in CallState /\ c.stream = stream /\ c.nr = 0 /\ c.blocks = {}
      /\ c.sizes = sizes /\ c.fields = fields /\ c.start = stream.pos
  BY CallFacts
<1>. HIDE DEF c
<1>3. CASE ReadHeader
  <2>1. PICK b \in dbf_read_header(c) : Done(b)
    BY <1>3 DEF ReadHeader, c
  <2>2. HeaderSound(c, b)
    BY <1>1, <1>2, <2>1, ReadHeaderFacts
  <2>3. Reads(b)
    BY <1>2, <2>1, <2>2 DEF Reads, HeaderSound, Progress, SameHeader, Failed, c
  <2>. QED
    BY <1>3, <2>3 DEF ReadHeader
<1>4. CASE BeginRead
  <2>1. PICK h \in dbf_read_header(c) : \E b \in RecordForLoop(h) : Done(b)
    BY <1>4 DEF BeginRead, c
  <2>2. PICK b \in RecordForLoop(h) : Done(b)
    BY <2>1
  <2>3. ReadSound(c, b)
    BY <1>1, <1>2, <2>1, <2>2, ReadHeaderFacts, RecordForLoopFacts
  <2>4. Reads(b)
    BY <1>2, <2>2, <2>3 DEF Reads, ReadSound, Progress, SameHeader, c
  <2>. QED
    BY <1>4, <2>4 DEF BeginRead
<1>5. CASE ReadRecord
  <2>1. PICK b \in dbf_read_record(c) : Done(b)
    BY <1>5 DEF ReadRecord, c
  <2>2. RecordSound(c, b)
    BY <1>1, <1>2, <2>1, ReadRecordFacts
  <2>3. Reads(b)
    BY <1>2, <2>1, <2>2 DEF Reads, RecordSound, Progress, SameHeader, c
  <2>. QED
    BY <1>5, <2>3 DEF ReadRecord
<1>6. CASE \E n \in RecordNumbers : SeekRecord(n)
  <2>1. PICK n \in RecordNumbers : SeekRecord(n)
    BY <1>6
  <2>2. PICK b \in dbf_seek_record(n) : Done(b)
    BY <2>1 DEF SeekRecord
  <2>3. n \in Nat
    BY DbfReaderAssumption
  <2>4. PICK d : /\ SameHeader([sizes |-> sizes, fields |-> fields], d)
                 /\ ferror(stream) => ferror(d.stream)
                 /\ RecordSound(d, b)
    BY <1>1, <2>2, <2>3, SeekRecordFacts
  <2>5. Reads(b)
    BY <1>6, <2>2, <2>4 DEF Reads, RecordSound, Progress, SameHeader
  <2>. QED
    BY <2>1, <2>5 DEF SeekRecord
<1>7. CASE FreeBlock \/ SetError
  BY <1>7 DEF FreeBlock, SetError, ReadsNothing
<1>8. CASE \E answer \in {-1, 0, 1} : Callback(answer)
  BY <1>8 DEF Callback, ReadsNothing
<1>9. CASE NextRow
  <2>1. PICK r \in file_fread(c, sizes.record), marker \in MarkerAt(stream.pos) :
          Done(LoopRead(r, marker))
    BY <1>9 DEF NextRow, c
  <2>. DEFINE b == LoopRead(r, marker)
  <2>2. LoopSound(c, b)
    BY <1>1, <1>2, <2>1, NextRowFacts
  <2>3. at = "loop" /\ file' = file
    BY <1>9 DEF NextRow
  <2>4. Done(b)
    BY <2>1
  <2>. HIDE DEF b
  <2>5. Reads(b)
    BY <1>2, <2>2, <2>3, <2>4 DEF Reads, LoopSound, Progress, SameHeader, c
  <2>. QED
    BY <2>3, <2>5
<1>. QED
  BY <1>3, <1>4, <1>5, <1>6, <1>7, <1>8, <1>9 DEF Next, Reading

(* A step after which the error indicator is set.                          *)
LEMMA ErrorStep ==
  ASSUME TypeOK, Next, ferror(stream'), got' # got
  PROVE  /\ got'.rc = 1 => at = "loop"
         /\ got'.rc = 0 => got'.start \in file.marks \/ ~Aligned(file, got'.start)
<1>1. PICK b : Reads(b)
  BY StepReads DEF ReadsNothing
<1>2. stream' = b.stream /\ got'.rc = b.rc /\ got'.start = b.start
  BY <1>1, DoneFacts DEF Reads, TypeOK
<1>. QED
  BY <1>1, <1>2 DEF Reads, NoRow

-----------------------------------------------------------------------------
(* The part of the state that is dbf_read's own and the program's.         *)
Outputs == [op : {"none", "header", "record", "seek", "read", "callback"}, rc : {-1, 0, 1}]

ControlOK ==
  /\ at \in {"caller", "header_cb", "record_cb", "loop"}
  /\ loop \in [num : Nat, offset : Nat]
  /\ asked \in Nat \cup {-1}
  /\ out \in Outputs
  /\ held \in Nat
  /\ live \in Int

(* What a call returns to the program.                                     *)
LEMMA ReturnFacts ==
  ASSUME NEW op \in {"none", "header", "record", "seek", "read", "callback"},
         NEW rc \in {-1, 0, 1}, Return(op, rc)
  PROVE  out' \in Outputs /\ out'.op = op /\ out'.rc = rc
BY DEF Return, Outputs

(* The one block that a call hands over is the one the program then holds. *)
HandsOne(b) ==
  /\ b.rc \in {-1, 0, 1}
  /\ b.rc = 1 => \E block : b.blocks = {block}
  /\ b.rc # 1 => b.blocks = {}

(* The blocks that live are as many as before and those handed over.       *)
LEMMA HandOverFacts ==
  ASSUME live \in Int, held \in Nat, NEW b, HandsOne(b), HandOver(b)
  PROVE  held' \in Nat /\ live' \in Int /\ live' = live + (held' - held)
<1>1. CASE b.rc = 1
  <2>1. PICK block : b.blocks = {block}
    BY <1>1 DEF HandsOne
  <2>2. Cardinality(b.blocks) = 1
    BY <2>1, FS_Singleton
  <2>. QED
    BY <1>1, <2>2 DEF HandOver
<1>2. CASE b.rc # 1
  <2>1. Cardinality(b.blocks) = 0
    BY <1>2, FS_EmptySet DEF HandsOne
  <2>2. ~(b.rc > 0)
    BY <1>2 DEF HandsOne
  <2>. QED
    BY <2>1, <2>2 DEF HandOver
<1>. QED
  BY <1>1, <1>2

(* What a call of dbf_read_header, dbf_read_record or dbf_seek_record does *)
(* to what the program has.                                                *)
Hands(b, op) ==
  /\ HandsOne(b)
  /\ HandOver(b)
  /\ Return(op, b.rc)
  /\ b.rc = -1 => ~Running(b)
  /\ Done(b)
  /\ b \in CallState
  /\ UNCHANGED <<file, at, loop>>

(* The three calls that read for the program are of that kind.             *)
LEMMA HandingSteps ==
  ASSUME TypeOK,
         ReadHeader \/ ReadRecord \/ \E n \in RecordNumbers : SeekRecord(n)
  PROVE  /\ \E b, op : op \in {"header", "record", "seek"} /\ Hands(b, op)
         /\ asked' \in Nat \cup {-1}
<1>. DEFINE c == Call(stream, faults)
<1>1. /\ file \in Tables /\ stream \in Stream /\ faults \in Nat
      /\ sizes \in Sizes /\ fields \in Seq(Field)
  BY DEF TypeOK, Sizes, Field
<1>2. Begun(c) /\ c.nr = 0 /\ c.blocks = {}
  BY CallFacts
<1>. HIDE DEF c
<1>3. CASE ReadHeader
  <2>1. PICK b \in dbf_read_header(c) : Done(b) /\ HandOver(b) /\ Return("header", b.rc)
    BY <1>3 DEF ReadHeader, c
  <2>2. HeaderSound(c, b)
    BY <1>1, <1>2, <2>1, ReadHeaderFacts
  <2>3. Hands(b, "header")
    BY <1>3, <2>1, <2>2 DEF Hands, HandsOne, HeaderSound, Failed, Progress, ReadHeader
  <2>. QED
    BY <1>3, <2>3 DEF ReadHeader
<1>4. CASE ReadRecord
  <2>1. PICK b \in dbf_read_record(c) : Done(b) /\ HandOver(b) /\ Return("record", b.rc)
    BY <1>4 DEF ReadRecord, c
  <2>2. RecordSound(c, b)
    BY <1>1, <1>2, <2>1, ReadRecordFacts
  <2>3. Hands(b, "record")
    BY <1>4, <2>1, <2>2 DEF Hands, HandsOne, RecordSound, Progress, ReadRecord
  <2>. QED
    BY <1>4, <2>3 DEF ReadRecord
<1>5. CASE \E n \in RecordNumbers : SeekRecord(n)
  <2>1. PICK n \in RecordNumbers : SeekRecord(n)
    BY <1>5
  <2>2. PICK b \in dbf_seek_record(n) : Done(b) /\ HandOver(b) /\ Return("seek", b.rc)
    BY <2>1 DEF SeekRecord
  <2>3. n \in Nat
    BY DbfReaderAssumption
  <2>4. PICK d : RecordSound(d, b)
    BY <1>1, <2>2, <2>3, SeekRecordFacts
  <2>5. Hands(b, "seek")
    BY <2>1, <2>2, <2>4 DEF Hands, HandsOne, RecordSound, Progress, SeekRecord
  <2>. QED
    BY <2>1, <2>3, <2>5 DEF SeekRecord
<1>. QED
  BY <1>3, <1>4, <1>5

(* dbf_read calls back with two blocks in hand, or fails with none.        *)
LEMMA BeginReadStep ==
  ASSUME TypeOK, BeginRead
  PROVE  /\ \E b : /\ b \in CallState /\ Done(b)
                   /\ b.rc = -1 => ~Running(b)
                   /\ \/ /\ b.rc = 1 /\ at' = "header_cb" /\ out' = out /\ live' = live + 2
                         /\ b.sizes = HeaderSizes /\ file.head.record_size >= 1
                      \/ b.rc = -1 /\ at' = "caller" /\ Return("read", -1) /\ live' = live
         /\ at = "caller" /\ asked' = -1 /\ UNCHANGED <<file, loop, held>>
<1>. DEFINE c == Call(stream, faults)
<1>1. file \in Tables /\ live \in Int
  BY DEF TypeOK
<1>2. Begun(c) /\ c.nr = 0 /\ c.blocks = {} /\ c \in CallState
  BY CallFacts
<1>. HIDE DEF c
<1>3. PICK h \in dbf_read_header(c) : \E b \in RecordForLoop(h) :
        /\ Done(b)
        /\ live' = live + Cardinality(b.blocks)
        /\ IF b.rc > 0 THEN at' = "header_cb" /\ out' = out
                       ELSE at' = "caller" /\ Return("read", b.rc)
  BY DEF BeginRead, c
<1>4. PICK b \in RecordForLoop(h) :
        /\ Done(b)
        /\ live' = live + Cardinality(b.blocks)
        /\ IF b.rc > 0 THEN at' = "header_cb" /\ out' = out
                       ELSE at' = "caller" /\ Return("read", b.rc)
  BY <1>3
<1>5. ReadSound(c, b) /\ b \in CallState
  BY <1>1, <1>2, <1>3, <1>4, ReadHeaderFacts, RecordForLoopFacts DEF ReadSound, Progress
<1>6. CASE b.rc = 1
  <2>1. b.blocks = {"header", "record"}
    BY <1>5, <1>6 DEF ReadSound
  <2>2. Cardinality(b.blocks) = 2
    <3>1. IsFiniteSet({"record"}) /\ Cardinality({"record"}) = 1
      BY FS_Singleton
    <3>2. Cardinality({"record"} \cup {"header"}) = Cardinality({"record"}) + 1
      BY <3>1, FS_AddElement
    <3>3. b.blocks = {"record"} \cup {"header"}
      BY <2>1
    <3>. QED
      BY <3>1, <3>2, <3>3
  <2>. QED
    BY <1>4, <1>5, <1>6, <2>2 DEF BeginRead, ReadSound
<1>7. CASE b.rc = -1
  <2>1. Cardinality(b.blocks) = 0
    BY <1>5, <1>7, FS_EmptySet DEF ReadSound
  <2>. QED
    BY <1>1, <1>4, <1>5, <1>7, <2>1 DEF BeginRead, ReadSound
<1>. QED
  BY <1>5, <1>6, <1>7 DEF ReadSound

(* A round of dbf_read's loop calls back, or frees what dbf_read has.      *)
LEMMA NextRowStep ==
  ASSUME TypeOK, NextRow
  PROVE  /\ \E b : /\ b \in CallState /\ Done(b)
                   /\ b.rc \in {-1, 0, 1} /\ (b.rc = -1 => ~Running(b))
                   /\ \/ b.rc = 1 /\ at' = "record_cb" /\ UNCHANGED <<loop, live, out>>
                      \/ b.rc # 1 /\ Cleanup /\ Return("read", b.rc)
         /\ at = "loop" /\ asked' = -1 /\ UNCHANGED <<file, held>>
<1>. DEFINE c == Call(stream, faults)
<1>1. file \in Tables /\ loop.num \in Nat
  BY DEF TypeOK
<1>2. Begun(c) /\ c.nr = 0 /\ c.sizes = sizes /\ c.start = stream.pos
  BY CallFacts
<1>. HIDE DEF c
<1>3. PICK r \in file_fread(c, sizes.record), marker \in MarkerAt(stream.pos) :
        LET b == LoopRead(r, marker)
        IN  /\ Done(b)
            /\ IF b.rc > 0 THEN at' = "record_cb" /\ UNCHANGED <<loop, live, out>>
                           ELSE Cleanup /\ Return("read", b.rc)
  BY DEF NextRow, c
<1>. DEFINE b == LoopRead(r, marker)
<1>4. LoopSound(c, b)
  BY <1>1, <1>2, <1>3, NextRowFacts
<1>5. /\ Done(b)
      /\ IF b.rc > 0 THEN at' = "record_cb" /\ UNCHANGED <<loop, live, out>>
                     ELSE Cleanup /\ Return("read", b.rc)
  BY <1>3
<1>. HIDE DEF b
<1>6. b \in CallState /\ b.rc \in {-1, 0, 1} /\ (b.rc = -1 => ~Running(b))
  BY <1>4 DEF LoopSound, Progress
<1>7. at = "loop" /\ asked' = -1 /\ UNCHANGED <<file, held>>
  BY DEF NextRow
<1>. QED
  BY <1>5, <1>6, <1>7

(* Every step keeps the types of dbf_read's and the program's state.       *)
LEMMA ControlStep ==
  ASSUME TypeOK, Next
  PROVE  ControlOK'
<1>1. /\ ControlOK /\ num_bytes \in Nat
      /\ held \in Nat /\ live \in Int /\ loop.num \in Nat
  BY DEF TypeOK, ControlOK, Outputs
<1>2. CASE ReadHeader \/ ReadRecord \/ \E n \in RecordNumbers : SeekRecord(n)
  <2>1. PICK b, op : op \in {"header", "record", "seek"} /\ Hands(b, op)
    BY <1>2, HandingSteps
  <2>2. asked' \in Nat \cup {-1}
    BY <1>2, HandingSteps
  <2>3. held' \in Nat /\ live' \in Int
    BY <1>1, <2>1, HandOverFacts DEF Hands
  <2>4. out' \in Outputs
    BY <2>1, ReturnFacts DEF Hands, HandsOne
  <2>. QED
    BY <1>1, <2>1, <2>2, <2>3, <2>4 DEF Hands, ControlOK
<1>3. CASE FreeBlock \/ SetError
  BY <1>1, <1>3 DEF FreeBlock, SetError, ControlOK
<1>4. CASE BeginRead
  <2>1. /\ \/ at' = "header_cb" /\ out' = out /\ live' = live + 2
           \/ at' = "caller" /\ Return("read", -1) /\ live' = live
        /\ asked' = -1 /\ UNCHANGED <<loop, held>>
    BY <1>4, BeginReadStep
  <2>. QED
    BY <1>1, <2>1, ReturnFacts DEF ControlOK
<1>5. CASE \E answer \in {-1, 0, 1} : Callback(answer)
  <2>1. PICK answer \in {-1, 0, 1} : Callback(answer)
    BY <1>5
  <2>2. CASE /\ at' = "loop" /\ UNCHANGED <<out, live, held, asked>>
             /\ loop' = [num |-> IF at = "record_cb" THEN loop.num + 1 ELSE 0,
                         offset |-> num_bytes]
    BY <1>1, <2>2 DEF ControlOK
  <2>3. CASE Cleanup /\ Return("callback", answer) /\ UNCHANGED <<held, asked>>
    BY <1>1, <2>3, ReturnFacts DEF ControlOK, Cleanup, Idle
  <2>. QED
    BY <2>1, <2>2, <2>3 DEF Callback
<1>6. CASE NextRow
  <2>1. PICK b : /\ b.rc \in {-1, 0, 1}
                 /\ \/ at' = "record_cb" /\ UNCHANGED <<loop, live, out>>
                    \/ Cleanup /\ Return("read", b.rc)
    BY <1>6, NextRowStep
  <2>2. asked' = -1 /\ UNCHANGED held
    BY <1>6, NextRowStep
  <2>. QED
    BY <1>1, <2>1, <2>2, ReturnFacts DEF ControlOK, Cleanup, Idle
<1>. QED
  BY <1>2, <1>3, <1>4, <1>5, <1>6 DEF Next, Reading

(* Every step keeps the types of the whole state.                          *)
LEMMA TypeStep ==
  ASSUME TypeOK, Next
  PROVE  TypeOK'
<1>1. ControlOK' /\ file' \in Tables
  BY ControlStep, StepReads DEF TypeOK
<1>2. /\ stream' \in Stream /\ num_bytes' \in Nat /\ error' \in Messages
      /\ sizes' \in Sizes /\ fields' \in Seq(Field) /\ got' \in Result /\ faults' \in Nat
  <2>1. CASE ReadsNothing
    BY <2>1 DEF ReadsNothing, TypeOK, Messages, Sizes, Field, Result
  <2>2. CASE \E b : Reads(b)
    BY <2>2, DoneFacts DEF Reads, TypeOK
  <2>. QED
    BY <2>1, <2>2, StepReads
<1>. QED
  BY <1>1, <1>2 DEF TypeOK, ControlOK, Outputs, Sizes, Field, Result

(* The initial state has its type.                                         *)
LEMMA TypeInit == Init => TypeOK
<1>1. MaxFaults \in Nat /\ NoMessage \in Messages /\ Opened \in Stream
  BY DbfReaderAssumption DEF Messages, Opened, Stream
<1>2. NoSizes \in [header : UInt16, record : UInt16]
  BY DEF NoSizes, UInt16
<1>. QED
  BY <1>1, <1>2 DEF Init, TypeOK, Idle

(***************************************************************************)
(* The reader's state has its type, for every table, every place where the *)
(* file ends, and every call of the operating system that fails: the sizes *)
(* of the handle stay within their 16 bits.                                *)
(***************************************************************************)
THEOREM TypeCorrect == Spec => []TypeOK
<1>1. TypeOK /\ UNCHANGED vars => TypeOK'
  BY DEF TypeOK, vars
<1>. QED
  BY <1>1, TypeInit, TypeStep, PTL DEF Spec

(* Every step allocates, hands over and frees the blocks it should.        *)
LEMMA BlocksStep ==
  ASSUME TypeOK, BlocksAccounted, Next
  PROVE  BlocksAccounted'
<1>1. /\ held \in Nat /\ live \in Int
      /\ live = held + (IF at = "caller" THEN 0 ELSE 2)
  BY DEF TypeOK, BlocksAccounted
<1>2. CASE ReadHeader \/ ReadRecord \/ \E n \in RecordNumbers : SeekRecord(n)
  <2>1. PICK b, op : op \in {"header", "record", "seek"} /\ Hands(b, op)
    BY <1>2, HandingSteps
  <2>2. held' \in Nat /\ live' \in Int /\ live' = live + (held' - held) /\ at' = at
    BY <1>1, <2>1, HandOverFacts DEF Hands
  <2>3. CASE at = "caller"
    BY <1>1, <2>2, <2>3 DEF BlocksAccounted
  <2>4. CASE at # "caller"
    BY <1>1, <2>2, <2>4 DEF BlocksAccounted
  <2>. QED
    BY <2>3, <2>4
<1>3. CASE FreeBlock \/ SetError
  BY <1>1, <1>3 DEF FreeBlock, SetError, BlocksAccounted
<1>4. CASE BeginRead
  <2>1. /\ \/ at' = "header_cb" /\ live' = live + 2
           \/ at' = "caller" /\ live' = live
        /\ at = "caller" /\ UNCHANGED held
    BY <1>4, BeginReadStep
  <2>. QED
    BY <1>1, <2>1 DEF BlocksAccounted
<1>5. CASE \E answer \in {-1, 0, 1} : Callback(answer)
  BY <1>1, <1>5 DEF Callback, Cleanup, BlocksAccounted
<1>6. CASE NextRow
  <2>1. /\ \/ at' = "record_cb" /\ UNCHANGED live
           \/ Cleanup
        /\ at = "loop" /\ UNCHANGED held
    BY <1>6, NextRowStep
  <2>. QED
    BY <1>1, <2>1 DEF BlocksAccounted, Cleanup
<1>. QED
  BY <1>2, <1>3, <1>4, <1>5, <1>6 DEF Next, Reading

(***************************************************************************)
(* No block is lost and none is freed twice, whichever calls fail: neither *)
(* the descriptors of read_header_dbase3, nor a header whose fields do not *)
(* fill the record, nor the row that dbf_read reuses.                      *)
(***************************************************************************)
THEOREM NoBlockLost == Spec => []BlocksAccounted
<1>1. Init => BlocksAccounted
  BY DEF Init, BlocksAccounted
<1>2. BlocksAccounted /\ UNCHANGED vars => BlocksAccounted'
  BY DEF BlocksAccounted, vars
<1>. QED
  BY <1>1, <1>2, BlocksStep, TypeCorrect, PTL DEF Spec

(* The sizes in the handle and the fields change together, or not at all.  *)
LEMMA FieldsStep ==
  ASSUME TypeOK, FieldsFillRecord, Next
  PROVE  FieldsFillRecord'
<1>1. CASE ReadsNothing
  BY <1>1 DEF ReadsNothing, FieldsFillRecord
<1>2. CASE \E b : Reads(b)
  <2>1. PICK b : Reads(b)
    BY <1>2
  <2>2. sizes' = b.sizes /\ fields' = b.fields
    BY <2>1, DoneFacts DEF Reads, TypeOK
  <2>3. CASE b.sizes = sizes /\ b.fields = fields
    BY <2>2, <2>3 DEF FieldsFillRecord
  <2>4. CASE b.sizes = HeaderSizes /\ FieldsTile(b.fields, file.head.record_size)
    BY <2>2, <2>4 DEF FieldsFillRecord, HeaderSizes
  <2>. QED
    BY <2>1, <2>3, <2>4 DEF Reads
<1>. QED
  BY <1>1, <1>2, StepReads

(***************************************************************************)
(* Whatever the descriptors of a file say, the fields of a header that was *)
(* accepted fill the records that are read with it: no dbf_record_*        *)
(* function looks behind the bytes of a record.                            *)
(***************************************************************************)
THEOREM FieldsAlwaysFill == Spec => []FieldsFillRecord
<1>1. Init => FieldsFillRecord
  BY DEF Init, FieldsFillRecord, NoSizes
<1>2. FieldsFillRecord /\ UNCHANGED vars => FieldsFillRecord'
  BY DEF FieldsFillRecord, vars
<1>. QED
  BY <1>1, <1>2, FieldsStep, TypeCorrect, PTL DEF Spec

(* A message stays: fh->error is only ever overwritten by another one.     *)
LEMMA MessageStays ==
  ASSUME TypeOK, Next, error # NoMessage
  PROVE  error' # NoMessage
<1>1. CASE ReadsNothing
  BY <1>1 DEF ReadsNothing, NoMessage
<1>2. CASE \E b : Reads(b)
  BY <1>2, DoneFacts DEF Reads, TypeOK
<1>. QED
  BY <1>1, <1>2, StepReads

(* A call that returns what it came to returns with a message if -1.       *)
LEMMA ReadExplained ==
  ASSUME TypeOK, NEW b \in CallState, Done(b), b.rc = -1 => ~Running(b),
         NEW op \in {"none", "header", "record", "seek", "read", "callback"}, Return(op, b.rc)
  PROVE  FailureExplained'
<1>1. out'.rc = b.rc
  BY ReturnFacts DEF CallState
<1>2. ~Running(b) => error' # NoMessage
  BY DoneFacts DEF TypeOK
<1>. QED
  BY <1>1, <1>2 DEF FailureExplained

(* Every step that returns -1 leaves a message.                            *)
LEMMA ExplainedStep ==
  ASSUME TypeOK, FailureExplained, Next
  PROVE  FailureExplained'
<1>1. CASE out' = out
  BY <1>1, MessageStays DEF FailureExplained
<1>2. CASE ReadHeader \/ ReadRecord \/ \E n \in RecordNumbers : SeekRecord(n)
  <2>1. PICK b, op : op \in {"header", "record", "seek"} /\ Hands(b, op)
    BY <1>2, HandingSteps
  <2>. QED
    BY <2>1, ReadExplained DEF Hands
<1>3. CASE FreeBlock \/ SetError
  BY <1>1, <1>3 DEF FreeBlock, SetError
<1>4. CASE BeginRead
  <2>1. PICK b : /\ b \in CallState /\ Done(b) /\ (b.rc = -1 => ~Running(b))
                 /\ out' = out \/ Return("read", b.rc)
    BY <1>4, BeginReadStep
  <2>. QED
    BY <1>1, <2>1, ReadExplained
<1>5. CASE \E answer \in {-1, 0, 1} : Callback(answer)
  <2>1. PICK answer \in {-1, 0, 1} : Callback(answer)
    BY <1>5
  <2>2. CASE Return("callback", answer)
    BY <2>2, ReturnFacts DEF FailureExplained
  <2>. QED
    BY <1>1, <2>1, <2>2 DEF Callback
<1>6. CASE NextRow
  <2>1. PICK b : /\ b \in CallState /\ Done(b) /\ (b.rc = -1 => ~Running(b))
                 /\ out' = out \/ Return("read", b.rc)
    BY <1>6, NextRowStep
  <2>. QED
    BY <1>1, <2>1, ReadExplained
<1>. QED
  BY <1>2, <1>3, <1>4, <1>5, <1>6 DEF Next, Reading

(***************************************************************************)
(* No call returns -1 on its own account without a message in fh->error.   *)
(***************************************************************************)
THEOREM FailuresExplained == Spec => []FailureExplained
<1>1. Init => FailureExplained
  BY DEF Init, FailureExplained
<1>2. FailureExplained /\ UNCHANGED vars => FailureExplained'
  BY DEF FailureExplained, vars
<1>. QED
  BY <1>1, <1>2, ExplainedStep, TypeCorrect, PTL DEF Spec

(***************************************************************************)
(* A read error is not taken for the end of a table, and delivers nothing  *)
(* but in dbf_read's own loop: for every table and every place where a     *)
(* read fails.                                                             *)
(***************************************************************************)
THEOREM ErrorIsNeverTheEnd == Spec => ErrorIsNotTheEnd
<1>1. TypeOK /\ [Next]_vars =>
        [ferror(stream') /\ got' # got =>
           /\ got'.rc = 1 => at = "loop"
           /\ got'.rc = 0 => got'.start \in file.marks \/ ~Aligned(file, got'.start)]_vars
  BY ErrorStep DEF vars
<1>. QED
  BY <1>1, TypeCorrect, PTL DEF Spec, ErrorIsNotTheEnd

-----------------------------------------------------------------------------
(* Where the stream is, for a program that calls no dbf_seek_record.       *)

(* fh->num_bytes counts from the beginning of the file as long as nothing  *)
(* moves the stream but reading, which does not go beyond the end; and     *)
(* dbf_read's loop has the count of before the row.                        *)
PositionCounted ==
  /\ num_bytes = stream.pos
  /\ stream.pos <= file.size
  /\ at = "loop" => loop.offset = num_bytes

(* dbf_read's loop reads with the sizes of the file's header, also if a    *)
(* callback has called other functions.                                    *)
HeaderInUse == at # "caller" => sizes = HeaderSizes /\ file.head.record_size >= 1

(* Every step that reads counts what it moves the stream by.               *)
LEMMA CountStep ==
  ASSUME RecordNumbers = {}, TypeOK, PositionCounted, Next
  PROVE  PositionCounted'
<1>1. num_bytes \in Nat /\ stream.pos \in Nat /\ num_bytes = stream.pos
  BY DEF TypeOK, Stream, PositionCounted
<1>2. num_bytes' = stream'.pos /\ stream'.pos <= file'.size
  <2>1. CASE ReadsNothing
    BY <2>1, StepReads DEF ReadsNothing, PositionCounted
  <2>2. CASE \E b : Reads(b)
    <3>. DEFINE c == Call(stream, faults)
    <3>1. PICK b : Reads(b)
      BY <2>2
    <3>2. stream' = b.stream /\ num_bytes' = num_bytes + b.nr
      BY <3>1, DoneFacts DEF Reads, TypeOK
    <3>3. c.stream = stream /\ c.nr = 0
      BY CallFacts
    <3>4. Progress(c, b)
      BY <3>1 DEF Reads
    <3>. HIDE DEF c
    <3>5. b.stream.pos = stream.pos + (b.nr - 0) /\ b.stream.pos <= file.size /\ b.nr \in Nat
      BY <3>3, <3>4 DEF Progress, PositionCounted, CallState
    <3>6. num_bytes' = stream'.pos
      BY <1>1, <3>2, <3>5
    <3>. QED
      BY <3>2, <3>5, <3>6, StepReads
  <2>. QED
    BY <2>1, <2>2, StepReads
<1>3. at' = "loop" => loop'.offset = num_bytes'
  <2>1. CASE ReadHeader \/ ReadRecord \/ \E n \in RecordNumbers : SeekRecord(n)
    <3>1. at # "loop" /\ at' = at
      BY <2>1, DbfReaderAssumption DEF ReadHeader, ReadRecord, SeekRecord
    <3>. QED
      BY <3>1
  <2>2. CASE FreeBlock \/ SetError
    BY <2>2 DEF FreeBlock, SetError, PositionCounted
  <2>3. CASE BeginRead
    BY <2>3 DEF BeginRead
  <2>4. CASE \E answer \in {-1, 0, 1} : Callback(answer)
    BY <2>4 DEF Callback, Cleanup
  <2>5. CASE NextRow
    BY <2>5 DEF NextRow, Cleanup
  <2>. QED
    BY <2>1, <2>2, <2>3, <2>4, <2>5 DEF Next, Reading
<1>. QED
  BY <1>2, <1>3 DEF PositionCounted

(* The sizes change only with a header, and there is but one in the file.  *)
LEMMA HeaderStep ==
  ASSUME TypeOK, HeaderInUse, Next
  PROVE  HeaderInUse'
<1>1. file' = file /\ HeaderSizes' = HeaderSizes
  BY StepReads DEF HeaderSizes
<1>2. CASE at # "caller"
  <2>1. sizes = HeaderSizes /\ file.head.record_size >= 1
    BY <1>2 DEF HeaderInUse
  <2>2. sizes' = HeaderSizes
    <3>1. CASE ReadsNothing
      BY <2>1, <3>1 DEF ReadsNothing
    <3>2. CASE \E b : Reads(b)
      BY <2>1, <3>2, DoneFacts DEF Reads, TypeOK
    <3>. QED
      BY <3>1, <3>2, StepReads
  <2>. QED
    BY <1>1, <2>1, <2>2 DEF HeaderInUse
<1>3. CASE at = "caller"
  <2>1. CASE BeginRead
    <3>1. PICK b : /\ b \in CallState /\ Done(b)
                   /\ \/ b.sizes = HeaderSizes /\ file.head.record_size >= 1
                      \/ at' = "caller"
      BY <2>1, BeginReadStep
    <3>2. sizes' = b.sizes
      BY <3>1, DoneFacts DEF TypeOK
    <3>. QED
      BY <1>1, <3>1, <3>2 DEF HeaderInUse
  <2>2. CASE ~BeginRead
    <3>1. at' = "caller"
      <4>1. CASE ReadHeader \/ ReadRecord \/ FreeBlock \/ SetError
                 \/ \E n \in RecordNumbers : SeekRecord(n)
        BY <1>3, <4>1 DEF ReadHeader, ReadRecord, FreeBlock, SetError, SeekRecord
      <4>2. CASE Reading
        BY <1>3, <4>2 DEF Reading, NextRow, Callback
      <4>. QED
        BY <2>2, <4>1, <4>2 DEF Next
    <3>. QED
      BY <3>1 DEF HeaderInUse
  <2>. QED
    BY <2>1, <2>2
<1>. QED
  BY <1>2, <1>3

(* What the reader knows of the stream and of the header at any time.      *)
Knowledge == TypeOK /\ PositionCounted /\ HeaderInUse

(* It holds for a program that reads from front to back.                   *)
LEMMA KnowledgeHolds ==
  ASSUME RecordNumbers = {}
  PROVE  Spec => []Knowledge
<1>1. Init => Knowledge
  <2>1. Init => file.size \in Nat
    BY HeadFacts DEF Init
  <2>. QED
    BY <2>1, TypeInit DEF Init, Knowledge, PositionCounted, HeaderInUse, Opened
<1>2. Knowledge /\ [Next]_vars => Knowledge'
  <2>1. Knowledge /\ Next => Knowledge'
    BY TypeStep, CountStep, HeaderStep DEF Knowledge
  <2>2. Knowledge /\ UNCHANGED vars => Knowledge'
    BY DEF Knowledge, TypeOK, PositionCounted, HeaderInUse, HeaderSizes, vars
  <2>. QED
    BY <2>1, <2>2
<1>. QED
  BY <1>1, <1>2, PTL DEF Spec

(* Nothing but a round of the loop leaves it.                              *)
LEMMA FromLoop ==
  ASSUME Next, at = "loop", at' # "loop"
  PROVE  NextRow
<1>1. CASE ReadHeader \/ BeginRead \/ ReadRecord \/ FreeBlock \/ SetError
           \/ \E n \in RecordNumbers : SeekRecord(n)
  BY <1>1 DEF ReadHeader, BeginRead, ReadRecord, FreeBlock, SetError, SeekRecord
<1>2. CASE \E answer \in {-1, 0, 1} : Callback(answer)
  BY <1>2 DEF Callback
<1>. QED
  BY <1>1, <1>2 DEF Next, Reading

(***************************************************************************)
(* The file_offset that handle_record gets is the record's position, for a *)
(* program that never calls dbf_seek_record on the handle: its callbacks   *)
(* may read records themselves.                                            *)
(***************************************************************************)
THEOREM OffsetsArePositions ==
  ASSUME RecordNumbers = {}
  PROVE  Spec => OffsetIsPosition
<1>1. Knowledge /\ [Next]_vars =>
        [at = "loop" /\ at' = "record_cb" => loop.offset = stream.pos]_vars
  BY DEF Knowledge, PositionCounted
<1>. QED
  BY <1>1, KnowledgeHolds, PTL DEF Spec, OffsetIsPosition

(* Whole rows and a rest, and whether they are all that the header says:   *)
(* the arithmetic of Complete, with [num] rows of [size] bytes counted.    *)
LEMMA CompleteFacts ==
  ASSUME NEW size \in Nat \ {0}, NEW num \in Nat, NEW records \in Nat,
         NEW left \in 0 .. size - 1
  PROVE  /\ (num * size + left) % size = 0 /\ num * size + left >= records * size
         <=> left = 0 /\ num >= records
<1>1. (num * size + left) % size = left
  BY RemainderOfMultiple
<1>2. num * size \in Int /\ records * size \in Int /\ (num + 1) * size = num * size + size
  BY ProductOrder
<1>3. num >= records => num * size >= records * size
  BY ProductOrder
<1>4. num < records => num * size + size <= records * size
  <2>1. num < records => num + 1 <= records
    OBVIOUS
  <2>. QED
    BY <1>2, <2>1, ProductOrder
<1>. DEFINE all == num * size
            needed == records * size
<1>. HIDE DEF all, needed
<1>5. /\ (all + left) % size = left /\ all \in Int /\ needed \in Int
      /\ num >= records => all >= needed
      /\ num < records => all + size <= needed
  BY <1>1, <1>2, <1>3, <1>4 DEF all, needed
<1>6. (all + left) % size = 0 /\ all + left >= needed <=> left = 0 /\ num >= records
  <2>1. CASE left = 0
    BY <1>5, <2>1
  <2>2. CASE left # 0
    BY <1>5, <2>2
  <2>. QED
    BY <2>1, <2>2
<1>. QED
  BY <1>6 DEF all, needed

(* The round that ends dbf_read where the rows it has counted end.         *)
LEMMA LastRound ==
  ASSUME Knowledge, NextRow, at' = "caller", ~ferror(stream'), file.marks = {}, AllCounted
  PROVE  out'.rc = 0 <=> Complete
<1>. DEFINE c == Call(stream, faults)
            size == file.head.record_size
            base == FirstRow(file.head)
            num == loop.num
            records == file.head.num_records
            left == file.size - stream.pos
<1>1. TypeOK /\ file \in Tables /\ stream.pos <= file.size /\ at = "loop"
  BY DEF Knowledge, TypeOK, PositionCounted, NextRow
<1>2. /\ size \in Nat \ {0} /\ base \in Nat /\ num \in Nat /\ records \in Nat
      /\ file.size \in Nat /\ stream.pos \in Nat
      /\ sizes.record = size
  <2>1. sizes = HeaderSizes /\ size >= 1
    BY <1>1 DEF Knowledge, HeaderInUse
  <2>2. size \in Nat /\ base \in Nat /\ records \in Nat /\ file.size \in Nat
    BY <1>1, HeadFacts DEF UInt16
  <2>3. num \in Nat /\ stream.pos \in Nat
    BY <1>1 DEF TypeOK, Stream
  <2>. QED
    BY <2>1, <2>2, <2>3 DEF HeaderSizes
<1>3. Begun(c) /\ c \in CallState /\ c.nr = 0 /\ c.stream = stream /\ c.sizes = sizes
  BY <1>1, CallFacts
<1>. HIDE DEF c
<1>4. PICK r \in file_fread(c, sizes.record), marker \in MarkerAt(stream.pos) :
        LET b == LoopRead(r, marker)
        IN  /\ Done(b)
            /\ IF b.rc > 0 THEN at' = "record_cb" /\ UNCHANGED <<loop, live, out>>
                           ELSE Cleanup /\ Return("read", b.rc)
  BY DEF NextRow, c
<1>5. stream.pos = base + num * size /\ num * size \in Int
  BY <1>2, ProductOrder DEF AllCounted
<1>6. marker = FALSE
  <2>1. Aligned(file, stream.pos)
    <3>1. (num * size + 0) % size = 0
      <4>1. 0 \in 0 .. size - 1
        BY <1>2
      <4>. HIDE DEF size, num
      <4>. QED
        BY <1>2, <4>1, RemainderOfMultiple
    <3>2. 0 <= num * size
      <4>1. 0 * size <= num * size /\ 0 * size = 0
        BY <1>2, ProductOrder
      <4>. QED
        BY <1>2, <4>1
    <3>. DEFINE all == num * size
    <3>. HIDE DEF all
    <3>3. (all + 0) % size = 0 /\ 0 <= all /\ stream.pos = base + all /\ all \in Int
      BY <1>5, <3>1, <3>2 DEF all
    <3>. QED
      BY <1>2, <3>3 DEF Aligned
  <2>. QED
    BY <1>4, <2>1 DEF MarkerAt
<1>. DEFINE b == LoopRead(r, marker)
<1>7. /\ Progress(c, r) /\ SameHeader(c, r) /\ r.rc = c.rc /\ r.message = c.message
      /\ ~ferror(r.stream) =>
           r.nr - 0 = IF size <= Available(stream, file.size)
                      THEN size ELSE Available(stream, file.size)
  BY <1>1, <1>2, <1>3, <1>4, FileFreadFacts
<1>8. Begun(r) /\ r \in CallState /\ r.sizes.record = size /\ r.nr \in Nat
  BY <1>2, <1>3, <1>7 DEF Begun, Running, Progress, SameHeader, CallState
<1>9. /\ Quiet(r, b)
      /\ b.rc \in {-1, 0, 1}
      /\ b.rc = 0 => \/ r.nr > 0 /\ marker
                     \/ r.nr = 0 /\ num >= records
      /\ b.rc = -1 /\ ~ferror(r.stream) => \/ r.nr > 0 /\ r.nr # size
                                           \/ r.nr = 0 /\ num < records
  BY <1>2, <1>4, <1>6, <1>8, LoopReadFacts
<1>10. /\ Done(b)
       /\ IF b.rc > 0 THEN at' = "record_cb" ELSE Return("read", b.rc)
  BY <1>4
<1>. HIDE DEF b
<1>11. ~ferror(r.stream) /\ b.rc \in {-1, 0} /\ out'.rc = b.rc
  <2>1. b \in CallState /\ b.stream = r.stream
    BY <1>9 DEF Quiet
  <2>2. stream' = b.stream
    BY <1>1, <1>10, <2>1, DoneFacts DEF TypeOK
  <2>3. ~(b.rc > 0)
    BY <1>10
  <2>. QED
    BY <1>9, <1>10, <2>1, <2>2, <2>3, ReturnFacts
<1>12. left \in Nat /\ r.nr = IF size <= left THEN size ELSE left
  BY <1>1, <1>2, <1>7, <1>8, <1>11 DEF Available
<1>13. left \in 0 .. size - 1
  <2>1. ~(size <= left)
    <3>1. SUFFICES ASSUME size <= left
                   PROVE  FALSE
      OBVIOUS
    <3>2. r.nr = size /\ r.nr > 0
      BY <1>2, <1>12, <3>1
    <3>. QED
      BY <1>6, <1>9, <1>11, <3>2
  <2>. QED
    BY <1>2, <1>12, <2>1
<1>14. r.nr = left
  BY <1>2, <1>12, <1>13
<1>15. out'.rc = 0 <=> left = 0 /\ num >= records
  <2>1. CASE left = 0
    BY <1>2, <1>6, <1>9, <1>11, <1>14, <2>1
  <2>2. CASE left # 0
    BY <1>2, <1>6, <1>9, <1>11, <1>14, <2>2
  <2>. QED
    BY <2>1, <2>2
<1>16. file.size - base = num * size + left
  <2>. DEFINE all == num * size
  <2>. HIDE DEF all
  <2>1. stream.pos = base + all /\ all \in Int
    BY <1>5 DEF all
  <2>2. file.size - base = all + left
    BY <1>2, <2>1
  <2>. QED
    BY <2>2 DEF all
<1>17. Complete <=> /\ (num * size + left) % size = 0
                    /\ num * size + left >= records * size
  BY <1>16 DEF Complete
<1>18. Complete <=> left = 0 /\ num >= records
  <2>. HIDE DEF size, num, records, left
  <2>. QED
    BY <1>2, <1>13, <1>17, CompleteFacts
<1>. QED
  BY <1>15, <1>18

(***************************************************************************)
(* Where no marker ends the table, dbf_read answers 0 for complete tables  *)
(* and for no others: for every size of the file, every size of a row and  *)
(* every number of records in the header, however the reads before went,   *)
(* for a program that calls no dbf_seek_record on the handle.              *)
(***************************************************************************)
THEOREM ShortTablesAreErrors ==
  ASSUME RecordNumbers = {}
  PROVE  Spec => ShortTableIsError
<1>1. Knowledge /\ [Next]_vars =>
        [at = "loop" /\ at' = "caller" /\ ~ferror(stream') /\ file.marks = {} /\ AllCounted =>
           (out'.rc = 0 <=> Complete)]_vars
  BY FromLoop, LastRound DEF vars
<1>. QED
  BY <1>1, KnowledgeHolds, PTL DEF Spec, ShortTableIsError

-----------------------------------------------------------------------------
(* The rows of a table, and where they begin.                              *)

(* The larger of a number and 0.                                           *)
LEMMA MaxFacts ==
  ASSUME NEW n \in Int
  PROVE  Max({0, n}) = IF n >= 0 THEN n ELSE 0
<1>1. ASSUME NEW m \in {0, n}, \A k \in {0, n} : m >= k
      PROVE  m = IF n >= 0 THEN n ELSE 0
  BY <1>1
<1>2. \E m \in {0, n} : \A k \in {0, n} : m >= k
  OBVIOUS
<1>3. Max({0, n}) \in {0, n} /\ \A k \in {0, n} : Max({0, n}) >= k
  BY <1>2 DEF Max
<1>. QED
  BY <1>1, <1>3

(* A number of steps that reach over a size: a multiple of the step is     *)
(* below the size just when it is one of them.                             *)
LEMMA StepsFacts ==
  ASSUME NEW size \in Nat, NEW step \in Nat \ {0}, NEW k \in Nat
  PROVE  /\ StepsUpTo(size, step) \in Nat
         /\ k < StepsUpTo(size, step) <=> k * step < size
<1>. DEFINE q == (size + step - 1) \div step
            m == (size + step - 1) % step
<1>1. /\ size + step - 1 \in Nat /\ size + step - 1 = q * step + m
      /\ m \in 0 .. step - 1 /\ q \in Nat
  OBVIOUS
<1>. HIDE DEF q, m
<1>2. CASE k < q
  <2>1. (k + 1) * step <= q * step /\ q * step \in Int /\ k * step \in Int
        /\ (k + 1) * step = k * step + step
    BY <1>1, <1>2, ProductOrder
  <2>. QED
    BY <1>1, <1>2, <2>1 DEF StepsUpTo, q
<1>3. CASE ~(k < q)
  <2>1. q * step <= k * step /\ q * step \in Int /\ k * step \in Int
    BY <1>1, <1>3, ProductOrder
  <2>. QED
    BY <1>1, <1>3, <2>1 DEF StepsUpTo, q
<1>. QED
  BY <1>2, <1>3

(* A multiple of a step has no remainder, and a number without remainder   *)
(* is a multiple.                                                          *)
LEMMA MultipleFacts ==
  ASSUME NEW n \in Nat, NEW step \in Nat \ {0}
  PROVE  /\ (n * step) % step = 0
         /\ n % step = 0 => n \div step \in Nat /\ n = (n \div step) * step
<1>1. (n * step + 0) % step = 0
  <2>1. 0 \in 0 .. step - 1
    OBVIOUS
  <2>. QED
    BY <2>1, RemainderOfMultiple
<1>2. n * step \in Int
  BY ProductOrder
<1>3. n = (n \div step) * step + (n % step) /\ n \div step \in Nat
  OBVIOUS
<1>. QED
  BY <1>1, <1>2, <1>3

(* Row i begins where it should, and is a row if that is in the file.      *)
LEMMA RowStartFacts ==
  ASSUME file \in Tables, file.head.record_size > 0, NEW i \in Nat \ {0}
  PROVE  /\ RowStart(i) \in Nat /\ RowStart(i) >= FirstRow(file.head)
         /\ RowStart(i + 1) = RowStart(i) + file.head.record_size
         /\ Aligned(file, RowStart(i))
         /\ i \in Rows <=> RowStart(i) < file.size
<1>. DEFINE step == file.head.record_size
            base == FirstRow(file.head)
            k == i - 1
            size == Max({0, file.size - base})
<1>1. step \in Nat \ {0} /\ base \in Nat /\ file.size \in Nat /\ k \in Nat
  BY HeadFacts DEF UInt16
<1>2. size = IF file.size >= base THEN file.size - base ELSE 0
  <2>1. file.size - base \in Int
    BY <1>1
  <2>2. \A n \in Int : Max({0, n}) = IF n >= 0 THEN n ELSE 0
    BY MaxFacts
  <2>3. size = IF file.size - base >= 0 THEN file.size - base ELSE 0
    BY <2>1, <2>2
  <2>. HIDE DEF size, base
  <2>. QED
    BY <1>1, <2>3
<1>3. size \in Nat
  <2>. HIDE DEF size, base
  <2>. QED
    BY <1>1, <1>2
<1>4. RowStart(i) = base + k * step /\ RowStart(i + 1) = base + (k + 1) * step
  <2>1. (i + 1) - 1 = k + 1
    BY <1>1
  <2>. QED
    BY <2>1 DEF RowStart
<1>5. Rows = 1 .. StepsUpTo(size, step)
  BY <1>1 DEF Rows
<1>. HIDE DEF size, base, step
<1>6. /\ StepsUpTo(size, step) \in Nat
      /\ k < StepsUpTo(size, step) <=> k * step < size
      /\ (k * step) % step = 0
  BY <1>1, <1>3, StepsFacts, MultipleFacts
<1>. DEFINE all == k * step
<1>7. all \in Nat /\ (k + 1) * step = all + step
  <2>1. 0 * step <= k * step /\ k * step \in Int /\ 0 * step = 0
    BY <1>1, ProductOrder
  <2>2. (k + 1) * step = k * step + step
    BY <1>1
  <2>. QED
    BY <2>1, <2>2
<1>8. RowStart(i) = base + all /\ all % step = 0 /\ (k < StepsUpTo(size, step) <=> all < size)
  BY <1>4, <1>6
<1>9. RowStart(i + 1) = base + (all + step)
  BY <1>4, <1>7
<1>. HIDE DEF all
<1>10. RowStart(i) \in Nat /\ RowStart(i) >= base /\ RowStart(i + 1) = RowStart(i) + step
  BY <1>1, <1>7, <1>8, <1>9
<1>11. Aligned(file, RowStart(i))
  <2>1. RowStart(i) - base = all
    BY <1>1, <1>7, <1>8
  <2>. QED
    BY <1>1, <1>8, <1>10, <2>1 DEF Aligned, base, step
<1>12. i \in Rows <=> RowStart(i) < file.size
  <2>1. i \in Rows <=> k < StepsUpTo(size, step)
    BY <1>1, <1>5, <1>6
  <2>2. all < size <=> RowStart(i) < file.size
    BY <1>1, <1>2, <1>7, <1>8
  <2>. QED
    BY <1>8, <2>1, <2>2
<1>. QED
  BY <1>10, <1>11, <1>12 DEF base, step

(* Rows begin at different places, and at every aligned place a row does.  *)
LEMMA RowsFacts ==
  ASSUME file \in Tables
  PROVE  /\ Cardinality(Rows) \in Nat
         /\ Rows = 1 .. Cardinality(Rows)
         /\ \A i, j \in Rows : RowStart(i) = RowStart(j) => i = j
         /\ \A pos \in Nat : Aligned(file, pos) => \E i \in Nat \ {0} : RowStart(i) = pos
<1>. DEFINE step == file.head.record_size
            base == FirstRow(file.head)
<1>1. step \in Nat /\ base \in Nat /\ file.size \in Nat
  BY HeadFacts DEF UInt16
<1>2. \E n \in Nat : Rows = 1 .. n
  <2>1. CASE step = 0
    <3>1. Rows = {} /\ 1 .. 0 = {}
      BY <2>1 DEF Rows
    <3>. QED
      BY <3>1
  <2>2. CASE step # 0
    <3>. DEFINE size == Max({0, file.size - base})
    <3>1. size \in Nat
      <4>1. file.size - base \in Int
        BY <1>1
      <4>. HIDE DEF base
      <4>. QED
        BY <4>1, MaxFacts
    <3>2. Rows = 1 .. StepsUpTo(size, step)
      BY <2>2 DEF Rows
    <3>. HIDE DEF size, step
    <3>. QED
      BY <1>1, <2>2, <3>1, <3>2, StepsFacts
  <2>. QED
    BY <2>1, <2>2
<1>3. PICK n \in Nat : Rows = 1 .. n
  BY <1>2
<1>4. Cardinality(Rows) = n
  <2>1. Cardinality(1 .. n) = IF 1 > n THEN 0 ELSE n - 1 + 1
    BY FS_Interval
  <2>. QED
    BY <1>3, <2>1
<1>5. ASSUME NEW i \in Rows, NEW j \in Rows, RowStart(i) = RowStart(j)
      PROVE  i = j
  <2>1. i \in Nat \ {0} /\ j \in Nat \ {0}
    BY <1>3
  <2>2. step \in Nat \ {0}
    BY <1>1 DEF Rows
  <2>3. (i - 1) * step = (j - 1) * step
    <3>1. (i - 1) * step \in Int /\ (j - 1) * step \in Int
      BY <2>1, <2>2, ProductOrder
    <3>2. base + (i - 1) * step = base + (j - 1) * step
      BY <1>5 DEF RowStart
    <3>. QED
      BY <1>1, <3>1, <3>2
  <2>. HIDE DEF step
  <2>4. ASSUME NEW a \in Nat, NEW b \in Nat, a * step = b * step
        PROVE  ~(a < b)
    <3>1. SUFFICES ASSUME a < b
                   PROVE  FALSE
      OBVIOUS
    <3>2. (a + 1) * step <= b * step /\ (a + 1) * step = a * step + step /\ a * step \in Int
      BY <2>2, <3>1, ProductOrder
    <3>. QED
      BY <2>2, <2>4, <3>2
  <2>5. ~(i - 1 < j - 1) /\ ~(j - 1 < i - 1)
    BY <2>1, <2>3, <2>4
  <2>. QED
    BY <2>1, <2>5
<1>6. ASSUME NEW pos \in Nat, Aligned(file, pos)
      PROVE  \E i \in Nat \ {0} : RowStart(i) = pos
  <2>. DEFINE n0 == pos - base
  <2>1. n0 \in Nat /\ step \in Nat \ {0} /\ n0 % step = 0 /\ pos = base + n0
    BY <1>1, <1>6 DEF Aligned
  <2>. HIDE DEF n0, step
  <2>2. n0 \div step \in Nat /\ n0 = (n0 \div step) * step
    BY <2>1, MultipleFacts
  <2>. DEFINE i == n0 \div step + 1
  <2>3. i \in Nat \ {0} /\ i - 1 = n0 \div step
    BY <2>2
  <2>. HIDE DEF i
  <2>4. RowStart(i) = pos
    BY <2>1, <2>2, <2>3 DEF RowStart, step
  <2>. QED
    BY <2>3, <2>4
<1>. QED
  BY <1>3, <1>4, <1>5, <1>6

-----------------------------------------------------------------------------
(* The table that RowTable speaks of.                                      *)
lastBar == [rc |-> got.rc, item |-> itemBar]

(* Where the cursor is.                                                    *)
CursorStands ==
  /\ curBar \in -1 .. Cardinality(Rows) + 1
  /\ stream.pos = 0 => curBar = -1
  /\ stream.pos > 0 =>
       /\ \A i \in Rows : RowStart(i) = stream.pos => curBar = i
       /\ (\A i \in Rows : RowStart(i) # stream.pos) =>
            curBar = IF stream.pos >= file.size THEN Cardinality(Rows) + 1 ELSE 0

(* What the latest answer was.                                             *)
AnswerStands ==
  /\ itemBar \in 0 .. Cardinality(Rows)
  /\ got.rc # 1 => itemBar = 0
  /\ got.rc = 1 =>
       /\ \A i \in Rows : RowStart(i) = got.start => itemBar = i
       /\ (\A i \in Rows : RowStart(i) # got.start) => itemBar = 0

(* A row is told by where it begins.                                       *)
LEMMA RowChosen ==
  ASSUME file \in Tables, NEW pos, NEW here, here = {i \in Rows : RowStart(i) = pos}
  PROVE  /\ \A i \in Rows : RowStart(i) = pos => here # {} /\ (CHOOSE j \in here : TRUE) = i
         /\ (\A i \in Rows : RowStart(i) # pos) => here = {}
         /\ here # {} => (CHOOSE j \in here : TRUE) \in Rows
<1>1. ASSUME NEW i \in Rows, RowStart(i) = pos
      PROVE  here # {} /\ (CHOOSE j \in here : TRUE) = i
  <2>1. here = {i}
    BY <1>1, RowsFacts
  <2>2. (CHOOSE j \in {i} : TRUE) = i
    OBVIOUS
  <2>. QED
    BY <2>1, <2>2
<1>2. (\A i \in Rows : RowStart(i) # pos) => here = {}
  OBVIOUS
<1>3. here # {} => (CHOOSE j \in here : TRUE) \in Rows
  <2>1. here # {} => (CHOOSE j \in here : TRUE) \in here
    OBVIOUS
  <2>2. here \subseteq Rows
    OBVIOUS
  <2>. QED
    BY <2>1, <2>2
<1>. QED
  BY <1>1, <1>2, <1>3

(* Both follow from the stream and from what was read last.                *)
LEMMA MappingFacts == file \in Tables /\ stream \in Stream => CursorStands /\ AnswerStands
<1>. SUFFICES ASSUME file \in Tables, stream \in Stream
              PROVE  CursorStands /\ AnswerStands
  OBVIOUS
<1>1. /\ stream.pos \in Nat /\ Cardinality(Rows) \in Nat
      /\ \A i \in Rows : i \in 1 .. Cardinality(Rows)
  BY RowsFacts DEF Stream
<1>2. CursorStands
  <2>. DEFINE here == {i \in Rows : RowStart(i) = stream.pos}
              first == CHOOSE j \in here : TRUE
  <2>1. /\ \A i \in Rows : RowStart(i) = stream.pos => here # {} /\ first = i
        /\ (\A i \in Rows : RowStart(i) # stream.pos) => here = {}
        /\ here # {} => first \in Rows
    BY RowChosen
  <2>2. /\ stream.pos = 0 => curBar = -1
        /\ stream.pos # 0 /\ here # {} => curBar = first
        /\ stream.pos # 0 /\ here = {} =>
             curBar = IF stream.pos >= file.size THEN Cardinality(Rows) + 1 ELSE 0
    BY DEF curBar
  <2>. HIDE DEF here, first
  <2>3. curBar \in -1 .. Cardinality(Rows) + 1
    <3>1. CASE stream.pos # 0 /\ here # {}
      BY <1>1, <2>1, <2>2, <3>1
    <3>2. CASE stream.pos = 0 \/ here = {}
      BY <1>1, <2>2, <3>2
    <3>. QED
      BY <3>1, <3>2
  <2>. QED
    BY <1>1, <2>1, <2>2, <2>3 DEF CursorStands
<1>3. AnswerStands
  <2>. DEFINE here == {i \in Rows : RowStart(i) = got.start}
              first == CHOOSE j \in here : TRUE
  <2>1. /\ \A i \in Rows : RowStart(i) = got.start => here # {} /\ first = i
        /\ (\A i \in Rows : RowStart(i) # got.start) => here = {}
        /\ here # {} => first \in Rows
    BY RowChosen
  <2>2. itemBar = IF got.rc = 1 /\ here # {} THEN first ELSE 0
    BY DEF itemBar
  <2>. HIDE DEF here, first
  <2>3. itemBar \in 0 .. Cardinality(Rows)
    <3>1. CASE got.rc = 1 /\ here # {}
      BY <1>1, <2>1, <2>2, <3>1
    <3>2. CASE ~(got.rc = 1 /\ here # {})
      BY <1>1, <2>2, <3>2
    <3>. QED
      BY <3>1, <3>2
  <2>. QED
    BY <2>1, <2>2, <2>3 DEF AnswerStands
<1>. QED
  BY <1>2, <1>3

(* So also after a step.                                                   *)
LEMMA MappingFactsNext ==
  (file \in Tables)' /\ (stream \in Stream)' => CursorStands' /\ AnswerStands'
BY MappingFacts, PTL

(* What the rows are to the table.                                         *)
LEMMA KindsFacts ==
  ASSUME file \in Tables
  PROVE  /\ DOMAIN kindsBar = Rows
         /\ Len(kindsBar) = Cardinality(Rows)
         /\ \A i \in Rows : kindsBar[i] = Kind(i)
         /\ kindsBar \in Seq(Table!Kinds)
         /\ Table!End = Cardinality(Rows) + 1
<1>1. Cardinality(Rows) \in Nat /\ Rows = 1 .. Cardinality(Rows)
  BY RowsFacts
<1>2. kindsBar \in [1 .. Cardinality(Rows) -> Table!Kinds]
  BY <1>1 DEF kindsBar, Kind, Table!Kinds
<1>3. /\ DOMAIN kindsBar = Rows /\ Len(kindsBar) = Cardinality(Rows)
      /\ \A i \in Rows : kindsBar[i] = Kind(i)
      /\ kindsBar \in Seq(Table!Kinds)
  BY <1>1, <1>2 DEF kindsBar
<1>. QED
  BY <1>3 DEF Table!End

(* The rows stay.                                                          *)
LEMMA SameRows ==
  ASSUME file' = file
  PROVE  kindsBar' = kindsBar /\ Rows' = Rows /\ \A i : RowStart(i)' = RowStart(i)
BY DEF kindsBar, Kind, Rows, RowStart, Whole

(* What the table sees of a step that changes neither the file nor the     *)
(* stream nor the latest answer.                                           *)
LEMMA UnseenStep ==
  ASSUME UNCHANGED <<file, stream, got>>
  PROVE  UNCHANGED <<kindsBar, curBar, lastBar, ferror(stream)>>
BY DEF kindsBar, Kind, Rows, RowStart, Whole, curBar, itemBar, lastBar, ferror

-----------------------------------------------------------------------------
(* What a call costs, and what it leaves of the stream's indicators.       *)

(* The end-of-file indicator is set only where the file has ended.         *)
EndIsEnd(s) == feof(s) => s.pos >= file.size

EndKept(c, b)     == EndIsEnd(c.stream) => EndIsEnd(b.stream)
Undisturbed(c, b) == b.faults = c.faults /\ (ferror(b.stream) <=> ferror(c.stream))
Charged(c, b)     == c.faults > 0 /\ b.faults = c.faults - 1

(* A stage is undisturbed, or a fault ends it with a message.              *)
Outcome(c, b) ==
  /\ EndKept(c, b)
  /\ Undisturbed(c, b) \/ (Charged(c, b) /\ ~Running(b))

(* What is done to a call without the system's help costs nothing.         *)
Idles(c, b) == b.stream = c.stream /\ b.faults = c.faults /\ (~Running(c) => ~Running(b))

(* What happens in a call's own hands does not change how a stage came out.*)
LEMMA OutcomeIdles ==
  ASSUME NEW a, NEW b, NEW c, Outcome(a, b), Idles(b, c)
  PROVE  Outcome(a, c)
BY DEF Outcome, EndKept, Undisturbed, Charged, Idles, EndIsEnd

(* Two stages of which the first has not ended the call are one.           *)
LEMMA OutcomeGoesOn ==
  ASSUME NEW a, NEW b, NEW c, Outcome(a, b), Running(b), Outcome(b, c)
  PROVE  Outcome(a, c)
BY DEF Outcome, EndKept, Undisturbed, Charged, EndIsEnd

(* To do nothing with the system is to be undisturbed.                     *)
LEMMA IdlesOutcome ==
  ASSUME NEW c, NEW b, Idles(c, b)
  PROVE  Outcome(c, b)
BY DEF Outcome, EndKept, Undisturbed, Idles

(* Idle twice is idle.                                                     *)
LEMMA IdlesTransitive ==
  ASSUME NEW a, NEW b, NEW c, Idles(a, b), Idles(b, c)
  PROVE  Idles(a, c)
BY DEF Idles

(* Messages, results and blocks are such.                                  *)
LEMMA IdleFacts ==
  ASSUME NEW c \in CallState
  PROVE  /\ \A message \in Messages \ {NoMessage} : Idles(c, Explained(c, message))
         /\ \A ok, message : message # NoMessage => Idles(c, Check(c, ok, message))
         /\ \A rc : Idles(c, Answered(c, rc))
         /\ \A block : Idles(c, free(c, block)) /\ Idles(c, Allocated(c, block))
         /\ Idles(c, c)
         /\ Idles(c, SizesKept(c))
<1>1. \A message : message # NoMessage => Idles(c, Explained(c, message))
  BY DEF Explained, Idles, Running, CallState
<1>2. Idles(c, c)
  BY DEF Idles
<1>3. \A ok, message : message # NoMessage => Idles(c, Check(c, ok, message))
  BY <1>1, <1>2 DEF Check
<1>4. /\ \A rc : Idles(c, Answered(c, rc))
      /\ \A block : Idles(c, free(c, block)) /\ Idles(c, Allocated(c, block))
  BY DEF Answered, free, Allocated, Idles, Running, CallState
<1>5. Idles(c, SizesKept(c))
  BY <1>2 DEF SizesKept, Idles, Running, CallState
<1>. QED
  BY <1>1, <1>2, <1>3, <1>4, <1>5

(* A read is one or the other, and an undisturbed one delivers what there  *)
(* is.                                                                     *)
LEMMA FileFreadOutcomes ==
  ASSUME file \in Tables, NEW c \in CallState, NEW count \in Nat,
         NEW b \in file_fread(c, count)
  PROVE  /\ EndKept(c, b)
         /\ \/ /\ Undisturbed(c, b)
               /\ b.nr - c.nr = IF count <= Available(c.stream, file.size)
                                THEN count ELSE Available(c.stream, file.size)
               /\ feof(b.stream) <=> feof(c.stream) \/ b.nr - c.nr < count
            \/ Charged(c, b) /\ ferror(b.stream) /\ b.nr - c.nr < count
<1>1. /\ c.stream \in Stream /\ c.faults \in Nat /\ c.nr \in Nat
      /\ file.size \in Nat /\ c.stream.pos \in Nat
  BY HeadFacts DEF CallState, Stream
<1>2. PICK r \in fread(c.stream, file.size, count, c.faults) :
        b = [c EXCEPT !.stream = r.stream, !.nr = c.nr + r.nr, !.faults = c.faults - r.fault]
  BY DEF file_fread
<1>3. b.stream = r.stream /\ b.nr = c.nr + r.nr /\ b.faults = c.faults - r.fault
  BY <1>2 DEF CallState
<1>4. /\ r.nr \in 0 .. count /\ r.stream.pos = c.stream.pos + r.nr
      /\ r.fault \in Nat /\ r.fault <= c.faults
  BY <1>1, FreadFacts
<1>5. \/ /\ r.fault = 0
         /\ ferror(r.stream) <=> ferror(c.stream)
         /\ r.nr = IF count <= Available(c.stream, file.size)
                   THEN count ELSE Available(c.stream, file.size)
         /\ feof(r.stream) <=> feof(c.stream) \/ r.nr < count
      \/ /\ r.fault = 1 /\ ferror(r.stream) /\ r.nr < count
         /\ feof(r.stream) <=> feof(c.stream)
  BY <1>1, FreadOutcomes
<1>6. b.nr - c.nr = r.nr
  BY <1>1, <1>3, <1>4
<1>7. CASE /\ r.fault = 1 /\ ferror(r.stream) /\ r.nr < count
           /\ feof(r.stream) <=> feof(c.stream)
  BY <1>1, <1>3, <1>4, <1>6, <1>7 DEF EndKept, EndIsEnd, Charged
<1>8. CASE /\ r.fault = 0
           /\ ferror(r.stream) <=> ferror(c.stream)
           /\ r.nr = IF count <= Available(c.stream, file.size)
                     THEN count ELSE Available(c.stream, file.size)
           /\ feof(r.stream) <=> feof(c.stream) \/ r.nr < count
  <2>1. Undisturbed(c, b)
    BY <1>1, <1>3, <1>8 DEF Undisturbed
  <2>2. r.nr < count => r.stream.pos >= file.size
    BY <1>1, <1>4, <1>8 DEF Available
  <2>3. feof(c.stream) /\ EndIsEnd(c.stream) => r.stream.pos >= file.size
    BY <1>1, <1>4 DEF EndIsEnd
  <2>4. EndKept(c, b)
    BY <1>3, <1>8, <2>2, <2>3 DEF EndKept, EndIsEnd
  <2>. QED
    BY <1>3, <1>6, <1>8, <2>1, <2>4
<1>. QED
  BY <1>5, <1>7, <1>8

(* So is an allocation.                                                    *)
LEMMA MallocOutcomes ==
  ASSUME NEW c \in CallState, Running(c), NEW block,
         NEW b \in malloc(c, block)
  PROVE  /\ b.stream = c.stream
         /\ \/ Running(b) /\ b.faults = c.faults
            \/ ~Running(b) /\ Charged(c, b)
         /\ Outcome(c, b)
<1>1. CASE b = Allocated(c, block)
  BY <1>1, IdleFacts, IdlesOutcome DEF Idles, Allocated, Running, CallState
<1>2. CASE \E n \in 1 .. c.faults :
             b = Explained([c EXCEPT !.faults = c.faults - 1], "cannot_allocate")
  <2>1. c.faults \in Nat /\ c.faults > 0
    BY <1>2 DEF CallState
  <2>2. b.faults = c.faults - 1 /\ b.stream = c.stream /\ b.message = "cannot_allocate"
    BY <1>2 DEF CallState, Explained
  <2>3. ~Running(b)
    BY <2>2 DEF Running, NoMessage
  <2>. QED
    BY <2>1, <2>2, <2>3 DEF Charged, Outcome, EndKept
<1>. QED
  BY <1>1, <1>2 DEF malloc

-----------------------------------------------------------------------------
(* The header, stage by stage.                                             *)

(* A block is read in full, or a message says why not.                     *)
LEMMA ReadBlockOutcome ==
  ASSUME file \in Tables, NEW c, Begun(c), NEW count \in Nat,
         NEW unreadable \in Messages \ {NoMessage}, NEW short \in Messages \ {NoMessage},
         NEW b \in ReadBlock(c, count, unreadable, short)
  PROVE  Outcome(c, b)
<1>1. c \in CallState /\ Running(c)
  BY DEF Begun
<1>2. PICK r \in file_fread(c, count) :
        b = Check(Check(r, ~ferror(r.stream), unreadable), r.nr = c.nr + count, short)
  BY DEF ReadBlock
<1>3. r \in CallState /\ EndKept(c, r) /\ Running(r)
      /\ (Undisturbed(c, r) \/ (Charged(c, r) /\ ferror(r.stream)))
  <2>1. Progress(c, r) /\ r.message = c.message
    BY <1>1, <1>2, FileFreadFacts
  <2>2. EndKept(c, r) /\ (Undisturbed(c, r) \/ (Charged(c, r) /\ ferror(r.stream)))
    BY <1>1, <1>2, FileFreadOutcomes
  <2>. QED
    BY <1>1, <2>1, <2>2 DEF Progress, Running
<1>. DEFINE good == ~ferror(r.stream)
            whole == r.nr = c.nr + count
            d == Check(r, good, unreadable)
<1>. good \in BOOLEAN /\ whole \in BOOLEAN
  BY DEF ferror
<1>4. Idles(r, d) /\ (~good => ~Running(d)) /\ d \in CallState
  <2>. HIDE DEF good
  <2>. QED
    BY <1>3, CheckFacts, IdleFacts DEF Quiet
<1>5. b = Check(d, whole, short)
  BY <1>2
<1>6. Outcome(c, d)
  BY <1>3, <1>4 DEF Outcome, Idles, EndKept, Undisturbed, Charged, EndIsEnd
<1>7. Idles(d, b)
  <2>. HIDE DEF d, whole
  <2>. QED
    BY <1>4, <1>5, IdleFacts
<1>. QED
  BY <1>6, <1>7, OutcomeIdles

(* The header's block may be refused; a sum that differs costs nothing.    *)
LEMMA BuildHeaderOutcome ==
  ASSUME file \in Tables, NEW c, Begun(c), NEW b \in BuildHeader(c)
  PROVE  Outcome(c, b)
<1>1. c \in CallState /\ Running(c) /\ "header" \in Blocks
  BY DEF Begun, Blocks
<1>2. PICK m \in malloc(c, "header") :
        b \in IF Running(m)
              THEN {SumChecked(m, Fields(file.head, ds)) : ds \in DescriptorsRead(file.head)}
              ELSE {m}
  BY DEF BuildHeader
<1>3. m \in CallState /\ Outcome(c, m)
  BY <1>1, MallocFacts, MallocOutcomes DEF Quiet
<1>4. ASSUME NEW fs
      PROVE  Idles(m, SumChecked(m, fs))
  <2>. DEFINE d == Explained(m, "sum_of_field_lengths_differs")
  <2>1. "sum_of_field_lengths_differs" \in Messages \ {NoMessage}
    BY DEF Messages, NoMessage
  <2>2. Idles(m, d) /\ d \in CallState
    BY <1>3, <2>1, IdleFacts, ExplainedFacts DEF Quiet
  <2>3. Idles(m, free(d, "header"))
    <3>. HIDE DEF d
    <3>. QED
      BY <2>2, IdleFacts, IdlesTransitive
  <2>4. Idles(m, [m EXCEPT !.rc = 1, !.fields = fs])
    BY <1>3 DEF Idles, Running, CallState
  <2>. QED
    BY <2>3, <2>4 DEF SumChecked
<1>. QED
  BY <1>2, <1>3, <1>4, OutcomeIdles

(* A check, and what follows if it is passed.                              *)
LEMMA CheckedOutcome ==
  ASSUME file \in Tables, NEW c, Begun(c), NEW count \in Nat,
         NEW unreadable \in Messages \ {NoMessage}, NEW short \in Messages \ {NoMessage},
         NEW r \in ReadBlock(c, count, unreadable, short),
         NEW ok \in BOOLEAN, NEW message \in Messages \ {NoMessage},
         NEW h, h = Check(r, ok, message)
  PROVE  /\ Outcome(c, h) /\ h \in CallState /\ h.rc = -1
         /\ Running(h) => Begun(h)
<1>1. Progress(c, r) /\ r \in CallState /\ r.rc = -1 /\ Outcome(c, r)
  BY ReadBlockFacts, ReadBlockOutcome DEF Progress
<1>2. h \in CallState /\ h.rc = -1 /\ Idles(r, h)
  BY <1>1, CheckFacts, IdleFacts DEF Quiet
<1>. QED
  BY <1>1, <1>2, OutcomeIdles DEF Begun

(* The 520 bytes of dBASE II, the test and the header.                     *)
LEMMA Dbase2Outcome ==
  ASSUME file \in Tables, NEW c, Begun(c), NEW b \in read_header_dbase2(c)
  PROVE  Outcome(c, b)
<1>. DEFINE unreadable == "cannot_read_file_header"
            short == "expected_file_header"
            invalid == "record_size_is_invalid"
            ok == file.head.record_size >= 1
<1>1. {unreadable, short, invalid} \subseteq Messages \ {NoMessage} /\ ok \in BOOLEAN
  BY DEF Messages, NoMessage
<1>2. PICK r \in ReadBlock(c, 520, unreadable, short) :
        b \in IF Running(Check(r, ok, invalid))
              THEN BuildHeader(Check(r, ok, invalid)) ELSE {Check(r, ok, invalid)}
  BY DEF read_header_dbase2
<1>. DEFINE h == Check(r, ok, invalid)
<1>. HIDE DEF unreadable, short, invalid, ok
<1>3. Outcome(c, h) /\ (Running(h) => Begun(h))
  BY <1>1, <1>2, CheckedOutcome
<1>4. b \in IF Running(h) THEN BuildHeader(h) ELSE {h}
  BY <1>2
<1>. HIDE DEF h
<1>. QED
  BY <1>3, <1>4, BuildHeaderOutcome, OutcomeGoesOn

(* The descriptors, the test of their number and the header.               *)
LEMMA DescriptorsOutcome ==
  ASSUME file \in Tables, NEW c, Begun(c), DescriptorsSize(file.head) \in Nat,
         NEW b \in ReadDescriptors(c)
  PROVE  Outcome(c, b)
<1>. DEFINE unreadable == "cannot_read_field_descriptors"
            short == "expected_field_descriptors"
            many == "expected_fewer_fields"
            ok == num_fields(file.head) <= 2046
            count == DescriptorsSize(file.head)
<1>1. {unreadable, short, many} \subseteq Messages \ {NoMessage} /\ ok \in BOOLEAN
  BY DEF Messages, NoMessage
<1>2. PICK r \in ReadBlock(c, count, unreadable, short) :
        b \in IF Running(Check(r, ok, many))
              THEN BuildHeader(Check(r, ok, many)) ELSE {Check(r, ok, many)}
  BY DEF ReadDescriptors
<1>. count \in Nat
  OBVIOUS
<1>. DEFINE h == Check(r, ok, many)
<1>. HIDE DEF unreadable, short, many, ok, count
<1>3. Outcome(c, h) /\ (Running(h) => Begun(h))
  BY <1>1, <1>2, CheckedOutcome
<1>4. b \in IF Running(h) THEN BuildHeader(h) ELSE {h}
  BY <1>2
<1>. HIDE DEF h
<1>. QED
  BY <1>3, <1>4, BuildHeaderOutcome, OutcomeGoesOn

(* The 31 bytes of dBASE III, the tests, the block and the descriptors.    *)
LEMMA Dbase3Outcome ==
  ASSUME file \in Tables, NEW c, Begun(c), NEW b \in read_header_dbase3(c)
  PROVE  Outcome(c, b)
<1>. DEFINE unreadable == "cannot_read_file_header"
            short == "expected_file_header"
<1>1. {unreadable, short} \subseteq Messages \ {NoMessage} /\ "descriptors" \in Blocks
  BY DEF Messages, NoMessage, Blocks
<1>2. PICK r \in ReadBlock(c, 31, unreadable, short) :
        LET h == SizesChecked(r)
        IN  b \in IF ~Running(h) THEN {h}
                  ELSE UNION {IF Running(m)
                              THEN {free(d, "descriptors") : d \in ReadDescriptors(m)}
                              ELSE {m} : m \in malloc(h, "descriptors")}
  BY DEF read_header_dbase3
<1>. HIDE DEF unreadable, short
<1>. c \in CallState
  BY DEF Begun
<1>3. /\ Progress(c, r) /\ SameHeader(c, r) /\ r.rc = -1 /\ r.blocks = c.blocks
      /\ r \in CallState /\ Outcome(c, r)
  BY <1>1, <1>2, ReadBlockFacts, ReadBlockOutcome DEF Progress
<1>. DEFINE h == SizesChecked(r)
<1>4. /\ h.rc = -1 /\ h \in CallState
      /\ Running(h) => /\ Running(r)
                       /\ file.head.header_size > 32 /\ file.head.record_size >= 1
  BY <1>3, SizesCheckedFacts
<1>5. Idles(r, h)
  <2>. DEFINE long == file.head.header_size >= 32
              row == file.head.record_size >= 1
              some == file.head.header_size # 32
              d == Check(r, long, "header_size_is_invalid")
              e == Check(d, row, "record_size_is_invalid")
              f == Check(e, some, "no_field_descriptors")
  <2>1. /\ "header_size_is_invalid" \in Messages \ {NoMessage}
        /\ "record_size_is_invalid" \in Messages \ {NoMessage}
        /\ "no_field_descriptors" \in Messages \ {NoMessage}
        /\ long \in BOOLEAN /\ row \in BOOLEAN /\ some \in BOOLEAN
    BY DEF Messages, NoMessage
  <2>2. h = f
    BY DEF SizesChecked
  <2>. HIDE DEF long, row, some
  <2>3. Idles(r, d) /\ d \in CallState
    BY <1>3, <2>1, IdleFacts, CheckFacts DEF Quiet
  <2>. HIDE DEF d
  <2>4. Idles(d, e) /\ e \in CallState
    BY <2>1, <2>3, IdleFacts, CheckFacts DEF Quiet
  <2>. HIDE DEF e
  <2>5. Idles(e, f)
    BY <2>1, <2>4, IdleFacts
  <2>. HIDE DEF f
  <2>6. Idles(d, f)
    BY <2>4, <2>5, IdlesTransitive
  <2>7. Idles(r, f)
    BY <2>3, <2>6, IdlesTransitive
  <2>. QED
    BY <2>2, <2>7
<1>6. b \in IF ~Running(h) THEN {h}
            ELSE UNION {IF Running(m)
                        THEN {free(d, "descriptors") : d \in ReadDescriptors(m)}
                        ELSE {m} : m \in malloc(h, "descriptors")}
  BY <1>2
<1>. HIDE DEF h
<1>7. Outcome(c, h)
  BY <1>3, <1>5, OutcomeIdles
<1>8. CASE ~Running(h)
  BY <1>6, <1>7, <1>8
<1>9. CASE Running(h)
  <2>1. PICK m \in malloc(h, "descriptors") :
          b \in IF Running(m) THEN {free(d, "descriptors") : d \in ReadDescriptors(m)} ELSE {m}
    BY <1>6, <1>9
  <2>2. m \in CallState /\ m.rc = -1 /\ Outcome(h, m)
    BY <1>1, <1>4, <1>9, <2>1, MallocFacts, MallocOutcomes DEF Quiet
  <2>3. Outcome(c, m)
    BY <1>7, <1>9, <2>2, OutcomeGoesOn
  <2>4. CASE ~Running(m)
    BY <2>1, <2>3, <2>4
  <2>5. CASE Running(m)
    <3>1. PICK d \in ReadDescriptors(m) : b = free(d, "descriptors")
      BY <2>1, <2>5
    <3>2. Begun(m) /\ DescriptorsSize(file.head) \in Nat
      <4>1. file.head.header_size \in Nat /\ file.head.header_size > 32
        BY <1>4, <1>9, HeadFacts DEF UInt16
      <4>. QED
        BY <2>2, <2>5, <4>1 DEF Begun, DescriptorsSize
    <3>3. Outcome(c, d)
      BY <2>3, <2>5, <3>1, <3>2, DescriptorsOutcome, OutcomeGoesOn
    <3>4. b.stream = d.stream /\ b.faults = d.faults /\ b.message = d.message
      <4>. HIDE <1>6, <2>1
      <4>. QED
        BY <3>1 DEF free
    <3>. QED
      BY <3>3, <3>4, OutcomeIdles DEF Idles, Running
  <2>. QED
    BY <2>4, <2>5
<1>. QED
  BY <1>8, <1>9

(* Whatever the version.                                                   *)
LEMMA VersionOutcome ==
  ASSUME file \in Tables, NEW c \in CallState, c.rc = -1, NEW b \in ReadVersion(c)
  PROVE  Outcome(c, b)
<1>1. Idles(c, c) /\ Idles(c, Explained(c, "version_is_not_supported"))
  <2>1. "version_is_not_supported" \in Messages \ {NoMessage}
    BY DEF Messages, NoMessage
  <2>. QED
    BY <2>1, IdleFacts
<1>2. Outcome(c, c) /\ Outcome(c, Explained(c, "version_is_not_supported"))
  BY <1>1, IdlesOutcome
<1>3. Running(c) => Begun(c)
  BY DEF Begun
<1>. QED
  BY <1>2, <1>3, Dbase2Outcome, Dbase3Outcome DEF ReadVersion

(* dbf_read_header.                                                        *)
LEMMA HeaderOutcome ==
  ASSUME file \in Tables, NEW c, Begun(c), NEW b \in dbf_read_header(c)
  PROVE  Outcome(c, b)
<1>. DEFINE unreadable == "cannot_read_file_version"
            short == "expected_1_byte"
<1>1. {unreadable, short} \subseteq Messages \ {NoMessage}
  BY DEF Messages, NoMessage
<1>2. PICK r \in ReadBlock(c, 1, unreadable, short) :
        \E h \in ReadVersion(r) : b = SizesKept(h)
  BY DEF dbf_read_header
<1>3. PICK h \in ReadVersion(r) : b = SizesKept(h)
  BY <1>2
<1>. HIDE DEF unreadable, short
<1>4. r.rc = -1 /\ r \in CallState /\ Outcome(c, r)
  BY <1>1, <1>2, ReadBlockFacts, ReadBlockOutcome DEF Progress
<1>5. Outcome(c, h)
  <2>1. CASE Running(r)
    BY <1>3, <1>4, <2>1, VersionOutcome, OutcomeGoesOn
  <2>2. CASE ~Running(r)
    <3>1. h = r
      BY <1>3, <2>2 DEF ReadVersion
    <3>. QED
      BY <1>4, <3>1
  <2>. QED
    BY <2>1, <2>2
<1>6. b.stream = h.stream /\ b.faults = h.faults /\ b.message = h.message
  BY <1>3 DEF SizesKept
<1>. QED
  BY <1>5, <1>6, OutcomeIdles DEF Idles, Running
-----------------------------------------------------------------------------
(* A row, from any place where the stream may stand behind the header.     *)

(* Where the stream stands, unless it has failed: where a row begins, or   *)
(* behind the end of the file.                                             *)
OnRow(pos) == pos >= FirstRow(file.head) /\ (Aligned(file, pos) \/ pos >= file.size)

RowEnd(pos) ==
  IF pos >= file.size THEN pos ELSE IF Whole(pos) THEN pos + file.head.record_size ELSE file.size

RowAnswers(pos) ==
  IF pos >= file.size THEN {-1, 0}
  ELSE IF pos \in file.marks THEN {0} ELSE IF Whole(pos) THEN {1} ELSE {-1}

(* A call that is about to read a row.                                     *)
AtRow(c) ==
  /\ Begun(c) /\ c.nr = 0 /\ c.start = c.stream.pos
  /\ c.sizes.record = file.head.record_size /\ file.head.record_size >= 1
  /\ ~ferror(c.stream) /\ EndIsEnd(c.stream) /\ OnRow(c.stream.pos)

(* What it comes to: the row where it began or nothing, or it has failed,  *)
(* with the stream or before the stream was read.                          *)
RowOutcome(c, b) ==
  /\ EndIsEnd(b.stream)
  /\ \/ /\ Charged(c, b) /\ b.rc \in {-1, 0}
        /\ ferror(b.stream) \/ b.stream = c.stream
     \/ /\ Undisturbed(c, b)
        /\ b.rc \in RowAnswers(c.stream.pos) /\ b.stream.pos = RowEnd(c.stream.pos)

(* The bytes of a row: all of them, those that are there, or none.         *)
LEMMA RowBytes ==
  ASSUME file \in Tables, NEW c, AtRow(c), NEW r \in file_fread(c, c.sizes.record),
         NEW marker \in MarkerAt(c.start)
  PROVE  /\ Begun(r) /\ r.sizes.record = file.head.record_size
         /\ EndIsEnd(r.stream)
         /\ \/ Charged(c, r) /\ ferror(r.stream) /\ r.nr < file.head.record_size
            \/ /\ Undisturbed(c, r) /\ ~ferror(r.stream)
               /\ r.stream.pos = RowEnd(c.stream.pos)
               /\ r.nr \in Nat
               /\ c.stream.pos >= file.size => r.nr = 0 /\ feof(r.stream)
               /\ c.stream.pos < file.size => r.nr > 0 /\ marker = (c.stream.pos \in file.marks)
               /\ c.stream.pos < file.size /\ Whole(c.stream.pos) =>
                    r.nr = file.head.record_size /\ ~feof(r.stream)
               /\ c.stream.pos < file.size /\ ~Whole(c.stream.pos) =>
                    r.nr # file.head.record_size
<1>. DEFINE pos == c.stream.pos
            size == file.head.record_size
<1>1. /\ c \in CallState /\ pos \in Nat /\ file.size \in Nat /\ size \in Nat \ {0}
      /\ c.sizes.record = size /\ c.nr = 0
  BY HeadFacts DEF AtRow, Begun, CallState, Stream, UInt16
<1>2. /\ Progress(c, r) /\ SameHeader(c, r) /\ r.rc = c.rc /\ r.message = c.message
      /\ r.nr - c.nr \in 0 .. size
  BY <1>1, FileFreadFacts
<1>3. /\ EndKept(c, r)
      /\ \/ /\ Undisturbed(c, r)
            /\ r.nr - c.nr = IF size <= Available(c.stream, file.size)
                             THEN size ELSE Available(c.stream, file.size)
            /\ feof(r.stream) <=> feof(c.stream) \/ r.nr - c.nr < size
         \/ Charged(c, r) /\ ferror(r.stream) /\ r.nr - c.nr < size
  BY <1>1, FileFreadOutcomes
<1>4. Begun(r) /\ r.sizes.record = size /\ EndIsEnd(r.stream) /\ r.nr \in Nat
  BY <1>1, <1>2, <1>3 DEF AtRow, Begun, Running, Progress, SameHeader, EndKept, CallState
<1>5. r.nr - c.nr = r.nr /\ r.stream.pos = pos + r.nr
  BY <1>1, <1>2, <1>4 DEF Progress
<1>6. CASE Charged(c, r) /\ ferror(r.stream) /\ r.nr - c.nr < size
  BY <1>4, <1>5, <1>6
<1>7. CASE /\ Undisturbed(c, r)
           /\ r.nr - c.nr = IF size <= Available(c.stream, file.size)
                            THEN size ELSE Available(c.stream, file.size)
           /\ feof(r.stream) <=> feof(c.stream) \/ r.nr - c.nr < size
  <2>1. ~ferror(r.stream)
    BY <1>7 DEF AtRow, Undisturbed
  <2>2. pos < file.size => ~feof(c.stream)
    BY <1>1 DEF AtRow, EndIsEnd
  <2>3. pos < file.size => marker = (pos \in file.marks)
    <3>1. pos < file.size => Aligned(file, pos)
      BY <1>1 DEF AtRow, OnRow
    <3>2. c.start = pos
      BY DEF AtRow
    <3>. QED
      BY <3>1, <3>2 DEF MarkerAt
  <2>4. Available(c.stream, file.size) = IF pos < file.size THEN file.size - pos ELSE 0
    BY DEF Available
  <2>5. Whole(pos) <=> pos + size <= file.size
    BY DEF Whole
  <2>6. RowEnd(pos) = IF pos >= file.size THEN pos
                      ELSE IF Whole(pos) THEN pos + size ELSE file.size
    BY DEF RowEnd
  <2>. HIDE DEF pos, size
  <2>7. CASE pos >= file.size
    BY <1>1, <1>4, <1>5, <1>7, <2>1, <2>4, <2>6, <2>7 DEF pos, size
  <2>8. CASE pos < file.size /\ Whole(pos)
    <3>1. r.nr = size /\ ~feof(r.stream) /\ r.stream.pos = RowEnd(pos) /\ r.nr > 0
      BY <1>1, <1>4, <1>5, <1>7, <2>2, <2>4, <2>5, <2>6, <2>8
    <3>2. ~(pos >= file.size)
      BY <1>1, <2>8
    <3>. QED
      BY <1>4, <1>7, <2>1, <2>3, <2>8, <3>1, <3>2 DEF pos, size
  <2>9. CASE pos < file.size /\ ~Whole(pos)
    <3>1. r.nr # size /\ r.stream.pos = RowEnd(pos) /\ r.nr > 0
      BY <1>1, <1>4, <1>5, <1>7, <2>4, <2>5, <2>6, <2>9
    <3>2. ~(pos >= file.size)
      BY <1>1, <2>9
    <3>. QED
      BY <1>4, <1>7, <2>1, <2>3, <2>9, <3>1, <3>2 DEF pos, size
  <2>. QED
    BY <1>1, <2>7, <2>8, <2>9
<1>. QED
  BY <1>3, <1>6, <1>7

(* dbf_read_record answers for the row where it begins.                    *)
LEMMA ReadRowOutcome ==
  ASSUME file \in Tables, NEW c, AtRow(c), c.blocks = {"record"}, NEW b \in ReadRow(c)
  PROVE  RowOutcome(c, b)
<1>1. PICK r \in file_fread(c, c.sizes.record), marker \in MarkerAt(c.start) :
        b = FreedUnlessRead(RecordRead(r, marker))
  BY DEF ReadRow
<1>. DEFINE pos == c.stream.pos
            size == file.head.record_size
<1>2. /\ Begun(r) /\ r.sizes.record = size
      /\ EndIsEnd(r.stream)
      /\ \/ Charged(c, r) /\ ferror(r.stream) /\ r.nr < size
         \/ /\ Undisturbed(c, r) /\ ~ferror(r.stream)
            /\ r.stream.pos = RowEnd(pos)
            /\ r.nr \in Nat
            /\ pos >= file.size => r.nr = 0 /\ feof(r.stream)
            /\ pos < file.size => r.nr > 0 /\ marker = (pos \in file.marks)
            /\ pos < file.size /\ Whole(pos) => r.nr = size /\ ~feof(r.stream)
            /\ pos < file.size /\ ~Whole(pos) => r.nr # size
  BY <1>1, RowBytes
<1>3. marker \in BOOLEAN /\ r \in CallState
  BY <1>1, <1>2, MarkerFacts DEF Begun
<1>. DEFINE d == RecordRead(r, marker)
<1>4. /\ Quiet(r, d)
      /\ d.rc \in {-1, 0, 1}
      /\ d.rc = 1 => /\ ~ferror(r.stream) /\ ~feof(r.stream)
                     /\ r.nr > 0 => ~marker /\ r.nr = r.sizes.record
      /\ d.rc = 0 => \/ r.nr > 0 /\ marker
                     \/ /\ ~ferror(r.stream) /\ feof(r.stream)
                        /\ r.nr > 0 => r.nr = r.sizes.record
      /\ d.rc = -1 /\ ~ferror(r.stream) => r.nr > 0 /\ ~marker /\ r.nr # r.sizes.record
  BY <1>2, <1>3, RecordReadFacts
<1>5. d.stream = r.stream /\ d.faults = r.faults /\ d \in CallState
  <2>1. Idles(r, d)
    BY <1>3, IdleFacts DEF RecordRead, Messages, NoMessage, Idles, Explained, Answered, CallState
  <2>. QED
    BY <1>4, <2>1 DEF Idles, Quiet
<1>6. b = FreedUnlessRead(d)
  BY <1>1
<1>. HIDE DEF d
<1>7. b.rc = d.rc /\ b.stream = d.stream /\ b.faults = d.faults
  BY <1>5, <1>6 DEF FreedUnlessRead, free, CallState
<1>8. c.stream.pos \in Nat /\ file.size \in Nat
  BY HeadFacts DEF AtRow, Begun, CallState, Stream
<1>. HIDE DEF pos, size
<1>9. CASE Charged(c, r) /\ ferror(r.stream) /\ r.nr < size
  <2>1. b.rc \in {-1, 0}
    BY <1>4, <1>7, <1>9
  <2>. QED
    BY <1>2, <1>5, <1>7, <1>9, <2>1 DEF RowOutcome, Charged
<1>10. ASSUME Undisturbed(c, r) /\ ~ferror(r.stream), r.stream.pos = RowEnd(pos), r.nr \in Nat,
              pos >= file.size => r.nr = 0 /\ feof(r.stream),
              pos < file.size => r.nr > 0 /\ marker = (pos \in file.marks),
              pos < file.size /\ Whole(pos) => r.nr = size /\ ~feof(r.stream),
              pos < file.size /\ ~Whole(pos) => r.nr # size
       PROVE  RowOutcome(c, b)
  <2>1. d.rc \in RowAnswers(pos)
    <3>1. CASE pos >= file.size
      <4>1. d.rc # 1
        BY <1>4, <1>10, <3>1
      <4>. QED
        BY <1>4, <3>1, <4>1 DEF RowAnswers
    <3>2. CASE pos < file.size /\ pos \in file.marks
      <4>1. r.nr > 0 /\ marker
        BY <1>10, <3>2
      <4>2. d.rc # 1 /\ d.rc # -1
        BY <1>4, <1>10, <4>1
      <4>3. ~(pos >= file.size)
        BY <1>8, <3>2 DEF pos
      <4>. QED
        BY <1>4, <3>2, <4>2, <4>3 DEF RowAnswers
    <3>3. CASE pos < file.size /\ pos \notin file.marks
      <4>1. r.nr > 0 /\ ~marker
        BY <1>10, <3>3
      <4>2. ~(pos >= file.size)
        BY <1>8, <3>3 DEF pos
      <4>3. CASE Whole(pos)
        <5>1. d.rc # 0 /\ d.rc # -1
          BY <1>2, <1>4, <1>10, <3>3, <4>1, <4>3
        <5>. QED
          BY <1>4, <3>3, <4>2, <4>3, <5>1 DEF RowAnswers
      <4>4. CASE ~Whole(pos)
        <5>1. r.nr # r.sizes.record
          BY <1>2, <1>10, <3>3, <4>4
        <5>2. d.rc # 0 /\ d.rc # 1
          BY <1>4, <4>1, <5>1
        <5>. QED
          BY <1>4, <3>3, <4>2, <4>4, <5>2 DEF RowAnswers
      <4>. QED
        BY <4>3, <4>4
    <3>. QED
      BY <1>8, <3>1, <3>2, <3>3 DEF pos
  <2>. QED
    BY <1>2, <1>5, <1>7, <1>10, <2>1 DEF RowOutcome, Undisturbed, pos
<1>. QED
  BY <1>2, <1>9, <1>10 DEF pos, size

(* So does dbf_read_record if it gets a block.                             *)
LEMMA RecordOutcome ==
  ASSUME file \in Tables, NEW c, AtRow(c), c.blocks = {}, NEW b \in dbf_read_record(c)
  PROVE  RowOutcome(c, b)
<1>1. PICK m \in malloc(c, "record") : b \in IF Running(m) THEN ReadRow(m) ELSE {m}
  BY DEF dbf_read_record
<1>2. c \in CallState /\ Running(c) /\ c.rc = -1 /\ "record" \in Blocks
  BY DEF AtRow, Begun, Blocks
<1>3. /\ Quiet(c, m) /\ SameHeader(c, m) /\ m.rc = -1 /\ m \in CallState
      /\ Running(m) => m.blocks = {"record"}
      /\ m.stream = c.stream
      /\ (Running(m) /\ m.faults = c.faults) \/ (~Running(m) /\ Charged(c, m))
  BY <1>1, <1>2, MallocFacts, MallocOutcomes DEF Quiet, AtRow
<1>4. CASE Running(m) /\ m.faults = c.faults
  <2>1. AtRow(m) /\ b \in ReadRow(m)
    BY <1>1, <1>3, <1>4 DEF AtRow, Begun, Quiet, SameHeader
  <2>2. RowOutcome(m, b)
    BY <1>3, <1>4, <2>1, ReadRowOutcome
  <2>. QED
    BY <1>3, <1>4, <2>2 DEF RowOutcome, Charged, Undisturbed
<1>5. CASE ~Running(m) /\ Charged(c, m)
  <2>1. b = m
    BY <1>1, <1>5
  <2>. QED
    BY <1>3, <1>5, <2>1 DEF RowOutcome, AtRow
<1>. QED
  BY <1>3, <1>4, <1>5

(* dbf_read's loop answers for the row where it begins.                    *)
LEMMA LoopOutcome ==
  ASSUME file \in Tables, loop.num \in Nat, NEW c, AtRow(c),
         NEW r \in file_fread(c, c.sizes.record), NEW marker \in MarkerAt(c.start),
         NEW b, b = LoopRead(r, marker)
  PROVE  RowOutcome(c, b)
<1>. DEFINE pos == c.stream.pos
            size == file.head.record_size
<1>1. /\ Begun(r) /\ r.sizes.record = size
      /\ EndIsEnd(r.stream)
      /\ \/ Charged(c, r) /\ ferror(r.stream) /\ r.nr < size
         \/ /\ Undisturbed(c, r) /\ ~ferror(r.stream)
            /\ r.stream.pos = RowEnd(pos)
            /\ r.nr \in Nat
            /\ pos >= file.size => r.nr = 0 /\ feof(r.stream)
            /\ pos < file.size => r.nr > 0 /\ marker = (pos \in file.marks)
            /\ pos < file.size /\ Whole(pos) => r.nr = size /\ ~feof(r.stream)
            /\ pos < file.size /\ ~Whole(pos) => r.nr # size
  BY RowBytes
<1>2. /\ marker \in BOOLEAN /\ r \in CallState
      /\ file.head.num_records \in Nat /\ size \in Nat
  BY <1>1, MarkerFacts, HeadFacts DEF Begun, UInt16
<1>3. /\ Quiet(r, b)
      /\ b.rc \in {-1, 0, 1}
      /\ b.rc = 1 => r.nr > 0 /\ r.nr = r.sizes.record
      /\ b.rc = 0 => \/ r.nr > 0 /\ marker
                     \/ /\ r.nr = 0 /\ ~ferror(r.stream)
                        /\ loop.num >= file.head.num_records
      /\ b.rc = -1 /\ ~ferror(r.stream) =>
           \/ r.nr > 0 /\ r.nr # r.sizes.record
           \/ r.nr = 0 /\ loop.num < file.head.num_records
  BY <1>1, <1>2, LoopReadFacts
<1>4. b.stream = r.stream /\ b.faults = r.faults
  <2>1. Idles(r, b)
    BY <1>2, IdleFacts DEF LoopRead, Messages, NoMessage, Idles, Explained, Answered, CallState
  <2>. QED
    BY <2>1 DEF Idles
<1>5. pos \in Nat /\ file.size \in Nat
  BY HeadFacts DEF AtRow, Begun, CallState, Stream
<1>6. r.nr > 0 /\ marker => b.rc = 0
  BY DEF LoopRead, Answered, CallState
<1>. HIDE DEF pos, size
<1>7. CASE Charged(c, r) /\ ferror(r.stream) /\ r.nr < size
  <2>1. r.nr # size
    BY <1>2, <1>7
  <2>2. b.rc \in {-1, 0}
    BY <1>1, <1>3, <2>1
  <2>. QED
    BY <1>1, <1>4, <1>7, <2>2 DEF RowOutcome, Charged
<1>8. ASSUME Undisturbed(c, r) /\ ~ferror(r.stream), r.stream.pos = RowEnd(pos), r.nr \in Nat,
             pos >= file.size => r.nr = 0 /\ feof(r.stream),
             pos < file.size => r.nr > 0 /\ marker = (pos \in file.marks),
             pos < file.size /\ Whole(pos) => r.nr = size /\ ~feof(r.stream),
             pos < file.size /\ ~Whole(pos) => r.nr # size
      PROVE  RowOutcome(c, b)
  <2>1. b.rc \in RowAnswers(pos)
    <3>1. CASE pos >= file.size
      <4>1. b.rc # 1
        BY <1>3, <1>8, <3>1
      <4>. QED
        BY <1>3, <3>1, <4>1 DEF RowAnswers
    <3>2. CASE pos < file.size /\ pos \in file.marks
      <4>1. r.nr > 0 /\ marker
        BY <1>8, <3>2
      <4>2. b.rc = 0
        BY <1>6, <4>1
      <4>3. ~(pos >= file.size)
        BY <1>5, <3>2
      <4>. QED
        BY <3>2, <4>2, <4>3 DEF RowAnswers
    <3>3. CASE pos < file.size /\ pos \notin file.marks
      <4>1. r.nr > 0 /\ r.nr # 0 /\ ~marker
        <5>1. r.nr > 0 /\ ~marker
          BY <1>8, <3>3
        <5>. QED
          BY <5>1
      <4>2. ~(pos >= file.size)
        BY <1>5, <3>3
      <4>3. CASE Whole(pos)
        <5>1. b.rc # 0 /\ b.rc # -1
          BY <1>1, <1>3, <1>8, <3>3, <4>1, <4>3
        <5>. QED
          BY <1>3, <3>3, <4>2, <4>3, <5>1 DEF RowAnswers
      <4>4. CASE ~Whole(pos)
        <5>1. r.nr # r.sizes.record
          BY <1>1, <1>8, <3>3, <4>4
        <5>2. b.rc # 0 /\ b.rc # 1
          BY <1>3, <4>1, <5>1
        <5>. QED
          BY <1>3, <3>3, <4>2, <4>4, <5>2 DEF RowAnswers
      <4>. QED
        BY <4>3, <4>4
    <3>. QED
      BY <1>5, <3>1, <3>2, <3>3
  <2>. QED
    BY <1>1, <1>4, <1>8, <2>1 DEF RowOutcome, Undisturbed, pos
<1>. QED
  BY <1>1, <1>7, <1>8 DEF pos, size

-----------------------------------------------------------------------------
(* Where dbf_seek_record looks for a row.                                  *)

(* size_t holds the offset of every row that the program asks for, and     *)
(* fseek takes the offset of every row that a file may have.               *)
WideSize ==
  \A f \in Tables, n \in RecordNumbers :
    n * f.head.record_size + FirstRow(f.head) < SizeModulus

WideLong == \A f \in Tables : f.size + f.head.record_size <= LongMax

(* The sizes in the handle are the file's, once there are any.             *)
SizesKnown ==
  sizes.record > 0 => /\ sizes = HeaderSizes
                      /\ FirstRow(file.head) > 0 /\ FirstRow(file.head) <= file.size

(* What is known of the stream: its end-of-file indicator is no lie, and   *)
(* it stands at a row once there is a header, unless it has failed.        *)
StreamSound ==
  ~ferror(stream) => /\ EndIsEnd(stream)
                     /\ sizes.record > 0 => OnRow(stream.pos)

(* The offset of a row that is asked for is where it begins.               *)
LEMMA OffsetOfRow ==
  ASSUME WideSize, file \in Tables, sizes = HeaderSizes, NEW n \in RecordNumbers
  PROVE  file_offset(n) = RowStart(n + 1)
<1>. DEFINE all == n * file.head.record_size
            base == FirstRow(file.head)
<1>1. n \in Nat /\ SizeModulus \in Nat \ {0}
  BY DbfReaderAssumption
<1>2. all \in Nat /\ base \in Nat /\ all + base < SizeModulus
  <2>1. file.head.record_size \in Nat /\ base \in Nat
    BY HeadFacts DEF UInt16
  <2>2. n * file.head.record_size >= 0 * file.head.record_size
        /\ n * file.head.record_size \in Int /\ 0 * file.head.record_size = 0
    BY <1>1, <2>1, ProductOrder
  <2>. QED
    BY <2>1, <2>2 DEF WideSize
<1>3. file_offset(n) = (all + base) % SizeModulus
  BY DEF file_offset, HeaderSizes
<1>4. RowStart(n + 1) = base + all
  <2>1. (n + 1) - 1 = n
    BY <1>1
  <2>. QED
    BY <2>1 DEF RowStart
<1>. HIDE DEF all, base
<1>5. (all + base) % SizeModulus = all + base
  <2>. DEFINE k == all + base
  <2>1. k \in 0 .. SizeModulus - 1
    BY <1>1, <1>2
  <2>. HIDE DEF k
  <2>2. k % SizeModulus = k
    BY <1>1, <2>1
  <2>. QED
    BY <2>2 DEF k
<1>. QED
  BY <1>2, <1>3, <1>4, <1>5

(* A row that is sought is read where it begins, or the stream cannot be   *)
(* set there, which can be no row of the file unless a call has failed.    *)
LEMMA SeekOutcome ==
  ASSUME WideSize, file \in Tables, stream \in Stream, faults \in Nat, sizes = HeaderSizes,
         sizes \in Sizes, fields \in Seq(Field), file.head.record_size >= 1,
         EndIsEnd(stream), ~ferror(stream),
         NEW n \in RecordNumbers, NEW b \in dbf_seek_record(n)
  PROVE  \/ /\ RowStart(n + 1) > LongMax
            /\ b.stream = stream /\ b.faults = faults /\ b.rc = -1
         \/ /\ faults > 0 /\ b.faults = faults - 1 /\ b.rc = -1 /\ b.stream = stream
         \/ \E c : /\ AtRow(c) /\ c.faults = faults /\ c.start = RowStart(n + 1)
                   /\ RecordSound(c, b) /\ RowOutcome(c, b)
<1>1. n \in Nat /\ n + 1 \in Nat \ {0} /\ file.head.record_size > 0
  BY HeadFacts, DbfReaderAssumption DEF UInt16
<1>2. /\ RowStart(n + 1) \in Nat /\ RowStart(n + 1) >= FirstRow(file.head)
      /\ Aligned(file, RowStart(n + 1))
      /\ file_offset(n) = RowStart(n + 1)
  BY <1>1, RowStartFacts, OffsetOfRow
<1>3. PICK p \in fsetpos(stream, RowStart(n + 1), faults) :
        b \in IF p.rc = 0
              THEN dbf_read_record(Call(p.stream, faults - p.fault))
              ELSE {Explained(Call(p.stream, faults - p.fault), "cannot_set_file_position")}
  BY <1>2 DEF dbf_seek_record
<1>4. /\ p.stream \in Stream /\ p.fault \in Nat /\ p.fault <= faults
      /\ p.rc \in {-1, 0}
      /\ p.rc = 0 => p.stream.pos = RowStart(n + 1)
      /\ p.rc # 0 => p.stream = stream
  BY <1>2, <1>3, FsetposFacts
<1>. DEFINE budget == faults - p.fault
            c == Call(p.stream, budget)
<1>5. budget \in Nat
  BY <1>4
<1>6. /\ Begun(c) /\ c.stream = p.stream /\ c.nr = 0 /\ c.blocks = {}
      /\ c.faults = budget
      /\ c.sizes = sizes /\ c.fields = fields /\ c.start = p.stream.pos
  <2>. HIDE DEF budget
  <2>. QED
    BY <1>4, <1>5, NewCallFacts
<1>7. IF p.rc = 0 THEN b \in dbf_read_record(c)
                  ELSE b = Explained(c, "cannot_set_file_position")
  BY <1>3
<1>8. CASE p.rc # 0
  <2>1. b = Explained(c, "cannot_set_file_position") /\ c \in CallState /\ c.rc = -1
    BY <1>6, <1>7, <1>8 DEF Begun
  <2>. HIDE DEF c
  <2>2. b.stream = stream /\ b.faults = budget /\ b.rc = -1
    BY <1>4, <1>6, <1>8, <2>1 DEF Explained, CallState
  <2>3. CASE RowStart(n + 1) > LongMax
    <3>1. p.fault = 0
      BY <1>3, <2>3 DEF fsetpos, Refused
    <3>. QED
      BY <1>4, <2>2, <2>3, <3>1
  <2>4. CASE RowStart(n + 1) <= LongMax
    <3>1. p.fault = 1 /\ faults >= 1
      BY <1>2, <1>3, <1>8, <2>4, FsetposOutcomes
    <3>. QED
      BY <2>2, <3>1
  <2>. QED
    BY <1>2, <2>3, <2>4, FileStreamAssumption
<1>9. CASE p.rc = 0
  <2>1. RowStart(n + 1) <= LongMax
    <3>1. ~(RowStart(n + 1) > LongMax)
      BY <1>3, <1>9 DEF fsetpos, Refused
    <3>. QED
      BY <1>2, <3>1, FileStreamAssumption
  <2>2. p.fault = 0 /\ ~feof(p.stream) /\ ~ferror(p.stream)
    BY <1>2, <1>3, <1>9, <2>1, FsetposOutcomes
  <2>3. c.faults = faults /\ c.start = RowStart(n + 1)
    BY <1>4, <1>6, <1>9, <2>2
  <2>4. AtRow(c)
    <3>. HIDE DEF c
    <3>. QED
      BY <1>2, <1>4, <1>6, <1>9, <2>2 DEF AtRow, HeaderSizes, EndIsEnd, OnRow
  <2>5. b \in dbf_read_record(c)
    BY <1>7, <1>9
  <2>. HIDE DEF c
  <2>6. RecordSound(c, b) /\ RowOutcome(c, b)
    BY <1>6, <2>4, <2>5, ReadRecordFacts, RecordOutcome
  <2>. QED
    BY <2>3, <2>4, <2>6
<1>. QED
  BY <1>4, <1>8, <1>9

-----------------------------------------------------------------------------
(* What the table sees of a call.                                          *)

(* A failing call is a failing call to the table, wherever it stops.       *)
LEMMA FailStep ==
  ASSUME TypeOK, TypeOK', file' = file, faults > 0, faults' = faults - 1,
         got'.rc \in {-1, 0}, ferror(stream) => ferror(stream')
  PROVE  Table!Fail
<1>1. /\ CursorStands' /\ AnswerStands' /\ kindsBar' = kindsBar /\ Rows' = Rows
      /\ Len(kindsBar) = Cardinality(Rows)
  BY MappingFactsNext, SameRows, KindsFacts DEF TypeOK
<1>2. lastBar' = [rc |-> got'.rc, item |-> 0]
  <2>1. itemBar' = 0
    BY <1>1 DEF AnswerStands
  <2>. QED
    BY <2>1 DEF lastBar
<1>3. curBar' \in -1 .. Len(kindsBar) + 1
  BY <1>1 DEF CursorStands
<1>4. ferror(stream)' \in {ferror(stream), TRUE}
  <2>1. ferror(stream) \in BOOLEAN /\ ferror(stream)' \in BOOLEAN
    BY DEF ferror
  <2>2. ferror(stream) => ferror(stream)'
    BY DEF ferror
  <2>. QED
    BY <2>1, <2>2, Zenon
<1>. QED
  BY <1>1, <1>2, <1>3, <1>4
     DEF Table!Fail, Table!Answer, Table!Position, Table!End, lastBar

(* Behind a stream error the table promises nothing.                       *)
LEMMA WanderStep ==
  ASSUME TypeOK, TypeOK', file' = file, faults' <= faults,
         ferror(stream), ferror(stream')
  PROVE  Table!Wander
<1>1. /\ CursorStands' /\ AnswerStands' /\ kindsBar' = kindsBar /\ Rows' = Rows
      /\ Len(kindsBar) = Cardinality(Rows)
  BY MappingFactsNext, SameRows, KindsFacts DEF TypeOK
<1>2. lastBar' = [rc |-> got'.rc, item |-> itemBar'] /\ got'.rc \in {-1, 0, 1}
  BY DEF lastBar, TypeOK
<1>3. itemBar' \in 0 .. Len(kindsBar) /\ curBar' \in -1 .. Len(kindsBar) + 1
  BY <1>1 DEF AnswerStands, CursorStands
<1>4. ferror(stream) = TRUE /\ ferror(stream)' = TRUE
  BY DEF ferror
<1>5. faults' \in 0 .. faults
  BY DEF TypeOK
<1>. QED
  BY <1>1, <1>2, <1>3, <1>4, <1>5
     DEF Table!Wander, Table!Answer, Table!Position, Table!End, lastBar

(* A call that found the table as it is and the stream at [pos].           *)
Answers(pos) ==
  /\ file' = file /\ faults' = faults /\ ~ferror(stream) /\ ~ferror(stream')
  /\ got'.start = pos /\ got'.rc \in RowAnswers(pos) /\ stream'.pos = RowEnd(pos)

(* Where the file has no more rows, the answer is that of the end.         *)
LEMMA EndStep ==
  ASSUME TypeOK, TypeOK', NEW pos \in Nat, pos > 0, pos >= file.size, Answers(pos),
         NEW i \in Nat, i >= Cardinality(Rows) + 1
  PROVE  Table!AtEnd(i)
<1>1. /\ file \in Tables /\ file.size \in Nat /\ Cardinality(Rows) \in Nat
      /\ Rows = 1 .. Cardinality(Rows)
  BY HeadFacts, RowsFacts DEF TypeOK
<1>2. /\ CursorStands' /\ AnswerStands' /\ kindsBar' = kindsBar /\ Rows' = Rows
      /\ \A j : RowStart(j)' = RowStart(j)
      /\ Len(kindsBar) = Cardinality(Rows) /\ Table!End = Cardinality(Rows) + 1
  BY MappingFactsNext, SameRows, KindsFacts DEF TypeOK, Answers
<1>3. got'.rc \in {-1, 0} /\ stream'.pos = pos
  BY DEF Answers, RowAnswers, RowEnd
<1>4. ASSUME NEW j \in Rows
      PROVE  RowStart(j) # pos
  <2>1. j \in Nat \ {0} /\ file.head.record_size > 0
    BY <1>1, HeadFacts DEF Rows, UInt16
  <2>2. RowStart(j) \in Nat /\ RowStart(j) < file.size
    BY <1>1, <2>1, RowStartFacts
  <2>. QED
    BY <1>1, <2>2
<1>5. curBar' = Cardinality(Rows) + 1
  BY <1>2, <1>3, <1>4 DEF CursorStands, Answers
<1>6. lastBar' = [rc |-> got'.rc, item |-> 0]
  <2>1. itemBar' = 0
    BY <1>2, <1>3 DEF AnswerStands
  <2>. QED
    BY <2>1 DEF lastBar
<1>7. ferror(stream)' = ferror(stream)
  BY DEF Answers, ferror
<1>. QED
  BY <1>2, <1>3, <1>5, <1>6, <1>7
     DEF Table!AtEnd, Table!MoveTo, Table!Answer, Answers, lastBar

(* Where a row begins, the answer is that for the row.                     *)
LEMMA RowStep ==
  ASSUME TypeOK, TypeOK', file.head.record_size >= 1, NEW i \in Rows,
         RowStart(i) > 0, Answers(RowStart(i))
  PROVE  Table!Read(i)
<1>. DEFINE pos == RowStart(i)
            size == file.head.record_size
<1>1. /\ file \in Tables /\ file.size \in Nat /\ Cardinality(Rows) \in Nat
      /\ Rows = 1 .. Cardinality(Rows) /\ size \in Nat /\ size > 0
      /\ i \in Nat \ {0} /\ i + 1 \in Nat \ {0}
  <2>1. file \in Tables
    BY DEF TypeOK
  <2>2. file.size \in Nat /\ size \in Nat /\ size > 0
    BY <2>1, HeadFacts DEF UInt16
  <2>3. Cardinality(Rows) \in Nat /\ Rows = 1 .. Cardinality(Rows)
    BY <2>1, RowsFacts
  <2>4. i \in Nat \ {0} /\ i + 1 \in Nat \ {0}
    BY <2>3
  <2>. QED
    BY <2>1, <2>2, <2>3, <2>4
<1>2. /\ CursorStands' /\ AnswerStands' /\ kindsBar' = kindsBar /\ Rows' = Rows
      /\ \A j : RowStart(j)' = RowStart(j)
      /\ Len(kindsBar) = Cardinality(Rows) /\ Table!End = Cardinality(Rows) + 1
      /\ DOMAIN kindsBar = Rows /\ kindsBar[i] = Kind(i)
  BY MappingFactsNext, SameRows, KindsFacts DEF TypeOK, Answers
<1>3. /\ pos \in Nat /\ pos < file.size /\ ~(pos >= file.size)
      /\ RowStart(i + 1) = pos + size /\ RowStart(i + 1) \in Nat
      /\ i + 1 \in Rows <=> pos + size < file.size
  <2>1. RowStart(i) \in Nat /\ RowStart(i) < file.size
        /\ RowStart(i + 1) = RowStart(i) + size
    BY <1>1, RowStartFacts
  <2>2. RowStart(i + 1) \in Nat /\ (i + 1 \in Rows <=> RowStart(i + 1) < file.size)
    BY <1>1, RowStartFacts
  <2>. QED
    BY <1>1, <2>1, <2>2
<1>4. /\ got'.rc = IF pos \in file.marks THEN 0 ELSE IF Whole(pos) THEN 1 ELSE -1
      /\ stream'.pos = IF Whole(pos) THEN pos + size ELSE file.size
      /\ Whole(pos) <=> pos + size <= file.size
      /\ got'.start = pos
  BY <1>3 DEF Answers, RowAnswers, RowEnd, Whole
<1>5. stream'.pos = file.size \/ stream'.pos = RowStart(i + 1)
  BY <1>3, <1>4
<1>6. ASSUME NEW j \in Rows
      PROVE  RowStart(j) \in Nat /\ RowStart(j) < file.size
  BY <1>1, RowStartFacts
<1>7. curBar' = i + 1
  <2>1. CASE i + 1 \in Rows
    <3>1. stream'.pos = RowStart(i + 1) /\ stream'.pos > 0
      BY <1>1, <1>3, <1>4, <2>1
    <3>. QED
      BY <1>2, <2>1, <3>1 DEF CursorStands
  <2>2. CASE i + 1 \notin Rows
    <3>1. stream'.pos \in Nat /\ stream'.pos >= file.size /\ stream'.pos > 0
      BY <1>1, <1>3, <1>4, <2>2
    <3>2. ASSUME NEW j \in Rows
          PROVE  RowStart(j) # stream'.pos
      BY <1>1, <1>6, <3>1
    <3>3. curBar' = Cardinality(Rows) + 1
      BY <1>2, <3>1, <3>2 DEF CursorStands, Answers
    <3>4. i = Cardinality(Rows)
      BY <1>1, <2>2
    <3>. QED
      BY <3>3, <3>4
  <2>. QED
    BY <2>1, <2>2
<1>8. /\ got'.rc = 1 => itemBar' = i
      /\ got'.rc # 1 => itemBar' = 0
  BY <1>2, <1>4 DEF AnswerStands
<1>9. ferror(stream)' = ferror(stream) /\ faults' = faults
  BY DEF Answers, ferror
<1>10. ASSUME NEW p, curBar' = p
       PROVE  Table!MoveTo(p)
  BY <1>2, <1>9, <1>10 DEF Table!MoveTo
<1>11. CASE pos \in file.marks
  <2>1. lastBar' = [rc |-> 0, item |-> 0] /\ Kind(i) = "mark"
    BY <1>4, <1>8, <1>11 DEF lastBar, Kind
  <2>2. Table!Mark(i)
    BY <1>2, <1>7, <1>10, <2>1 DEF Table!Mark, Table!Holds, Table!Answer, lastBar
  <2>. QED
    BY <2>2 DEF Table!Read
<1>12. CASE pos \notin file.marks /\ Whole(pos)
  <2>1. lastBar' = [rc |-> 1, item |-> i] /\ Kind(i) = "row"
    BY <1>4, <1>8, <1>12 DEF lastBar, Kind
  <2>2. Table!Deliver(i)
    BY <1>2, <1>7, <1>10, <2>1 DEF Table!Deliver, Table!Holds, Table!Answer, lastBar
  <2>. QED
    BY <2>2 DEF Table!Read
<1>13. CASE pos \notin file.marks /\ ~Whole(pos)
  <2>1. lastBar' = [rc |-> -1, item |-> 0] /\ Kind(i) = "cut"
    BY <1>4, <1>8, <1>13 DEF lastBar, Kind
  <2>2. i + 1 = Cardinality(Rows) + 1
    <3>1. i + 1 \notin Rows
      BY <1>1, <1>3, <1>4, <1>13
    <3>. QED
      BY <1>1, <3>1
  <2>3. Table!Break(i)
    BY <1>2, <1>7, <1>10, <2>1, <2>2
       DEF Table!Break, Table!Holds, Table!Answer, lastBar
  <2>. QED
    BY <2>3 DEF Table!Read
<1>. QED
  BY <1>11, <1>12, <1>13

(* Reading on from a row comes to the next one, or behind the end.         *)
LEMMA OnRowNext ==
  ASSUME file \in Tables, file.head.record_size >= 1, NEW pos \in Nat, OnRow(pos)
  PROVE  RowEnd(pos) \in Nat /\ OnRow(RowEnd(pos))
<1>1. file.size \in Nat /\ file.head.record_size \in Nat /\ FirstRow(file.head) \in Nat
  BY HeadFacts DEF UInt16
<1>2. CASE pos >= file.size
  BY <1>2 DEF RowEnd
<1>3. CASE pos < file.size /\ ~Whole(pos)
  BY <1>1, <1>3 DEF RowEnd, OnRow
<1>4. CASE pos < file.size /\ Whole(pos)
  <2>1. Aligned(file, pos)
    BY <1>1, <1>4 DEF OnRow
  <2>2. PICK i \in Nat \ {0} : RowStart(i) = pos
    BY <2>1, RowsFacts
  <2>3. i + 1 \in Nat \ {0} /\ file.head.record_size > 0
    BY <1>1
  <2>4. RowStart(i + 1) = pos + file.head.record_size
    BY <2>2, <2>3, RowStartFacts
  <2>5. Aligned(file, RowStart(i + 1))
    BY <2>3, RowStartFacts
  <2>6. RowEnd(pos) = pos + file.head.record_size
    BY <1>1, <1>4 DEF RowEnd
  <2>7. pos >= FirstRow(file.head)
    BY DEF OnRow
  <2>. QED
    BY <1>1, <2>4, <2>5, <2>6, <2>7 DEF OnRow
<1>. QED
  BY <1>1, <1>2, <1>3, <1>4

(* A call that reads a row fails or answers, and leaves the stream well.   *)
LEMMA CallStep ==
  ASSUME TypeOK, TypeOK', file' = file, ~ferror(stream),
         NEW c, AtRow(c), c.faults = faults,
         NEW b \in CallState, Done(b), b.start = c.start, RowOutcome(c, b)
  PROVE  /\ Table!Fail \/ Answers(c.start)
         /\ EndIsEnd(stream')
         /\ ~ferror(stream') => OnRow(stream'.pos)
<1>1. /\ stream' = b.stream /\ faults' = b.faults /\ got'.rc = b.rc /\ got'.start = c.start
  BY DEF Done
<1>2. file \in Tables /\ c.stream.pos \in Nat /\ c.start = c.stream.pos
  BY DEF TypeOK, AtRow, Begun, CallState, Stream
<1>3. CASE /\ Charged(c, b) /\ b.rc \in {-1, 0}
           /\ ferror(b.stream) \/ b.stream = c.stream
  <2>1. Table!Fail
    BY <1>1, <1>3, FailStep DEF Charged
  <2>2. ~ferror(stream') => OnRow(stream'.pos)
    BY <1>1, <1>3 DEF AtRow
  <2>. QED
    BY <1>1, <2>1, <2>2 DEF RowOutcome
<1>4. CASE /\ Undisturbed(c, b)
           /\ b.rc \in RowAnswers(c.stream.pos) /\ b.stream.pos = RowEnd(c.stream.pos)
  <2>1. Answers(c.start)
    BY <1>1, <1>2, <1>4 DEF Answers, Undisturbed, AtRow
  <2>2. OnRow(RowEnd(c.stream.pos))
    BY <1>2, OnRowNext DEF AtRow
  <2>. QED
    BY <1>1, <1>4, <2>1, <2>2 DEF RowOutcome
<1>. QED
  BY <1>3, <1>4 DEF RowOutcome

(* Reading on is reading the row under the cursor.                         *)
LEMMA ReadOnStep ==
  ASSUME TypeOK, TypeOK', file.head.record_size >= 1, FirstRow(file.head) > 0,
         OnRow(stream.pos), Answers(stream.pos)
  PROVE  Table!Read(curBar)
<1>1. /\ file \in Tables /\ file.size \in Nat /\ stream.pos \in Nat /\ stream.pos > 0
  <2>1. FirstRow(file.head) \in Nat /\ file.size \in Nat
    BY HeadFacts DEF TypeOK, UInt16
  <2>2. stream.pos \in Nat
    BY DEF TypeOK, Stream
  <2>. QED
    BY <2>1, <2>2 DEF TypeOK, OnRow
<1>2. CursorStands /\ Cardinality(Rows) \in Nat
  BY MappingFacts, RowsFacts DEF TypeOK
<1>3. CASE stream.pos >= file.size
  <2>1. ASSUME NEW j \in Rows
        PROVE  RowStart(j) # stream.pos
    <3>1. j \in Nat \ {0} /\ file.head.record_size > 0
      BY <1>1, HeadFacts, RowsFacts DEF UInt16
    <3>2. RowStart(j) \in Nat /\ RowStart(j) < file.size
      BY <1>1, <3>1, RowStartFacts
    <3>. QED
      BY <1>1, <1>3, <3>2
  <2>2. curBar = Cardinality(Rows) + 1
    BY <1>1, <1>2, <1>3, <2>1 DEF CursorStands
  <2>3. Table!AtEnd(curBar)
    BY <1>1, <1>2, <1>3, <2>2, EndStep
  <2>. QED
    BY <2>3 DEF Table!Read
<1>4. CASE stream.pos < file.size
  <2>1. Aligned(file, stream.pos)
    BY <1>1, <1>4 DEF OnRow
  <2>2. PICK i \in Nat \ {0} : RowStart(i) = stream.pos
    BY <1>1, <2>1, RowsFacts
  <2>3. file.head.record_size > 0
    BY <1>1, HeadFacts DEF UInt16
  <2>4. i \in Rows
    BY <1>1, <1>4, <2>2, <2>3, RowStartFacts
  <2>5. curBar = i
    BY <1>1, <1>2, <2>2, <2>4 DEF CursorStands
  <2>. QED
    BY <1>1, <2>2, <2>4, <2>5, RowStep
<1>. QED
  BY <1>1, <1>3, <1>4

(* Row n is the answer for number n, also behind the end.                  *)
LEMMA SoughtStep ==
  ASSUME TypeOK, TypeOK', file.head.record_size >= 1, FirstRow(file.head) > 0,
         NEW n \in Nat, Answers(RowStart(n + 1))
  PROVE  Table!Read(n + 1)
<1>1. /\ file \in Tables /\ file.size \in Nat /\ n + 1 \in Nat \ {0}
      /\ file.head.record_size > 0 /\ FirstRow(file.head) \in Nat
  <2>1. file \in Tables
    BY DEF TypeOK
  <2>2. /\ file.size \in Nat /\ FirstRow(file.head) \in Nat
        /\ file.head.record_size > 0
    BY <2>1, HeadFacts DEF UInt16
  <2>. QED
    BY <2>1, <2>2
<1>2. /\ RowStart(n + 1) \in Nat /\ RowStart(n + 1) > 0
      /\ n + 1 \in Rows <=> RowStart(n + 1) < file.size
  BY <1>1, RowStartFacts
<1>3. CASE n + 1 \in Rows
  BY <1>2, <1>3, RowStep
<1>4. CASE n + 1 \notin Rows
  <2>1. n + 1 >= Cardinality(Rows) + 1
    BY <1>1, <1>4, RowsFacts
  <2>2. RowStart(n + 1) >= file.size
    BY <1>1, <1>2, <1>4
  <2>. QED
    BY <1>1, <1>2, <2>1, <2>2, EndStep DEF Table!Read
<1>. QED
  BY <1>3, <1>4

(* A number whose offset fseek does not take is behind the last row.       *)
LEMMA TooFarStep ==
  ASSUME WideLong, TypeOK, TypeOK', file.head.record_size >= 1,
         FirstRow(file.head) <= file.size, file' = file, stream' = stream,
         ~ferror(stream), faults' = faults, got'.rc = -1,
         NEW n \in Nat, RowStart(n + 1) > LongMax
  PROVE  Table!TooFar(n)
<1>1. /\ file \in Tables /\ file.size \in Nat /\ n + 1 \in Nat \ {0}
      /\ file.head.record_size > 0 /\ file.head.record_size \in Nat
      /\ FirstRow(file.head) \in Nat /\ LongMax \in Nat
      /\ file.size + file.head.record_size <= LongMax
  <2>1. file \in Tables
    BY DEF TypeOK
  <2>2. /\ file.size \in Nat /\ FirstRow(file.head) \in Nat
        /\ file.head.record_size \in Nat /\ file.head.record_size > 0
    BY <2>1, HeadFacts DEF UInt16
  <2>. QED
    BY <2>1, <2>2, FileStreamAssumption DEF WideLong
<1>2. RowStart(n + 1) \in Nat
  BY <1>1, RowStartFacts
<1>3. n # 0
  <2>1. SUFFICES ASSUME n = 0
                 PROVE  FALSE
    OBVIOUS
  <2>2. RowStart(n + 1) = FirstRow(file.head)
    BY <1>1, <2>1 DEF RowStart
  <2>. QED
    BY <1>1, <2>2
<1>4. n \in Nat \ {0} /\ RowStart(n) \in Nat
      /\ RowStart(n + 1) = RowStart(n) + file.head.record_size
      /\ (n \in Rows <=> RowStart(n) < file.size)
  BY <1>1, <1>3, RowStartFacts
<1>5. n \notin Rows
  BY <1>1, <1>2, <1>4
<1>6. n >= Cardinality(Rows) + 1
  BY <1>1, <1>4, <1>5, RowsFacts
<1>7. /\ CursorStands' /\ AnswerStands' /\ kindsBar' = kindsBar
      /\ Table!End = Cardinality(Rows) + 1
  BY MappingFactsNext, SameRows, KindsFacts DEF TypeOK
<1>8. curBar' = curBar /\ ferror(stream)' = ferror(stream)
  BY DEF curBar, Rows, RowStart, ferror
<1>9. lastBar' = [rc |-> -1, item |-> 0]
  BY <1>7 DEF AnswerStands, lastBar
<1>. QED
  BY <1>6, <1>7, <1>8, <1>9 DEF Table!TooFar, Table!Answer, Table!MoveTo, lastBar

-----------------------------------------------------------------------------
(* A header, for the table.                                                *)

(* What reading a header comes to: it is undisturbed or has failed, and    *)
(* the handle has other sizes only if the stream has the header behind it. *)
HeadOutcome(c, b) ==
  /\ Progress(c, b) /\ EndKept(c, b)
  /\ b.rc \in {-1, 1}
  /\ Undisturbed(c, b) \/ (Charged(c, b) /\ b.rc = -1)
  /\ \/ b.rc = -1 /\ b.sizes = c.sizes
     \/ /\ b.sizes = HeaderSizes /\ file.head.record_size >= 1
        /\ b.nr = FirstRow(file.head) /\ FirstRow(file.head) > 0

(* dbf_read_header comes to that.                                          *)
LEMMA ReadHeaderOutcome ==
  ASSUME file \in Tables, NEW c, Begun(c), c.nr = 0, c.blocks = {},
         NEW b \in dbf_read_header(c)
  PROVE  HeadOutcome(c, b) /\ HeaderSound(c, b) /\ Outcome(c, b)
<1>1. HeaderSound(c, b) /\ Outcome(c, b)
  BY ReadHeaderFacts, HeaderOutcome
<1>. QED
  BY <1>1 DEF HeadOutcome, HeaderSound, Outcome, Failed, SameHeader

(* So does dbf_read up to its first callback.                              *)
LEMMA BeginOutcome ==
  ASSUME file \in Tables, NEW c, Begun(c), c.nr = 0, c.blocks = {},
         NEW h \in dbf_read_header(c), NEW b \in RecordForLoop(h)
  PROVE  HeadOutcome(c, b)
<1>1. HeadOutcome(c, h) /\ HeaderSound(c, h) /\ Outcome(c, h)
  BY ReadHeaderOutcome
<1>2. c \in CallState /\ h \in CallState /\ "record" \in Blocks
  BY <1>1 DEF Begun, HeaderSound, Progress, Blocks
<1>3. ReadSound(c, b)
  BY <1>1, <1>2, RecordForLoopFacts
<1>4. CASE h.rc # 1
  BY <1>1, <1>4 DEF RecordForLoop
<1>5. CASE h.rc = 1
  <2>1. PICK m \in malloc(h, "record") :
          b = IF Running(m) THEN m ELSE free(Answered(m, -1), "header")
    BY <1>5 DEF RecordForLoop
  <2>2. /\ Running(h) /\ h.sizes = HeaderSizes /\ file.head.record_size >= 1
        /\ h.nr = FirstRow(file.head) /\ FirstRow(file.head) > 0
    BY <1>1, <1>5 DEF HeaderSound
  <2>3. /\ m \in CallState /\ m.rc = 1 /\ m.sizes = h.sizes /\ m.nr = h.nr
        /\ m.stream = h.stream
        /\ (Running(m) /\ m.faults = h.faults) \/ (~Running(m) /\ Charged(h, m))
    BY <1>2, <1>5, <2>1, <2>2, MallocFacts, MallocOutcomes DEF Quiet, SameHeader
  <2>4. /\ b.stream = m.stream /\ b.faults = m.faults /\ b.sizes = m.sizes /\ b.nr = m.nr
        /\ b.rc = IF Running(m) THEN 1 ELSE -1
    BY <2>1, <2>3 DEF free, Answered, CallState
  <2>5. h.faults = c.faults /\ (ferror(h.stream) <=> ferror(c.stream)) /\ EndKept(c, h)
    BY <1>1, <1>5 DEF HeadOutcome, Undisturbed
  <2>6. /\ EndKept(c, b)
        /\ Undisturbed(c, b) \/ (Charged(c, b) /\ b.rc = -1)
    BY <2>3, <2>4, <2>5 DEF EndKept, Undisturbed, Charged
  <2>. QED
    BY <1>3, <2>2, <2>3, <2>4, <2>6 DEF HeadOutcome, ReadSound
<1>. QED
  BY <1>4, <1>5

(* The table is opened or refused.                                         *)
LEMMA HeadStep ==
  ASSUME TypeOK, TypeOK', file' = file, SizesKnown, StreamSound, stream.pos = 0,
         NEW b \in CallState, Done(b), HeadOutcome(Call(stream, faults), b),
         b.start = 0
  PROVE  /\ (~ferror(stream) /\ (Table!Open \/ Table!Refuse)) \/ Table!Fail \/ Table!Wander
         /\ SizesKnown' /\ StreamSound'
<1>. DEFINE c == Call(stream, faults)
<1>1. c.stream = stream /\ c.nr = 0 /\ c.faults = faults /\ c.sizes = sizes
  BY DEF Call
<1>2. /\ HeadOutcome(c, b)
      /\ stream' = b.stream /\ faults' = b.faults /\ got'.rc = b.rc /\ got'.start = 0
      /\ sizes' = b.sizes
  BY DEF Done
<1>3. /\ file \in Tables /\ file.size \in Nat /\ FirstRow(file.head) \in Nat
      /\ b.nr \in Nat /\ faults \in Nat /\ faults' \in Nat
  <2>1. file \in Tables /\ faults \in Nat /\ faults' \in Nat
    BY DEF TypeOK
  <2>. QED
    BY <2>1, HeadFacts DEF UInt16, CallState
<1>. HIDE DEF c
<1>4. /\ stream'.pos = b.nr /\ stream'.pos <= file.size /\ faults' <= faults
      /\ ferror(stream) => ferror(stream')
  <2>1. /\ b.stream.pos = c.stream.pos + (b.nr - c.nr) /\ b.faults <= c.faults
        /\ c.stream.pos <= file.size => b.stream.pos <= file.size
        /\ ferror(c.stream) => ferror(b.stream)
    BY <1>2 DEF HeadOutcome, Progress
  <2>. QED
    BY <1>1, <1>2, <1>3, <2>1
<1>5. \/ got'.rc = -1 /\ sizes' = sizes
      \/ /\ sizes' = HeaderSizes /\ file.head.record_size >= 1
         /\ stream'.pos = FirstRow(file.head)
         /\ FirstRow(file.head) > 0 /\ FirstRow(file.head) <= file.size
  BY <1>1, <1>2, <1>4 DEF HeadOutcome
<1>6. HeaderSizes' = HeaderSizes
  BY DEF HeaderSizes
<1>7. SizesKnown'
  BY <1>5, <1>6 DEF SizesKnown
<1>8. ASSUME ~ferror(stream)
      PROVE  sizes.record \in Nat /\ ~(sizes.record > 0) /\ EndIsEnd(stream)
  <2>1. sizes.record > 0 => OnRow(0) /\ FirstRow(file.head) > 0
    BY <1>8 DEF StreamSound, SizesKnown
  <2>2. sizes.record \in Nat
    BY DEF TypeOK, UInt16
  <2>. QED
    BY <1>3, <1>8, <2>1, <2>2 DEF OnRow, StreamSound
<1>9. StreamSound'
  <2>1. SUFFICES ASSUME ~ferror(stream')
                 PROVE  EndIsEnd(stream') /\ (sizes'.record > 0 => OnRow(stream'.pos))
    BY DEF StreamSound, EndIsEnd, OnRow, Aligned, FirstRow, ferror, feof
  <2>2. EndIsEnd(stream')
    BY <1>1, <1>2, <1>4, <1>8, <2>1 DEF HeadOutcome, EndKept
  <2>3. CASE sizes' = sizes
    BY <1>4, <1>8, <2>1, <2>2, <2>3
  <2>4. CASE sizes' = HeaderSizes /\ stream'.pos = FirstRow(file.head)
             /\ file.head.record_size >= 1
    <3>1. Aligned(file, FirstRow(file.head))
      <4>1. file.head.record_size \in Nat
        BY <1>3, HeadFacts DEF UInt16
      <4>2. RowStart(1) = FirstRow(file.head)
        BY <1>3, <4>1 DEF RowStart
      <4>. QED
        BY <1>3, <2>4, <4>1, <4>2, RowStartFacts
    <3>. QED
      BY <1>3, <2>2, <2>4, <3>1 DEF OnRow
  <2>. QED
    BY <1>5, <2>3, <2>4
<1>10. CASE ferror(stream)
  BY <1>4, <1>7, <1>9, <1>10, WanderStep
<1>11. CASE ~ferror(stream) /\ Charged(c, b) /\ b.rc = -1
  <2>1. faults > 0 /\ faults' = faults - 1
    BY <1>1, <1>2, <1>11 DEF Charged
  <2>2. Table!Fail
    BY <1>2, <1>11, <2>1, FailStep
  <2>. QED
    BY <1>7, <1>9, <2>2
<1>12. CASE ~ferror(stream) /\ Undisturbed(c, b)
  <2>1. /\ CursorStands /\ CursorStands' /\ AnswerStands'
        /\ kindsBar' = kindsBar /\ Rows' = Rows
        /\ \A j : RowStart(j)' = RowStart(j)
        /\ Len(kindsBar) = Cardinality(Rows) /\ Table!End = Cardinality(Rows) + 1
    BY MappingFacts, MappingFactsNext, SameRows, KindsFacts DEF TypeOK
  <2>2. faults' = faults /\ ~ferror(stream')
    BY <1>1, <1>2, <1>12 DEF Undisturbed
  <2>3. ferror(stream)' = ferror(stream)
    BY <1>12, <2>2 DEF ferror
  <2>4. curBar = -1
    BY <2>1 DEF CursorStands
  <2>5. ASSUME NEW p, curBar' = p
        PROVE  Table!MoveTo(p)
    BY <2>1, <2>2, <2>3, <2>5 DEF Table!MoveTo
  <2>6. CASE got'.rc = -1
    <3>1. lastBar' = [rc |-> -1, item |-> 0]
      BY <2>1, <2>6 DEF AnswerStands, lastBar
    <3>2. curBar' \in Table!Position
      BY <2>1 DEF CursorStands, Table!Position
    <3>3. Table!Refuse
      BY <2>4, <2>5, <3>1, <3>2 DEF Table!Refuse, Table!Answer, lastBar
    <3>. QED
      BY <1>7, <1>9, <1>12, <3>3
  <2>7. CASE got'.rc = 1
    <3>1. /\ file.head.record_size >= 1
          /\ stream'.pos = FirstRow(file.head)
          /\ FirstRow(file.head) > 0 /\ FirstRow(file.head) <= file.size
      BY <1>5, <2>7
    <3>2. /\ file.head.record_size \in Nat /\ file.head.record_size > 0
          /\ Cardinality(Rows) \in Nat /\ Rows = 1 .. Cardinality(Rows)
      BY <1>3, <3>1, HeadFacts, RowsFacts DEF UInt16
    <3>3. RowStart(1) = FirstRow(file.head)
      BY <1>3, <3>2 DEF RowStart
    <3>4. 1 \in Rows <=> RowStart(1) < file.size
      BY <1>3, <3>2, RowStartFacts
    <3>5. ASSUME NEW j \in Rows
          PROVE  RowStart(j) # 0
      <4>1. j \in Nat \ {0}
        BY <3>2
      <4>2. RowStart(j) \in Nat /\ RowStart(j) >= FirstRow(file.head)
        BY <1>3, <3>2, <4>1, RowStartFacts
      <4>. QED
        BY <1>3, <3>1, <4>2
    <3>6. lastBar' = [rc |-> 1, item |-> 0]
      <4>1. itemBar' = 0
        BY <1>2, <2>1, <2>7, <3>5 DEF AnswerStands
      <4>. QED
        BY <2>7, <4>1 DEF lastBar
    <3>7. curBar' = 1 /\ (kindsBar = <<>> => Table!End = 1)
      <4>1. kindsBar = <<>> => Table!End = 1
        BY <2>1, <3>2
      <4>2. CASE 1 \in Rows
        BY <2>1, <3>1, <3>3, <4>1, <4>2 DEF CursorStands
      <4>3. CASE 1 \notin Rows
        <5>1. Cardinality(Rows) = 0 /\ Rows = {}
          BY <3>2, <4>3
        <5>2. stream'.pos >= file.size
          BY <1>3, <3>1, <3>3, <3>4, <4>3
        <5>3. curBar' = Cardinality(Rows) + 1
          BY <2>1, <3>1, <5>1, <5>2 DEF CursorStands
        <5>. QED
          BY <4>1, <5>1, <5>3
      <4>. QED
        BY <4>2, <4>3
    <3>8. Table!Open
      BY <2>4, <2>5, <3>6, <3>7 DEF Table!Open, Table!Answer, lastBar
    <3>. QED
      BY <1>7, <1>9, <1>12, <3>8
  <2>. QED
    BY <1>2, <2>6, <2>7 DEF HeadOutcome
<1>. QED
  BY <1>2, <1>10, <1>11, <1>12 DEF HeadOutcome

-----------------------------------------------------------------------------
(* Every step is a step of the table.                                      *)

(* A call that is about to read on from where the stream stands.           *)
LEMMA CallAtRow ==
  ASSUME TypeOK, SizesKnown, StreamSound, ~ferror(stream), sizes.record > 0,
         NEW c, c = Call(stream, faults)
  PROVE  AtRow(c) /\ c.faults = faults /\ c.start = stream.pos
<1>1. /\ Begun(c) /\ c.stream = stream /\ c.nr = 0 /\ c.start = stream.pos
      /\ c.sizes = sizes
  BY CallFacts
<1>2. c.faults = faults
  BY DEF Call
<1>3. sizes = HeaderSizes /\ EndIsEnd(stream) /\ OnRow(stream.pos)
  BY DEF SizesKnown, StreamSound
<1>4. sizes.record = file.head.record_size /\ file.head.record_size >= 1
  <2>1. sizes.record = file.head.record_size
    BY <1>3 DEF HeaderSizes
  <2>2. sizes.record \in Nat
    BY DEF TypeOK, UInt16
  <2>. QED
    BY <2>1, <2>2
<1>. QED
  BY <1>1, <1>2, <1>3, <1>4 DEF AtRow

(* The next row, by whichever function.                                    *)
LEMMA OnwardStep ==
  ASSUME TypeOK, TypeOK', file' = file, SizesKnown, StreamSound, sizes.record > 0,
         NEW c, c = Call(stream, faults),
         NEW b \in CallState, Done(b), Progress(c, b), SameHeader(c, b),
         AtRow(c) => RowOutcome(c, b)
  PROVE  /\ (~ferror(stream) /\ Table!Read(curBar)) \/ Table!Fail \/ Table!Wander
         /\ SizesKnown' /\ StreamSound'
<1>1. /\ c.stream = stream /\ c.sizes = sizes /\ c.faults = faults /\ c.start = stream.pos
  BY DEF Call
<1>2. /\ stream' = b.stream /\ faults' = b.faults /\ sizes' = sizes
      /\ b.start = stream.pos /\ b.faults <= faults
      /\ ferror(stream) => ferror(stream')
  BY <1>1 DEF Done, Progress, SameHeader
<1>3. SizesKnown'
  BY <1>2 DEF SizesKnown, HeaderSizes
<1>4. CASE ferror(stream)
  <2>1. StreamSound'
    BY <1>2, <1>4 DEF StreamSound, ferror
  <2>. QED
    BY <1>2, <1>3, <1>4, <2>1, WanderStep
<1>5. CASE ~ferror(stream)
  <2>1. AtRow(c) /\ c.faults = faults /\ c.start = stream.pos
    BY <1>5, CallAtRow
  <2>2. /\ Table!Fail \/ Answers(stream.pos)
        /\ EndIsEnd(stream')
        /\ ~ferror(stream') => OnRow(stream'.pos)
    BY <1>2, <1>5, <2>1, CallStep
  <2>3. StreamSound'
    BY <2>2 DEF StreamSound, EndIsEnd, OnRow, Aligned, FirstRow, ferror, feof
  <2>4. /\ file.head.record_size >= 1 /\ FirstRow(file.head) > 0 /\ OnRow(stream.pos)
    BY <1>1, <1>5, <2>1 DEF AtRow, SizesKnown
  <2>5. Answers(stream.pos) => Table!Read(curBar)
    BY <2>4, ReadOnStep
  <2>. QED
    BY <1>3, <1>5, <2>2, <2>3, <2>5
<1>. QED
  BY <1>4, <1>5

(* A row by its number.                                                    *)
LEMMA NumberStep ==
  ASSUME WideSize, WideLong, TypeOK, TypeOK', file' = file, SizesKnown, StreamSound,
         sizes.record > 0, NEW n \in RecordNumbers,
         NEW b \in dbf_seek_record(n), Done(b)
  PROVE  /\ (~ferror(stream) /\ (Table!Read(n + 1) \/ Table!TooFar(n)))
            \/ Table!Fail \/ Table!Wander
         /\ SizesKnown' /\ StreamSound'
<1>1. /\ file \in Tables /\ stream \in Stream /\ faults \in Nat /\ sizes \in Sizes
      /\ fields \in Seq(Field) /\ n \in Nat
  BY DbfReaderAssumption DEF TypeOK, Sizes, Field
<1>2. PICK d : /\ Begun(d) /\ SameHeader([sizes |-> sizes, fields |-> fields], d)
               /\ ferror(stream) => ferror(d.stream)
               /\ d.faults <= faults
               /\ RecordSound(d, b)
  BY <1>1, SeekRecordFacts
<1>3. /\ b \in CallState /\ b.sizes = sizes /\ b.faults <= faults
      /\ ferror(stream) => ferror(b.stream)
  <2>1. d.faults \in Nat /\ b \in CallState /\ b.faults <= d.faults
    BY <1>2 DEF Begun, CallState, RecordSound, Progress
  <2>2. b.faults \in Nat
    BY <2>1 DEF CallState
  <2>. QED
    BY <1>1, <1>2, <2>1, <2>2 DEF SameHeader, RecordSound, Progress
<1>4. stream' = b.stream /\ faults' = b.faults /\ sizes' = sizes /\ got'.rc = b.rc
      /\ got'.start = b.start
  BY <1>3 DEF Done
<1>5. SizesKnown'
  BY <1>4 DEF SizesKnown, HeaderSizes
<1>6. CASE ferror(stream)
  <2>1. StreamSound'
    BY <1>3, <1>4, <1>6 DEF StreamSound, ferror
  <2>. QED
    BY <1>3, <1>4, <1>5, <1>6, <2>1, WanderStep
<1>7. CASE ~ferror(stream)
  <2>1. /\ sizes = HeaderSizes /\ EndIsEnd(stream) /\ OnRow(stream.pos)
        /\ FirstRow(file.head) > 0 /\ FirstRow(file.head) <= file.size
        /\ file.head.record_size >= 1
    <3>1. sizes = HeaderSizes /\ sizes.record \in Nat
      BY <1>1 DEF SizesKnown, Sizes, UInt16
    <3>. QED
      BY <1>7, <3>1 DEF SizesKnown, StreamSound, HeaderSizes
  <2>2. \/ /\ RowStart(n + 1) > LongMax
           /\ b.stream = stream /\ b.faults = faults /\ b.rc = -1
        \/ /\ faults > 0 /\ b.faults = faults - 1 /\ b.rc = -1 /\ b.stream = stream
        \/ \E c : /\ AtRow(c) /\ c.faults = faults /\ c.start = RowStart(n + 1)
                  /\ RecordSound(c, b) /\ RowOutcome(c, b)
    BY <1>1, <1>7, <2>1, SeekOutcome
  <2>3. ASSUME EndIsEnd(stream'), ~ferror(stream') => OnRow(stream'.pos)
        PROVE  StreamSound'
    BY <2>3 DEF StreamSound, EndIsEnd, OnRow, Aligned, FirstRow, ferror, feof
  <2>4. CASE /\ RowStart(n + 1) > LongMax
             /\ b.stream = stream /\ b.faults = faults /\ b.rc = -1
    <3>1. Table!TooFar(n)
      BY <1>1, <1>4, <1>7, <2>1, <2>4, TooFarStep
    <3>. QED
      BY <1>4, <1>5, <1>7, <2>1, <2>3, <2>4, <3>1
  <2>5. CASE faults > 0 /\ b.faults = faults - 1 /\ b.rc = -1 /\ b.stream = stream
    <3>1. Table!Fail
      BY <1>4, <2>5, FailStep
    <3>. QED
      BY <1>4, <1>5, <2>1, <2>3, <2>5, <3>1
  <2>6. ASSUME NEW c, AtRow(c), c.faults = faults, c.start = RowStart(n + 1),
               RecordSound(c, b), RowOutcome(c, b)
        PROVE  /\ Table!Read(n + 1) \/ Table!Fail
               /\ StreamSound'
    <3>1. b.start = c.start
      BY <2>6 DEF RecordSound, Progress
    <3>2. /\ Table!Fail \/ Answers(RowStart(n + 1))
          /\ EndIsEnd(stream')
          /\ ~ferror(stream') => OnRow(stream'.pos)
      BY <1>3, <1>7, <2>6, <3>1, CallStep
    <3>3. Answers(RowStart(n + 1)) => Table!Read(n + 1)
      BY <1>1, <2>1, SoughtStep
    <3>. QED
      BY <2>3, <3>2, <3>3
  <2>. QED
    BY <1>5, <1>7, <2>2, <2>4, <2>5, <2>6
<1>. QED
  BY <1>6, <1>7

(* Every step is a step of the table or is not seen by it.                 *)
LEMMA TableStep ==
  ASSUME WideSize, WideLong, TypeOK, TypeOK', HeaderInUse, SizesKnown, StreamSound, Next
  PROVE  SizesKnown' /\ StreamSound' /\ [Table!Next]_(Table!tvars)
<1>. DEFINE c == Call(stream, faults)
<1>1. file' = file /\ file \in Tables /\ loop.num \in Nat
  BY StepReads DEF TypeOK
<1>2. /\ Begun(c) /\ c \in CallState /\ c.stream = stream /\ c.nr = 0 /\ c.blocks = {}
      /\ c.sizes = sizes /\ c.fields = fields /\ c.start = stream.pos
  BY CallFacts
<1>. HIDE DEF c
<1>3. CASE ReadHeader \/ BeginRead
  <2>1. PICK b : Done(b) /\ HeadOutcome(c, b)
    <3>1. CASE ReadHeader
      <4>1. PICK b \in dbf_read_header(c) : Done(b)
        BY <3>1 DEF ReadHeader, c
      <4>. QED
        BY <1>1, <1>2, <4>1, ReadHeaderOutcome
    <3>2. CASE BeginRead
      <4>1. PICK h \in dbf_read_header(c) : \E b \in RecordForLoop(h) : Done(b)
        BY <3>2 DEF BeginRead, c
      <4>2. PICK b \in RecordForLoop(h) : Done(b)
        BY <4>1
      <4>. QED
        BY <1>1, <1>2, <4>1, <4>2, BeginOutcome
    <3>. QED
      BY <1>3, <3>1, <3>2
  <2>2. stream.pos = 0 /\ asked' = -1
    BY <1>3 DEF ReadHeader, BeginRead
  <2>3. b \in CallState /\ b.start = 0
    BY <1>2, <2>1, <2>2 DEF HeadOutcome, Progress
  <2>4. /\ (~ferror(stream) /\ (Table!Open \/ Table!Refuse)) \/ Table!Fail \/ Table!Wander
        /\ SizesKnown' /\ StreamSound'
    BY <1>1, <2>1, <2>2, <2>3, HeadStep DEF c
  <2>5. Table!Next
    BY <2>2, <2>4 DEF Table!Next, Table!NoNumber
  <2>. QED
    BY <2>4, <2>5
<1>4. CASE ReadRecord \/ NextRow
  <2>1. sizes.record > 0 /\ asked' = -1
    <3>1. NextRow => sizes.record > 0
      <4>1. NextRow => at = "loop"
        BY DEF NextRow
      <4>2. at = "loop" => sizes.record = file.head.record_size /\ file.head.record_size >= 1
        BY DEF HeaderInUse, HeaderSizes
      <4>3. sizes.record \in Nat
        BY DEF TypeOK, UInt16
      <4>. QED
        BY <4>1, <4>2, <4>3
    <3>. QED
      BY <1>4, <3>1 DEF ReadRecord, NextRow
  <2>2. PICK b : /\ b \in CallState /\ Done(b) /\ Progress(c, b) /\ SameHeader(c, b)
                 /\ AtRow(c) => RowOutcome(c, b)
    <3>1. CASE ReadRecord
      <4>1. PICK b \in dbf_read_record(c) : Done(b)
        BY <3>1 DEF ReadRecord, c
      <4>2. RecordSound(c, b)
        BY <1>1, <1>2, <4>1, ReadRecordFacts
      <4>3. AtRow(c) => RowOutcome(c, b)
        BY <1>1, <1>2, <4>1, RecordOutcome
      <4>. QED
        BY <4>1, <4>2, <4>3 DEF RecordSound, Progress
    <3>2. CASE NextRow
      <4>1. PICK r \in file_fread(c, sizes.record), marker \in MarkerAt(stream.pos) :
              Done(LoopRead(r, marker))
        BY <3>2 DEF NextRow, c
      <4>. DEFINE b == LoopRead(r, marker)
      <4>2. LoopSound(c, b)
        BY <1>1, <1>2, <4>1, NextRowFacts
      <4>3. AtRow(c) => RowOutcome(c, b)
        BY <1>1, <1>2, <4>1, LoopOutcome
      <4>4. Done(b)
        BY <4>1
      <4>. HIDE DEF b
      <4>. QED
        BY <4>2, <4>3, <4>4 DEF LoopSound, Progress
    <3>. QED
      BY <1>4, <3>1, <3>2
  <2>3. /\ (~ferror(stream) /\ Table!Read(curBar)) \/ Table!Fail \/ Table!Wander
        /\ SizesKnown' /\ StreamSound'
    BY <1>1, <2>1, <2>2, OnwardStep DEF c
  <2>4. Table!Next
    BY <2>1, <2>3 DEF Table!Next, Table!NoNumber
  <2>. QED
    BY <2>3, <2>4
<1>5. CASE \E n \in RecordNumbers : SeekRecord(n)
  <2>1. PICK n \in RecordNumbers : SeekRecord(n)
    BY <1>5
  <2>2. n \in Nat /\ asked' = n /\ sizes.record > 0
    BY <2>1, DbfReaderAssumption DEF SeekRecord
  <2>3. PICK b \in dbf_seek_record(n) : Done(b)
    BY <2>1 DEF SeekRecord
  <2>4. /\ (~ferror(stream) /\ (Table!Read(n + 1) \/ Table!TooFar(n)))
           \/ Table!Fail \/ Table!Wander
        /\ SizesKnown' /\ StreamSound'
    BY <1>1, <2>2, <2>3, NumberStep
  <2>5. Table!Next
    BY <2>2, <2>4 DEF Table!Next
  <2>. QED
    BY <2>4, <2>5
<1>6. CASE FreeBlock \/ SetError \/ \E answer \in {-1, 0, 1} : Callback(answer)
  <2>1. UNCHANGED <<file, stream, got, asked, faults, sizes>>
    BY <1>6 DEF FreeBlock, SetError, Callback
  <2>2. UNCHANGED <<kindsBar, curBar, lastBar, ferror(stream)>>
    BY <2>1, UnseenStep
  <2>3. SizesKnown' /\ StreamSound'
    BY <2>1 DEF SizesKnown, StreamSound, HeaderSizes, EndIsEnd, OnRow, Aligned, feof, ferror
  <2>. QED
    BY <2>1, <2>2, <2>3 DEF Table!tvars, lastBar
<1>. QED
  BY <1>3, <1>4, <1>5, <1>6 DEF Next, Reading

(***************************************************************************)
(* Where size_t and long are wide enough, a file answers as the table of   *)
(* RowTable does, through dbf_read_record, dbf_seek_record and dbf_read in *)
(* any mixture and in callbacks, whatever fails: row n is found from       *)
(* wherever the stream stands, reading on begins behind it, and the end is *)
(* reported at a marker and behind the last row and nowhere else.          *)
(***************************************************************************)
THEOREM FileIsATable ==
  ASSUME WideSize, WideLong
  PROVE  Spec => AnswersAsTable
<1>. DEFINE Inv == HeaderInUse /\ SizesKnown /\ StreamSound
<1>1. Init => Table!Init /\ Inv
  <2>. SUFFICES ASSUME Init
                PROVE  Table!Init /\ Inv
    OBVIOUS
  <2>1. /\ TypeOK /\ stream.pos = 0 /\ ~feof(stream) /\ ferror(stream) = FALSE
        /\ at = "caller" /\ asked = -1 /\ sizes.record = 0
    BY TypeInit DEF Init, Opened, feof, ferror, NoSizes
  <2>2. curBar = -1 /\ lastBar = [rc |-> 0, item |-> 0]
    <3>1. CursorStands /\ AnswerStands
      BY <2>1, MappingFacts DEF TypeOK
    <3>. QED
      BY <2>1, <3>1 DEF Init, CursorStands, AnswerStands, lastBar
  <2>3. kindsBar \in Seq(Table!Kinds) /\ faults \in Nat
    BY <2>1, KindsFacts DEF TypeOK
  <2>4. Inv
    BY <2>1 DEF HeaderInUse, SizesKnown, StreamSound, EndIsEnd
  <2>. QED
    BY <2>1, <2>2, <2>3, <2>4 DEF Table!Init, Table!NoNumber, lastBar
<1>2. TypeOK /\ TypeOK' /\ Inv /\ [Next]_vars => Inv' /\ [Table!Next]_(Table!tvars)
  <2>1. CASE UNCHANGED vars
    <3>1. UNCHANGED <<kindsBar, curBar, lastBar, ferror(stream)>>
      BY <2>1, UnseenStep DEF vars
    <3>2. Inv => Inv'
      BY <2>1 DEF vars, HeaderInUse, SizesKnown, StreamSound, HeaderSizes, EndIsEnd,
                  OnRow, Aligned, feof, ferror
    <3>. QED
      BY <2>1, <3>1, <3>2 DEF vars, Table!tvars, lastBar
  <2>. QED
    BY <2>1, TableStep, HeaderStep
<1>. QED
  BY <1>1, <1>2, TypeCorrect, PTL DEF Spec, AnswersAsTable, Table!Spec
=============================================================================
