--------------------------- MODULE DatasetProofs ----------------------------
(***************************************************************************)
(* A lookup through the index, for all datasets, numbers and failing calls *)
(* and whatever the program does with both handles before it.              *)
(***************************************************************************)
EXTENDS Dataset, ShpReaderProofs

(* size_t holds the offset of every record and of every entry, as a size_t *)
(* of 64 bits does, and long the offset of every record.                   *)
WideSize ==
  /\ Shx!EntrySize * LargestNumber + HeaderSize < SizeModulus
  /\ \A f \in Files : \A i \in 1 .. Len(f.recs) : f.start[i] < SizeModulus

WideLong == \A f \in Files : \A i \in 1 .. Len(f.recs) : f.start[i] <= LongMax

-----------------------------------------------------------------------------
(* The index.                                                              *)

(* The places where an entry begins, and those without one: the beginning  *)
(* of the file, and the end and all places behind it.                      *)
OnEntry(pos) ==
  \/ pos = 0
  \/ pos >= index.size
  \/ \E k \in Nat : pos = Shx!HeaderSize + Shx!EntrySize * k

(* A read of the index that does not fail goes on to the end or as far as  *)
(* it was asked to.                                                        *)
LEMMA IndexFread ==
  ASSUME index \in Indexes, NEW s \in Shx!Stream, NEW rec, NEW budget \in Nat,
         NEW count \in Nat, NEW h \in Shx!file_fread(Shx!Call(s, rec, budget), count)
  PROVE  /\ h.stream \in Shx!Stream /\ h.faults \in Nat
         /\ h.rc = -1 /\ h.rec = rec /\ h.start = s.pos
         /\ h.nr \in Nat /\ h.stream.pos = s.pos + h.nr
         /\ ~Shx!ferror(h.stream) =>
              /\ ~Shx!ferror(s)
              /\ h.stream.pos >= index.size \/ h.stream.pos = s.pos + count
         /\ h.nr = count => h.nr <= Shx!Available(s, index.size)
<1>1. index.size \in Nat /\ s.pos \in Nat /\ s.indicators \in SUBSET {"eof", "err"}
  BY DatasetAssumption DEF Shx!IsIndex, Shx!Stream
<1>2. PICK c : c = Shx!Call(s, rec, budget)
  OBVIOUS
<1>3. PICK r \in Shx!fread(s, index.size, count, budget) :
        h = [c EXCEPT !.stream = r.stream, !.nr = r.nr, !.faults = c.faults - r.fault]
  BY <1>2 DEF Shx!file_fread, Shx!Call
<1>4. /\ h.stream = r.stream /\ h.nr = r.nr /\ h.faults = budget - r.fault
      /\ h.rc = -1 /\ h.rec = rec /\ h.start = s.pos
  BY <1>2, <1>3 DEF Shx!Call
<1>5. CASE r = Shx!CleanRead(s, index.size, count)
  <2>1. Shx!Available(s, index.size) \in Nat
    BY <1>1 DEF Shx!Available
  <2>2. /\ r.fault = 0
        /\ r.nr = IF count <= Shx!Available(s, index.size)
                  THEN count ELSE Shx!Available(s, index.size)
        /\ r.stream.pos = s.pos + r.nr
        /\ r.stream.indicators = s.indicators \cup Shx!Stopped(r.nr, count)
        /\ r.stream \in [pos : {s.pos + r.nr},
                         indicators : {s.indicators \cup Shx!Stopped(r.nr, count)}]
    BY <1>5 DEF Shx!CleanRead
  <2>3. r.nr \in Nat /\ Shx!Stopped(r.nr, count) \subseteq {"eof"}
    BY <2>1, <2>2 DEF Shx!Stopped
  <2>4. r.stream \in Shx!Stream
    BY <1>1, <2>2, <2>3 DEF Shx!Stream
  <2>5. Shx!ferror(r.stream) <=> Shx!ferror(s)
    BY <2>2, <2>3 DEF Shx!ferror
  <2>6. r.stream.pos >= index.size \/ r.stream.pos = s.pos + count
    BY <1>1, <2>2 DEF Shx!Available
  <2>. QED
    BY <1>4, <2>1, <2>2, <2>3, <2>4, <2>5, <2>6
<1>6. CASE \E n \in ShortReads : /\ budget > 0 /\ n < count /\ n <= Shx!Available(s, index.size)
                                 /\ r = Shx!FailedRead(s, n)
  <2>1. PICK n \in ShortReads : /\ budget > 0 /\ n < count
                                /\ n <= Shx!Available(s, index.size)
                                /\ r = Shx!FailedRead(s, n)
    BY <1>6
  <2>2. n \in Nat
    BY FileStreamAssumption
  <2>3. /\ r.stream \in Shx!Stream /\ Shx!ferror(r.stream) /\ r.nr = n /\ r.fault = 1
        /\ r.stream.pos = s.pos + n
    BY <1>1, <2>1, <2>2 DEF Shx!FailedRead, Shx!Stream, Shx!ferror
  <2>. QED
    BY <1>4, <2>1, <2>2, <2>3
<1>. QED
  BY <1>5, <1>6 DEF Shx!fread

(* A read of an entry keeps the stream at one, and what it returns with 1  *)
(* is what the file holds where it began.                                  *)
LEMMA IndexRead ==
  ASSUME index \in Indexes, NEW s \in Shx!Stream, NEW rec, NEW budget \in Nat,
         NEW b \in Shx!read_record(Shx!Call(s, rec, budget))
  PROVE  /\ b.stream \in Shx!Stream /\ b.faults \in Nat /\ b.start = s.pos
         /\ b.stream.pos >= s.pos
         /\ ~Shx!ferror(b.stream) => ~Shx!ferror(s)
         /\ ~Shx!ferror(b.stream) /\ s.pos > 0 /\ OnEntry(s.pos) => OnEntry(b.stream.pos)
         /\ b.rc = 1 =>
              /\ ~Shx!ferror(s) /\ s.pos + Shx!EntrySize <= index.size
              /\ \E entry \in Shx!EntriesAt(s.pos) :
                   b.rec.file_offset = Shx!size_t(2 * entry.offset)
<1>1. PICK h \in Shx!file_fread(Shx!Call(s, rec, budget), Shx!EntrySize) :
        b \in Shx!AfterEntry(h)
  BY DEF Shx!read_record
<1>2. index.size \in Nat /\ s.pos \in Nat /\ Shx!EntrySize \in Nat /\ Shx!EntrySize > 0
  BY DatasetAssumption DEF Shx!IsIndex, Shx!Stream, Shx!EntrySize
<1>3. /\ h.stream \in Shx!Stream /\ h.faults \in Nat
      /\ h.rc = -1 /\ h.start = s.pos
      /\ h.nr \in Nat /\ h.stream.pos = s.pos + h.nr
      /\ ~Shx!ferror(h.stream) =>
           /\ ~Shx!ferror(s)
           /\ h.stream.pos >= index.size \/ h.stream.pos = s.pos + Shx!EntrySize
      /\ h.nr = Shx!EntrySize => h.nr <= Shx!Available(s, index.size)
  BY <1>1, <1>2, IndexFread
<1>4. h \in [rc : {-1}, message : {h.message}, stream : {h.stream}, nr : {h.nr},
             faults : {h.faults}, rec : {h.rec}, start : {h.start}]
  BY <1>1, <1>2 DEF Shx!file_fread, Shx!Call
<1>5. /\ b.stream = h.stream /\ b.faults = h.faults /\ b.start = h.start
      /\ b.rc = 1 =>
           /\ ~Shx!ferror(h.stream) /\ h.nr = Shx!EntrySize
           /\ \E entry \in Shx!EntriesAt(h.start) :
                b.rec.file_offset = Shx!size_t(2 * entry.offset)
  <2>1. CASE b = Shx!Ended(h)
    BY <1>4, <2>1 DEF Shx!Ended
  <2>2. CASE \E message \in {"cannot_read_index_record", "expected_index_record"} :
               b = Shx!Verdict(Shx!Unread(h), message)
    BY <1>4, <2>2 DEF Shx!Verdict, Shx!Unread, Shx!NoMessage
  <2>3. CASE /\ ~Shx!ferror(h.stream) /\ h.nr = Shx!EntrySize
             /\ \E entry \in Shx!EntriesAt(h.start) :
                  b = Shx!Verdict(Shx!Found(h, entry), Shx!EntryMessage(entry))
    BY <1>4, <2>3 DEF Shx!Verdict, Shx!Found
  <2>. QED
    BY <1>1, <2>1, <2>2, <2>3 DEF Shx!AfterEntry
<1>6. ASSUME ~Shx!ferror(b.stream), s.pos > 0, OnEntry(s.pos)
      PROVE  OnEntry(b.stream.pos)
  <2>1. b.stream.pos >= index.size \/ b.stream.pos = s.pos + Shx!EntrySize
    BY <1>3, <1>5, <1>6
  <2>2. CASE s.pos >= index.size /\ b.stream.pos = s.pos + Shx!EntrySize
    BY <1>2, <2>2 DEF OnEntry
  <2>3. CASE s.pos < index.size /\ b.stream.pos = s.pos + Shx!EntrySize
    <3>1. PICK k \in Nat : s.pos = Shx!HeaderSize + Shx!EntrySize * k
      BY <1>2, <1>6, <2>3 DEF OnEntry
    <3>2. k + 1 \in Nat /\ b.stream.pos = Shx!HeaderSize + Shx!EntrySize * (k + 1)
      BY <2>3, <3>1 DEF Shx!HeaderSize, Shx!EntrySize
    <3>. QED
      BY <3>2 DEF OnEntry
  <2>. QED
    BY <1>2, <2>1, <2>2, <2>3 DEF OnEntry
<1>7. b.rc = 1 => s.pos + Shx!EntrySize <= index.size
  BY <1>2, <1>3, <1>5 DEF Shx!Available
<1>. QED
  BY <1>2, <1>3, <1>5, <1>6, <1>7

(* What the index's handle and its latest answer have to do with the two   *)
(* files: an answer of 1 for an entry is the offset of the record wanted.  *)
IndexSound ==
  /\ index \in Indexes /\ IsIndexOf(index, file)
  /\ xstream \in Shx!Stream /\ xfaults \in Nat
  /\ ~Shx!ferror(xstream) => OnEntry(xstream.pos)
  /\ xat # "caller" => xstream.pos > 0
  /\ Indexed => Wanted \in Items /\ xgot.rec.file_offset = file.start[Wanted]

(* Records begin at even offsets: their lengths are in 16-bit words.       *)
LEMMA StartsAreEven ==
  ASSUME file \in Files, NEW i \in Items
  PROVE  2 * (file.start[i] \div 2) = file.start[i]
<1>. DEFINE Odd == {n \in Items : file.start[n] % 2 # 0}
<1>1. \A n \in Items : n \in Nat /\ n >= 1 /\ file.start[n] \in Nat
  BY FileFacts
<1>2. SUFFICES Odd = {}
  <2>1. file.start[i] % 2 = 0
    BY <1>2
  <2>. QED
    BY <1>1, <2>1
<1>3. SUFFICES ASSUME Odd # {}
               PROVE  FALSE
  OBVIOUS
<1>4. PICK n \in Odd : \A m \in Odd : n <= m
  BY <1>1, <1>3, LeastNumber
<1>5. n \in Items /\ file.start[n] % 2 # 0
  BY <1>4
<1>6. n # 1
  BY <1>5, FileFacts DEF HeaderSize
<1>7. PICK m \in Nat : m = n - 1 /\ m \in Items
  BY <1>1, <1>5, <1>6 DEF Items
<1>8. /\ file.start[m + 1] = file.start[m] + 8 + 2 * file.recs[m].len
      /\ file.start[m] \in Nat /\ file.recs[m] \in Record
  BY <1>7, FileFacts
<1>9. file.recs[m].len \in Nat
  BY <1>8, RecordFacts
<1>10. file.start[m] % 2 # 0
  BY <1>1, <1>5, <1>7, <1>8, <1>9
<1>. QED
  BY <1>1, <1>4, <1>7, <1>10

(* Eight bytes in the index at the place of an entry are the entry of the  *)
(* record with that number.                                                *)
LEMMA EntryOfRecord ==
  ASSUME WideSize, file \in Files, index \in Indexes, IsIndexOf(index, file),
         NEW pos \in Nat, pos > 0, OnEntry(pos), pos + Shx!EntrySize <= index.size,
         NEW entry \in Shx!EntriesAt(pos)
  PROVE  LET i == (pos - HeaderSize) \div Shx!EntrySize + 1
         IN  i \in Items /\ Shx!size_t(2 * entry.offset) = file.start[i]
<1>1. /\ index.size \in Nat /\ Len(index.entries) \in Nat
      /\ index.size <= Shx!EntryStart(Len(index.entries) + 1)
      /\ Len(index.entries) = Len(file.recs)
  BY DatasetAssumption DEF Shx!IsIndex, IsIndexOf
<1>2. PICK k \in Nat : pos = 100 + 8 * k
  BY <1>1 DEF OnEntry, Shx!HeaderSize, Shx!EntrySize
<1>3. k + 1 \in Items /\ pos = Shx!EntryStart(k + 1) /\ k < Len(index.entries)
  BY <1>1, <1>2 DEF Shx!EntryStart, Shx!HeaderSize, Shx!EntrySize, Items
<1>4. \A i \in 1 .. Len(index.entries) : Shx!EntryStart(i) = pos <=> i = k + 1
  BY <1>1, <1>2, <1>3 DEF Shx!EntryStart, Shx!HeaderSize, Shx!EntrySize, Items
<1>5. {i \in 1 .. Len(index.entries) : Shx!EntryStart(i) = pos} = {k + 1}
  BY <1>1, <1>3, <1>4 DEF Items
<1>6. entry = index.entries[k + 1]
  BY <1>5 DEF Shx!EntriesAt
<1>7. entry.offset = file.start[k + 1] \div 2
  <2>1. index.entries[k + 1]
          = [offset |-> file.start[k + 1] \div 2, len |-> file.recs[k + 1].len]
    BY <1>3, Zenon DEF IsIndexOf, Items
  <2>. QED
    BY <1>6, <2>1
<1>8. /\ 2 * entry.offset = file.start[k + 1]
      /\ file.start[k + 1] \in Nat /\ file.start[k + 1] < SizeModulus
  BY <1>3, <1>7, StartsAreEven, FileFacts DEF WideSize, Items
<1>9. Shx!size_t(2 * entry.offset) = file.start[k + 1]
  BY <1>8, ShpLayoutAssumption DEF Shx!size_t
<1>10. (pos - HeaderSize) \div Shx!EntrySize + 1 = k + 1
  BY <1>2 DEF HeaderSize, Shx!EntrySize
<1>. QED
  BY <1>3, <1>9, <1>10

(* So what a read returns with 1 is the offset of the record wanted.       *)
LEMMA IndexAnswer ==
  ASSUME WideSize, file \in Files, index \in Indexes, IsIndexOf(index, file),
         NEW s \in Shx!Stream, NEW rec, NEW budget \in Nat,
         ~Shx!ferror(s) => OnEntry(s.pos),
         NEW b \in Shx!read_record(Shx!Call(s, rec, budget)),
         b.rc = 1, b.start > 0
  PROVE  LET i == (b.start - HeaderSize) \div Shx!EntrySize + 1
         IN  i \in Items /\ b.rec.file_offset = file.start[i]
<1>1. /\ b.start = s.pos /\ s.pos \in Nat /\ OnEntry(s.pos)
      /\ s.pos + Shx!EntrySize <= index.size
      /\ \E entry \in Shx!EntriesAt(s.pos) :
           b.rec.file_offset = Shx!size_t(2 * entry.offset)
  BY IndexRead DEF Shx!Stream
<1>. QED
  BY <1>1, EntryOfRecord

(* The offset of an entry does not wrap.                                   *)
LEMMA EntryOffset ==
  ASSUME WideSize, NEW n \in Nat, n <= LargestNumber
  PROVE  Shx!file_offset(n) = 100 + 8 * n
<1>1. /\ n * 8 + 100 \in Nat /\ n * 8 + 100 < SizeModulus
      /\ SizeModulus \in Nat
  BY DatasetAssumption, ShpLayoutAssumption DEF WideSize, HeaderSize, Shx!EntrySize
<1>2. (n * 8 + 100) % SizeModulus = n * 8 + 100
  BY <1>1
<1>. QED
  BY <1>1, <1>2 DEF Shx!file_offset, Shx!size_t, Shx!EntrySize, Shx!HeaderSize

(* A step of the index's reader, by what it leaves in the handle.          *)
LEMMA IndexStepSound ==
  ASSUME WideSize, file \in Files, IndexSound, IndexStep
  PROVE  IndexSound'
<1>. DEFINE c == Shx!Call(xstream, xgot.rec, xfaults)
<1>1. /\ index \in Indexes /\ IsIndexOf(index, file)
      /\ xstream \in Shx!Stream /\ xfaults \in Nat
      /\ ~Shx!ferror(xstream) => OnEntry(xstream.pos)
      /\ xat # "caller" => xstream.pos > 0
      /\ xstream.pos \in Nat
  BY DEF IndexSound, Shx!Stream
<1>2. file' = file /\ index' = index /\ IsIndexOf(index, file)' /\ Items' = Items
  <2>1. file' = file /\ index' = index
    BY DEF IndexStep, vars, Shx!ReadHeader, Shx!ReadRecord, Shx!SeekRecord, Shx!BeginRead,
           Shx!Reading, Shx!NextRecord, Shx!Callback
  <2>. QED
    BY <1>1, <2>1 DEF IsIndexOf, Items
<1>3. SUFFICES /\ xstream' \in Shx!Stream /\ xfaults' \in Nat
               /\ ~Shx!ferror(xstream') => OnEntry(xstream'.pos)
               /\ xat' # "caller" => xstream'.pos > 0
               /\ xgot'.rc = 1 /\ xgot'.start > 0 =>
                    LET i == IF asked' >= 0 THEN asked' + 1
                             ELSE (xgot'.start - HeaderSize) \div Shx!EntrySize + 1
                    IN  i \in Items /\ xgot'.rec.file_offset = file.start[i]
  BY <1>1, <1>2 DEF IndexSound, Indexed, Wanted, OnEntry, Shx!ferror
<1>4. CASE Shx!ReadHeader \/ Shx!BeginRead
  <2>1. PICK h \in Shx!file_fread(c, Shx!HeaderSize) :
          LET b == Shx!Verdict(h, Shx!HeaderMessage(h))
          IN  Shx!Done(b) /\ (xat' # "caller" => b.rc > 0)
    BY <1>4 DEF Shx!ReadHeader, Shx!BeginRead, Shx!shx_read_header
  <2>2. Shx!HeaderSize \in Nat /\ Shx!HeaderSize > 0 /\ xstream.pos = 0
    BY <1>4 DEF Shx!HeaderSize, Shx!ReadHeader, Shx!BeginRead
  <2>3. /\ h.stream \in Shx!Stream /\ h.faults \in Nat /\ h.start = 0
        /\ h.nr \in Nat /\ h.stream.pos = h.nr
        /\ ~Shx!ferror(h.stream) =>
             h.stream.pos >= index.size \/ h.stream.pos = Shx!HeaderSize
    BY <1>1, <2>1, <2>2, IndexFread
  <2>4. h \in [rc : {h.rc}, message : {h.message}, stream : {h.stream}, nr : {h.nr},
               faults : {h.faults}, rec : {h.rec}, start : {h.start}]
    BY <2>1 DEF Shx!file_fread, Shx!Call
  <2>5. /\ xstream' = h.stream /\ xfaults' = h.faults /\ xgot'.start = 0
        /\ xat' # "caller" => Shx!HeaderMessage(h) = Shx!NoMessage
    BY <2>1, <2>3, <2>4 DEF Shx!Done, Shx!Verdict
  <2>6. ~Shx!ferror(h.stream) => OnEntry(h.stream.pos)
    <3>1. 0 \in Nat /\ Shx!HeaderSize = Shx!HeaderSize + Shx!EntrySize * 0
      BY DEF Shx!HeaderSize, Shx!EntrySize
    <3>. QED
      BY <2>3, <3>1 DEF OnEntry
  <2>7. xat' # "caller" => h.stream.pos > 0
    BY <2>2, <2>3, <2>5 DEF Shx!HeaderMessage, Shx!NoMessage
  <2>. QED
    BY <2>3, <2>5, <2>6, <2>7
<1>5. CASE Shx!ReadRecord \/ Shx!NextRecord
  <2>1. PICK rec \in {xgot.rec, Shx!NoRecord} :
          \E b \in Shx!read_record(Shx!Call(xstream, rec, xfaults)) : Shx!Done(b)
    BY <1>5 DEF Shx!ReadRecord, Shx!NextRecord
  <2>2. PICK b \in Shx!read_record(Shx!Call(xstream, rec, xfaults)) : Shx!Done(b)
    BY <2>1
  <2>3. asked' = -1 /\ xstream.pos > 0
    BY <1>1, <1>5 DEF Shx!ReadRecord, Shx!NextRecord
  <2>4. /\ xstream' = b.stream /\ xfaults' = b.faults
        /\ xgot'.rc = b.rc /\ xgot'.rec = b.rec /\ xgot'.start = b.start
    BY <2>2 DEF Shx!Done
  <2>5. /\ b.stream \in Shx!Stream /\ b.faults \in Nat
        /\ b.stream.pos >= xstream.pos /\ b.stream.pos \in Nat
        /\ ~Shx!ferror(b.stream) => ~Shx!ferror(xstream)
        /\ ~Shx!ferror(b.stream) /\ OnEntry(xstream.pos) => OnEntry(b.stream.pos)
    BY <1>1, <2>2, <2>3, IndexRead DEF Shx!Stream
  <2>6. b.rc = 1 /\ b.start > 0 =>
          LET i == (b.start - HeaderSize) \div Shx!EntrySize + 1
          IN  i \in Items /\ b.rec.file_offset = file.start[i]
    BY <1>1, <2>2, IndexAnswer
  <2>. QED
    BY <1>1, <2>3, <2>4, <2>5, <2>6
<1>6. CASE \E n \in RecordNumbers : Shx!SeekRecord(n)
  <2>1. PICK n \in RecordNumbers : Shx!SeekRecord(n)
    BY <1>6
  <2>2. n \in Nat /\ asked' = n /\ xat' = xat /\ LargestNumber \in Nat
    BY <2>1, DatasetAssumption DEF Shx!SeekRecord
  <2>3. PICK b \in Shx!shx_seek_record(n) : Shx!Done(b)
    BY <2>1 DEF Shx!SeekRecord
  <2>4. /\ xstream' = b.stream /\ xfaults' = b.faults
        /\ xgot'.rc = b.rc /\ xgot'.rec = b.rec /\ xgot'.start = b.start
    BY <2>3 DEF Shx!Done
  <2>5. CASE \E message \in {"record_number_is_too_big", "cannot_set_file_position"},
               budget \in Nat :
               b = Shx!Verdict(Shx!Call(xstream, xgot.rec, budget), message)
    <3>1. b.rc = -1 /\ b.stream = xstream /\ b.faults \in Nat
      BY <2>5 DEF Shx!Verdict, Shx!Call, Shx!NoMessage
    <3>. QED
      BY <1>1, <2>2, <2>4, <3>1
  <2>6. CASE \E s \in Shx!Stream, budget \in Nat :
               /\ n <= LargestNumber /\ s.pos = Shx!file_offset(n)
               /\ Shx!ferror(xstream) => Shx!ferror(s)
               /\ b \in Shx!read_record(Shx!Call(s, xgot.rec, budget))
    <3>1. PICK s \in Shx!Stream, budget \in Nat :
            /\ n <= LargestNumber /\ s.pos = Shx!file_offset(n)
            /\ Shx!ferror(xstream) => Shx!ferror(s)
            /\ b \in Shx!read_record(Shx!Call(s, xgot.rec, budget))
      BY <2>6
    <3>2. s.pos = 100 + 8 * n
      BY <2>2, <3>1, EntryOffset
    <3>3. OnEntry(s.pos)
      BY <2>2, <3>2 DEF OnEntry, Shx!HeaderSize, Shx!EntrySize
    <3>4. /\ b.stream \in Shx!Stream /\ b.faults \in Nat /\ b.start = s.pos
          /\ b.stream.pos >= s.pos /\ b.stream.pos \in Nat
          /\ ~Shx!ferror(b.stream) => OnEntry(b.stream.pos)
      BY <1>1, <2>2, <3>1, <3>2, <3>3, IndexRead DEF Shx!Stream
    <3>5. b.rc = 1 =>
            LET i == (b.start - HeaderSize) \div Shx!EntrySize + 1
            IN  i \in Items /\ b.rec.file_offset = file.start[i]
      BY <1>1, <2>2, <3>1, <3>2, <3>3, <3>4, IndexAnswer
    <3>6. (b.start - HeaderSize) \div Shx!EntrySize + 1 = n + 1
      BY <2>2, <3>2, <3>4 DEF HeaderSize, Shx!EntrySize
    <3>. QED
      BY <2>2, <2>4, <3>2, <3>4, <3>5, <3>6
  <2>7. CASE n <= LargestNumber
    <3>1. PICK p \in Shx!fsetpos(xstream, Shx!file_offset(n), xfaults) :
            b \in IF p.rc = 0
                  THEN Shx!read_record(Shx!Call(p.stream, xgot.rec, xfaults - p.fault))
                  ELSE {Shx!Verdict(Shx!Call(p.stream, xgot.rec, xfaults - p.fault),
                                    "cannot_set_file_position")}
      BY <1>1, <2>2, <2>3, <2>7 DEF Shx!shx_seek_record, Shx!seek_and_read
    <3>2. Shx!file_offset(n) \in Nat
      BY <2>2, <2>7, EntryOffset
    <3>3. \/ p = Shx!Positioned(xstream, Shx!file_offset(n))
          \/ \E k \in 0 .. xfaults : p = Shx!Refused(xstream, k)
      BY <1>1, <3>1 DEF Shx!fsetpos
    <3>4. CASE p = Shx!Positioned(xstream, Shx!file_offset(n))
      <4>1. /\ p.rc = 0 /\ xfaults - p.fault \in Nat /\ p.stream \in Shx!Stream
            /\ p.stream.pos = Shx!file_offset(n)
            /\ Shx!ferror(xstream) => Shx!ferror(p.stream)
        BY <1>1, <3>2, <3>4 DEF Shx!Positioned, Shx!Stream, Shx!ferror
      <4>. QED
        BY <2>6, <2>7, <3>1, <4>1
    <3>5. CASE \E k \in 0 .. xfaults : p = Shx!Refused(xstream, k)
      <4>1. p.rc = -1 /\ p.stream = xstream /\ xfaults - p.fault \in Nat
        BY <1>1, <3>5 DEF Shx!Refused
      <4>. QED
        BY <2>5, <3>1, <4>1
    <3>. QED
      BY <3>3, <3>4, <3>5
  <2>8. CASE n > LargestNumber
    BY <1>1, <2>3, <2>5, <2>8 DEF Shx!shx_seek_record
  <2>. QED
    BY <2>2, <2>7, <2>8
<1>7. CASE \E answer \in {-1, 0, 1} : Shx!Callback(answer)
  <2>1. UNCHANGED <<xstream, xgot, asked, xfaults>> /\ (xat' # "caller" => xat # "caller")
    BY <1>7 DEF Shx!Callback
  <2>. QED
    BY <1>1, <2>1 DEF IndexSound, Indexed, Wanted
<1>. QED
  BY <1>4, <1>5, <1>6, <1>7 DEF IndexStep, Shx!Reading

-----------------------------------------------------------------------------
(* The shapes.                                                             *)
ShapesSound ==
  /\ file \in Files /\ stream \in Stream /\ faults \in Nat
  /\ loop.cap \in Nat

(* A step of the shapes' reader keeps the types that a seek relies on.     *)
LEMMA ShapeStepSound ==
  ASSUME ShapesSound, ShapeStep, Indexed => xgot.rec.file_offset \in Nat
  PROVE  ShapesSound' /\ file' = file
<1>1. /\ file \in Files /\ stream \in Stream /\ faults \in Nat /\ loop.cap \in Nat
      /\ 0 \in Nat /\ MinBufSize \in Nat
  BY ShpReaderAssumption DEF ShapesSound
<1>2. ASSUME NEW b \in CallState, Done(b)
      PROVE  stream' \in Stream /\ faults' \in Nat
  BY <1>2 DEF Done, CallState
<1>3. CASE ReadHeader \/ BeginRead
  <2>1. PICK b \in shp_read_header(Call(stream, 0, faults)) : Done(b)
    BY <1>3 DEF ReadHeader, BeginRead
  <2>2. b \in CallState
    BY <1>1, <2>1, ReadHeaderFacts
  <2>. QED
    BY <1>1, <1>2, <1>3, <2>1, <2>2 DEF ReadHeader, BeginRead, ShapesSound
<1>4. CASE ReadRecord
  <2>1. PICK b \in read_record(Call(stream, 0, faults)) : Done(b)
    BY <1>4 DEF ReadRecord
  <2>2. b \in CallState
    BY <1>1, <2>1, ReadRecordFacts
  <2>. QED
    BY <1>1, <1>2, <1>4, <2>1, <2>2 DEF ReadRecord, ShapesSound
<1>5. CASE SeekIndexed
  <2>1. PICK offset \in Nat : SeekRecord(offset)
    BY <1>5 DEF SeekIndexed
  <2>2. PICK b \in seek_and_read(offset) : Done(b)
    BY <2>1 DEF SeekRecord
  <2>3. b \in CallState
    BY <1>1, <2>2, SeekAndReadFacts
  <2>. QED
    BY <1>1, <1>2, <2>1, <2>2, <2>3 DEF SeekRecord, ShapesSound
<1>6. CASE FreeRecord
  BY <1>1, <1>6 DEF FreeRecord, ShapesSound
<1>7. CASE \E answer \in {-1, 0, 1} : HeaderCallback(answer) \/ RecordCallback(answer)
  BY <1>1, <1>7 DEF HeaderCallback, RecordCallback, Cleanup, Idle, ShapesSound
<1>8. CASE NextRecord
  <2>1. PICK b \in read_record(Call(stream, loop.cap, faults)) :
          /\ Done(b)
          /\ \/ loop' = [cap |-> b.cap, offset |-> num_bytes]
             \/ loop' = Idle
    BY <1>8 DEF NextRecord, Cleanup
  <2>2. b \in CallState /\ b.cap \in Nat
    BY <1>1, <2>1, ReadRecordFacts DEF CallState
  <2>3. loop'.cap \in Nat
    BY <1>1, <2>1, <2>2 DEF Idle
  <2>. QED
    BY <1>1, <1>2, <1>8, <2>1, <2>2, <2>3 DEF NextRecord, ShapesSound
<1>. QED
  BY <1>3, <1>4, <1>5, <1>6, <1>7, <1>8 DEF ShapeStep, Reading

(* shp_seek_record at the offset of a record answers as it deserves.       *)
LEMMA RecordAnswered ==
  ASSUME WideLong, file \in Files, stream \in Stream, faults \in Nat, NEW i \in Items,
         NEW b \in seek_and_read(file.start[i]),
         b.faults = faults, ~ferror(b.stream)
  PROVE  /\ b.rc = AnswerOf(Kind(i))
         /\ b.rc = 1 => b.rec = file.recs[i]
<1>1. file.start[i] \in Nat /\ file.start[i] <= LongMax /\ 0 \in Nat /\ file.size \in Nat
  BY FileFacts DEF WideLong, Items
<1>2. PICK p \in fsetpos(stream, file.start[i], faults) :
        b \in IF p.rc = 0
              THEN read_record(Call(p.stream, 0, faults - p.fault))
              ELSE {Verdict(Call(p.stream, 0, faults - p.fault), "cannot_set_file_position")}
  BY DEF seek_and_read
<1>3. \/ /\ p.rc = 0 /\ p.fault = 0
         /\ p.stream.pos = file.start[i] /\ ~feof(p.stream)
      \/ p.rc = -1 /\ p.fault = 1
  BY <1>1, <1>2, FsetposOutcomes
<1>4. ~(p.rc = -1 /\ p.fault = 1)
  <2>1. ASSUME p.rc = -1, p.fault = 1
        PROVE  b.faults = faults - 1
    <3>1. b = Verdict(Call(p.stream, 0, faults - 1), "cannot_set_file_position")
      BY <1>2, <2>1
    <3>2. ASSUME NEW message
          PROVE  Verdict(Call(p.stream, 0, faults - 1), message).faults = faults - 1
      BY DEF Verdict, Call
    <3>. QED
      BY <3>1, <3>2
  <2>. QED
    BY <2>1
<1>5. /\ p.stream \in Stream /\ p.stream.pos = file.start[i] /\ EndIsEnd(p.stream)
      /\ b \in read_record(Call(p.stream, 0, faults))
  BY <1>1, <1>2, <1>3, <1>4, FsetposFacts DEF EndIsEnd
<1>6. ferror(p.stream) => ferror(b.stream)
  BY <1>1, <1>5, ReadRecordFacts
<1>7. ByPosition(file.start[i], b)
  BY <1>1, <1>5, <1>6, RecordOutcomes DEF Failing, Undisturbed
<1>8. RecordsAt(file.start[i]) = {file.recs[i]}
  BY RecordAtItem
<1>9. CASE file.start[i] + 8 > file.size /\ b.rc = 0
  BY <1>9 DEF Kind, AnswerOf
<1>10. CASE /\ file.start[i] + 8 <= file.size
            /\ b.rec = file.recs[i] /\ ByContent(file.start[i] + 8, file.recs[i], b)
  <2>. DEFINE rec == file.recs[i]
  <2>1. record_size(rec) \in Nat /\ rec.len \in Nat
    BY FileFacts, RecordFacts
  <2>. QED
    BY <1>1, <1>10, <2>1 DEF ByContent, Runt, Cut, Whole, Kind, AnswerOf
<1>. QED
  BY <1>1, <1>7, <1>8, <1>9, <1>10 DEF ByPosition

-----------------------------------------------------------------------------
(* What the program's two handles have come to, and what it may rely on.   *)
DatasetSound == ShapesSound /\ IndexSound

(* Both handles begin in this way.                                         *)
LEMMA DatasetBegins == DInit => DatasetSound
<1>. SUFFICES ASSUME DInit
              PROVE  DatasetSound
  OBVIOUS
<1>1. ShapesSound
  BY TypeInit DEF DInit, TypeOK, ShapesSound
<1>2. /\ index \in Indexes /\ IsIndexOf(index, file) /\ xat = "caller"
      /\ xstream = Shx!Opened /\ xfaults = MaxFaults /\ xgot.rc = 0
  BY DEF DInit, Shx!Init
<1>3. xstream \in Shx!Stream /\ xfaults \in Nat /\ xstream.pos = 0
  BY <1>2, ShpReaderAssumption DEF Shx!Opened, Shx!Stream
<1>. QED
  BY <1>1, <1>2, <1>3 DEF DatasetSound, IndexSound, OnEntry, Indexed

(* Every step of the program keeps them in it.                             *)
LEMMA DatasetStep ==
  ASSUME WideSize, DatasetSound, [DNext]_dvars
  PROVE  DatasetSound'
<1>1. ShapesSound /\ IndexSound /\ file \in Files
  BY DEF DatasetSound, ShapesSound
<1>2. ASSUME UNCHANGED xvars, file' = file
      PROVE  IndexSound'
  BY <1>1, <1>2 DEF xvars, IndexSound, IsIndexOf, OnEntry, Indexed, Wanted, Items,
                    Shx!ferror, Shx!Stream
<1>3. CASE ShapeStep
  <2>1. UNCHANGED xvars
    BY <1>3 DEF ShapeStep
  <2>2. Indexed => xgot.rec.file_offset \in Nat
    BY <1>1, FileFacts DEF IndexSound
  <2>. QED
    BY <1>1, <1>2, <1>3, <2>1, <2>2, ShapeStepSound DEF DatasetSound
<1>4. CASE IndexStep
  <2>1. UNCHANGED vars
    BY <1>4 DEF IndexStep
  <2>2. ShapesSound'
    BY <1>1, <2>1 DEF vars, ShapesSound
  <2>. QED
    BY <1>1, <1>4, <2>2, IndexStepSound DEF DatasetSound
<1>5. CASE UNCHANGED dvars
  BY <1>1, <1>2, <1>5 DEF dvars, vars, DatasetSound, ShapesSound
<1>. QED
  BY <1>3, <1>4, <1>5 DEF DNext

(***************************************************************************)
(* A lookup through the index answers for the record that was asked for,   *)
(* and as that record deserves: for every dataset and number, whatever has *)
(* been read from either file before, in the loops of shp_read and         *)
(* shx_read too, unless a call of the operating system fails in it or the  *)
(* stream has failed before.                                               *)
(***************************************************************************)
THEOREM LookupsAnswer ==
  ASSUME WideSize, WideLong
  PROVE  DSpec => LookupAnswers
<1>1. DatasetSound /\ [DNext]_dvars =>
        [SeekIndexed /\ faults' = faults /\ ~ferror(stream') =>
           /\ Wanted \in Items
           /\ got'.rc = AnswerOf(Kind(Wanted))
           /\ got'.rc = 1 => got'.rec = file.recs[Wanted]]_dvars
  <2>. SUFFICES ASSUME DatasetSound, SeekIndexed, faults' = faults, ~ferror(stream')
                PROVE  /\ Wanted \in Items
                       /\ got'.rc = AnswerOf(Kind(Wanted))
                       /\ got'.rc = 1 => got'.rec = file.recs[Wanted]
    OBVIOUS
  <2>1. Wanted \in Items /\ xgot.rec.file_offset = file.start[Wanted]
    BY DEF DatasetSound, IndexSound, SeekIndexed
  <2>2. PICK b \in seek_and_read(file.start[Wanted]) : Done(b)
    BY <2>1 DEF SeekIndexed, SeekRecord
  <2>3. b.faults = faults /\ ~ferror(b.stream) /\ got'.rc = b.rc /\ got'.rec = b.rec
    BY <2>2 DEF Done
  <2>. QED
    BY <2>1, <2>2, <2>3, RecordAnswered DEF DatasetSound, ShapesSound
<1>. QED
  BY <1>1, DatasetBegins, DatasetStep, PTL DEF DSpec, LookupAnswers
=============================================================================
