-------------------------- MODULE ShxReaderProofs ---------------------------
(***************************************************************************)
(* The reader of shx.c, for all indexes, numbers and failing calls.        *)
(***************************************************************************)
EXTENDS ShxReader, FileStreamProofs

CallState ==
  [rc : {-1, 0, 1}, message : Messages, stream : Stream, nr : Nat, faults : Nat,
   rec : ShxRecord, start : Nat]

(* size_t holds the offset of every entry and of every record, as a size_t *)
(* of 64 bits does.                                                        *)
WideSize ==
  /\ EntrySize * LargestNumber + HeaderSize < SizeModulus
  /\ \A f \in Indexes : \A i \in 1 .. Len(f.entries) :
       2 * f.entries[i].offset < SizeModulus /\ 2 * f.entries[i].len < SizeModulus

-----------------------------------------------------------------------------
(* The functions that a read goes through, one after the other.            *)

(* A call that begins: nothing read, no message, -1 to return.             *)
LEMMA NewCallFacts ==
  ASSUME NEW s \in Stream, NEW rec \in ShxRecord, NEW budget \in Nat,
         NEW c, c = Call(s, rec, budget)
  PROVE  /\ c \in CallState
         /\ c.rc = -1 /\ c.stream = s /\ c.faults = budget
         /\ c.rec = rec /\ c.start = s.pos
<1>1. s.pos \in Nat
  BY DEF Stream
<1>. QED
  BY <1>1 DEF Call, CallState, Messages, NoMessage

(* A verdict changes the message and the result.                           *)
LEMMA VerdictFacts ==
  ASSUME NEW c \in CallState, NEW message \in Messages,
         NEW v, v = Verdict(c, message)
  PROVE  /\ v \in CallState
         /\ v.stream = c.stream /\ v.faults = c.faults
         /\ v.rec = c.rec /\ v.start = c.start
         /\ v.message = message
         /\ message # NoMessage => v.rc = -1
BY DEF Verdict, CallState, Messages, NoMessage

(* file_fread moves the stream by the bytes it delivers, and says why it   *)
(* delivers fewer than asked.                                              *)
LEMMA FileFreadFacts ==
  ASSUME index \in Indexes, NEW c \in CallState, NEW count \in Nat,
         NEW b \in file_fread(c, count)
  PROVE  /\ b \in CallState
         /\ b.rc = c.rc /\ b.rec = c.rec /\ b.start = c.start
         /\ b.nr \in 0 .. count
         /\ b.stream.pos = c.stream.pos + b.nr
         /\ b.nr > 0 => b.stream.pos <= index.size
         /\ b.nr < count => feof(b.stream) \/ ferror(b.stream)
<1>1. c.stream \in Stream /\ c.faults \in Nat /\ index.size \in Nat
  BY ShxReaderAssumption DEF CallState, IsIndex
<1>2. PICK r \in fread(c.stream, index.size, count, c.faults) :
        b = [c EXCEPT !.stream = r.stream, !.nr = r.nr, !.faults = c.faults - r.fault]
  BY DEF file_fread
<1>3. /\ r.stream \in Stream /\ r.nr \in 0 .. count
      /\ r.stream.pos = c.stream.pos + r.nr
      /\ r.nr > 0 => r.stream.pos <= index.size
      /\ r.nr < count => feof(r.stream) \/ ferror(r.stream)
  BY <1>1, FreadFacts
<1>4. r.fault \in Nat /\ r.fault <= c.faults
  BY <1>1, FreadFacts
<1>5. PICK s \in Stream, nr \in Nat, budget \in Nat :
        s = r.stream /\ nr = r.nr /\ budget = c.faults - r.fault
  BY <1>1, <1>3, <1>4
<1>6. b = [c EXCEPT !.stream = s, !.nr = nr, !.faults = budget]
  BY <1>2, <1>5
<1>7. /\ b \in CallState
      /\ b.stream = s /\ b.nr = nr
      /\ b.rc = c.rc /\ b.rec = c.rec /\ b.start = c.start
  BY <1>6 DEF CallState
<1>. QED
  BY <1>3, <1>5, <1>7

(* An entry of the file or what is taken for one.                          *)
LEMMA EntriesAtFacts ==
  ASSUME index \in Indexes, NEW pos
  PROVE  EntriesAt(pos) \subseteq Entry
<1>1. index.entries \in Seq(Entry) /\ Noise \subseteq Entry
  BY ShxReaderAssumption DEF IsIndex
<1>2. \A i \in 1 .. Len(index.entries) : index.entries[i] \in Entry
  BY <1>1
<1>. QED
  BY <1>1, <1>2 DEF EntriesAt

(* The entry gives a call its record, in size_t.                           *)
LEMMA FoundFacts ==
  ASSUME NEW c \in CallState, NEW entry \in Entry
  PROVE  /\ Found(c, entry) \in CallState
         /\ Found(c, entry).stream = c.stream /\ Found(c, entry).start = c.start
         /\ Found(c, entry).rec = [file_offset |-> size_t(2 * entry.offset),
                                   record_size |-> size_t(2 * entry.len)]
<1>1. size_t(2 * entry.offset) \in Nat /\ size_t(2 * entry.len) \in Nat
  BY ShxReaderAssumption DEF Entry, size_t
<1>2. PICK rec \in ShxRecord : rec = [file_offset |-> size_t(2 * entry.offset),
                                      record_size |-> size_t(2 * entry.len)]
  BY <1>1 DEF ShxRecord
<1>3. Found(c, entry) = [c EXCEPT !.rec = rec]
  BY <1>2 DEF Found
<1>. QED
  BY <1>2, <1>3 DEF CallState

(* A call that has read no entry returns zeros in its record.              *)
LEMMA NotFoundFacts ==
  ASSUME NEW c \in CallState
  PROVE  /\ Ended(c) \in CallState /\ Ended(c).rc = 0
         /\ Ended(c).stream = c.stream /\ Ended(c).start = c.start
         /\ Unread(c) \in CallState
         /\ Unread(c).stream = c.stream /\ Unread(c).start = c.start
<1>1. NoRecord \in ShxRecord
  BY DEF NoRecord, ShxRecord
<1>. QED
  BY <1>1 DEF Ended, Unread, CallState

(***************************************************************************)
(* read_record: a result of 1 means that eight bytes were read that are in *)
(* the file, and the record says what they say.                            *)
(***************************************************************************)
LEMMA ReadRecordFacts ==
  ASSUME index \in Indexes,
         NEW s \in Stream, NEW rec \in ShxRecord, NEW budget \in Nat,
         NEW b \in read_record(Call(s, rec, budget))
  PROVE  /\ b \in CallState
         /\ b.start = s.pos
         /\ b.rc = 1 =>
              /\ s.pos + EntrySize <= index.size
              /\ \E entry \in EntriesAt(s.pos) :
                   b.rec = [file_offset |-> size_t(2 * entry.offset),
                            record_size |-> size_t(2 * entry.len)]
<1>1. PICK c \in CallState : c = Call(s, rec, budget)
  BY NewCallFacts
<1>2. c.rc = -1 /\ c.stream = s /\ c.start = s.pos /\ s.pos \in Nat
  BY <1>1, NewCallFacts DEF Stream
<1>3. PICK h \in file_fread(c, EntrySize) : b \in AfterEntry(h)
  BY <1>1 DEF read_record
<1>4. EntrySize \in Nat /\ EntrySize > 0
  BY DEF EntrySize
<1>5. /\ h \in CallState /\ h.start = s.pos
      /\ h.nr \in 0 .. EntrySize
      /\ h.stream.pos = s.pos + h.nr
      /\ h.nr > 0 => h.stream.pos <= index.size
  BY <1>2, <1>4, FileFreadFacts
<1>6. CASE b = Ended(h)
  BY <1>5, <1>6, NotFoundFacts
<1>7. CASE \E message \in Messages \ {NoMessage} : b = Verdict(Unread(h), message)
  <2>1. PICK message \in Messages \ {NoMessage} : b = Verdict(Unread(h), message)
    BY <1>7
  <2>2. Unread(h) \in CallState /\ Unread(h).start = s.pos
    BY <1>5, NotFoundFacts
  <2>3. b \in CallState /\ b.start = s.pos /\ b.rc = -1
    BY <2>1, <2>2, VerdictFacts
  <2>. QED
    BY <2>3
<1>8. CASE /\ h.nr = EntrySize
           /\ \E entry \in EntriesAt(h.start) : b = Verdict(Found(h, entry), EntryMessage(entry))
  <2>1. PICK entry \in EntriesAt(h.start) : b = Verdict(Found(h, entry), EntryMessage(entry))
    BY <1>8
  <2>2. entry \in Entry
    BY EntriesAtFacts
  <2>3. PICK message \in Messages : message = EntryMessage(entry)
    BY DEF EntryMessage, Messages, NoMessage
  <2>4. PICK d \in CallState : d = Found(h, entry)
    BY <1>5, <2>2, FoundFacts
  <2>5. /\ d.start = s.pos
        /\ d.rec = [file_offset |-> size_t(2 * entry.offset),
                    record_size |-> size_t(2 * entry.len)]
    BY <1>5, <2>2, <2>4, FoundFacts
  <2>6. b \in CallState /\ b.start = s.pos /\ b.rec = d.rec
    BY <2>1, <2>3, <2>4, <2>5, VerdictFacts
  <2>7. s.pos + EntrySize <= index.size
    BY <1>4, <1>5, <1>8
  <2>. QED
    BY <1>5, <2>1, <2>5, <2>6, <2>7
<1>9. {"cannot_read_index_record", "expected_index_record"} \subseteq Messages \ {NoMessage}
  BY DEF Messages, NoMessage
<1>. QED
  BY <1>3, <1>6, <1>7, <1>8, <1>9 DEF AfterEntry

(* shp_read_header returns the record it was given.                        *)
LEMMA ReadHeaderFacts ==
  ASSUME index \in Indexes,
         NEW s \in Stream, NEW rec \in ShxRecord, NEW budget \in Nat,
         NEW b \in shx_read_header(Call(s, rec, budget))
  PROVE  b \in CallState
<1>1. PICK c \in CallState : c = Call(s, rec, budget)
  BY NewCallFacts
<1>2. PICK h \in file_fread(c, HeaderSize) : b = Verdict(h, HeaderMessage(h))
  BY <1>1 DEF shx_read_header
<1>3. HeaderSize \in Nat
  BY DEF HeaderSize
<1>4. h \in CallState
  BY <1>3, FileFreadFacts
<1>5. PICK message \in Messages : message = HeaderMessage(h)
  BY DEF HeaderMessage, Messages, NoMessage
<1>. QED
  BY <1>2, <1>4, <1>5, VerdictFacts

-----------------------------------------------------------------------------
(* What a step leaves in the handle has the right type.                    *)
HandleOK ==
  /\ stream \in Stream
  /\ error \in Messages
  /\ got \in [rc : {-1, 0, 1}, rec : ShxRecord, start : Nat]
  /\ faults \in Nat

(* What a call leaves in the handle, by what it came to.                   *)
LEMMA DoneFacts ==
  ASSUME error \in Messages, NEW b \in CallState, Done(b)
  PROVE  /\ HandleOK'
         /\ got'.rc = b.rc /\ got'.rec = b.rec /\ got'.start = b.start
         /\ b.rc \in {-1, 0, 1}
<1>1. /\ b.stream \in Stream /\ b.message \in Messages /\ b.faults \in Nat
      /\ b.rc \in {-1, 0, 1} /\ b.rec \in ShxRecord /\ b.start \in Nat
  BY DEF CallState
<1>. QED
  BY <1>1 DEF Done, HandleOK

(* shx_seek_record: with a result of 1, the number was not too big and the *)
(* entry was read where it should be.                                      *)
LEMMA SeekFacts ==
  ASSUME TypeOK, NEW n \in Nat, NEW b \in shx_seek_record(n)
  PROVE  /\ b \in CallState
         /\ b.rc = 1 =>
              /\ n <= LargestNumber
              /\ file_offset(n) + EntrySize <= index.size
              /\ \E entry \in EntriesAt(file_offset(n)) :
                   b.rec = [file_offset |-> size_t(2 * entry.offset),
                            record_size |-> size_t(2 * entry.len)]
<1>1. /\ index \in Indexes /\ stream \in Stream /\ faults \in Nat
      /\ got.rec \in ShxRecord /\ LargestNumber \in Nat
  BY ShxReaderAssumption DEF TypeOK
<1>2. CASE \E s \in Stream, budget \in Nat, message \in Messages \ {NoMessage} :
             b = Verdict(Call(s, got.rec, budget), message)
  <2>1. PICK s \in Stream, budget \in Nat, message \in Messages \ {NoMessage} :
          b = Verdict(Call(s, got.rec, budget), message)
    BY <1>2
  <2>2. Call(s, got.rec, budget) \in CallState
    BY <1>1, NewCallFacts
  <2>. QED
    BY <2>1, <2>2, VerdictFacts
<1>3. CASE n <= LargestNumber /\ b \in seek_and_read(n)
  <2>1. PICK p \in fsetpos(stream, file_offset(n), faults) :
          b \in IF p.rc = 0
                THEN read_record(Call(p.stream, got.rec, faults - p.fault))
                ELSE {Verdict(Call(p.stream, got.rec, faults - p.fault),
                              "cannot_set_file_position")}
    BY <1>3 DEF seek_and_read
  <2>2. file_offset(n) \in Nat
    BY ShxReaderAssumption DEF file_offset, size_t, EntrySize, HeaderSize
  <2>3. /\ p.stream \in Stream /\ faults - p.fault \in Nat
        /\ p.rc = 0 => p.stream.pos = file_offset(n)
    BY <1>1, <2>2, FsetposFacts
  <2>4. CASE p.rc = 0
    <3>1. b \in read_record(Call(p.stream, got.rec, faults - p.fault))
      BY <2>1, <2>4
    <3>. QED
      BY <1>1, <1>3, <2>3, <2>4, <3>1, ReadRecordFacts
  <2>5. CASE p.rc # 0
    <3>1. b = Verdict(Call(p.stream, got.rec, faults - p.fault), "cannot_set_file_position")
      BY <2>1, <2>5
    <3>2. "cannot_set_file_position" \in Messages \ {NoMessage}
      BY DEF Messages, NoMessage
    <3>. QED
      BY <1>2, <2>3, <3>1, <3>2
  <2>. QED
    BY <2>4, <2>5
<1>4. "record_number_is_too_big" \in Messages \ {NoMessage}
  BY DEF Messages, NoMessage
<1>. QED
  BY <1>1, <1>2, <1>3, <1>4 DEF shx_seek_record

-----------------------------------------------------------------------------
(* A step that reads for no number, one that seeks, and one that does not  *)
(* read at all.                                                            *)
ReadsInOrder == asked' = -1 /\ \E b \in CallState : Done(b)

Seeks ==
  \E n \in RecordNumbers : asked' = n /\ \E b \in shx_seek_record(n) : Done(b)

ReadsNothing ==
  /\ UNCHANGED <<stream, got, asked, faults>>
  /\ error' \in {error, "set_by_program"}

(* Every step of the reader, or of a program that uses it, is one of them. *)
LEMMA StepReads ==
  ASSUME TypeOK, Next
  PROVE  index' = index /\ (ReadsInOrder \/ Seeks \/ ReadsNothing)
<1>1. /\ index \in Indexes /\ stream \in Stream /\ faults \in Nat
      /\ got.rec \in ShxRecord /\ NoRecord \in ShxRecord
  BY DEF TypeOK, NoRecord, ShxRecord
<1>2. CASE ReadHeader \/ BeginRead
  <2>1. PICK b \in shx_read_header(Call(stream, got.rec, faults)) : Done(b)
    BY <1>2 DEF ReadHeader, BeginRead
  <2>2. b \in CallState
    BY <1>1, <2>1, ReadHeaderFacts
  <2>. QED
    BY <1>2, <2>1, <2>2 DEF ReadHeader, BeginRead, ReadsInOrder
<1>3. CASE ReadRecord \/ NextRecord
  <2>1. PICK rec \in ShxRecord : \E b \in read_record(Call(stream, rec, faults)) : Done(b)
    BY <1>1, <1>3 DEF ReadRecord, NextRecord
  <2>2. PICK b \in read_record(Call(stream, rec, faults)) : Done(b)
    BY <2>1
  <2>3. b \in CallState
    BY <1>1, <2>2, ReadRecordFacts
  <2>. QED
    BY <1>3, <2>2, <2>3 DEF ReadRecord, NextRecord, ReadsInOrder
<1>4. CASE \E n \in RecordNumbers : SeekRecord(n)
  BY <1>4 DEF SeekRecord, Seeks
<1>5. CASE SetError
  BY <1>5 DEF SetError, ReadsNothing
<1>6. CASE \E answer \in {-1, 0, 1} : Callback(answer)
  BY <1>6 DEF Callback, ReadsNothing
<1>. QED
  BY <1>2, <1>3, <1>4, <1>5, <1>6 DEF Next, Reading

(* The part of the state that is shx_read's own and the program's.         *)
ControlOK ==
  /\ at \in {"caller", "header_cb", "record_cb", "loop"}
  /\ out \in [op : {"none", "header", "record", "seek", "read", "callback"}, rc : {-1, 0, 1}]

(* What a call returns to the program.                                     *)
LEMMA ReturnFacts ==
  ASSUME NEW op \in {"none", "header", "record", "seek", "read", "callback"},
         NEW rc \in {-1, 0, 1}, Return(op, rc)
  PROVE  out' \in [op : {"none", "header", "record", "seek", "read", "callback"},
                   rc : {-1, 0, 1}]
BY DEF Return

(* Every step keeps the types of shx_read's and the program's state.       *)
LEMMA ControlStep ==
  ASSUME TypeOK, Next
  PROVE  ControlOK'
<1>1. /\ index \in Indexes /\ stream \in Stream /\ faults \in Nat
      /\ got.rec \in ShxRecord /\ NoRecord \in ShxRecord
      /\ ControlOK
  BY DEF TypeOK, NoRecord, ShxRecord, ControlOK
<1>2. CASE ReadHeader \/ BeginRead
  <2>1. PICK b \in shx_read_header(Call(stream, got.rec, faults)) :
          \/ Return("header", b.rc) /\ at' = at
          \/ at' = "header_cb" /\ out' = out
          \/ at' = "caller" /\ Return("read", b.rc)
    BY <1>2 DEF ReadHeader, BeginRead
  <2>2. b.rc \in {-1, 0, 1}
    BY <1>1, <2>1, ReadHeaderFacts DEF CallState
  <2>. QED
    BY <1>1, <2>1, <2>2, ReturnFacts DEF ControlOK
<1>3. CASE ReadRecord \/ NextRecord
  <2>1. PICK rec \in ShxRecord : \E b \in read_record(Call(stream, rec, faults)) :
          \/ Return("record", b.rc) /\ at' = at
          \/ at' = "record_cb" /\ out' = out
          \/ at' = "caller" /\ Return("read", b.rc)
    BY <1>1, <1>3 DEF ReadRecord, NextRecord
  <2>2. PICK b \in read_record(Call(stream, rec, faults)) :
          \/ Return("record", b.rc) /\ at' = at
          \/ at' = "record_cb" /\ out' = out
          \/ at' = "caller" /\ Return("read", b.rc)
    BY <2>1
  <2>3. b.rc \in {-1, 0, 1}
    BY <1>1, <2>2, ReadRecordFacts DEF CallState
  <2>. QED
    BY <1>1, <2>2, <2>3, ReturnFacts DEF ControlOK
<1>4. CASE \E n \in RecordNumbers : SeekRecord(n)
  <2>1. PICK n \in RecordNumbers : SeekRecord(n)
    BY <1>4
  <2>2. PICK b \in shx_seek_record(n) : Return("seek", b.rc)
    BY <2>1 DEF SeekRecord
  <2>3. n \in Nat
    BY ShxReaderAssumption
  <2>4. b.rc \in {-1, 0, 1}
    BY <2>2, <2>3, SeekFacts DEF CallState
  <2>. QED
    BY <1>1, <2>1, <2>2, <2>4, ReturnFacts DEF ControlOK, SeekRecord
<1>5. CASE SetError
  BY <1>1, <1>5 DEF SetError, ControlOK
<1>6. CASE \E answer \in {-1, 0, 1} : Callback(answer)
  BY <1>1, <1>6, ReturnFacts DEF Callback, ControlOK
<1>. QED
  BY <1>2, <1>3, <1>4, <1>5, <1>6 DEF Next, Reading

(* Every step keeps the types of the whole state.                          *)
LEMMA TypeStep ==
  ASSUME TypeOK, Next
  PROVE  TypeOK'
<1>1. index' \in Indexes /\ ControlOK'
  BY StepReads, ControlStep DEF TypeOK
<1>2. HandleOK' /\ asked' \in Nat \cup {-1}
  <2>1. CASE ReadsInOrder
    BY <2>1, DoneFacts DEF ReadsInOrder, TypeOK
  <2>2. CASE Seeks
    <3>1. PICK n \in RecordNumbers : asked' = n /\ \E b \in shx_seek_record(n) : Done(b)
      BY <2>2 DEF Seeks
    <3>2. n \in Nat
      BY ShxReaderAssumption
    <3>3. PICK b \in CallState : Done(b)
      BY <3>1, <3>2, SeekFacts
    <3>. QED
      BY <3>1, <3>2, <3>3, DoneFacts DEF TypeOK
  <2>3. CASE ReadsNothing
    BY <2>3 DEF ReadsNothing, TypeOK, HandleOK, Messages
  <2>. QED
    BY <2>1, <2>2, <2>3, StepReads
<1>. QED
  BY <1>1, <1>2 DEF TypeOK, HandleOK, ControlOK

(* The initial state has its type.                                         *)
LEMMA TypeInit == Init => TypeOK
<1>1. MaxFaults \in Nat /\ NoMessage \in Messages /\ Opened \in Stream
  BY ShxReaderAssumption DEF Messages, Opened, Stream
<1>2. NoRecord \in ShxRecord
  BY DEF NoRecord, ShxRecord
<1>. QED
  BY <1>1, <1>2 DEF Init, TypeOK

(***************************************************************************)
(* The reader's state has its type, for every index, every place where the *)
(* file ends, and every call of the operating system that fails.           *)
(***************************************************************************)
THEOREM TypeCorrect == Spec => []TypeOK
<1>1. TypeOK /\ UNCHANGED vars => TypeOK'
  BY DEF TypeOK, vars
<1>. QED
  BY <1>1, TypeInit, TypeStep, PTL DEF Spec

-----------------------------------------------------------------------------
(* No product wraps in a size_t that is wide enough.                       *)
LEMMA NoWrap ==
  ASSUME NEW n \in Nat, n < SizeModulus
  PROVE  size_t(n) = n
BY ShxReaderAssumption DEF size_t

(* Eight bytes that are in the file, where entry n should be, are entry n. *)
LEMMA EntryAtNumber ==
  ASSUME WideSize, index \in Indexes, NEW n \in Nat, n <= LargestNumber,
         file_offset(n) + EntrySize <= index.size,
         NEW entry \in EntriesAt(file_offset(n))
  PROVE  n < Len(index.entries) /\ entry = index.entries[n + 1]
<1>1. /\ index.size \in Nat /\ Len(index.entries) \in Nat
      /\ index.size <= EntryStart(Len(index.entries) + 1)
      /\ LargestNumber \in Nat /\ SizeModulus \in Nat
  BY ShxReaderAssumption DEF IsIndex
<1>2. file_offset(n) = n * 8 + 100
  BY <1>1, NoWrap DEF WideSize, file_offset, EntrySize, HeaderSize
<1>3. n < Len(index.entries)
  BY <1>1, <1>2 DEF EntryStart, EntrySize, HeaderSize
<1>4. n + 1 \in 1 .. Len(index.entries) /\ EntryStart(n + 1) = file_offset(n)
  BY <1>1, <1>2, <1>3 DEF EntryStart, EntrySize, HeaderSize
<1>5. \A i \in 1 .. Len(index.entries) : EntryStart(i) = file_offset(n) => i = n + 1
  BY <1>1, <1>2 DEF EntryStart, EntrySize, HeaderSize
<1>. QED
  BY <1>3, <1>4, <1>5 DEF EntriesAt

(* Every step leaves the answer to the number that was asked for.          *)
LEMMA NumberStep ==
  ASSUME WideSize, TypeOK, SeekFindsNumber, Next
  PROVE  SeekFindsNumber'
<1>1. index' = index /\ index \in Indexes
  BY StepReads DEF TypeOK
<1>2. CASE ReadsInOrder
  BY <1>2 DEF ReadsInOrder, SeekFindsNumber
<1>3. CASE Seeks
  <2>1. SUFFICES ASSUME got'.rc = 1
                 PROVE  /\ asked' < Len(index.entries)
                        /\ got'.rec = InBytes(index.entries[asked' + 1])
    BY <1>1 DEF SeekFindsNumber
  <2>2. PICK n \in RecordNumbers : asked' = n /\ \E b \in shx_seek_record(n) : Done(b)
    BY <1>3 DEF Seeks
  <2>3. n \in Nat
    BY ShxReaderAssumption
  <2>4. PICK b \in shx_seek_record(n) : Done(b)
    BY <2>2
  <2>5. b \in CallState
    BY <2>3, <2>4, SeekFacts
  <2>6. b.rc = 1 /\ got'.rec = b.rec
    BY <2>1, <2>4, <2>5, DoneFacts DEF TypeOK
  <2>7. n <= LargestNumber /\ file_offset(n) + EntrySize <= index.size
    BY <2>3, <2>4, <2>6, SeekFacts
  <2>8. PICK entry \in EntriesAt(file_offset(n)) :
          b.rec = [file_offset |-> size_t(2 * entry.offset),
                   record_size |-> size_t(2 * entry.len)]
    BY <2>3, <2>4, <2>6, SeekFacts
  <2>9. n < Len(index.entries) /\ entry = index.entries[n + 1]
    BY <1>1, <2>3, <2>7, EntryAtNumber
  <2>10. entry \in Entry /\ 2 * entry.offset < SizeModulus /\ 2 * entry.len < SizeModulus
    <3>1. n + 1 \in 1 .. Len(index.entries)
      BY <2>3, <2>9, <1>1, ShxReaderAssumption DEF IsIndex
    <3>. QED
      BY <1>1, <2>9, <3>1, EntriesAtFacts DEF WideSize
  <2>11. size_t(2 * entry.offset) = 2 * entry.offset /\ size_t(2 * entry.len) = 2 * entry.len
    BY <2>10, NoWrap DEF Entry
  <2>. QED
    BY <2>2, <2>6, <2>8, <2>9, <2>11 DEF InBytes
<1>4. CASE ReadsNothing
  BY <1>1, <1>4 DEF ReadsNothing, SeekFindsNumber
<1>. QED
  BY <1>2, <1>3, <1>4, StepReads

(***************************************************************************)
(* shx_seek_record delivers the entry with the number it was asked for, if *)
(* size_t is wide enough: from any position, in callbacks of shx_read, and *)
(* after calls that failed.                                                *)
(***************************************************************************)
THEOREM SeeksFindNumbers ==
  ASSUME WideSize
  PROVE  Spec => []SeekFindsNumber
<1>1. Init => SeekFindsNumber
  BY DEF Init, SeekFindsNumber
<1>2. SeekFindsNumber /\ UNCHANGED vars => SeekFindsNumber'
  BY DEF SeekFindsNumber, vars
<1>3. TypeOK /\ SeekFindsNumber /\ [Next]_vars => SeekFindsNumber'
  BY <1>2, NumberStep
<1>. QED
  BY <1>1, <1>3, TypeCorrect, PTL DEF Spec

-----------------------------------------------------------------------------
(* A read of the file without a fault stops only where the file ends.      *)
Plain(c, b, count) ==
  LET pos == c.stream.pos
  IN  /\ b.faults = c.faults
      /\ ferror(b.stream) <=> ferror(c.stream)
      /\ pos + count <= index.size =>
           b.stream.pos = pos + count /\ b.nr = count /\ (feof(b.stream) <=> feof(c.stream))
      /\ pos + count > index.size =>
           /\ b.stream.pos = IF pos < index.size THEN index.size ELSE pos
           /\ b.nr # count /\ feof(b.stream)

(* A read of the file with a fault.                                        *)
Faulty(c, b) ==
  /\ c.faults > 0
  /\ b.faults = c.faults - 1
  /\ ferror(b.stream)
  /\ feof(b.stream) <=> feof(c.stream)

(* The end-of-file indicator is set only where the file has ended.         *)
EndIsEnd(s) == feof(s) => s.pos >= index.size

(* file_fread is one or the other, and sets no indicator too early.        *)
LEMMA FileFreadOutcomes ==
  ASSUME index \in Indexes, NEW c \in CallState, NEW count \in Nat, count > 0,
         NEW b \in file_fread(c, count)
  PROVE  /\ Plain(c, b, count) \/ Faulty(c, b)
         /\ EndIsEnd(c.stream) => EndIsEnd(b.stream)
<1>1. /\ c.stream \in Stream /\ c.faults \in Nat /\ c.stream.pos \in Nat
      /\ index.size \in Nat
  BY ShxReaderAssumption DEF CallState, IsIndex, Stream
<1>2. PICK r \in fread(c.stream, index.size, count, c.faults) :
        b = [c EXCEPT !.stream = r.stream, !.nr = r.nr, !.faults = c.faults - r.fault]
  BY DEF file_fread
<1>3. /\ b.stream = r.stream /\ b.nr = r.nr /\ b.faults = c.faults - r.fault
  BY <1>2 DEF CallState
<1>4. /\ r.nr \in 0 .. count
      /\ r.stream.pos = c.stream.pos + r.nr
      /\ r.fault \in Nat /\ r.fault <= c.faults
  BY <1>1, FreadFacts
<1>5. \/ /\ r.fault = 0
         /\ ferror(r.stream) <=> ferror(c.stream)
         /\ r.nr = IF count <= Available(c.stream, index.size)
                   THEN count ELSE Available(c.stream, index.size)
         /\ feof(r.stream) <=> feof(c.stream) \/ r.nr < count
      \/ /\ r.fault = 1 /\ ferror(r.stream)
         /\ feof(r.stream) <=> feof(c.stream)
  BY <1>1, FreadOutcomes
<1>6. Plain(c, b, count) \/ Faulty(c, b)
  <2>1. CASE r.fault = 1 /\ ferror(r.stream) /\ (feof(r.stream) <=> feof(c.stream))
    BY <1>1, <1>3, <1>4, <2>1 DEF Faulty
  <2>2. CASE /\ r.fault = 0
             /\ ferror(r.stream) <=> ferror(c.stream)
             /\ r.nr = IF count <= Available(c.stream, index.size)
                       THEN count ELSE Available(c.stream, index.size)
             /\ feof(r.stream) <=> feof(c.stream) \/ r.nr < count
    <3>1. b.faults = c.faults
      BY <1>1, <1>3, <2>2
    <3>2. CASE c.stream.pos + count <= index.size
      <4>1. r.nr = count
        BY <1>1, <2>2, <3>2 DEF Available
      <4>. QED
        BY <1>1, <1>3, <1>4, <2>2, <3>1, <3>2, <4>1 DEF Plain
    <3>3. CASE c.stream.pos + count > index.size
      <4>1. r.nr = (IF c.stream.pos < index.size THEN index.size - c.stream.pos ELSE 0)
            /\ r.nr < count
        BY <1>1, <2>2, <3>3 DEF Available
      <4>. QED
        BY <1>1, <1>3, <1>4, <2>2, <3>1, <3>3, <4>1 DEF Plain
    <3>. QED
      BY <1>1, <3>2, <3>3
  <2>. QED
    BY <1>5, <2>1, <2>2
<1>7. EndIsEnd(c.stream) => EndIsEnd(b.stream)
  BY <1>1, <1>3, <1>4, <1>6 DEF Plain, Faulty, EndIsEnd
<1>. QED
  BY <1>6, <1>7

(* A call that fails because the system did, now or before.                *)
Failing(s, budget, b) ==
  /\ b.rc = -1
  /\ ferror(s) => ferror(b.stream)
  /\ \/ budget > 0 /\ b.faults = budget - 1
     \/ ferror(s) /\ b.faults = budget

(* A call that neither met a fault nor remembers one.                      *)
Undisturbed(s, budget, b) ==
  /\ b.faults = budget
  /\ ~ferror(s)
  /\ ~ferror(b.stream)

(* What becomes of an undisturbed read_record at a position.               *)
ByPosition(pos, b) ==
  \/ /\ pos + EntrySize > index.size
     /\ b.rc = 0
     /\ b.stream.pos = IF pos < index.size THEN index.size ELSE pos
  \/ /\ pos + EntrySize <= index.size
     /\ b.stream.pos = pos + EntrySize
     /\ \E entry \in EntriesAt(pos) :
          /\ b.rc = (IF EntryMessage(entry) = NoMessage THEN 1 ELSE -1)
          /\ b.rec = [file_offset |-> size_t(2 * entry.offset),
                      record_size |-> size_t(2 * entry.len)]

(***************************************************************************)
(* read_record, where the end-of-file indicator is right: it fails because *)
(* the system does, or what the file holds there decides.                  *)
(***************************************************************************)
LEMMA RecordOutcomes ==
  ASSUME index \in Indexes,
         NEW s \in Stream, NEW rec \in ShxRecord, NEW budget \in Nat, EndIsEnd(s),
         NEW b \in read_record(Call(s, rec, budget))
  PROVE  /\ EndIsEnd(b.stream)
         /\ \/ Failing(s, budget, b)
            \/ Undisturbed(s, budget, b) /\ ByPosition(s.pos, b)
<1>1. PICK c \in CallState : c = Call(s, rec, budget)
  BY NewCallFacts
<1>2. c.stream = s /\ c.faults = budget /\ c.rc = -1
  BY <1>1, NewCallFacts
<1>3. PICK h \in file_fread(c, EntrySize) : b \in AfterEntry(h)
  BY <1>1 DEF read_record
<1>4. EntrySize \in Nat /\ EntrySize > 0
  BY DEF EntrySize
<1>5. h \in CallState /\ h.rc = -1 /\ h.start = s.pos
  BY <1>1, <1>2, <1>4, FileFreadFacts, NewCallFacts
<1>6. EndIsEnd(h.stream) /\ (Plain(c, h, EntrySize) \/ Faulty(c, h))
  BY <1>2, <1>4, FileFreadOutcomes
<1>7. s.pos \in Nat /\ index.size \in Nat
  BY ShxReaderAssumption DEF Stream, IsIndex
<1>8. CASE ferror(h.stream)
  <2>1. PICK message \in Messages \ {NoMessage} : b = Verdict(Unread(h), message)
    BY <1>3, <1>8 DEF AfterEntry, Messages, NoMessage
  <2>2. PICK d \in CallState : d = Unread(h) /\ d.stream = h.stream /\ d.faults = h.faults
    BY <1>5, NotFoundFacts DEF Unread, CallState
  <2>3. b.rc = -1 /\ b.stream = h.stream /\ b.faults = h.faults
    BY <2>1, <2>2, VerdictFacts
  <2>. QED
    BY <1>2, <1>6, <1>8, <2>3 DEF Plain, Faulty, Failing
<1>9. CASE ~ferror(h.stream) /\ s.pos + EntrySize > index.size
  <2>1. /\ h.faults = budget /\ feof(h.stream) /\ ~ferror(s)
        /\ h.stream.pos = IF s.pos < index.size THEN index.size ELSE s.pos
    BY <1>2, <1>6, <1>9 DEF Plain, Faulty
  <2>2. b = Ended(h)
    BY <1>3, <1>9, <2>1 DEF AfterEntry
  <2>3. b.rc = 0 /\ b.stream = h.stream /\ b.faults = h.faults
    BY <1>5, <2>2 DEF Ended, CallState
  <2>. QED
    BY <1>6, <1>9, <2>1, <2>3 DEF Undisturbed, ByPosition
<1>10. CASE ~ferror(h.stream) /\ s.pos + EntrySize <= index.size
  <2>1. /\ h.faults = budget /\ h.nr = EntrySize /\ h.stream.pos = s.pos + EntrySize
        /\ feof(h.stream) <=> feof(s)
        /\ ~ferror(s)
    BY <1>2, <1>6, <1>10 DEF Plain, Faulty
  <2>2. ~feof(h.stream)
    BY <1>4, <1>7, <1>10, <2>1 DEF EndIsEnd
  <2>3. PICK entry \in EntriesAt(s.pos) : b = Verdict(Found(h, entry), EntryMessage(entry))
    BY <1>3, <1>5, <1>10, <2>1, <2>2 DEF AfterEntry
  <2>4. entry \in Entry
    BY EntriesAtFacts
  <2>5. PICK d \in CallState :
          /\ d = Found(h, entry) /\ d.stream = h.stream /\ d.faults = h.faults
          /\ d.rec = [file_offset |-> size_t(2 * entry.offset),
                      record_size |-> size_t(2 * entry.len)]
    BY <1>5, <2>4, FoundFacts DEF Found, CallState
  <2>6. PICK message \in Messages : message = EntryMessage(entry)
    BY DEF EntryMessage, Messages, NoMessage
  <2>7. /\ b.stream = h.stream /\ b.faults = h.faults
        /\ b.rec = d.rec
    BY <2>3, <2>5, <2>6, VerdictFacts
  <2>8. b.rc = IF EntryMessage(entry) = NoMessage THEN 1 ELSE -1
    BY <2>3, <2>5 DEF Verdict, CallState
  <2>9. ByPosition(s.pos, b)
    BY <1>10, <2>1, <2>5, <2>7, <2>8 DEF ByPosition
  <2>. QED
    BY <1>6, <1>10, <2>1, <2>7, <2>9 DEF Undisturbed
<1>. QED
  BY <1>4, <1>7, <1>8, <1>9, <1>10

(* shx_read_header at the beginning of the file, in the same way.          *)
LEMMA HeaderOutcomes ==
  ASSUME index \in Indexes,
         NEW s \in Stream, NEW rec \in ShxRecord, NEW budget \in Nat, EndIsEnd(s), s.pos = 0,
         NEW b \in shx_read_header(Call(s, rec, budget))
  PROVE  /\ b \in CallState /\ b.start = 0
         /\ EndIsEnd(b.stream)
         /\ b.rc \in {-1, 1}
         /\ \/ Failing(s, budget, b)
            \/ /\ Undisturbed(s, budget, b)
               /\ \/ b.stream.pos = HeaderSize /\ HeaderSize <= index.size
                  \/ b.stream.pos = index.size /\ index.size < HeaderSize /\ b.rc = -1
<1>1. PICK c \in CallState : c = Call(s, rec, budget)
  BY NewCallFacts
<1>2. c.stream = s /\ c.faults = budget /\ c.start = 0
  BY <1>1, NewCallFacts
<1>3. PICK h \in file_fread(c, HeaderSize) : b = Verdict(h, HeaderMessage(h))
  BY <1>1 DEF shx_read_header
<1>4. HeaderSize \in Nat /\ HeaderSize > 0 /\ index.size \in Nat
  BY ShxReaderAssumption DEF HeaderSize, IsIndex
<1>5. h \in CallState /\ h.start = 0
  BY <1>2, <1>4, FileFreadFacts
<1>6. /\ Plain(c, h, HeaderSize) \/ Faulty(c, h)
      /\ EndIsEnd(h.stream)
  BY <1>2, <1>4, FileFreadOutcomes
<1>7. PICK message \in Messages : message = HeaderMessage(h)
  BY DEF HeaderMessage, Messages, NoMessage
<1>8. /\ b \in CallState /\ b.start = 0
      /\ b.stream = h.stream /\ b.faults = h.faults
      /\ message # NoMessage => b.rc = -1
  BY <1>3, <1>5, <1>7, VerdictFacts
<1>9. b.rc \in {-1, 1}
  BY <1>3, <1>5 DEF Verdict, CallState
<1>10. ferror(h.stream) \/ h.nr # HeaderSize => message # NoMessage
  BY <1>7 DEF HeaderMessage, NoMessage
<1>11. CASE ferror(h.stream)
  BY <1>2, <1>6, <1>8, <1>9, <1>10, <1>11 DEF Plain, Faulty, Failing
<1>12. CASE ~ferror(h.stream)
  <2>1. Plain(c, h, HeaderSize)
    BY <1>6, <1>12 DEF Faulty
  <2>2. Undisturbed(s, budget, b)
    BY <1>2, <1>8, <1>12, <2>1 DEF Plain, Undisturbed
  <2>. QED
    BY <1>2, <1>4, <1>6, <1>8, <1>9, <1>10, <2>1, <2>2 DEF Plain
<1>. QED
  BY <1>11, <1>12

(* Reading moves the stream on.                                            *)
LEMMA ReadOnward ==
  ASSUME index \in Indexes,
         NEW s \in Stream, NEW rec \in ShxRecord, NEW budget \in Nat, s.pos > 0,
         NEW b \in read_record(Call(s, rec, budget))
  PROVE  b.stream.pos > 0
<1>1. PICK c \in CallState : c = Call(s, rec, budget)
  BY NewCallFacts
<1>2. c.stream = s /\ s.pos \in Nat
  BY <1>1, NewCallFacts DEF Stream
<1>3. PICK h \in file_fread(c, EntrySize) : b \in AfterEntry(h)
  BY <1>1 DEF read_record
<1>4. EntrySize \in Nat
  BY DEF EntrySize
<1>5. h \in CallState /\ h.stream.pos = s.pos + h.nr /\ h.nr \in 0 .. EntrySize
  BY <1>2, <1>4, FileFreadFacts
<1>6. ASSUME NEW d \in CallState, NEW message
      PROVE  Verdict(d, message).stream = d.stream
  BY DEF Verdict, CallState
<1>7. b.stream = h.stream
  <2>1. CASE b = Ended(h) \/ \E message : b = Verdict(Unread(h), message)
    BY <1>5, <1>6, <2>1, NotFoundFacts
  <2>2. CASE \E entry \in EntriesAt(h.start) :
               b = Verdict(Found(h, entry), EntryMessage(entry))
    <3>1. PICK entry \in EntriesAt(h.start) : b = Verdict(Found(h, entry), EntryMessage(entry))
      BY <2>2
    <3>2. Found(h, entry) \in CallState /\ Found(h, entry).stream = h.stream
      BY <1>5, EntriesAtFacts, FoundFacts
    <3>. QED
      BY <1>6, <3>1, <3>2
  <2>. QED
    BY <1>3, <2>1, <2>2 DEF AfterEntry
<1>. QED
  BY <1>2, <1>4, <1>5, <1>7

(* long holds the offset of every entry, as a long of 64 bits does.        *)
WideLong == EntrySize * LargestNumber + HeaderSize <= LongMax

(***************************************************************************)
(* shx_seek_record: a number that is too big changes nothing; for another  *)
(* the call fails because the system does, or what the file holds where    *)
(* the entry should be decides.                                            *)
(***************************************************************************)
LEMMA SeekOutcomes ==
  ASSUME WideSize, WideLong, TypeOK, EndIsEnd(stream),
         NEW n \in Nat, NEW b \in shx_seek_record(n)
  PROVE  /\ EndIsEnd(b.stream)
         /\ stream.pos > 0 => b.stream.pos > 0
         /\ \/ n > LargestNumber /\ b.rc = -1 /\ b.stream = stream /\ b.faults = faults
            \/ Failing(stream, faults, b)
            \/ /\ n <= LargestNumber
               /\ Undisturbed(stream, faults, b)
               /\ ByPosition(EntryStart(n + 1), b) /\ b.start = EntryStart(n + 1)
<1>1. /\ index \in Indexes /\ stream \in Stream /\ faults \in Nat
      /\ got.rec \in ShxRecord /\ LargestNumber \in Nat
      /\ SizeModulus \in Nat /\ LongMax \in Nat
  BY ShxReaderAssumption, FileStreamAssumption DEF TypeOK
<1>2. ASSUME NEW s \in Stream, NEW budget \in Nat, NEW message \in Messages \ {NoMessage},
             b = Verdict(Call(s, got.rec, budget), message)
      PROVE  b.rc = -1 /\ b.stream = s /\ b.faults = budget
  <2>1. PICK c \in CallState : c = Call(s, got.rec, budget)
    BY <1>1, NewCallFacts
  <2>2. c.stream = s /\ c.faults = budget
    BY <1>1, <2>1, NewCallFacts
  <2>. QED
    BY <1>2, <2>1, <2>2, VerdictFacts
<1>3. CASE n > LargestNumber
  <2>1. "record_number_is_too_big" \in Messages \ {NoMessage}
    BY DEF Messages, NoMessage
  <2>. QED
    BY <1>1, <1>2, <1>3, <2>1 DEF shx_seek_record
<1>4. CASE n <= LargestNumber
  <2>1. PICK p \in fsetpos(stream, file_offset(n), faults) :
          b \in IF p.rc = 0
                THEN read_record(Call(p.stream, got.rec, faults - p.fault))
                ELSE {Verdict(Call(p.stream, got.rec, faults - p.fault),
                              "cannot_set_file_position")}
    BY <1>1, <1>4 DEF shx_seek_record, seek_and_read
  <2>2. file_offset(n) = n * 8 + 100 /\ EntryStart(n + 1) = file_offset(n)
    BY <1>1, <1>4, NoWrap DEF WideSize, file_offset, EntryStart, EntrySize, HeaderSize
  <2>3. file_offset(n) \in Nat /\ file_offset(n) <= LongMax
    BY <1>1, <1>4, <2>2 DEF WideLong, EntrySize, HeaderSize
  <2>4. p.stream \in Stream
    BY <1>1, <2>3, FsetposFacts
  <2>5. \/ /\ p.rc = 0 /\ p.fault = 0
           /\ p.stream.pos = file_offset(n) /\ ~feof(p.stream)
           /\ ferror(p.stream) <=> ferror(stream)
        \/ /\ p.rc = -1 /\ p.fault = 1 /\ faults >= 1
           /\ p.stream = stream
    BY <1>1, <2>3, FsetposOutcomes
  <2>6. CASE /\ p.rc = 0 /\ p.fault = 0
             /\ p.stream.pos = file_offset(n) /\ ~feof(p.stream)
             /\ ferror(p.stream) <=> ferror(stream)
    <3>1. b \in read_record(Call(p.stream, got.rec, faults))
      BY <1>1, <2>1, <2>6
    <3>2. /\ EndIsEnd(b.stream)
          /\ \/ Failing(p.stream, faults, b)
             \/ Undisturbed(p.stream, faults, b) /\ ByPosition(p.stream.pos, b)
      BY <1>1, <2>4, <2>6, <3>1, RecordOutcomes DEF EndIsEnd
    <3>3. b.start = p.stream.pos
      BY <1>1, <2>4, <3>1, ReadRecordFacts
    <3>4. b.stream.pos > 0
      BY <1>1, <2>2, <2>4, <2>6, <3>1, ReadOnward
    <3>. QED
      BY <1>4, <2>2, <2>6, <3>2, <3>3, <3>4 DEF Failing, Undisturbed
  <2>7. CASE p.rc = -1 /\ p.fault = 1 /\ faults >= 1 /\ p.stream = stream
    <3>1. b = Verdict(Call(p.stream, got.rec, faults - p.fault), "cannot_set_file_position")
      BY <2>1, <2>7
    <3>2. "cannot_set_file_position" \in Messages \ {NoMessage} /\ faults - p.fault \in Nat
      BY <1>1, <2>7 DEF Messages, NoMessage
    <3>3. b.rc = -1 /\ b.stream = stream /\ b.faults = faults - 1
      BY <1>1, <1>2, <2>7, <3>1, <3>2
    <3>. QED
      BY <1>1, <2>7, <3>3 DEF Failing
  <2>. QED
    BY <2>5, <2>6, <2>7
<1>. QED
  BY <1>1, <1>3, <1>4

-----------------------------------------------------------------------------
(* The entries of an index, and where they stand.                          *)
LEMMA IndexFacts ==
  ASSUME index \in Indexes
  PROVE  /\ index.size \in Nat /\ Len(index.entries) \in Nat
         /\ index.size <= EntryStart(Len(index.entries) + 1)
         /\ \A i \in Items : index.entries[i] \in Entry /\ i \in Nat /\ i >= 1
                             /\ i <= Len(index.entries)
         /\ \A i \in Nat : EntryStart(i) = 100 + 8 * (i - 1)
<1>1. IsIndex(index)
  BY ShxReaderAssumption
<1>2. index.size \in Nat /\ index.entries \in Seq(Entry) /\ Len(index.entries) \in Nat
      /\ index.size <= EntryStart(Len(index.entries) + 1)
  BY <1>1 DEF IsIndex
<1>3. \A i \in Items : index.entries[i] \in Entry /\ i \in Nat /\ i >= 1
                       /\ i <= Len(index.entries)
  BY <1>2 DEF Items
<1>. QED
  BY <1>2, <1>3 DEF EntryStart, EntrySize, HeaderSize

(* Where the cursor is.                                                    *)
CursorStands ==
  /\ curBar \in -1 .. Len(index.entries) + 1
  /\ stream.pos = 0 => curBar = -1
  /\ stream.pos > 0 =>
       /\ \A i \in Items : EntryStart(i) = stream.pos => curBar = i
       /\ (\A i \in Items : EntryStart(i) # stream.pos) =>
            curBar = IF stream.pos >= index.size THEN Len(index.entries) + 1 ELSE 0

(* What the latest answer was.                                             *)
AnswerStands ==
  /\ lastBar.item \in 0 .. Len(index.entries)
  /\ lastBar = [rc |-> got.rc, item |-> lastBar.item]
  /\ got.rc # 1 => lastBar.item = 0
  /\ got.rc = 1 =>
       /\ \A i \in Items : EntryStart(i) = got.start /\ InBytes(index.entries[i]) = got.rec =>
            lastBar.item = i
       /\ (\A i \in Items : EntryStart(i) # got.start) => lastBar.item = 0

(* They follow from the stream and from what was read last.                *)
LEMMA MappingFacts == index \in Indexes /\ stream \in Stream => CursorStands /\ AnswerStands
<1>. SUFFICES ASSUME index \in Indexes, stream \in Stream
              PROVE  CursorStands /\ AnswerStands
  OBVIOUS
<1>1. stream.pos \in Nat /\ index.size \in Nat /\ Len(index.entries) \in Nat
  BY IndexFacts DEF Stream
<1>2. \A i, j \in Items : EntryStart(i) = EntryStart(j) => i = j
  BY IndexFacts
<1>3. ASSUME NEW set, NEW i, set = {i}
      PROVE  set # {} /\ (CHOOSE j \in set : TRUE) = i
  <2>1. (CHOOSE j \in {i} : TRUE) = i
    OBVIOUS
  <2>. QED
    BY <1>3, <2>1
<1>4. CursorStands
  <2>. DEFINE here == {i \in Items : EntryStart(i) = stream.pos}
  <2>1. /\ stream.pos = 0 => curBar = -1
        /\ stream.pos > 0 /\ here # {} => curBar = CHOOSE i \in here : TRUE
        /\ stream.pos > 0 /\ here = {} =>
             curBar = IF stream.pos >= index.size THEN Len(index.entries) + 1 ELSE 0
    BY <1>1 DEF curBar
  <2>2. ASSUME NEW i \in Items, EntryStart(i) = stream.pos, stream.pos > 0
        PROVE  curBar = i
    <3>1. here = {i}
      BY <1>2, <2>2
    <3>. HIDE DEF here
    <3>. QED
      BY <1>3, <2>1, <2>2, <3>1
  <2>3. (\A i \in Items : EntryStart(i) # stream.pos) => here = {}
    OBVIOUS
  <2>4. curBar \in -1 .. Len(index.entries) + 1
    <3>1. CASE stream.pos > 0 /\ \E i \in Items : EntryStart(i) = stream.pos
      <4>1. \A i \in Items : i \in -1 .. Len(index.entries) + 1
        BY <1>1 DEF Items
      <4>. QED
        BY <2>2, <3>1, <4>1
    <3>2. CASE stream.pos > 0 /\ \A i \in Items : EntryStart(i) # stream.pos
      <4>. HIDE DEF here
      <4>. QED
        BY <1>1, <2>1, <2>3, <3>2
    <3>3. CASE stream.pos = 0
      <4>. HIDE DEF here
      <4>. QED
        BY <1>1, <2>1, <3>3
    <3>. QED
      BY <1>1, <3>1, <3>2, <3>3
  <2>. HIDE DEF here
  <2>. QED
    BY <2>1, <2>2, <2>3, <2>4 DEF CursorStands
<1>5. AnswerStands
  <2>. DEFINE here == {i \in Items : EntryStart(i) = got.start
                                     /\ InBytes(index.entries[i]) = got.rec}
  <2>1. ItemGot = IF here = {} THEN 0 ELSE CHOOSE i \in here : TRUE
    BY DEF ItemGot
  <2>2. ASSUME NEW i \in Items, EntryStart(i) = got.start, InBytes(index.entries[i]) = got.rec
        PROVE  ItemGot = i
    <3>1. here = {i}
      BY <1>2, <2>2
    <3>. HIDE DEF here
    <3>. QED
      BY <1>3, <2>1, <3>1
  <2>3. (\A i \in Items : EntryStart(i) # got.start) => here = {}
    OBVIOUS
  <2>4. here = {} \/ \E i \in Items : EntryStart(i) = got.start
                                       /\ InBytes(index.entries[i]) = got.rec
    OBVIOUS
  <2>5. ItemGot \in 0 .. Len(index.entries)
    <3>1. \A i \in Items : i \in 0 .. Len(index.entries)
      BY <1>1 DEF Items
    <3>2. 0 \in 0 .. Len(index.entries)
      BY <1>1
    <3>. HIDE DEF here
    <3>. QED
      BY <2>1, <2>2, <2>4, <3>1, <3>2
  <2>6. lastBar.item = (IF got.rc = 1 THEN ItemGot ELSE 0)
        /\ lastBar = [rc |-> got.rc, item |-> lastBar.item]
    BY DEF lastBar
  <2>7. 0 \in 0 .. Len(index.entries)
    BY <1>1
  <2>. HIDE DEF here
  <2>. QED
    BY <2>1, <2>2, <2>3, <2>5, <2>6, <2>7 DEF AnswerStands
<1>. QED
  BY <1>4, <1>5

(* So also after a step.                                                   *)
LEMMA MappingFactsNext ==
  (index \in Indexes)' /\ (stream \in Stream)' => CursorStands' /\ AnswerStands'
BY MappingFacts, PTL

(* What the entries are to the cursor, which does not change.              *)
LEMMA KindsFacts ==
  ASSUME index \in Indexes
  PROVE  /\ DOMAIN kindsBar = Items
         /\ Len(kindsBar) = Len(index.entries)
         /\ \A i \in Items : kindsBar[i] = Kind(i)
         /\ kindsBar \in Seq(Table!Kinds)
<1>1. Len(index.entries) \in Nat /\ Items = 1 .. Len(index.entries)
  BY IndexFacts DEF Items
<1>2. kindsBar \in [1 .. Len(index.entries) -> Table!Kinds]
  BY <1>1 DEF kindsBar, Kind, Table!Kinds
<1>. QED
  BY <1>1, <1>2 DEF kindsBar

(* What the cursor sees of a step that changes neither the file nor the    *)
(* stream nor the latest answer.                                           *)
LEMMA UnseenStep ==
  ASSUME UNCHANGED <<index, stream, got>>
  PROVE  UNCHANGED <<kindsBar, curBar, lastBar, ferror(stream)>>
BY DEF kindsBar, Kind, Items, curBar, lastBar, ItemGot, ferror

(* The entries stay.                                                       *)
LEMMA SameKinds ==
  ASSUME index' = index
  PROVE  kindsBar' = kindsBar /\ Items' = Items
BY DEF kindsBar, Kind, Items

(* A failing call is a failing call to the cursor, wherever it stops.      *)
LEMMA FailStep ==
  ASSUME TypeOK, TypeOK', index' = index, NEW b \in CallState, Done(b),
         Failing(stream, faults, b)
  PROVE  Table!Fail
<1>1. stream' = b.stream /\ faults' = b.faults /\ got'.rc = -1
  BY DEF Done, Failing
<1>2. CursorStands' /\ AnswerStands'
  BY MappingFactsNext DEF TypeOK
<1>3. lastBar' = [rc |-> -1, item |-> 0]
  BY <1>1, <1>2 DEF AnswerStands
<1>4. curBar' \in -1 .. Len(kindsBar) + 1
  <2>1. Len(kindsBar) = Len(index.entries)
    BY KindsFacts DEF TypeOK
  <2>. QED
    BY <1>2, <2>1 DEF CursorStands
<1>5. ferror(stream)' \in {ferror(stream), TRUE}
  <2>1. ferror(stream) => ferror(stream)'
    BY <1>1 DEF Failing, ferror
  <2>2. ferror(stream) \in BOOLEAN /\ ferror(stream)' \in BOOLEAN
    BY DEF ferror
  <2>. QED
    BY <2>1, <2>2, Zenon
<1>6. \/ faults > 0 /\ faults' = faults - 1
      \/ ferror(stream) /\ faults' = faults
  BY <1>1 DEF Failing
<1>. QED
  BY <1>3, <1>4, <1>5, <1>6, SameKinds
     DEF Table!Fail, Table!Answer, Table!Position, Table!End

(* An undisturbed call that begins where entry i is or would be.           *)
LEMMA EntryStep ==
  ASSUME WideSize, TypeOK, TypeOK', index' = index, NEW b \in CallState, Done(b),
         NEW i \in Nat, i >= 1, b.start = EntryStart(i),
         Undisturbed(stream, faults, b), ByPosition(EntryStart(i), b)
  PROVE  Table!Read(i)
<1>1. /\ stream' = b.stream /\ faults' = faults /\ got'.rc = b.rc /\ got'.rec = b.rec
      /\ got'.start = EntryStart(i)
      /\ ~ferror(stream) /\ ~ferror(stream')
  BY DEF Done, Undisturbed
<1>2. /\ CursorStands' /\ AnswerStands'
      /\ Items' = Items /\ kindsBar' = kindsBar
  BY MappingFactsNext, SameKinds DEF TypeOK
<1>3. /\ index \in Indexes /\ index.size \in Nat /\ Len(index.entries) \in Nat
      /\ Items = 1 .. Len(index.entries)
      /\ stream'.pos \in Nat
  <2>1. stream' \in Stream /\ index \in Indexes
    BY DEF TypeOK
  <2>. QED
    BY <2>1, IndexFacts DEF Items, Stream
<1>4. /\ EntryStart(i) \in Nat /\ EntryStart(i) > 0
      /\ EntryStart(i + 1) = EntryStart(i) + 8
      /\ i \notin Items => i >= Len(index.entries) + 1 /\ EntryStart(i) >= index.size
      /\ i + 1 \notin Items /\ i \in Items =>
           i = Len(index.entries) /\ EntryStart(i) + 8 >= index.size
  <2>1. EntryStart(i) = 100 + 8 * (i - 1) /\ EntryStart(i + 1) = 100 + 8 * i
    BY DEF EntryStart, EntrySize, HeaderSize
  <2>2. index.size <= 100 + 8 * Len(index.entries)
    <3>1. EntryStart(Len(index.entries) + 1) = 100 + 8 * Len(index.entries)
      BY <1>3 DEF EntryStart, EntrySize, HeaderSize
    <3>. QED
      BY <1>3, <3>1, IndexFacts
  <2>. QED
    BY <1>3, <2>1, <2>2
<1>5. ASSUME NEW j \in Items
      PROVE  /\ j \in Nat /\ j <= Len(index.entries)
             /\ EntryStart(j) \in Nat
             /\ j < i => EntryStart(j) + 8 <= EntryStart(i)
             /\ j > i => EntryStart(j) >= EntryStart(i) + 8
             /\ j = i => EntryStart(j) = EntryStart(i)
  <2>1. j \in Nat /\ j >= 1 /\ j <= Len(index.entries)
    BY <1>3
  <2>2. EntryStart(i) = 100 + 8 * (i - 1) /\ EntryStart(j) = 100 + 8 * (j - 1)
    BY <2>1 DEF EntryStart, EntrySize, HeaderSize
  <2>. QED
    BY <2>1, <2>2
<1>6. ferror(stream)' = ferror(stream)
  BY <1>1 DEF ferror
<1>7. /\ Len(kindsBar) = Len(index.entries) /\ DOMAIN kindsBar = Items
      /\ \A j \in Items : kindsBar[j] = Kind(j)
  BY <1>3, KindsFacts
<1>8. ASSUME NEW p, curBar' = p
      PROVE  Table!MoveTo(p)
  BY <1>1, <1>2, <1>6, <1>8 DEF Table!MoveTo
<1>9. CASE EntryStart(i) + 8 > index.size
  <2>1. b.rc = 0 /\ b.stream.pos = IF EntryStart(i) < index.size THEN index.size ELSE EntryStart(i)
    BY <1>3, <1>9, <1>4 DEF ByPosition, EntrySize
  <2>2. lastBar' = [rc |-> 0, item |-> 0]
    BY <1>1, <1>2, <2>1 DEF AnswerStands
  <2>3. stream'.pos > 0 /\ stream'.pos >= index.size
    BY <1>1, <1>3, <1>4, <2>1
  <2>4. CASE i \in Items
    <3>1. curBar' \in {i, Len(index.entries) + 1}
      <4>1. CASE EntryStart(i) < index.size
        <5>1. stream'.pos = index.size
          BY <1>1, <2>1, <4>1
        <5>2. ASSUME NEW j \in Items
              PROVE  EntryStart(j) # stream'.pos
          <6>1. EntryStart(j) + 8 <= EntryStart(i) \/ EntryStart(j) >= EntryStart(i) + 8
                \/ EntryStart(j) = EntryStart(i)
            BY <1>5
          <6>. QED
            BY <1>3, <1>9, <1>4, <1>5, <4>1, <5>1, <6>1
        <5>. QED
          BY <1>2, <2>3, <5>2 DEF CursorStands
      <4>2. CASE ~(EntryStart(i) < index.size)
        <5>1. stream'.pos = EntryStart(i)
          BY <1>1, <2>1, <4>2
        <5>. QED
          BY <1>2, <2>3, <2>4, <5>1 DEF CursorStands
      <4>. QED
        BY <4>1, <4>2
    <3>2. Kind(i) = "absent"
      BY <1>9, <1>4 DEF Kind
    <3>3. Table!Finish(i)
      BY <1>1, <1>7, <1>8, <2>2, <2>4, <3>1, <3>2
         DEF Table!Finish, Table!Holds, Table!Answer, Table!End
    <3>. QED
      BY <3>3 DEF Table!Read
  <2>5. CASE i \notin Items
    <3>1. i >= Len(index.entries) + 1 /\ EntryStart(i) >= index.size
      BY <1>4, <2>5
    <3>2. stream'.pos = EntryStart(i)
      BY <1>1, <1>3, <1>4, <2>1, <3>1
    <3>3. ASSUME NEW j \in Items
          PROVE  EntryStart(j) # stream'.pos
      <4>1. EntryStart(j) \in Nat /\ EntryStart(j) + 8 <= EntryStart(i)
        BY <1>3, <1>5, <3>1
      <4>. QED
        BY <1>4, <3>2, <4>1
    <3>4. curBar' = Len(index.entries) + 1
      BY <1>2, <2>3, <3>3 DEF CursorStands
    <3>5. Table!AtEnd(i)
      BY <1>1, <1>7, <1>8, <2>2, <3>1, <3>4 DEF Table!AtEnd, Table!Answer, Table!End
    <3>. QED
      BY <3>5 DEF Table!Read
  <2>. QED
    BY <2>4, <2>5
<1>10. CASE EntryStart(i) + 8 <= index.size
  <2>1. i \in Items
    BY <1>3, <1>10, <1>4
  <2>2. {j \in 1 .. Len(index.entries) : EntryStart(j) = EntryStart(i)} = {i}
    <3>1. ASSUME NEW j \in Items, EntryStart(j) = EntryStart(i)
          PROVE  j = i
      BY <1>4, <1>5, <3>1
    <3>. QED
      BY <1>3, <2>1, <3>1
  <2>3. EntriesAt(EntryStart(i)) = {index.entries[i]}
    BY <2>2 DEF EntriesAt
  <2>. DEFINE entry == index.entries[i]
  <2>4. /\ b.stream.pos = EntryStart(i) + 8
        /\ b.rc = (IF EntryMessage(entry) = NoMessage THEN 1 ELSE -1)
        /\ b.rec = [file_offset |-> size_t(2 * entry.offset),
                    record_size |-> size_t(2 * entry.len)]
    BY <1>3, <1>10, <1>4, <2>3 DEF ByPosition, EntrySize
  <2>5. b.rec = InBytes(entry)
    <3>1. entry \in Entry /\ 2 * entry.offset < SizeModulus /\ 2 * entry.len < SizeModulus
      BY <1>3, <2>1, IndexFacts DEF WideSize
    <3>2. size_t(2 * entry.offset) = 2 * entry.offset /\ size_t(2 * entry.len) = 2 * entry.len
      BY <3>1, NoWrap DEF Entry
    <3>. QED
      BY <2>4, <3>2 DEF InBytes
  <2>6. curBar' = i + 1
    <3>1. stream'.pos = EntryStart(i + 1) /\ stream'.pos > 0
      BY <1>1, <1>4, <2>4
    <3>2. CASE i + 1 \in Items
      BY <1>2, <3>1, <3>2 DEF CursorStands
    <3>3. CASE i + 1 \notin Items
      <4>1. i = Len(index.entries) /\ EntryStart(i) + 8 >= index.size
        BY <1>4, <2>1, <3>3
      <4>2. ASSUME NEW j \in Items
            PROVE  EntryStart(j) # stream'.pos
        BY <1>3, <1>4, <1>5, <3>1, <4>1
      <4>3. stream'.pos >= index.size
        BY <1>3, <1>4, <3>1, <4>1
      <4>. QED
        BY <1>2, <3>1, <4>1, <4>2, <4>3 DEF CursorStands
    <3>. QED
      BY <3>2, <3>3
  <2>7. ~(EntryStart(i + 1) > index.size)
    BY <1>3, <1>10, <1>4
  <2>8. ASSUME EntryMessage(entry) = NoMessage
        PROVE  Table!Read(i)
    <3>1. b.rc = 1 /\ Kind(i) = "shape"
      BY <2>4, <2>7, <2>8 DEF Kind
    <3>2. InBytes(index.entries[i])' = InBytes(entry)
      BY DEF InBytes
    <3>3. lastBar' = [rc |-> 1, item |-> i]
      BY <1>1, <1>2, <2>1, <2>5, <3>1, <3>2 DEF AnswerStands
    <3>4. Table!Deliver(i)
      BY <1>1, <1>7, <1>8, <2>1, <2>6, <3>1, <3>3
         DEF Table!Deliver, Table!Holds, Table!Answer
    <3>. QED
      BY <3>4 DEF Table!Read
  <2>9. ASSUME EntryMessage(entry) # NoMessage
        PROVE  Table!Read(i)
    <3>1. b.rc = -1 /\ Kind(i) = "bad"
      BY <2>4, <2>7, <2>9 DEF Kind
    <3>2. lastBar' = [rc |-> -1, item |-> 0]
      BY <1>1, <1>2, <3>1 DEF AnswerStands
    <3>3. Table!Reject(i)
      BY <1>1, <1>7, <1>8, <2>1, <2>6, <3>1, <3>2
         DEF Table!Reject, Table!Holds, Table!Answer
    <3>. QED
      BY <3>3 DEF Table!Read
  <2>. QED
    BY <2>8, <2>9
<1>. QED
  BY <1>3, <1>9, <1>10, <1>4

(* A call that reads on from where the stream stands behind the header.    *)
LEMMA RecordStep ==
  ASSUME WideSize, TypeOK, TypeOK', index' = index, EndIsEnd(stream), stream.pos > 0,
         NEW rec \in ShxRecord, NEW b \in read_record(Call(stream, rec, faults)), Done(b)
  PROVE  /\ Table!Next
         /\ EndIsEnd(stream') /\ stream'.pos > 0
<1>1. /\ index \in Indexes /\ stream \in Stream /\ faults \in Nat
      /\ stream.pos \in Nat /\ index.size \in Nat /\ Len(index.entries) \in Nat
  BY IndexFacts DEF TypeOK, Stream
<1>2. b \in CallState /\ b.start = stream.pos
  BY <1>1, ReadRecordFacts
<1>3. /\ EndIsEnd(b.stream)
      /\ \/ Failing(stream, faults, b)
         \/ Undisturbed(stream, faults, b) /\ ByPosition(stream.pos, b)
  BY <1>1, RecordOutcomes
<1>4. /\ stream' = b.stream /\ faults' = b.faults /\ got'.rc = b.rc /\ got'.start = stream.pos
  BY <1>2 DEF Done
<1>5. EndIsEnd(stream') /\ stream'.pos > 0
  BY <1>1, <1>3, <1>4, ReadOnward
<1>6. CASE Failing(stream, faults, b)
  BY <1>2, <1>5, <1>6, FailStep DEF Table!Next
<1>7. CASE Undisturbed(stream, faults, b) /\ ByPosition(stream.pos, b)
  <2>1. CursorStands /\ CursorStands' /\ AnswerStands'
    BY <1>1, MappingFacts, MappingFactsNext DEF TypeOK
  <2>2. /\ kindsBar' = kindsBar /\ Items' = Items /\ Len(kindsBar) = Len(index.entries)
        /\ faults' = faults /\ ~ferror(stream) /\ ferror(stream)' = ferror(stream)
    BY <1>1, <1>4, <1>7, SameKinds, KindsFacts DEF Undisturbed, ferror
  <2>3. ASSUME NEW i \in Items, EntryStart(i) = stream.pos
        PROVE  Table!Next
    <3>1. curBar = i /\ i \in Nat /\ i >= 1
      BY <1>1, <2>1, <2>3, IndexFacts DEF CursorStands
    <3>2. Table!Read(i)
      BY <1>2, <1>7, <2>3, <3>1, EntryStep
    <3>. QED
      BY <3>1, <3>2 DEF Table!Next
  <2>4. ASSUME \A i \in Items : EntryStart(i) # stream.pos, stream.pos >= index.size
        PROVE  Table!Next
    <3>1. curBar = Len(index.entries) + 1
      BY <2>1, <2>4 DEF CursorStands
    <3>2. b.rc = 0 /\ b.stream.pos = stream.pos
      BY <1>1, <1>7, <2>4 DEF ByPosition, EntrySize
    <3>3. curBar' = Len(index.entries) + 1
      BY <1>1, <1>4, <2>1, <2>2, <2>4, <3>2 DEF CursorStands, EntryStart
    <3>4. lastBar' = [rc |-> 0, item |-> 0]
      BY <1>4, <2>1, <3>2 DEF AnswerStands
    <3>5. Table!AtEnd(curBar)
      BY <1>1, <2>2, <3>1, <3>3, <3>4
         DEF Table!AtEnd, Table!Answer, Table!MoveTo, Table!End
    <3>. QED
      BY <3>5 DEF Table!Next, Table!Read
  <2>5. ASSUME \A i \in Items : EntryStart(i) # stream.pos, ~(stream.pos >= index.size)
        PROVE  Table!Next
    <3>1. curBar = 0
      BY <2>1, <2>5 DEF CursorStands
    <3>2. curBar' \in Table!Position
      BY <2>1, <2>2 DEF CursorStands, Table!Position, Table!End
    <3>3. PICK item \in 0 .. Len(kindsBar) : lastBar' = [rc |-> b.rc, item |-> item]
      BY <1>4, <2>1, <2>2 DEF AnswerStands
    <3>4. b.rc \in {-1, 0, 1}
      BY <1>2 DEF CallState
    <3>5. Table!Wander
      BY <2>2, <3>1, <3>2, <3>3, <3>4 DEF Table!Wander, Table!Answer, Table!MoveTo
    <3>. QED
      BY <3>5 DEF Table!Next
  <2>. QED
    BY <1>5, <2>3, <2>4, <2>5
<1>. QED
  BY <1>3, <1>6, <1>7

(* A call of shx_read_header at the beginning of the file.                 *)
LEMMA HeaderStep ==
  ASSUME TypeOK, TypeOK', index' = index, EndIsEnd(stream), stream.pos = 0,
         NEW b \in shx_read_header(Call(stream, got.rec, faults)), Done(b)
  PROVE  /\ Table!Next
         /\ EndIsEnd(stream')
         /\ b.rc > 0 => stream'.pos > 0
<1>1. /\ index \in Indexes /\ stream \in Stream /\ faults \in Nat /\ got.rec \in ShxRecord
      /\ index.size \in Nat /\ Len(index.entries) \in Nat
  BY IndexFacts DEF TypeOK
<1>2. /\ b \in CallState /\ b.start = 0
      /\ EndIsEnd(b.stream)
      /\ b.rc \in {-1, 1}
      /\ \/ Failing(stream, faults, b)
         \/ /\ Undisturbed(stream, faults, b)
            /\ \/ b.stream.pos = 100 /\ 100 <= index.size
               \/ b.stream.pos = index.size /\ index.size < 100 /\ b.rc = -1
  BY <1>1, HeaderOutcomes DEF HeaderSize
<1>3. /\ stream' = b.stream /\ faults' = b.faults /\ got'.rc = b.rc /\ got'.start = 0
  BY <1>2 DEF Done
<1>4. CASE Failing(stream, faults, b)
  BY <1>2, <1>3, <1>4, FailStep DEF Table!Next, Failing
<1>5. CASE /\ Undisturbed(stream, faults, b)
           /\ \/ b.stream.pos = 100 /\ 100 <= index.size
              \/ b.stream.pos = index.size /\ index.size < 100 /\ b.rc = -1
  <2>1. CursorStands /\ CursorStands' /\ AnswerStands'
    BY <1>1, MappingFacts, MappingFactsNext DEF TypeOK
  <2>2. /\ kindsBar' = kindsBar /\ Items' = Items /\ Len(kindsBar) = Len(index.entries)
        /\ faults' = faults /\ ~ferror(stream) /\ ferror(stream)' = ferror(stream)
    BY <1>1, <1>3, <1>5, SameKinds, KindsFacts DEF Undisturbed, ferror
  <2>3. /\ \A i \in Items : EntryStart(i) \in Nat /\ EntryStart(i) >= 100
        /\ EntryStart(1) = 100
        /\ 1 \in Items \/ (Len(index.entries) = 0 /\ Items = {} /\ index.size <= 100)
    <3>1. \A i \in Items : i \in Nat /\ i >= 1
      BY <1>1, IndexFacts
    <3>2. Items = 1 .. Len(index.entries)
      BY DEF Items
    <3>3. Len(index.entries) = 0 => index.size <= 100
      BY <1>1, IndexFacts DEF EntryStart, EntrySize, HeaderSize
    <3>. QED
      BY <1>1, <3>1, <3>2, <3>3 DEF EntryStart, EntrySize, HeaderSize
  <2>4. lastBar' = [rc |-> b.rc, item |-> 0]
    <3>1. \A i \in Items : EntryStart(i) # 0
      BY <2>3
    <3>. QED
      BY <1>2, <1>3, <2>1, <2>2, <3>1 DEF AnswerStands, EntryStart
  <2>5. curBar = -1
    BY <2>1 DEF CursorStands
  <2>6. CASE b.stream.pos = 100 /\ 100 <= index.size
    <3>1. curBar' = 1
      BY <1>1, <1>3, <2>1, <2>2, <2>3, <2>6 DEF CursorStands, EntryStart
    <3>2. CASE b.rc = 1
      <4>1. Table!Open
        BY <2>2, <2>4, <2>5, <3>1, <3>2 DEF Table!Open, Table!Answer, Table!MoveTo
      <4>. QED
        BY <1>2, <1>3, <2>6, <4>1 DEF Table!Next
    <3>3. CASE b.rc = -1
      <4>1. Table!Refuse
        BY <2>2, <2>4, <2>5, <3>1, <3>3 DEF Table!Refuse, Table!Answer, Table!MoveTo
      <4>. QED
        BY <1>2, <1>3, <3>3, <4>1 DEF Table!Next
    <3>. QED
      BY <1>2, <3>2, <3>3
  <2>7. CASE b.stream.pos = index.size /\ index.size < 100 /\ b.rc = -1
    <3>1. \A i \in Items : EntryStart(i) # stream'.pos
      BY <1>1, <1>3, <2>3, <2>7
    <3>2. curBar' \in {-1, Len(index.entries) + 1}
      BY <1>1, <1>3, <2>1, <2>2, <2>7, <3>1 DEF CursorStands, EntryStart
    <3>3. Table!Refuse
      BY <2>2, <2>4, <2>5, <2>7, <3>2
         DEF Table!Refuse, Table!Answer, Table!MoveTo, Table!End
    <3>. QED
      BY <1>2, <1>3, <2>7, <3>3 DEF Table!Next
  <2>. QED
    BY <1>5, <2>6, <2>7
<1>. QED
  BY <1>2, <1>4, <1>5

(* A call of shx_seek_record.                                              *)
LEMMA SeekStep ==
  ASSUME WideSize, WideLong, TypeOK, TypeOK', index' = index, EndIsEnd(stream),
         NEW n \in Nat, NEW b \in shx_seek_record(n), Done(b)
  PROVE  /\ Table!Lookup(n)
         /\ EndIsEnd(stream')
         /\ stream.pos > 0 => stream'.pos > 0
<1>1. b \in CallState
  BY SeekFacts
<1>2. stream' = b.stream /\ faults' = b.faults /\ got'.rc = b.rc
  BY DEF Done
<1>3. /\ EndIsEnd(b.stream)
      /\ stream.pos > 0 => b.stream.pos > 0
      /\ \/ n > LargestNumber /\ b.rc = -1 /\ b.stream = stream /\ b.faults = faults
         \/ Failing(stream, faults, b)
         \/ /\ n <= LargestNumber
            /\ Undisturbed(stream, faults, b)
            /\ ByPosition(EntryStart(n + 1), b) /\ b.start = EntryStart(n + 1)
  BY SeekOutcomes
<1>4. CASE Failing(stream, faults, b)
  BY <1>1, <1>2, <1>3, <1>4, FailStep DEF Table!Lookup
<1>5. CASE n > LargestNumber /\ b.rc = -1 /\ b.stream = stream /\ b.faults = faults
  <2>1. curBar' = curBar /\ ferror(stream)' = ferror(stream) /\ kindsBar' = kindsBar
    BY <1>2, <1>5, SameKinds DEF curBar, Items, ferror
  <2>2. lastBar' = [rc |-> -1, item |-> 0]
    <3>1. AnswerStands'
      BY MappingFactsNext DEF TypeOK
    <3>. QED
      BY <1>2, <1>5, <3>1 DEF AnswerStands
  <2>. QED
    BY <1>2, <1>3, <1>5, <2>1, <2>2 DEF Table!Lookup, Table!Answer, Table!MoveTo
<1>6. CASE /\ n <= LargestNumber
           /\ Undisturbed(stream, faults, b)
           /\ ByPosition(EntryStart(n + 1), b) /\ b.start = EntryStart(n + 1)
  <2>1. PICK i \in Nat : i = n + 1 /\ i >= 1
    OBVIOUS
  <2>2. Table!Read(i)
    BY <1>1, <1>6, <2>1, EntryStep
  <2>. QED
    BY <1>2, <1>3, <1>6, <2>1, <2>2 DEF Table!Lookup
<1>. QED
  BY <1>3, <1>4, <1>5, <1>6

(* What the table needs to know of the stream: its end-of-file indicator   *)
(* is no lie, and shx_read has the header behind it.                       *)
StreamSound == EndIsEnd(stream) /\ (at # "caller" => stream.pos > 0)

(* Every step is a step of the table or is not seen by it.                 *)
LEMMA TableStep ==
  ASSUME WideSize, WideLong, TypeOK, TypeOK', StreamSound, Next
  PROVE  StreamSound' /\ [Table!TableNext]_(Table!tvars)
<1>1. /\ index' = index /\ NoRecord \in ShxRecord /\ got.rec \in ShxRecord
  BY StepReads DEF TypeOK, NoRecord, ShxRecord
<1>2. CASE ReadHeader \/ BeginRead
  <2>1. PICK b \in shx_read_header(Call(stream, got.rec, faults)) :
          Done(b) /\ (at' # "caller" => at # "caller" \/ b.rc > 0)
    BY <1>2 DEF ReadHeader, BeginRead
  <2>2. stream.pos = 0 /\ at = "caller" /\ asked' = -1
    BY <1>2 DEF ReadHeader, BeginRead
  <2>3. Table!Next /\ EndIsEnd(stream') /\ (b.rc > 0 => stream'.pos > 0)
    BY <1>1, <2>1, <2>2, HeaderStep DEF StreamSound
  <2>. QED
    BY <1>1, <2>1, <2>2, <2>3 DEF StreamSound, EndIsEnd, Table!TableNext, Table!NoNumber
<1>3. CASE ReadRecord \/ NextRecord
  <2>1. PICK rec \in ShxRecord : \E b \in read_record(Call(stream, rec, faults)) : Done(b)
    BY <1>1, <1>3 DEF ReadRecord, NextRecord
  <2>2. PICK b \in read_record(Call(stream, rec, faults)) : Done(b)
    BY <2>1
  <2>3. stream.pos > 0 /\ asked' = -1
    BY <1>3 DEF ReadRecord, NextRecord, StreamSound
  <2>4. Table!Next /\ EndIsEnd(stream') /\ stream'.pos > 0
    BY <1>1, <2>2, <2>3, RecordStep DEF StreamSound
  <2>. QED
    BY <1>1, <2>3, <2>4 DEF StreamSound, EndIsEnd, Table!TableNext, Table!NoNumber
<1>4. CASE \E n \in RecordNumbers : SeekRecord(n)
  <2>1. PICK n \in RecordNumbers : SeekRecord(n)
    BY <1>4
  <2>2. n \in Nat /\ asked' = n /\ at' = at
    BY <2>1, ShxReaderAssumption DEF SeekRecord
  <2>3. PICK b \in shx_seek_record(n) : Done(b)
    BY <2>1 DEF SeekRecord
  <2>4. Table!Lookup(n) /\ EndIsEnd(stream') /\ (stream.pos > 0 => stream'.pos > 0)
    BY <1>1, <2>2, <2>3, SeekStep DEF StreamSound
  <2>. QED
    BY <1>1, <2>2, <2>4 DEF StreamSound, EndIsEnd, Table!TableNext
<1>5. CASE SetError \/ \E answer \in {-1, 0, 1} : Callback(answer)
  <2>1. UNCHANGED <<index, stream, got, asked, faults>> /\ (at' # "caller" => at # "caller")
    BY <1>5 DEF SetError, Callback
  <2>2. UNCHANGED <<kindsBar, curBar, lastBar, ferror(stream)>>
    BY <2>1, UnseenStep
  <2>. QED
    BY <2>1, <2>2 DEF StreamSound, EndIsEnd, feof, Table!tvars, Table!cvars
<1>. QED
  BY <1>2, <1>3, <1>4, <1>5 DEF Next, Reading

(***************************************************************************)
(* Where size_t and long are wide enough, an index answers as the table of *)
(* RecordTable does, read in order and looked up by number in any mixture, *)
(* whatever fails: entry n is found from wherever the stream stands,       *)
(* reading on begins behind it, and the end is reported behind the last    *)
(* entry and nowhere else.                                                 *)
(***************************************************************************)
THEOREM IndexIsATable ==
  ASSUME WideSize, WideLong
  PROVE  Spec => AnswersAsTable
<1>1. Init => Table!TableInit /\ StreamSound
  <2>. SUFFICES ASSUME Init
                PROVE  Table!TableInit /\ StreamSound
    OBVIOUS
  <2>1. /\ TypeOK /\ stream.pos = 0 /\ ~feof(stream) /\ ferror(stream) = FALSE
        /\ at = "caller" /\ asked = -1
    BY TypeInit DEF Init, Opened, feof, ferror
  <2>2. curBar = -1 /\ lastBar = [rc |-> 0, item |-> 0]
    BY <2>1, MappingFacts DEF Init, TypeOK, CursorStands, AnswerStands
  <2>3. kindsBar \in Seq(Table!Kinds) /\ faults \in Nat
    BY <2>1, KindsFacts DEF TypeOK
  <2>. QED
    BY <2>1, <2>2, <2>3
       DEF Table!TableInit, Table!Init, Table!NoNumber, StreamSound, EndIsEnd
<1>2. TypeOK /\ TypeOK' /\ StreamSound /\ [Next]_vars =>
        StreamSound' /\ [Table!TableNext]_(Table!tvars)
  <2>1. CASE UNCHANGED vars
    <3>1. UNCHANGED <<kindsBar, curBar, lastBar, ferror(stream)>>
      BY <2>1, UnseenStep DEF vars
    <3>. QED
      BY <2>1, <3>1 DEF vars, StreamSound, EndIsEnd, feof, Table!tvars, Table!cvars
  <2>. QED
    BY <2>1, TableStep
<1>. QED
  BY <1>1, <1>2, TypeCorrect, PTL DEF Spec, AnswersAsTable, Table!TableSpec
=============================================================================
