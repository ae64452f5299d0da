-------------------------- MODULE ShpReaderProofs ---------------------------
(***************************************************************************)
(* The reader of shp.c, for all files, buffers and bounds.                 *)
(***************************************************************************)
EXTENDS ShpCursor, FileStreamProofs, ShpLayoutProofs

CallState ==
  [rc : {-1, 0, 1}, message : Messages, stream : Stream, nr : Nat, faults : Nat,
   cap : Nat, rec : Record, start : Nat]

(* What every stage of a read keeps of the call it continues.              *)
Progress(c, b) ==
  /\ b \in CallState
  /\ b.start = c.start
  /\ b.cap >= c.cap
  /\ b.faults <= c.faults
  /\ b.nr - c.nr \in Nat
  /\ b.stream.pos = c.stream.pos + (b.nr - c.nr)
  /\ ferror(c.stream) => ferror(b.stream)

(* What a read that is over has established.                               *)
Sound(b) ==
  /\ b.rc = 1 =>
       /\ ~ferror(b.stream)
       /\ b.rec.len >= 2
       /\ b.cap >= buf_size(b.rec)
       /\ b.stream.pos = b.start + 8 + record_size(b.rec)
       /\ b.stream.pos <= file.size
       /\ Accepted(b.rec)
  /\ b.rc = -1 => b.message # NoMessage

-----------------------------------------------------------------------------
(* The functions that a read goes through, one after the other.            *)

(* The sizes of a record and of the block that read_record needs for it.   *)
LEMMA RecordFacts ==
  ASSUME NEW rec \in Record
  PROVE  /\ rec.len \in Nat
         /\ record_size(rec) = 2 * rec.len
         /\ buf_size(rec) = SizeofRecord + record_size(rec)
         /\ buf_size(rec) \in Nat /\ buf_size(rec) > 0
<1>1. rec.len \in Nat
  BY DEF Record, Count
<1>2. /\ SizeofRecord \in Nat /\ SizeofRecord > 0
      /\ CountLimit \in Nat /\ rec.len < CountLimit
      /\ SizeofRecord + 2 * CountLimit <= SizeModulus /\ SizeModulus \in Nat
  BY ShpReaderAssumption, WideSizeAssumption, ShpLayoutAssumption DEF Record, Count
<1>3. /\ 2 * rec.len \in Nat /\ 2 * rec.len < SizeModulus
      /\ SizeofRecord + 2 * rec.len \in Nat /\ SizeofRecord + 2 * rec.len < SizeModulus
  BY <1>1, <1>2
<1>4. record_size(rec) = 2 * rec.len
  BY <1>3, NoWrap DEF record_size
<1>5. buf_size(rec) = SizeofRecord + record_size(rec)
  BY <1>3, <1>4, NoWrap DEF buf_size
<1>. QED
  BY <1>1, <1>2, <1>4, <1>5

(* The placeholder for no record has the type of a record.                 *)
LEMMA NoRecordFacts == NoRecord \in Record
BY ShpLayoutAssumption DEF NoRecord, Record, Count

(* A call that begins: nothing read, no message, -1 to return.             *)
LEMMA NewCallFacts ==
  ASSUME NEW s \in Stream, NEW cap \in Nat, NEW budget \in Nat,
         NEW c, c = Call(s, cap, budget)
  PROVE  /\ c \in CallState
         /\ c.rc = -1 /\ c.stream = s /\ c.nr = 0 /\ c.faults = budget
         /\ c.cap = cap /\ c.start = s.pos
<1>1. s.pos \in Nat
  BY DEF Stream
<1>. QED
  BY <1>1, NoRecordFacts DEF Call, CallState, Messages, NoMessage

(* A verdict changes the message and the result, and they agree.           *)
LEMMA VerdictFacts ==
  ASSUME NEW c \in CallState, NEW message \in Messages,
         NEW v, v = Verdict(c, message)
  PROVE  /\ v \in CallState
         /\ v.message = message
         /\ v.stream = c.stream /\ v.nr = c.nr /\ v.faults = c.faults
         /\ v.cap = c.cap /\ v.rec = c.rec /\ v.start = c.start
         /\ message = NoMessage => v.rc = 1
         /\ message # NoMessage => v.rc = -1
BY DEF Verdict, CallState, Messages, NoMessage

(* file_fread counts what it reads, which is where the stream moved.       *)
LEMMA FileFreadFacts ==
  ASSUME file \in Files, NEW c \in CallState, NEW count \in Nat,
         NEW b \in file_fread(c, count)
  PROVE  /\ b \in CallState
         /\ b.rc = c.rc /\ b.message = c.message /\ b.cap = c.cap
         /\ b.rec = c.rec /\ b.start = c.start
         /\ b.nr - c.nr \in 0 .. count
         /\ b.stream.pos = c.stream.pos + (b.nr - c.nr)
         /\ b.nr > c.nr => b.stream.pos <= file.size
         /\ b.nr - c.nr < count => feof(b.stream) \/ ferror(b.stream)
         /\ ferror(c.stream) => ferror(b.stream)
         /\ b.faults <= c.faults
<1>1. /\ c.stream \in Stream /\ c.faults \in Nat /\ c.nr \in Nat
      /\ file.size \in Nat
  BY ShpReaderAssumption DEF CallState, IsFile
<1>2. PICK r \in fread(c.stream, file.size, count, c.faults) :
        b = [c EXCEPT !.stream = r.stream, !.nr = c.nr + r.nr, !.faults = c.faults - r.fault]
  BY DEF file_fread
<1>3. /\ r.stream \in Stream /\ r.nr \in 0 .. count
      /\ r.stream.pos = c.stream.pos + r.nr
      /\ r.nr > 0 => r.stream.pos <= file.size
  BY <1>1, FreadFacts
<1>4. /\ r.nr < count => feof(r.stream) \/ ferror(r.stream)
      /\ ferror(c.stream) => ferror(r.stream)
      /\ r.fault \in Nat /\ r.fault <= c.faults
  BY <1>1, FreadFacts
<1>5. c.nr + r.nr \in Nat /\ c.faults - r.fault \in Nat
  BY <1>1, <1>3, <1>4
<1>6. /\ b \in CallState
      /\ b.stream = r.stream /\ b.nr = c.nr + r.nr /\ b.faults = c.faults - r.fault
      /\ b.rc = c.rc /\ b.message = c.message /\ b.cap = c.cap
      /\ b.rec = c.rec /\ b.start = c.start
  <2>. DEFINE s == r.stream
              nr == c.nr + r.nr
              budget == c.faults - r.fault
  <2>1. b = [c EXCEPT !.stream = s, !.nr = nr, !.faults = budget]
    BY <1>2
  <2>2. s \in Stream /\ nr \in Nat /\ budget \in Nat
    BY <1>3, <1>5
  <2>. HIDE DEF s, nr, budget
  <2>3. /\ b \in CallState
        /\ b.stream = s /\ b.nr = nr /\ b.faults = budget
        /\ b.rc = c.rc /\ b.message = c.message /\ b.cap = c.cap
        /\ b.rec = c.rec /\ b.start = c.start
    BY <2>1, <2>2 DEF CallState
  <2>. QED
    BY <2>3, Zenon DEF s, nr, budget
<1>7. b.nr - c.nr = r.nr /\ (b.nr > c.nr => r.nr > 0) /\ b.faults <= c.faults
  BY <1>1, <1>3, <1>4, <1>6
<1>. QED
  BY <1>3, <1>4, <1>6, <1>7

(* A failing call of the operating system uses up a fault.                 *)
LEMMA SpendFacts ==
  ASSUME NEW c \in CallState, c.faults >= 1
  PROVE  /\ Spend(c) \in CallState
         /\ Spend(c).faults <= c.faults
         /\ Spend(c).stream = c.stream /\ Spend(c).nr = c.nr
         /\ Spend(c).cap = c.cap /\ Spend(c).rec = c.rec /\ Spend(c).start = c.start
<1>1. c.faults \in Nat
  BY DEF CallState
<1>2. c.faults - 1 \in Nat
  BY <1>1
<1>. QED
  BY <1>1, <1>2 DEF Spend, CallState

(* A block that grows has the size the record needs.                       *)
LEMMA GrownFacts ==
  ASSUME NEW c \in CallState
  PROVE  /\ Grown(c) \in CallState
         /\ Grown(c).rc = c.rc /\ Grown(c).message = c.message
         /\ Grown(c).faults = c.faults
         /\ Grown(c).stream = c.stream /\ Grown(c).nr = c.nr
         /\ Grown(c).cap = buf_size(c.rec)
         /\ Grown(c).rec = c.rec /\ Grown(c).start = c.start
<1>1. buf_size(c.rec) \in Nat
  BY RecordFacts DEF CallState
<1>. QED
  BY <1>1 DEF Grown, CallState

(* Without a block the call fails with a message and keeps the old block.  *)
LEMMA NoBlockFacts ==
  ASSUME NEW c \in CallState, c.faults >= 1,
         NEW b, b = Verdict(Spend(c), "cannot_allocate")
  PROVE  /\ b \in CallState /\ b.rc = -1 /\ b.message # NoMessage
         /\ b.faults <= c.faults
         /\ b.stream = c.stream /\ b.nr = c.nr
         /\ b.cap = c.cap /\ b.rec = c.rec /\ b.start = c.start
<1>1. "cannot_allocate" \in Messages /\ "cannot_allocate" # NoMessage
  BY DEF Messages, NoMessage
<1>2. Spend(c) \in CallState
  BY SpendFacts
<1>3. /\ b \in CallState /\ b.rc = -1 /\ b.message = "cannot_allocate"
      /\ b.faults = Spend(c).faults /\ b.stream = Spend(c).stream /\ b.nr = Spend(c).nr
      /\ b.cap = Spend(c).cap /\ b.rec = Spend(c).rec /\ b.start = Spend(c).start
  BY <1>1, <1>2, VerdictFacts
<1>. QED
  BY <1>1, <1>3, SpendFacts

(* realloc gives a block that is large enough, or the call fails.          *)
LEMMA ReallocFacts ==
  ASSUME NEW c \in CallState, NEW b \in realloc(c)
  PROVE  /\ b \in CallState
         /\ b.stream = c.stream /\ b.nr = c.nr /\ b.rec = c.rec /\ b.start = c.start
         /\ b.cap >= c.cap /\ b.faults <= c.faults
         /\ \/ b.rc = c.rc /\ b.message = c.message /\ b.cap >= buf_size(c.rec)
            \/ b.rc = -1 /\ b.message # NoMessage
<1>1. /\ c.cap \in Nat /\ c.faults \in Nat /\ c.rec \in Record
      /\ buf_size(c.rec) \in Nat
  BY RecordFacts DEF CallState
<1>2. CASE b = c /\ c.cap >= buf_size(c.rec)
  BY <1>1, <1>2
<1>3. CASE b = Grown(c) /\ ~(c.cap >= buf_size(c.rec))
  BY <1>1, <1>3, GrownFacts
<1>4. CASE c.faults >= 1 /\ b = Verdict(Spend(c), "cannot_allocate")
  BY <1>1, <1>4, NoBlockFacts
<1>. QED
  BY <1>1, <1>2, <1>3, <1>4 DEF realloc

(* A content without a message was read in full and is a shape.            *)
LEMMA ContentMessageFacts ==
  ASSUME NEW c \in CallState, NEW nr \in Nat
  PROVE  /\ ContentMessage(c, nr) \in Messages
         /\ ContentMessage(c, nr) = NoMessage =>
              ~ferror(c.stream) /\ nr = record_size(c.rec) /\ Accepted(c.rec)
<1>1. ParseError(c.rec) \in Messages
  BY DEF ParseError, PointError, ShapeError, Messages, NoMessage
<1>2. {"cannot_read_record", "expected_record"} \subseteq Messages \ {NoMessage}
  BY DEF Messages, NoMessage
<1>3. CASE ferror(c.stream)
  BY <1>2, <1>3 DEF ContentMessage
<1>4. CASE ~ferror(c.stream) /\ nr # record_size(c.rec)
  BY <1>2, <1>4 DEF ContentMessage
<1>5. CASE ~ferror(c.stream) /\ nr = record_size(c.rec)
  BY <1>1, <1>5 DEF ContentMessage, Accepted
<1>. QED
  BY <1>3, <1>4, <1>5

(* The content of a record, once there is a block for it.                  *)
LEMMA ReadContentFacts ==
  ASSUME file \in Files, NEW c \in CallState, c.rc = -1,
         c.rec.len >= 2,
         c.message = NoMessage => /\ c.cap >= buf_size(c.rec)
                                  /\ c.stream.pos = c.start + 8
                                  /\ ~ferror(c.stream),
         NEW b \in ReadContent(c)
  PROVE  Progress(c, b) /\ Sound(b) /\ (b.rc = -1 \/ b.rc = 1)
<1>1. /\ c.rec \in Record /\ c.cap \in Nat /\ c.faults \in Nat
      /\ c.stream \in Stream /\ c.stream.pos \in Nat /\ c.nr \in Nat /\ c.start \in Nat
  BY DEF CallState, Stream
<1>2. record_size(c.rec) \in Nat /\ record_size(c.rec) > 0
  BY <1>1, RecordFacts
<1>3. CASE c.message # NoMessage
  <2>1. b = c
    BY <1>3 DEF ReadContent
  <2>. QED
    BY <1>1, <1>3, <2>1 DEF Progress, Sound
<1>4. CASE c.message = NoMessage
  <2>1. PICK d \in file_fread(c, record_size(c.rec)) :
          b = Verdict(d, ContentMessage(d, d.nr - c.nr))
    BY <1>4 DEF ReadContent
  <2>2. /\ d \in CallState
        /\ d.cap = c.cap /\ d.rec = c.rec /\ d.start = c.start
        /\ d.nr - c.nr \in 0 .. record_size(c.rec)
        /\ d.stream.pos = c.stream.pos + (d.nr - c.nr)
        /\ d.nr > c.nr => d.stream.pos <= file.size
        /\ ferror(c.stream) => ferror(d.stream)
        /\ d.faults <= c.faults
    BY <1>2, FileFreadFacts
  <2>3. d.nr - c.nr \in Nat /\ d.nr \in Nat
    BY <1>2, <2>2 DEF CallState
  <2>4. PICK message \in Messages : message = ContentMessage(d, d.nr - c.nr)
    BY <2>2, <2>3, ContentMessageFacts
  <2>5. message = NoMessage =>
          ~ferror(d.stream) /\ d.nr - c.nr = record_size(d.rec) /\ Accepted(d.rec)
    BY <2>2, <2>3, <2>4, ContentMessageFacts
  <2>6. /\ b \in CallState
        /\ b.stream = d.stream /\ b.nr = d.nr /\ b.faults = d.faults
        /\ b.cap = d.cap /\ b.rec = d.rec /\ b.start = d.start
        /\ b.message = message
        /\ message = NoMessage => b.rc = 1
        /\ message # NoMessage => b.rc = -1
    BY <2>1, <2>2, <2>4, VerdictFacts
  <2>7. Progress(c, b)
    BY <1>1, <2>2, <2>3, <2>6 DEF Progress
  <2>8. Sound(b)
    BY <1>1, <1>2, <1>4, <2>2, <2>3, <2>5, <2>6 DEF Sound
  <2>. QED
    BY <2>6, <2>7, <2>8
<1>. QED
  BY <1>3, <1>4

(* A step on the way keeps what the steps before it kept.                  *)
LEMMA ProgressTransitive ==
  ASSUME NEW a \in CallState, NEW b, NEW c, Progress(a, b), Progress(b, c)
  PROVE  Progress(a, c)
<1>1. /\ a.nr \in Nat /\ a.cap \in Nat /\ a.faults \in Nat /\ a.stream.pos \in Nat
      /\ b.nr \in Nat /\ b.cap \in Nat /\ b.faults \in Nat /\ b.stream.pos \in Nat
      /\ c.nr \in Nat /\ c.cap \in Nat /\ c.faults \in Nat /\ c.stream.pos \in Nat
  BY DEF Progress, CallState, Stream
<1>. QED
  BY <1>1 DEF Progress

(* From the record's length to the end of read_record.                     *)
LEMMA ReadBodyFacts ==
  ASSUME file \in Files, NEW c \in CallState, c.rc = -1, c.message = NoMessage,
         c.stream.pos = c.start + 8, ~ferror(c.stream),
         NEW b \in ReadBody(c)
  PROVE  Progress(c, b) /\ Sound(b) /\ (b.rc = -1 \/ b.rc = 1)
<1>1. /\ c.rec.len \in Nat /\ c.nr \in Nat /\ c.cap \in Nat /\ c.faults \in Nat
      /\ c.stream.pos \in Nat
  BY RecordFacts DEF CallState, Stream
<1>2. CASE c.rec.len < 2
  <2>1. PICK message \in Messages \ {NoMessage} : b = Verdict(c, message)
    BY <1>2 DEF ReadBody, Messages, NoMessage
  <2>2. /\ b \in CallState /\ b.rc = -1 /\ b.message # NoMessage
        /\ b.stream = c.stream /\ b.nr = c.nr
        /\ b.faults = c.faults /\ b.cap = c.cap /\ b.start = c.start
    BY <2>1, VerdictFacts
  <2>. QED
    BY <1>1, <2>2 DEF Progress, Sound
<1>3. CASE c.rec.len >= 2
  <2>1. PICK a \in realloc(c) : b \in ReadContent(a)
    BY <1>1, <1>3 DEF ReadBody
  <2>2. /\ a \in CallState
        /\ a.stream = c.stream /\ a.nr = c.nr /\ a.rec = c.rec /\ a.start = c.start
        /\ a.cap >= c.cap /\ a.faults <= c.faults
        /\ \/ a.rc = c.rc /\ a.message = c.message /\ a.cap >= buf_size(c.rec)
           \/ a.rc = -1 /\ a.message # NoMessage
    BY <2>1, ReallocFacts
  <2>3. Progress(c, a)
    BY <1>1, <2>2 DEF Progress
  <2>4. Progress(a, b) /\ Sound(b) /\ (b.rc = -1 \/ b.rc = 1)
    BY <1>3, <2>1, <2>2, ReadContentFacts
  <2>. QED
    BY <2>3, <2>4, ProgressTransitive
<1>. QED
  BY <1>1, <1>2, <1>3

(* What the bytes at an offset may say is a record.                        *)
LEMMA RecordsAtFacts ==
  ASSUME file \in Files, NEW pos
  PROVE  RecordsAt(pos) \subseteq Record
<1>1. file.recs \in Seq(Record) /\ Garbage \subseteq Record
  BY ShpReaderAssumption DEF IsFile
<1>2. \A i \in 1 .. Len(file.recs) : file.recs[i] \in Record
  BY <1>1
<1>. QED
  BY <1>1, <1>2 DEF RecordsAt

(* The record header gives a call its record and changes nothing else.     *)
LEMMA FoundFacts ==
  ASSUME NEW c \in CallState, NEW rec \in Record
  PROVE  /\ Found(c, rec) \in CallState
         /\ Found(c, rec).rc = c.rc /\ Found(c, rec).message = c.message
         /\ Found(c, rec).stream = c.stream /\ Found(c, rec).nr = c.nr
         /\ Found(c, rec).faults = c.faults /\ Found(c, rec).cap = c.cap
         /\ Found(c, rec).start = c.start
BY DEF Found, CallState

(* At the end of the file a call returns 0 and changes nothing else.       *)
LEMMA EndedFacts ==
  ASSUME NEW c \in CallState
  PROVE  /\ Ended(c) \in CallState
         /\ Ended(c).rc = 0
         /\ Ended(c).stream = c.stream /\ Ended(c).nr = c.nr
         /\ Ended(c).faults = c.faults /\ Ended(c).cap = c.cap
         /\ Ended(c).start = c.start
BY DEF Ended, CallState

(* From the record header to the end of read_record.                       *)
LEMMA AfterRecordHeaderFacts ==
  ASSUME file \in Files, NEW c \in CallState, c.rc = -1, c.message = NoMessage,
         c.stream.pos = c.start + c.nr,
         NEW b \in AfterRecordHeader(c)
  PROVE  /\ Progress(c, b) /\ Sound(b)
         /\ ferror(c.stream) => b.rc = -1
<1>1. /\ c.nr \in Nat /\ c.cap \in Nat /\ c.faults \in Nat
      /\ c.stream.pos \in Nat /\ c.start \in Nat
  BY DEF CallState, Stream
<1>2. CASE \E message \in Messages \ {NoMessage} : b = Verdict(c, message)
  <2>1. PICK message \in Messages \ {NoMessage} : b = Verdict(c, message)
    BY <1>2
  <2>2. /\ b \in CallState /\ b.rc = -1 /\ b.message # NoMessage
        /\ b.stream = c.stream /\ b.nr = c.nr
        /\ b.faults = c.faults /\ b.cap = c.cap /\ b.start = c.start
    BY <2>1, VerdictFacts
  <2>. QED
    BY <1>1, <2>2 DEF Progress, Sound
<1>3. CASE ~ferror(c.stream) /\ b = Ended(c)
  BY <1>1, <1>3, EndedFacts DEF Progress, Sound
<1>4. CASE ~ferror(c.stream) /\ c.nr = 8
           /\ \E rec \in RecordsAt(c.start) : b \in ReadBody(Found(c, rec))
  <2>1. PICK rec \in RecordsAt(c.start) : b \in ReadBody(Found(c, rec))
    BY <1>4
  <2>2. rec \in Record
    BY RecordsAtFacts
  <2>3. PICK d \in CallState : d = Found(c, rec)
    BY <2>2, FoundFacts
  <2>4. /\ d.rc = -1 /\ d.message = NoMessage /\ d.stream = c.stream /\ d.nr = c.nr
        /\ d.faults = c.faults /\ d.cap = c.cap /\ d.start = c.start
    BY <2>2, <2>3, FoundFacts
  <2>5. Progress(c, d)
    BY <1>1, <2>4 DEF Progress
  <2>6. Progress(d, b) /\ Sound(b)
    BY <1>4, <2>1, <2>3, <2>4, ReadBodyFacts
  <2>. QED
    BY <1>4, <2>5, <2>6, ProgressTransitive
<1>5. {"cannot_read_record_header", "expected_record_header"} \subseteq Messages \ {NoMessage}
  BY DEF Messages, NoMessage
<1>. QED
  BY <1>2, <1>3, <1>4, <1>5 DEF AfterRecordHeader

(***************************************************************************)
(* read_record keeps the handle's bookkeeping in step with the stream, and *)
(* what it returns with 1 was read in full from the file, is a shape, and  *)
(* fits the block it is in.                                                *)
(***************************************************************************)
LEMMA ReadRecordFacts ==
  ASSUME file \in Files,
         NEW s \in Stream, NEW cap \in Nat, NEW budget \in Nat,
         NEW b \in read_record(Call(s, cap, budget))
  PROVE  /\ b \in CallState
         /\ b.start = s.pos /\ b.cap >= cap /\ b.faults <= budget
         /\ b.stream.pos = s.pos + b.nr
         /\ ferror(s) => ferror(b.stream) /\ b.rc = -1
         /\ Sound(b)
<1>1. PICK c \in CallState : c = Call(s, cap, budget)
  BY NewCallFacts
<1>2. /\ c.rc = -1 /\ c.stream = s /\ c.nr = 0 /\ c.faults = budget
      /\ c.cap = cap /\ c.start = s.pos /\ c.message = NoMessage
  BY <1>1, NewCallFacts DEF Call
<1>3. PICK h \in file_fread(c, 8) : b \in AfterRecordHeader(h)
  BY <1>1 DEF read_record
<1>4. /\ h \in CallState
      /\ h.rc = -1 /\ h.message = NoMessage /\ h.cap = cap /\ h.start = s.pos
      /\ h.nr - c.nr \in 0 .. 8
      /\ h.stream.pos = s.pos + (h.nr - c.nr)
      /\ ferror(s) => ferror(h.stream)
      /\ h.faults <= budget
  <2>1. 8 \in Nat
    OBVIOUS
  <2>2. /\ h \in CallState
        /\ h.rc = c.rc /\ h.message = c.message /\ h.cap = c.cap /\ h.start = c.start
        /\ h.nr - c.nr \in 0 .. 8
        /\ h.stream.pos = c.stream.pos + (h.nr - c.nr)
        /\ ferror(c.stream) => ferror(h.stream)
        /\ h.faults <= c.faults
    BY <2>1, FileFreadFacts
  <2>. QED
    BY <1>2, <2>2
<1>5. /\ s.pos \in Nat /\ h.nr \in Nat /\ h.stream.pos = s.pos + h.nr
      /\ h.stream.pos = h.start + h.nr
  BY <1>2, <1>4 DEF CallState, Stream
<1>6. /\ Progress(h, b) /\ Sound(b)
      /\ ferror(h.stream) => b.rc = -1
  BY <1>3, <1>4, <1>5, AfterRecordHeaderFacts
<1>7. /\ b \in CallState /\ b.nr \in Nat /\ b.cap \in Nat /\ b.faults \in Nat
      /\ b.stream.pos \in Nat
  BY <1>6 DEF Progress, CallState, Stream
<1>8. /\ b.start = s.pos /\ b.cap >= cap
      /\ ferror(h.stream) => ferror(b.stream)
  BY <1>4, <1>6 DEF Progress
<1>9. b.faults <= budget /\ b.stream.pos = s.pos + b.nr
  BY <1>4, <1>5, <1>6, <1>7 DEF Progress, CallState
<1>. QED
  BY <1>4, <1>6, <1>7, <1>8, <1>9

(* shp_read_header does the same, and delivers no record.                  *)
LEMMA ReadHeaderFacts ==
  ASSUME file \in Files, NEW s \in Stream, NEW budget \in Nat,
         NEW b \in shp_read_header(Call(s, 0, budget))
  PROVE  /\ b \in CallState
         /\ b.start = s.pos /\ b.faults <= budget
         /\ b.stream.pos = s.pos + b.nr
         /\ ferror(s) => ferror(b.stream) /\ b.rc = -1
         /\ b.rec = NoRecord
         /\ b.rc = -1 => b.message # NoMessage
<1>1. PICK c \in CallState : c = Call(s, 0, budget)
  BY NewCallFacts
<1>2. /\ c.stream = s /\ c.nr = 0 /\ c.faults = budget
      /\ c.start = s.pos /\ c.rec = NoRecord
  BY <1>1, NewCallFacts DEF Call
<1>3. PICK h \in file_fread(c, HeaderSize) : b = Verdict(h, HeaderMessage(h))
  BY <1>1 DEF shp_read_header
<1>4. HeaderSize \in Nat
  BY DEF HeaderSize
<1>5. /\ h \in CallState
      /\ h.rec = c.rec /\ h.start = c.start
      /\ h.nr - c.nr \in 0 .. HeaderSize
      /\ h.stream.pos = c.stream.pos + (h.nr - c.nr)
      /\ ferror(c.stream) => ferror(h.stream)
      /\ h.faults <= c.faults
  BY <1>4, FileFreadFacts
<1>6. PICK message \in Messages : message = HeaderMessage(h)
  BY DEF HeaderMessage, Messages, NoMessage
<1>7. ferror(h.stream) => message # NoMessage
  BY <1>6 DEF HeaderMessage, NoMessage
<1>8. /\ b \in CallState
      /\ b.message = message
      /\ b.stream = h.stream /\ b.nr = h.nr /\ b.faults = h.faults
      /\ b.rec = h.rec /\ b.start = h.start
      /\ message = NoMessage => b.rc = 1
      /\ message # NoMessage => b.rc = -1
  BY <1>3, <1>5, <1>6, VerdictFacts
<1>9. h.nr \in Nat /\ s.pos \in Nat
  BY <1>5 DEF CallState, Stream
<1>. QED
  BY <1>2, <1>5, <1>7, <1>8, <1>9

(* shp_seek_record: as read_record, wherever the stream was moved.         *)
LEMMA SeekAndReadFacts ==
  ASSUME file \in Files, stream \in Stream, faults \in Nat, NEW offset \in Nat,
         NEW b \in seek_and_read(offset)
  PROVE  /\ b \in CallState
         /\ ferror(stream) => ferror(b.stream) /\ b.rc = -1
         /\ Sound(b)
<1>1. PICK p \in fsetpos(stream, offset, faults) :
        b \in IF p.rc = 0
              THEN read_record(Call(p.stream, 0, faults - p.fault))
              ELSE {Verdict(Call(p.stream, 0, faults - p.fault), "cannot_set_file_position")}
  BY DEF seek_and_read
<1>2. /\ p.stream \in Stream
      /\ ferror(stream) => ferror(p.stream)
      /\ faults - p.fault \in Nat
  BY FsetposFacts
<1>3. CASE p.rc = 0
  <2>1. b \in read_record(Call(p.stream, 0, faults - p.fault))
    BY <1>1, <1>3
  <2>2. 0 \in Nat
    OBVIOUS
  <2>. QED
    BY <1>2, <2>1, <2>2, ReadRecordFacts
<1>4. CASE p.rc # 0
  <2>1. PICK c \in CallState : c = Call(p.stream, 0, faults - p.fault)
    BY <1>2, NewCallFacts
  <2>2. c.stream = p.stream
    BY <1>2, <2>1, NewCallFacts
  <2>3. PICK message \in Messages \ {NoMessage} : b = Verdict(c, message)
    BY <1>1, <1>4, <2>1 DEF Messages, NoMessage
  <2>4. b \in CallState /\ b.rc = -1 /\ b.message # NoMessage /\ b.stream = c.stream
    BY <2>3, VerdictFacts
  <2>. QED
    BY <1>2, <2>2, <2>4 DEF Sound
<1>. QED
  BY <1>3, <1>4

-----------------------------------------------------------------------------
(* A step that reads, by what it leaves in the handle.                     *)
Reads(b) ==
  /\ Done(b)
  /\ ferror(stream) => ferror(b.stream) /\ b.rc = -1
  /\ b.rc = -1 => b.message # NoMessage
  /\ b.rec = NoRecord \/ Sound(b)

ReadsNothing ==
  /\ UNCHANGED <<stream, num_bytes, got>>
  /\ error' \in {error, "cannot_allocate", "set_by_program"}
  /\ faults' \in Nat

(* Every step of the reader, or of a program that uses it, is one of both. *)
LEMMA StepReads ==
  ASSUME TypeOK, Next
  PROVE  file' = file /\ (ReadsNothing \/ \E b \in CallState : Reads(b))
<1>1. /\ file \in Files /\ stream \in Stream /\ faults \in Nat
      /\ loop.cap \in Nat /\ 0 \in Nat
  BY DEF TypeOK
<1>2. CASE ReadHeader \/ BeginRead
  <2>1. PICK b \in shp_read_header(Call(stream, 0, faults)) : Done(b)
    BY <1>2 DEF ReadHeader, BeginRead
  <2>2. b \in CallState /\ Reads(b)
    BY <1>1, <2>1, ReadHeaderFacts DEF Reads
  <2>. QED
    BY <1>2, <2>2 DEF ReadHeader, BeginRead
<1>3. CASE ReadRecord \/ NextRecord
  <2>1. PICK cap \in {0, loop.cap} : \E b \in read_record(Call(stream, cap, faults)) : Done(b)
    BY <1>3 DEF ReadRecord, NextRecord
  <2>2. PICK b \in read_record(Call(stream, cap, faults)) : Done(b)
    BY <2>1
  <2>3. b \in CallState /\ Sound(b) /\ (ferror(stream) => ferror(b.stream) /\ b.rc = -1)
    BY <1>1, <2>2, ReadRecordFacts
  <2>4. Reads(b)
    BY <2>2, <2>3 DEF Reads, Sound
  <2>. QED
    BY <1>3, <2>3, <2>4 DEF ReadRecord, NextRecord
<1>4. CASE \E offset \in SeekOffsets : SeekRecord(offset)
  <2>1. PICK offset \in SeekOffsets : SeekRecord(offset)
    BY <1>4
  <2>2. offset \in Nat
    BY ShpReaderAssumption
  <2>3. PICK b \in seek_and_read(offset) : Done(b)
    BY <2>1 DEF SeekRecord
  <2>4. b \in CallState /\ Sound(b) /\ (ferror(stream) => ferror(b.stream) /\ b.rc = -1)
    BY <1>1, <2>2, <2>3, SeekAndReadFacts
  <2>5. Reads(b)
    BY <2>3, <2>4 DEF Reads, Sound
  <2>. QED
    BY <2>1, <2>4, <2>5 DEF SeekRecord
<1>5. CASE FreeRecord \/ SetError
  BY <1>1, <1>5 DEF FreeRecord, SetError, ReadsNothing
<1>6. CASE \E answer \in {-1, 0, 1} : HeaderCallback(answer)
  BY <1>1, <1>6 DEF HeaderCallback, ReadsNothing
<1>7. CASE \E answer \in {-1, 0, 1} : RecordCallback(answer)
  BY <1>1, <1>7 DEF RecordCallback, ReadsNothing
<1>. QED
  BY <1>2, <1>3, <1>4, <1>5, <1>6, <1>7 DEF Next, Reading

(* What a call leaves in the handle, by what it came to.                   *)
LEMMA DoneFacts ==
  ASSUME num_bytes \in Nat, error \in Messages, NEW b \in CallState, Done(b)
  PROVE  /\ stream' = b.stream /\ stream' \in Stream
         /\ num_bytes' \in Nat /\ error' \in Messages /\ faults' \in Nat
         /\ got' \in Result /\ got'.rc = b.rc /\ got'.rec = b.rec /\ got'.start = b.start
         /\ b.message # NoMessage => error' # NoMessage
         /\ error # NoMessage => error' # NoMessage
<1>1. /\ b.stream \in Stream /\ b.nr \in Nat /\ b.message \in Messages /\ b.faults \in Nat
      /\ b.rc \in {-1, 0, 1} /\ b.rec \in Record /\ b.start \in Nat
  BY DEF CallState
<1>2. got' \in Result /\ got'.rc = b.rc /\ got'.rec = b.rec /\ got'.start = b.start
  BY <1>1 DEF Done, Result
<1>. QED
  BY <1>1, <1>2 DEF Done

(* What a call hands over it has allocated, and what it has allocated and  *)
(* does not hand over it frees.                                            *)
LEMMA HandOverFacts ==
  ASSUME live \in Int, held \in Nat, NEW b \in CallState, Sound(b), HandOver(b)
  PROVE  held' \in Nat /\ live' \in Int /\ live' = live + (held' - held)
<1>1. b.rc \in {-1, 0, 1} /\ b.cap \in Nat /\ b.rec \in Record
  BY DEF CallState
<1>2. b.rc = 1 => b.cap > 0
  BY <1>1, RecordFacts DEF Sound
<1>3. CASE b.rc = 1
  BY <1>1, <1>2, <1>3 DEF HandOver
<1>4. CASE b.rc # 1
  BY <1>1, <1>4 DEF HandOver
<1>. QED
  BY <1>3, <1>4

-----------------------------------------------------------------------------
(* The part of the state that is shp_read's own and the program's.         *)
ControlOK ==
  /\ at \in {"caller", "header_cb", "record_cb", "loop"}
  /\ loop \in [cap : Nat, offset : Nat]
  /\ out \in [op : {"none", "header", "record", "seek", "read", "callback"}, rc : {-1, 0, 1}]
  /\ held \in Nat
  /\ live \in Int

(* What a call returns to the program.                                     *)
LEMMA ReturnFacts ==
  ASSUME NEW op \in {"none", "header", "record", "seek", "read", "callback"},
         NEW rc \in {-1, 0, 1}, Return(op, rc)
  PROVE  /\ out' \in [op : {"none", "header", "record", "seek", "read", "callback"},
                      rc : {-1, 0, 1}]
         /\ out'.op = op /\ out'.rc = rc
BY DEF Return

(* Every step keeps the types of shp_read's and the program's state.       *)
LEMMA ControlStep ==
  ASSUME TypeOK, Next
  PROVE  ControlOK'
<1>1. /\ file \in Files /\ stream \in Stream /\ faults \in Nat /\ num_bytes \in Nat
      /\ loop.cap \in Nat /\ 0 \in Nat /\ held \in Nat /\ live \in Int
      /\ MinBufSize \in Nat
      /\ ControlOK
  BY ShpReaderAssumption DEF TypeOK, ControlOK
<1>2. CASE ReadHeader \/ BeginRead
  <2>1. PICK b \in shp_read_header(Call(stream, 0, faults)) :
          \/ Return("header", b.rc) /\ UNCHANGED <<at, loop, held, live>>
          \/ /\ UNCHANGED <<loop, held, live>>
             /\ \/ at' = "header_cb" /\ out' = out
                \/ at' = "caller" /\ Return("read", b.rc)
    BY <1>2 DEF ReadHeader, BeginRead
  <2>2. b.rc \in {-1, 0, 1}
    BY <1>1, <2>1, ReadHeaderFacts DEF CallState
  <2>. QED
    BY <1>1, <2>1, <2>2, ReturnFacts DEF ControlOK
<1>3. CASE ReadRecord
  <2>1. PICK b \in read_record(Call(stream, 0, faults)) : HandOver(b) /\ Return("record", b.rc)
    BY <1>3 DEF ReadRecord
  <2>2. b \in CallState /\ Sound(b) /\ b.rc \in {-1, 0, 1}
    BY <1>1, <2>1, ReadRecordFacts DEF CallState
  <2>. QED
    BY <1>1, <1>3, <2>1, <2>2, HandOverFacts, ReturnFacts DEF ControlOK, ReadRecord
<1>4. CASE \E offset \in SeekOffsets : SeekRecord(offset)
  <2>1. PICK offset \in SeekOffsets : SeekRecord(offset)
    BY <1>4
  <2>2. PICK b \in seek_and_read(offset) : HandOver(b) /\ Return("seek", b.rc)
    BY <2>1 DEF SeekRecord
  <2>3. b \in CallState /\ Sound(b) /\ b.rc \in {-1, 0, 1}
    BY <1>1, <2>2, SeekAndReadFacts, ShpReaderAssumption DEF CallState
  <2>. QED
    BY <1>1, <2>1, <2>2, <2>3, HandOverFacts, ReturnFacts DEF ControlOK, SeekRecord
<1>5. CASE FreeRecord \/ SetError
  BY <1>1, <1>5 DEF FreeRecord, SetError, ControlOK
<1>6. CASE \E answer \in {-1, 0, 1} : HeaderCallback(answer)
  <2>1. PICK answer \in {-1, 0, 1} : HeaderCallback(answer)
    BY <1>6
  <2>2. CASE at' = "caller" /\ Return("callback", answer) /\ UNCHANGED <<loop, live, held>>
    BY <1>1, <2>2, ReturnFacts DEF ControlOK
  <2>3. CASE /\ at' = "loop" /\ loop' = [cap |-> MinBufSize, offset |-> 0]
             /\ live' = live + 1 /\ UNCHANGED <<out, held>>
    BY <1>1, <2>3 DEF ControlOK
  <2>4. CASE at' = "caller" /\ Return("read", -1) /\ UNCHANGED <<loop, live, held>>
    BY <1>1, <2>4, ReturnFacts DEF ControlOK
  <2>. QED
    BY <2>1, <2>2, <2>3, <2>4 DEF HeaderCallback
<1>7. CASE \E answer \in {-1, 0, 1} : RecordCallback(answer)
  <2>1. PICK answer \in {-1, 0, 1} : RecordCallback(answer)
    BY <1>7
  <2>2. CASE at' = "loop" /\ UNCHANGED <<loop, live, held, out>>
    BY <1>1, <2>2 DEF ControlOK
  <2>3. CASE Cleanup /\ Return("callback", answer) /\ UNCHANGED held
    BY <1>1, <2>3, ReturnFacts DEF ControlOK, Cleanup, Idle
  <2>. QED
    BY <2>1, <2>2, <2>3 DEF RecordCallback
<1>8. CASE NextRecord
  <2>1. PICK b \in read_record(Call(stream, loop.cap, faults)) :
          /\ held' = held
          /\ \/ /\ at' = "record_cb"
                /\ loop' = [cap |-> b.cap, offset |-> num_bytes]
                /\ UNCHANGED <<out, live>>
             \/ Cleanup /\ Return("read", b.rc)
    BY <1>8 DEF NextRecord
  <2>2. b.cap \in Nat /\ b.rc \in {-1, 0, 1}
    BY <1>1, <2>1, ReadRecordFacts DEF CallState
  <2>. QED
    BY <1>1, <2>1, <2>2, ReturnFacts DEF ControlOK, Cleanup, Idle
<1>. QED
  BY <1>2, <1>3, <1>4, <1>5, <1>6, <1>7, <1>8 DEF Next, Reading

(* Every step keeps the types of the whole state.                          *)
LEMMA TypeStep ==
  ASSUME TypeOK, Next
  PROVE  TypeOK'
<1>1. ControlOK' /\ file' \in Files
  BY ControlStep, StepReads DEF TypeOK
<1>2. /\ stream' \in Stream /\ num_bytes' \in Nat /\ error' \in Messages
      /\ got' \in Result /\ faults' \in Nat
  <2>1. CASE ReadsNothing
    BY <2>1 DEF ReadsNothing, TypeOK, Messages
  <2>2. CASE \E b \in CallState : Reads(b)
    BY <2>2, DoneFacts DEF Reads, TypeOK
  <2>. QED
    BY <2>1, <2>2, StepReads
<1>. QED
  BY <1>1, <1>2 DEF TypeOK, ControlOK

(* The initial state has its type.                                         *)
LEMMA TypeInit == Init => TypeOK
<1>1. MaxFaults \in Nat /\ NoMessage \in Messages /\ Opened \in Stream
  BY ShpReaderAssumption DEF Messages, Opened, Stream
<1>. QED
  BY <1>1, NoRecordFacts DEF Init, TypeOK, Idle, Result

(***************************************************************************)
(* The reader's state has its type, for every file, every place where the  *)
(* file ends, and every call of the operating system that fails.           *)
(***************************************************************************)
THEOREM TypeCorrect == Spec => []TypeOK
<1>1. TypeOK /\ UNCHANGED vars => TypeOK'
  BY DEF TypeOK, vars
<1>. QED
  BY <1>1, TypeInit, TypeStep, PTL DEF Spec

(* A call that hands over what it allocated leaves shp_read's buffer.      *)
LEMMA SameBuffer ==
  ASSUME live \in Int, held \in Nat, BlocksAccounted, at' = at,
         NEW b \in CallState, Sound(b), HandOver(b)
  PROVE  BlocksAccounted'
<1>1. held' \in Nat /\ live' \in Int /\ live' = live + (held' - held)
  BY HandOverFacts
<1>2. CASE at \in {"loop", "record_cb"}
  <2>1. live = held + 1
    BY <1>2 DEF BlocksAccounted
  <2>2. live' = held' + 1
    BY <1>1, <2>1
  <2>. QED
    BY <1>2, <2>2 DEF BlocksAccounted
<1>3. CASE at \notin {"loop", "record_cb"}
  <2>1. live = held + 0
    BY <1>3 DEF BlocksAccounted
  <2>2. live' = held' + 0
    BY <1>1, <2>1
  <2>. QED
    BY <1>3, <2>2 DEF BlocksAccounted
<1>. QED
  BY <1>2, <1>3

(* Every step allocates, hands over and frees the blocks it should.        *)
LEMMA BlocksStep ==
  ASSUME TypeOK, BlocksAccounted, Next
  PROVE  BlocksAccounted'
<1>1. /\ file \in Files /\ stream \in Stream /\ faults \in Nat
      /\ 0 \in Nat /\ held \in Nat /\ live \in Int
      /\ live = held + (IF at \in {"loop", "record_cb"} THEN 1 ELSE 0)
  BY DEF TypeOK, BlocksAccounted
<1>2. CASE ReadHeader \/ BeginRead
  BY <1>1, <1>2 DEF ReadHeader, BeginRead, BlocksAccounted
<1>3. CASE ReadRecord
  <2>1. PICK b \in read_record(Call(stream, 0, faults)) : HandOver(b)
    BY <1>3 DEF ReadRecord
  <2>2. b \in CallState /\ Sound(b)
    BY <1>1, <2>1, ReadRecordFacts
  <2>. QED
    BY <1>1, <1>3, <2>1, <2>2, SameBuffer DEF ReadRecord
<1>4. CASE \E offset \in SeekOffsets : SeekRecord(offset)
  <2>1. PICK offset \in SeekOffsets : SeekRecord(offset)
    BY <1>4
  <2>2. PICK b \in seek_and_read(offset) : HandOver(b)
    BY <2>1 DEF SeekRecord
  <2>3. b \in CallState /\ Sound(b)
    BY <1>1, <2>2, SeekAndReadFacts, ShpReaderAssumption
  <2>. QED
    BY <1>1, <2>1, <2>2, <2>3, SameBuffer DEF SeekRecord
<1>5. CASE FreeRecord \/ SetError
  BY <1>1, <1>5 DEF FreeRecord, SetError, BlocksAccounted
<1>6. CASE \E answer \in {-1, 0, 1} : HeaderCallback(answer)
  BY <1>1, <1>6 DEF HeaderCallback, BlocksAccounted
<1>7. CASE \E answer \in {-1, 0, 1} : RecordCallback(answer)
  BY <1>1, <1>7 DEF RecordCallback, Cleanup, BlocksAccounted
<1>8. CASE NextRecord
  BY <1>1, <1>8 DEF NextRecord, Cleanup, BlocksAccounted
<1>. QED
  BY <1>2, <1>3, <1>4, <1>5, <1>6, <1>7, <1>8 DEF Next, Reading

(***************************************************************************)
(* No block is lost and none is freed twice, whichever calls fail: the     *)
(* frees of shp_read_record, shp_seek_record and shp_read (shp.c) are the  *)
(* right ones on every path.                                               *)
(***************************************************************************)
THEOREM NoBlockLost == Spec => []BlocksAccounted
<1>1. Init => BlocksAccounted
  BY DEF Init, BlocksAccounted
<1>2. BlocksAccounted /\ UNCHANGED vars => BlocksAccounted'
  BY DEF BlocksAccounted, vars
<1>. QED
  BY <1>1, <1>2, BlocksStep, TypeCorrect, PTL DEF Spec

(* Every step delivers a record that fits, or none.                        *)
LEMMA DeliveredStep ==
  ASSUME TypeOK, DeliveredRecordFits, Next
  PROVE  DeliveredRecordFits'
<1>1. file' = file /\ (ReadsNothing \/ \E b \in CallState : Reads(b))
  BY StepReads
<1>2. CASE ReadsNothing
  BY <1>1, <1>2 DEF ReadsNothing, DeliveredRecordFits, Delivered
<1>3. CASE \E b \in CallState : Reads(b)
  <2>1. PICK b \in CallState : Reads(b)
    BY <1>3
  <2>2. /\ got'.rc = b.rc /\ got'.rec = b.rec /\ got'.start = b.start
        /\ b.rec \in Record
    BY <2>1, DoneFacts DEF Reads, TypeOK, CallState
  <2>3. b.rc = 1 /\ b.rec # NoRecord =>
          b.start + 8 + record_size(b.rec) <= file.size /\ Accepted(b.rec)
    BY <2>1 DEF Reads, Sound
  <2>4. b.rc = 1 /\ b.rec # NoRecord => ArraysTile(b.rec)
    BY <2>2, <2>3, WideSizeAssumption, WideSizesFit, AcceptedArraysTile
  <2>. QED
    BY <1>1, <2>2, <2>3, <2>4 DEF DeliveredRecordFits, Delivered
<1>. QED
  BY <1>1, <1>2, <1>3

(***************************************************************************)
(* A record that reaches the program was read in full from the file, and   *)
(* its arrays tile its content: for every file, every offset it seeks to,  *)
(* and every garbage it finds there.                                       *)
(***************************************************************************)
THEOREM DeliveredFits == Spec => []DeliveredRecordFits
<1>1. Init => DeliveredRecordFits
  BY DEF Init, DeliveredRecordFits, Delivered
<1>2. DeliveredRecordFits /\ UNCHANGED vars => DeliveredRecordFits'
  BY DEF DeliveredRecordFits, Delivered, vars
<1>. QED
  BY <1>1, <1>2, DeliveredStep, TypeCorrect, PTL DEF Spec

(***************************************************************************)
(* A read error is never forgotten: whatever the program then calls, and   *)
(* wherever it seeks, every answer is -1.                                  *)
(***************************************************************************)
THEOREM ReadErrorIsSticky == Spec => ErrorIsSticky
<1>1. TypeOK /\ [Next]_vars =>
        [ferror(stream) => ferror(stream') /\ (got' = got \/ got'.rc = -1)]_vars
  <2>1. SUFFICES ASSUME TypeOK, Next, ferror(stream)
                 PROVE  ferror(stream') /\ (got' = got \/ got'.rc = -1)
    BY DEF vars
  <2>2. CASE ReadsNothing
    BY <2>1, <2>2 DEF ReadsNothing
  <2>3. CASE \E b \in CallState : Reads(b)
    <3>1. PICK b \in CallState : Reads(b)
      BY <2>3
    <3>2. stream' = b.stream /\ got'.rc = b.rc
      BY <2>1, <3>1, DoneFacts DEF Reads, TypeOK
    <3>. QED
      BY <2>1, <3>1, <3>2 DEF Reads
  <2>. QED
    BY <2>1, <2>2, <2>3, StepReads
<1>. QED
  BY <1>1, TypeCorrect, PTL DEF Spec, ErrorIsSticky

-----------------------------------------------------------------------------
(* What happens when shp_read goes round its loop.                         *)
LEMMA RoundFacts ==
  ASSUME TypeOK, Next, at = "loop", at' = "record_cb"
  PROVE  \E b \in read_record(Call(stream, loop.cap, faults)) :
           /\ b.rc = 1
           /\ got'.rec = b.rec
           /\ loop'.cap = b.cap /\ loop'.offset = num_bytes
<1>1. NextRecord
  <2>1. CASE ReadHeader \/ BeginRead
    BY <2>1 DEF ReadHeader, BeginRead
  <2>2. CASE ReadRecord \/ FreeRecord \/ SetError
             \/ \E offset \in SeekOffsets : SeekRecord(offset)
    BY <2>2 DEF ReadRecord, SeekRecord, FreeRecord, SetError
  <2>3. CASE \E answer \in {-1, 0, 1} : HeaderCallback(answer) \/ RecordCallback(answer)
    BY <2>3 DEF HeaderCallback, RecordCallback
  <2>. QED
    BY <2>1, <2>2, <2>3 DEF Next, Reading
<1>2. PICK b \in read_record(Call(stream, loop.cap, faults)) :
        /\ Done(b)
        /\ \/ b.rc > 0 /\ loop' = [cap |-> b.cap, offset |-> num_bytes]
           \/ Cleanup
  BY <1>1 DEF NextRecord
<1>3. /\ file \in Files /\ stream \in Stream /\ loop.cap \in Nat /\ faults \in Nat
  BY DEF TypeOK
<1>4. b.rc \in {-1, 0, 1}
  BY <1>2, <1>3, ReadRecordFacts DEF CallState
<1>. QED
  BY <1>2, <1>4 DEF Done, Cleanup

(***************************************************************************)
(* shp_read's buffer is large enough for the record and the shp_record_t   *)
(* before it whenever handle_record is called.                             *)
(***************************************************************************)
THEOREM BufferIsLargeEnough == Spec => BufferHoldsRecord
<1>1. TypeOK /\ [Next]_vars =>
        [at = "loop" /\ at' = "record_cb" => loop'.cap >= buf_size(got'.rec)]_vars
  <2>1. SUFFICES ASSUME TypeOK, Next, at = "loop", at' = "record_cb"
                 PROVE  loop'.cap >= buf_size(got'.rec)
    BY DEF vars
  <2>2. PICK b \in read_record(Call(stream, loop.cap, faults)) :
          b.rc = 1 /\ got'.rec = b.rec /\ loop'.cap = b.cap
    BY <2>1, RoundFacts
  <2>3. file \in Files /\ stream \in Stream /\ loop.cap \in Nat /\ faults \in Nat
    BY <2>1 DEF TypeOK
  <2>4. Sound(b)
    BY <2>3, ReadRecordFacts
  <2>. QED
    BY <2>2, <2>4 DEF Sound
<1>. QED
  BY <1>1, TypeCorrect, PTL DEF Spec, BufferHoldsRecord

(* fh->num_bytes counts from the beginning of the file as long as nothing  *)
(* moves the stream but reading.                                           *)
CountIsPosition == num_bytes = stream.pos

(* Every step that reads counts what it moves the stream by.               *)
LEMMA CountStep ==
  ASSUME SeekOffsets = {}, TypeOK, CountIsPosition, Next
  PROVE  CountIsPosition'
<1>1. /\ file \in Files /\ stream \in Stream /\ faults \in Nat /\ loop.cap \in Nat
      /\ 0 \in Nat /\ num_bytes = stream.pos
  BY DEF TypeOK, CountIsPosition
<1>2. CASE ReadHeader \/ BeginRead
  <2>1. PICK b \in shp_read_header(Call(stream, 0, faults)) : Done(b)
    BY <1>2 DEF ReadHeader, BeginRead
  <2>2. b.stream.pos = stream.pos + b.nr
    BY <1>1, <2>1, ReadHeaderFacts
  <2>. QED
    BY <1>1, <2>1, <2>2 DEF Done, CountIsPosition
<1>3. CASE ReadRecord \/ NextRecord
  <2>1. PICK cap \in {0, loop.cap} : \E b \in read_record(Call(stream, cap, faults)) : Done(b)
    BY <1>3 DEF ReadRecord, NextRecord
  <2>2. PICK b \in read_record(Call(stream, cap, faults)) : Done(b)
    BY <2>1
  <2>3. b.stream.pos = stream.pos + b.nr
    BY <1>1, <2>2, ReadRecordFacts
  <2>. QED
    BY <1>1, <2>2, <2>3 DEF Done, CountIsPosition
<1>4. CASE FreeRecord \/ SetError
  BY <1>1, <1>4 DEF FreeRecord, SetError, CountIsPosition
<1>5. CASE \E answer \in {-1, 0, 1} : HeaderCallback(answer) \/ RecordCallback(answer)
  BY <1>1, <1>5 DEF HeaderCallback, RecordCallback, CountIsPosition
<1>. QED
  BY <1>2, <1>3, <1>4, <1>5 DEF Next, Reading

(***************************************************************************)
(* The file_offset that handle_record gets is the record's position, for a *)
(* program that never calls shp_seek_record on the handle: its callbacks   *)
(* may read records themselves.                                            *)
(***************************************************************************)
THEOREM OffsetsArePositions ==
  ASSUME SeekOffsets = {}
  PROVE  Spec => OffsetIsPosition
<1>1. Init => CountIsPosition
  BY DEF Init, CountIsPosition, Opened
<1>2. CountIsPosition /\ UNCHANGED vars => CountIsPosition'
  BY DEF CountIsPosition, vars
<1>3. TypeOK /\ CountIsPosition /\ [Next]_vars =>
        [at = "loop" /\ at' = "record_cb" => loop'.offset = stream.pos]_vars
  <2>1. SUFFICES ASSUME TypeOK, CountIsPosition, Next, at = "loop", at' = "record_cb"
                 PROVE  loop'.offset = stream.pos
    BY DEF vars
  <2>. QED
    BY <2>1, RoundFacts DEF CountIsPosition
<1>4. TypeOK /\ CountIsPosition /\ [Next]_vars => CountIsPosition'
  BY <1>2, CountStep
<1>. QED
  BY <1>1, <1>3, <1>4, TypeCorrect, PTL DEF Spec, OffsetIsPosition

-----------------------------------------------------------------------------
(* A message stays: fh->error is only ever overwritten by another one.     *)
LEMMA MessageStays ==
  ASSUME TypeOK, Next, error # NoMessage
  PROVE  error' # NoMessage
<1>1. "cannot_allocate" # NoMessage /\ "set_by_program" # NoMessage
  BY DEF NoMessage
<1>2. CASE ReadsNothing
  BY <1>1, <1>2 DEF ReadsNothing
<1>3. CASE \E b \in CallState : Reads(b)
  BY <1>3, DoneFacts DEF Reads, TypeOK
<1>. QED
  BY <1>2, <1>3, StepReads

(* A call that returns what a read came to returns with a message if -1.   *)
LEMMA ReadExplained ==
  ASSUME TypeOK, NEW b \in CallState, Done(b), b.rc = -1 => b.message # NoMessage,
         NEW op \in {"none", "header", "record", "seek", "read", "callback"}, Return(op, b.rc)
  PROVE  FailureExplained'
<1>1. out'.rc = b.rc
  BY ReturnFacts DEF CallState
<1>2. b.message # NoMessage => error' # NoMessage
  BY DoneFacts DEF TypeOK
<1>. QED
  BY <1>1, <1>2 DEF FailureExplained

(* Every step that returns -1 leaves a message.                            *)
LEMMA ExplainedStep ==
  ASSUME TypeOK, FailureExplained, Next
  PROVE  FailureExplained'
<1>1. /\ file \in Files /\ stream \in Stream /\ faults \in Nat /\ loop.cap \in Nat
      /\ 0 \in Nat
  BY DEF TypeOK
<1>2. CASE out' = out
  BY <1>2, MessageStays DEF FailureExplained
<1>3. CASE ReadHeader \/ BeginRead
  <2>1. PICK b \in shp_read_header(Call(stream, 0, faults)) :
          Done(b) /\ (Return("header", b.rc) \/ Return("read", b.rc) \/ out' = out)
    BY <1>3 DEF ReadHeader, BeginRead
  <2>2. b \in CallState /\ (b.rc = -1 => b.message # NoMessage)
    BY <1>1, <2>1, ReadHeaderFacts
  <2>. QED
    BY <1>2, <2>1, <2>2, ReadExplained
<1>4. CASE ReadRecord \/ NextRecord
  <2>1. PICK cap \in {0, loop.cap} :
          \E b \in read_record(Call(stream, cap, faults)) :
            Done(b) /\ (Return("record", b.rc) \/ Return("read", b.rc) \/ out' = out)
    BY <1>4 DEF ReadRecord, NextRecord
  <2>2. PICK b \in read_record(Call(stream, cap, faults)) :
          Done(b) /\ (Return("record", b.rc) \/ Return("read", b.rc) \/ out' = out)
    BY <2>1
  <2>3. b \in CallState /\ (b.rc = -1 => b.message # NoMessage)
    BY <1>1, <2>2, ReadRecordFacts DEF Sound
  <2>. QED
    BY <1>2, <2>2, <2>3, ReadExplained
<1>5. CASE \E offset \in SeekOffsets : SeekRecord(offset)
  <2>1. PICK offset \in SeekOffsets : SeekRecord(offset)
    BY <1>5
  <2>2. PICK b \in seek_and_read(offset) : Done(b) /\ Return("seek", b.rc)
    BY <2>1 DEF SeekRecord
  <2>3. b \in CallState /\ (b.rc = -1 => b.message # NoMessage)
    BY <1>1, <2>2, SeekAndReadFacts, ShpReaderAssumption DEF Sound
  <2>. QED
    BY <2>2, <2>3, ReadExplained
<1>6. CASE FreeRecord \/ SetError
  BY <1>2, <1>6 DEF FreeRecord, SetError
<1>7. CASE \E answer \in {-1, 0, 1} : HeaderCallback(answer) \/ RecordCallback(answer)
  <2>1. PICK answer \in {-1, 0, 1} : HeaderCallback(answer) \/ RecordCallback(answer)
    BY <1>7
  <2>2. CASE Return("callback", answer)
    BY <2>2, ReturnFacts DEF FailureExplained
  <2>3. CASE error' = "cannot_allocate"
    BY <2>3 DEF FailureExplained, NoMessage
  <2>. QED
    BY <1>2, <2>1, <2>2, <2>3 DEF HeaderCallback, RecordCallback
<1>. QED
  BY <1>3, <1>4, <1>5, <1>6, <1>7 DEF Next, Reading

(***************************************************************************)
(* No call returns -1 on its own account without a message in fh->error.   *)
(***************************************************************************)
THEOREM FailuresExplained == Spec => []FailureExplained
<1>1. Init => FailureExplained
  BY DEF Init, FailureExplained
<1>2. FailureExplained /\ UNCHANGED vars => FailureExplained'
  BY DEF FailureExplained, vars
<1>. QED
  BY <1>1, <1>2, ExplainedStep, TypeCorrect, PTL DEF Spec

-----------------------------------------------------------------------------
(* A read of the file without a fault stops only where the file ends.      *)
Plain(c, b, count) ==
  LET pos == c.stream.pos
  IN  /\ b.faults = c.faults
      /\ ferror(b.stream) <=> ferror(c.stream)
      /\ pos + count <= file.size =>
           /\ b.stream.pos = pos + count
           /\ b.nr = c.nr + count
           /\ feof(b.stream) <=> feof(c.stream)
      /\ pos + count > file.size =>
           /\ b.stream.pos = IF pos < file.size THEN file.size ELSE pos
           /\ b.nr # c.nr + count
           /\ feof(b.stream)

(* A read of the file with a fault.                                        *)
Faulty(c, b) ==
  /\ c.faults > 0
  /\ b.faults = c.faults - 1
  /\ ferror(b.stream)
  /\ feof(b.stream) <=> feof(c.stream)

(* file_fread is one or the other.                                         *)
LEMMA FileFreadOutcomes ==
  ASSUME file \in Files, NEW c \in CallState, NEW count \in Nat, count > 0,
         NEW b \in file_fread(c, count)
  PROVE  Plain(c, b, count) \/ Faulty(c, b)
<1>1. /\ c.stream \in Stream /\ c.faults \in Nat /\ c.nr \in Nat /\ c.stream.pos \in Nat
      /\ file.size \in Nat
  BY ShpReaderAssumption DEF CallState, IsFile, Stream
<1>2. PICK r \in fread(c.stream, file.size, count, c.faults) :
        b = [c EXCEPT !.stream = r.stream, !.nr = c.nr + r.nr, !.faults = c.faults - r.fault]
  BY DEF file_fread
<1>3. /\ b.stream = r.stream /\ b.nr = c.nr + r.nr /\ b.faults = c.faults - r.fault
  BY <1>2 DEF CallState
<1>4. /\ r.nr \in 0 .. count
      /\ r.stream.pos = c.stream.pos + r.nr
      /\ r.fault \in Nat /\ r.fault <= c.faults
  BY <1>1, FreadFacts
<1>5. \/ /\ r.fault = 0
         /\ ferror(r.stream) <=> ferror(c.stream)
         /\ r.nr = IF count <= Available(c.stream, file.size)
                   THEN count ELSE Available(c.stream, file.size)
         /\ feof(r.stream) <=> feof(c.stream) \/ r.nr < count
      \/ /\ r.fault = 1 /\ ferror(r.stream)
         /\ feof(r.stream) <=> feof(c.stream)
  BY <1>1, FreadOutcomes
<1>6. CASE r.fault = 1 /\ ferror(r.stream) /\ (feof(r.stream) <=> feof(c.stream))
  BY <1>1, <1>3, <1>4, <1>6 DEF Faulty
<1>7. CASE /\ r.fault = 0
           /\ ferror(r.stream) <=> ferror(c.stream)
           /\ r.nr = IF count <= Available(c.stream, file.size)
                     THEN count ELSE Available(c.stream, file.size)
           /\ feof(r.stream) <=> feof(c.stream) \/ r.nr < count
  <2>1. b.faults = c.faults
    BY <1>1, <1>3, <1>7
  <2>2. CASE c.stream.pos + count <= file.size
    <3>1. r.nr = count
      BY <1>1, <1>7, <2>2 DEF Available
    <3>. QED
      BY <1>1, <1>3, <1>4, <1>7, <2>1, <2>2, <3>1 DEF Plain
  <2>3. CASE c.stream.pos + count > file.size
    <3>1. r.nr = (IF c.stream.pos < file.size THEN file.size - c.stream.pos ELSE 0)
          /\ r.nr < count
      BY <1>1, <1>7, <2>3 DEF Available
    <3>. QED
      BY <1>1, <1>3, <1>4, <1>7, <2>1, <2>3, <3>1 DEF Plain
  <2>. QED
    BY <1>1, <2>2, <2>3
<1>. QED
  BY <1>5, <1>6, <1>7

(* The end-of-file indicator is set only where the file has ended.         *)
EndIsEnd(s) == feof(s) => s.pos >= file.size

(* Reading keeps that true.                                                *)
LEMMA EndStaysEnd ==
  ASSUME file \in Files, NEW c \in CallState, NEW count \in Nat, count > 0,
         NEW b \in file_fread(c, count), EndIsEnd(c.stream)
  PROVE  EndIsEnd(b.stream)
<1>1. /\ c.stream.pos \in Nat /\ c.nr \in Nat /\ file.size \in Nat
  BY ShpReaderAssumption DEF CallState, IsFile, Stream
<1>2. Plain(c, b, count) \/ Faulty(c, b)
  BY FileFreadOutcomes
<1>3. /\ b.nr - c.nr \in 0 .. count
      /\ b.stream.pos = c.stream.pos + (b.nr - c.nr)
  BY FileFreadFacts
<1>. QED
  BY <1>1, <1>2, <1>3 DEF Plain, Faulty, EndIsEnd

(* A call that fails because the system did, now or before.                *)
Failing(s, budget, b) ==
  /\ b.rc = -1
  /\ \/ budget > 0 /\ b.faults = budget - 1
     \/ ferror(s) /\ b.faults = budget

(* A call that neither met a fault nor remembers one.                      *)
Undisturbed(s, budget, b) ==
  /\ b.faults = budget
  /\ ~ferror(s)
  /\ ~ferror(b.stream)

(* What the bytes of a record, at the position before its content, make of *)
(* an undisturbed call.                                                    *)
Runt(pos, rec, b)  == rec.len < 2 /\ b.rc = -1 /\ b.stream.pos = pos
Cut(pos, rec, b)   ==
  /\ rec.len >= 2 /\ pos + record_size(rec) > file.size
  /\ b.rc = -1 /\ b.stream.pos = file.size
Whole(pos, rec, b) ==
  /\ rec.len >= 2 /\ pos + record_size(rec) <= file.size
  /\ b.rc = (IF Accepted(rec) THEN 1 ELSE -1)
  /\ b.stream.pos = pos + record_size(rec)

ByContent(pos, rec, b) == Runt(pos, rec, b) \/ Cut(pos, rec, b) \/ Whole(pos, rec, b)

(* The content of a record, read into its block.                           *)
LEMMA ContentOutcomes ==
  ASSUME file \in Files, NEW c \in CallState, c.message = NoMessage, c.rec.len >= 2,
         ~ferror(c.stream), c.stream.pos <= file.size, EndIsEnd(c.stream),
         NEW b \in ReadContent(c)
  PROVE  /\ EndIsEnd(b.stream)
         /\ \/ Failing(c.stream, c.faults, b)
            \/ Undisturbed(c.stream, c.faults, b) /\ ByContent(c.stream.pos, c.rec, b)
<1>1. /\ c.rec \in Record /\ c.faults \in Nat
      /\ c.stream.pos \in Nat /\ c.nr \in Nat /\ file.size \in Nat
  BY ShpReaderAssumption DEF CallState, Stream, IsFile
<1>2. record_size(c.rec) \in Nat /\ record_size(c.rec) > 0
  BY <1>1, RecordFacts
<1>3. PICK d \in file_fread(c, record_size(c.rec)) :
        b = Verdict(d, ContentMessage(d, d.nr - c.nr))
  BY DEF ReadContent
<1>4. /\ d \in CallState /\ d.rec = c.rec
      /\ d.nr - c.nr \in 0 .. record_size(c.rec)
  BY <1>2, FileFreadFacts
<1>5. EndIsEnd(d.stream)
  BY <1>2, EndStaysEnd
<1>6. d.nr - c.nr \in Nat /\ d.nr \in Nat
  BY <1>2, <1>4 DEF CallState
<1>7. PICK message \in Messages : message = ContentMessage(d, d.nr - c.nr)
  BY <1>4, <1>6, ContentMessageFacts
<1>8. /\ b.stream = d.stream /\ b.faults = d.faults
      /\ message = NoMessage => b.rc = 1
      /\ message # NoMessage => b.rc = -1
  BY <1>3, <1>4, <1>7, VerdictFacts
<1>9. CASE Faulty(c, d)
  <2>1. message # NoMessage
    BY <1>7, <1>9 DEF Faulty, ContentMessage, NoMessage
  <2>. QED
    BY <1>5, <1>8, <1>9, <2>1 DEF Faulty, Failing
<1>10. CASE Plain(c, d, record_size(c.rec))
  <2>1. Undisturbed(c.stream, c.faults, b) /\ ~ferror(d.stream)
    BY <1>8, <1>10 DEF Plain, Undisturbed
  <2>2. CASE c.stream.pos + record_size(c.rec) <= file.size
    <3>1. d.nr - c.nr = record_size(d.rec) /\ d.stream.pos = c.stream.pos + record_size(c.rec)
      BY <1>1, <1>2, <1>4, <1>10, <2>2 DEF Plain
    <3>2. message = ParseError(c.rec)
      BY <1>4, <1>7, <2>1, <3>1 DEF ContentMessage
    <3>3. Whole(c.stream.pos, c.rec, b)
      BY <1>8, <2>2, <3>1, <3>2 DEF Whole, Accepted
    <3>. QED
      BY <1>5, <1>8, <2>1, <3>3 DEF ByContent
  <2>3. CASE c.stream.pos + record_size(c.rec) > file.size
    <3>1. d.nr - c.nr # record_size(d.rec) /\ d.stream.pos = file.size
      BY <1>1, <1>2, <1>4, <1>6, <1>10, <2>3 DEF Plain
    <3>2. message = "expected_record"
      BY <1>7, <2>1, <3>1 DEF ContentMessage
    <3>3. Cut(c.stream.pos, c.rec, b)
      BY <1>8, <2>3, <3>1, <3>2 DEF Cut, NoMessage
    <3>. QED
      BY <1>5, <1>8, <2>1, <3>3 DEF ByContent
  <2>. QED
    BY <1>1, <1>2, <2>2, <2>3
<1>. QED
  BY <1>2, <1>9, <1>10, FileFreadOutcomes

(* The same from the record's length on.                                   *)
LEMMA BodyOutcomes ==
  ASSUME file \in Files, NEW c \in CallState, c.rc = -1, c.message = NoMessage,
         ~ferror(c.stream), c.stream.pos <= file.size, EndIsEnd(c.stream),
         NEW b \in ReadBody(c)
  PROVE  /\ EndIsEnd(b.stream)
         /\ \/ Failing(c.stream, c.faults, b)
            \/ Undisturbed(c.stream, c.faults, b) /\ ByContent(c.stream.pos, c.rec, b)
<1>1. c.rec.len \in Nat /\ c.faults \in Nat /\ c.rec \in Record
  BY RecordFacts DEF CallState
<1>2. CASE c.rec.len < 2
  <2>1. PICK message \in Messages \ {NoMessage} : b = Verdict(c, message)
    BY <1>2 DEF ReadBody, Messages, NoMessage
  <2>2. b.rc = -1 /\ b.stream = c.stream /\ b.faults = c.faults
    BY <2>1, VerdictFacts
  <2>. QED
    BY <1>2, <2>2 DEF Undisturbed, ByContent, Runt
<1>3. CASE c.rec.len >= 2
  <2>1. PICK a \in realloc(c) : b \in ReadContent(a)
    BY <1>1, <1>3 DEF ReadBody
  <2>2. /\ a \in CallState /\ a.stream = c.stream /\ a.rec = c.rec
    BY <2>1, ReallocFacts
  <2>3. CASE a.message = NoMessage /\ a.faults = c.faults
    <3>1. /\ EndIsEnd(b.stream)
          /\ \/ Failing(a.stream, a.faults, b)
             \/ Undisturbed(a.stream, a.faults, b) /\ ByContent(a.stream.pos, a.rec, b)
      BY <1>3, <2>1, <2>2, <2>3, ContentOutcomes
    <3>. QED
      BY <2>2, <2>3, <3>1
  <2>4. CASE c.faults >= 1 /\ a = Verdict(Spend(c), "cannot_allocate")
    <3>1. a.rc = -1 /\ a.message # NoMessage
      BY <2>4, NoBlockFacts
    <3>2. a.faults = c.faults - 1
      BY <2>4 DEF Verdict, Spend, CallState
    <3>3. b = a
      BY <2>1, <3>1 DEF ReadContent
    <3>. QED
      BY <1>1, <2>2, <2>4, <3>1, <3>2, <3>3 DEF Failing
  <2>5. \/ a.message = NoMessage /\ a.faults = c.faults
        \/ c.faults >= 1 /\ a = Verdict(Spend(c), "cannot_allocate")
    <3>1. a = c \/ a = Grown(c) \/ (c.faults >= 1 /\ a = Verdict(Spend(c), "cannot_allocate"))
      BY <1>1, <2>1 DEF realloc
    <3>. QED
      BY <3>1, GrownFacts
  <2>. QED
    BY <2>3, <2>4, <2>5
<1>. QED
  BY <1>1, <1>2, <1>3

(* What becomes of an undisturbed read_record at a position.               *)
ByPosition(pos, b) ==
  \/ /\ pos + 8 > file.size
     /\ b.rc = 0
     /\ b.stream.pos = IF pos < file.size THEN file.size ELSE pos
  \/ /\ pos + 8 <= file.size
     /\ \E rec \in RecordsAt(pos) : b.rec = rec /\ ByContent(pos + 8, rec, b)

(* A call keeps the record it has found.                                   *)
LEMMA BodyKeepsRecord ==
  ASSUME file \in Files, NEW c \in CallState, NEW b \in ReadBody(c)
  PROVE  b.rec = c.rec
<1>1. ASSUME NEW d \in CallState, NEW message
      PROVE  Verdict(d, message).rec = d.rec
  BY DEF Verdict, CallState
<1>2. ASSUME NEW d \in CallState, NEW e \in ReadContent(d)
      PROVE  e.rec = d.rec
  <2>1. record_size(d.rec) \in Nat
    BY RecordFacts DEF CallState
  <2>2. CASE e = d
    BY <2>2
  <2>3. CASE \E f \in file_fread(d, record_size(d.rec)) :
               e = Verdict(f, ContentMessage(f, f.nr - d.nr))
    <3>1. PICK f \in file_fread(d, record_size(d.rec)) :
            e = Verdict(f, ContentMessage(f, f.nr - d.nr))
      BY <2>3
    <3>2. f \in CallState /\ f.rec = d.rec
      BY <2>1, FileFreadFacts
    <3>. QED
      BY <1>1, <3>1, <3>2
  <2>. QED
    BY <2>2, <2>3 DEF ReadContent
<1>3. CASE b = Verdict(c, "content_length_is_invalid")
  BY <1>1, <1>3
<1>4. CASE \E a \in realloc(c) : b \in ReadContent(a)
  BY <1>2, <1>4, ReallocFacts
<1>. QED
  BY <1>3, <1>4 DEF ReadBody

(***************************************************************************)
(* read_record, at a position of a file that has ended only where its size *)
(* says so: it fails because the system does, or what it answers and where *)
(* it leaves the stream is decided by what the file holds there.           *)
(***************************************************************************)
LEMMA RecordOutcomes ==
  ASSUME file \in Files,
         NEW s \in Stream, NEW cap \in Nat, NEW budget \in Nat, EndIsEnd(s),
         NEW b \in read_record(Call(s, cap, budget))
  PROVE  /\ EndIsEnd(b.stream)
         /\ \/ Failing(s, budget, b)
            \/ Undisturbed(s, budget, b) /\ ByPosition(s.pos, b)
<1>1. PICK c \in CallState : c = Call(s, cap, budget)
  BY NewCallFacts
<1>2. /\ c.rc = -1 /\ c.stream = s /\ c.nr = 0 /\ c.faults = budget
      /\ c.cap = cap /\ c.start = s.pos /\ c.message = NoMessage
  BY <1>1, NewCallFacts DEF Call
<1>3. PICK h \in file_fread(c, 8) : b \in AfterRecordHeader(h)
  BY <1>1 DEF read_record
<1>4. /\ h \in CallState
      /\ h.rc = -1 /\ h.message = NoMessage /\ h.start = s.pos
      /\ ferror(s) => ferror(h.stream)
  BY <1>2, FileFreadFacts
<1>5. EndIsEnd(h.stream) /\ (Plain(c, h, 8) \/ Faulty(c, h))
  BY <1>2, EndStaysEnd, FileFreadOutcomes
<1>6. s.pos \in Nat /\ file.size \in Nat /\ budget \in Nat
  BY ShpReaderAssumption DEF Stream, IsFile
<1>7. CASE ferror(h.stream)
  <2>1. PICK message \in Messages \ {NoMessage} : b = Verdict(h, message)
    BY <1>3, <1>7 DEF AfterRecordHeader, Messages, NoMessage
  <2>2. b.rc = -1 /\ b.stream = h.stream /\ b.faults = h.faults
    BY <1>4, <2>1, VerdictFacts
  <2>. QED
    BY <1>2, <1>5, <1>7, <2>2 DEF Plain, Faulty, Failing
<1>8. CASE ~ferror(h.stream) /\ s.pos + 8 > file.size
  <2>1. /\ h.faults = budget /\ feof(h.stream)
        /\ h.stream.pos = IF s.pos < file.size THEN file.size ELSE s.pos
    BY <1>2, <1>5, <1>8 DEF Plain, Faulty
  <2>2. b = Ended(h)
    BY <1>3, <1>8, <2>1 DEF AfterRecordHeader
  <2>3. b.rc = 0 /\ b.stream = h.stream /\ b.faults = h.faults
    BY <1>4, <2>2, EndedFacts
  <2>. QED
    BY <1>4, <1>5, <1>8, <2>1, <2>3 DEF Undisturbed, ByPosition
<1>9. CASE ~ferror(h.stream) /\ s.pos + 8 <= file.size
  <2>1. /\ h.faults = budget /\ h.nr = 8 /\ h.stream.pos = s.pos + 8
        /\ feof(h.stream) <=> feof(s)
    BY <1>2, <1>5, <1>6, <1>9 DEF Plain, Faulty
  <2>2. ~feof(h.stream)
    BY <1>6, <1>9, <2>1 DEF EndIsEnd
  <2>3. PICK rec \in RecordsAt(s.pos) : b \in ReadBody(Found(h, rec))
    BY <1>3, <1>4, <1>9, <2>1, <2>2 DEF AfterRecordHeader
  <2>4. rec \in Record
    BY RecordsAtFacts
  <2>5. PICK d \in CallState : d = Found(h, rec)
    BY <1>4, <2>4, FoundFacts
  <2>6. d.rc = -1 /\ d.message = NoMessage /\ d.stream = h.stream /\ d.faults = h.faults
    BY <1>4, <2>4, <2>5, FoundFacts
  <2>7. d.rec = rec
    BY <1>4, <2>5 DEF Found, CallState
  <2>8. b.rec = rec
    BY <2>3, <2>5, <2>7, BodyKeepsRecord
  <2>9. /\ EndIsEnd(b.stream)
        /\ \/ Failing(d.stream, d.faults, b)
           \/ Undisturbed(d.stream, d.faults, b) /\ ByContent(d.stream.pos, d.rec, b)
    BY <1>5, <1>9, <2>1, <2>3, <2>5, <2>6, BodyOutcomes
  <2>10. CASE Failing(d.stream, d.faults, b)
    BY <1>9, <2>1, <2>6, <2>9, <2>10 DEF Failing
  <2>11. CASE Undisturbed(d.stream, d.faults, b) /\ ByContent(d.stream.pos, d.rec, b)
    BY <1>4, <1>9, <2>1, <2>3, <2>6, <2>7, <2>8, <2>9, <2>11 DEF Undisturbed, ByPosition
  <2>. QED
    BY <2>9, <2>10, <2>11
<1>. QED
  BY <1>6, <1>7, <1>8, <1>9

(* shp_read_header at the beginning of the file, in the same way.          *)
LEMMA HeaderOutcomes ==
  ASSUME file \in Files, NEW s \in Stream, NEW budget \in Nat, EndIsEnd(s), s.pos = 0,
         NEW b \in shp_read_header(Call(s, 0, budget))
  PROVE  /\ EndIsEnd(b.stream)
         /\ b.rc \in {-1, 1}
         /\ \/ Failing(s, budget, b)
            \/ /\ Undisturbed(s, budget, b)
               /\ \/ b.stream.pos = HeaderSize /\ HeaderSize <= file.size
                  \/ b.stream.pos = file.size /\ file.size < HeaderSize /\ b.rc = -1
<1>1. PICK c \in CallState : c = Call(s, 0, budget)
  BY NewCallFacts
<1>2. c.stream = s /\ c.nr = 0 /\ c.faults = budget
  BY <1>1, NewCallFacts
<1>3. PICK h \in file_fread(c, HeaderSize) : b = Verdict(h, HeaderMessage(h))
  BY <1>1 DEF shp_read_header
<1>4. HeaderSize \in Nat /\ HeaderSize > 0 /\ file.size \in Nat
  BY ShpReaderAssumption DEF HeaderSize, IsFile
<1>5. h \in CallState /\ (ferror(s) => ferror(h.stream))
  BY <1>2, <1>4, FileFreadFacts
<1>6. EndIsEnd(h.stream) /\ (Plain(c, h, HeaderSize) \/ Faulty(c, h))
  BY <1>2, <1>4, EndStaysEnd, FileFreadOutcomes
<1>7. PICK message \in Messages : message = HeaderMessage(h)
  BY DEF HeaderMessage, Messages, NoMessage
<1>8. /\ b.stream = h.stream /\ b.faults = h.faults
      /\ message = NoMessage => b.rc = 1
      /\ message # NoMessage => b.rc = -1
  BY <1>3, <1>5, <1>7, VerdictFacts
<1>9. ferror(h.stream) \/ h.nr # HeaderSize => message # NoMessage
  BY <1>7 DEF HeaderMessage, NoMessage
<1>10. CASE ferror(h.stream)
  BY <1>2, <1>6, <1>8, <1>9, <1>10 DEF Plain, Faulty, Failing
<1>11. CASE ~ferror(h.stream)
  <2>1. Plain(c, h, HeaderSize)
    BY <1>6, <1>11 DEF Faulty
  <2>2. Undisturbed(s, budget, b)
    BY <1>2, <1>5, <1>8, <1>11, <2>1 DEF Plain, Undisturbed
  <2>. QED
    BY <1>2, <1>4, <1>6, <1>8, <1>9, <2>1, <2>2 DEF Plain
<1>. QED
  BY <1>10, <1>11

-----------------------------------------------------------------------------
(* The records of a file, and where they stand.                            *)
LEMMA FileFacts ==
  ASSUME file \in Files
  PROVE  /\ file.size \in Nat /\ Len(file.recs) \in Nat
         /\ \A i \in Items :
              /\ file.recs[i] \in Record
              /\ i \in Nat /\ i >= 1 /\ i <= Len(file.recs)
              /\ file.start[i] \in Nat /\ file.start[i] >= HeaderSize
              /\ file.start[i + 1] \in Nat
              /\ file.start[i + 1] = file.start[i] + 8 + 2 * file.recs[i].len
              /\ i + 1 \in Items \/ i = Len(file.recs)
         /\ \A i, j \in Items : i < j => file.start[i] + 8 <= file.start[j]
         /\ file.size <= file.start[Len(file.recs) + 1]
         /\ 1 \in Items => file.start[1] = HeaderSize
         /\ Len(file.recs) = 0 => file.start[Len(file.recs) + 1] = HeaderSize
<1>1. IsFile(file)
  BY ShpReaderAssumption
<1>2. file.size \in Nat /\ file.recs \in Seq(Record) /\ Len(file.recs) \in Nat
  BY <1>1 DEF IsFile
<1>3. \A i \in Items : file.recs[i] \in Record
  BY <1>2 DEF Items
<1>4. /\ \A i \in Items : i \in 1 .. Len(file.recs) + 1 /\ i + 1 \in 1 .. Len(file.recs) + 1
      /\ 1 \in 1 .. Len(file.recs) + 1
      /\ Items = 1 .. Len(file.recs)
  BY <1>2 DEF Items
<1>5. /\ file.start \in [1 .. Len(file.recs) + 1 -> Nat]
      /\ file.start[1] = HeaderSize
      /\ \A i \in Items : file.start[i + 1] = file.start[i] + 8 + 2 * file.recs[i].len
      /\ \A i, j \in 1 .. Len(file.recs) + 1 : i < j => file.start[i] + 8 <= file.start[j]
      /\ file.size <= file.start[Len(file.recs) + 1]
  BY <1>1 DEF IsFile, Items
<1>6. \A i \in Items : /\ i \in Nat /\ i >= 1 /\ i <= Len(file.recs)
                       /\ i + 1 \in Items \/ i = Len(file.recs)
  BY <1>2 DEF Items
<1>7. \A i \in Items : file.start[i] \in Nat /\ file.start[i + 1] \in Nat
  BY <1>4, <1>5
<1>8. ASSUME NEW i \in Items
      PROVE  file.start[i] >= HeaderSize
  <2>1. CASE i = 1
    BY <1>5, <2>1 DEF HeaderSize
  <2>2. CASE i # 1
    <3>1. 1 < i
      BY <1>6, <2>2
    <3>2. file.start[1] + 8 <= file.start[i]
      BY <1>4, <1>5, <3>1
    <3>. QED
      BY <1>5, <1>7, <3>2 DEF HeaderSize
  <2>. QED
    BY <2>1, <2>2
<1>9. \A i, j \in Items : i < j => file.start[i] + 8 <= file.start[j]
  BY <1>4, <1>5
<1>. QED
  BY <1>2, <1>3, <1>5, <1>6, <1>7, <1>8, <1>9

(* No two records stand in the same place, nor in each other's header.     *)
LEMMA StartsApart ==
  ASSUME file \in Files, NEW i \in Items, NEW j \in Items
  PROVE  /\ file.start[i] = file.start[j] => i = j
         /\ file.start[j] < file.start[i] + 8 /\ file.start[j] >= file.start[i] => i = j
<1>1. /\ i \in Nat /\ j \in Nat /\ file.start[i] \in Nat /\ file.start[j] \in Nat
  BY FileFacts
<1>2. /\ i < j => file.start[i] + 8 <= file.start[j]
      /\ j < i => file.start[j] + 8 <= file.start[i]
  BY FileFacts
<1>. QED
  BY <1>1, <1>2

(* The item at a place, if one is there.                                   *)
LEMMA ItemAtFacts ==
  ASSUME file \in Files, NEW pos, NEW default
  PROVE  /\ \A i \in Items : file.start[i] = pos => ItemAt(Items, pos, default) = i
         /\ (\A i \in Items : file.start[i] # pos) => ItemAt(Items, pos, default) = default
<1>1. ASSUME NEW i \in Items, file.start[i] = pos
      PROVE  ItemAt(Items, pos, default) = i
  <2>1. {j \in Items : file.start[j] = pos} = {i}
    BY <1>1, StartsApart
  <2>2. (CHOOSE j \in {i} : TRUE) = i
    OBVIOUS
  <2>. QED
    BY <2>1, <2>2 DEF ItemAt
<1>2. ASSUME \A i \in Items : file.start[i] # pos
      PROVE  ItemAt(Items, pos, default) = default
  BY <1>2 DEF ItemAt
<1>. QED
  BY <1>1, <1>2

(* The record that the bytes at an item's place say is the item's.         *)
LEMMA RecordAtItem ==
  ASSUME file \in Files, NEW i \in Items
  PROVE  RecordsAt(file.start[i]) = {file.recs[i]}
<1>1. {j \in 1 .. Len(file.recs) : file.start[j] = file.start[i]} = {i}
  BY StartsApart DEF Items
<1>. QED
  BY <1>1 DEF RecordsAt

-----------------------------------------------------------------------------
(* Where the cursor is.                                                    *)
CursorStands ==
  /\ curBar \in -1 .. Len(file.recs) + 1
  /\ stream.pos = 0 => curBar = -1
  /\ stream.pos > 0 =>
       /\ \A i \in Items : file.start[i] = stream.pos => curBar = i
       /\ (\A i \in Items : file.start[i] # stream.pos) =>
            curBar = IF stream.pos >= file.size THEN Len(file.recs) + 1 ELSE 0

(* What the latest answer was.                                             *)
AnswerStands ==
  /\ lastBar.item \in 0 .. Len(file.recs)
  /\ lastBar = [rc |-> got.rc, item |-> lastBar.item]
  /\ got.rc # 1 => lastBar.item = 0
  /\ got.rc = 1 =>
       /\ \A i \in Items : file.start[i] = got.start => lastBar.item = i
       /\ (\A i \in Items : file.start[i] # got.start) => lastBar.item = 0

(* They follow from the stream and from what was read last.                *)
LEMMA MappingFacts == file \in Files /\ stream \in Stream => CursorStands /\ AnswerStands
<1>. SUFFICES ASSUME file \in Files, stream \in Stream
              PROVE  CursorStands /\ AnswerStands
  OBVIOUS
<1>1. stream.pos \in Nat /\ file.size \in Nat /\ Len(file.recs) \in Nat
  BY FileFacts DEF Stream
<1>2. CursorStands
  <2>. DEFINE default == IF stream.pos >= file.size THEN Len(file.recs) + 1 ELSE 0
  <2>1. /\ \A i \in Items : file.start[i] = stream.pos => ItemAt(Items, stream.pos, default) = i
        /\ (\A i \in Items : file.start[i] # stream.pos) =>
             ItemAt(Items, stream.pos, default) = default
    BY ItemAtFacts
  <2>2. /\ stream.pos = 0 => curBar = -1
        /\ stream.pos > 0 => curBar = ItemAt(Items, stream.pos, default)
    BY <1>1 DEF curBar
  <2>3. default \in -1 .. Len(file.recs) + 1 /\ \A i \in Items : i \in -1 .. Len(file.recs) + 1
    BY <1>1 DEF Items
  <2>4. -1 \in -1 .. Len(file.recs) + 1
    BY <1>1
  <2>. HIDE DEF default
  <2>5. ItemAt(Items, stream.pos, default) \in -1 .. Len(file.recs) + 1
    BY <2>1, <2>3
  <2>6. curBar \in -1 .. Len(file.recs) + 1
    BY <1>1, <2>2, <2>4, <2>5
  <2>. QED
    BY <1>1, <2>1, <2>2, <2>6 DEF CursorStands, default
<1>3. AnswerStands
  <2>1. /\ \A i \in Items : file.start[i] = got.start => ItemAt(Items, got.start, 0) = i
        /\ (\A i \in Items : file.start[i] # got.start) => ItemAt(Items, got.start, 0) = 0
    BY ItemAtFacts
  <2>2. 0 \in 0 .. Len(file.recs) /\ \A i \in Items : i \in 0 .. Len(file.recs)
    BY <1>1 DEF Items
  <2>3. ItemAt(Items, got.start, 0) \in 0 .. Len(file.recs)
    BY <2>1, <2>2
  <2>4. lastBar.item = (IF got.rc = 1 THEN ItemAt(Items, got.start, 0) ELSE 0) /\ lastBar.rc = got.rc
        /\ lastBar = [rc |-> got.rc, item |-> lastBar.item]
    BY DEF lastBar
  <2>. QED
    BY <2>1, <2>2, <2>3, <2>4 DEF AnswerStands
<1>. QED
  BY <1>2, <1>3

(* So also after a step.                                                   *)
LEMMA MappingFactsNext ==
  (file \in Files)' /\ (stream \in Stream)' => CursorStands' /\ AnswerStands'
BY MappingFacts, PTL

(* Where the cursor is behind a record.                                    *)
StandsBehind ==
  \A i \in Items :
    /\ stream.pos = file.start[i + 1] => curBar = i + 1
    /\ stream.pos > file.start[i] /\ stream.pos < file.start[i + 1] =>
         curBar = IF stream.pos >= file.size THEN Len(file.recs) + 1 ELSE 0

(* No record stands between a record and the next.                         *)
LEMMA BehindFacts == file \in Files /\ stream \in Stream => StandsBehind
<1>. SUFFICES ASSUME file \in Files, stream \in Stream, NEW i \in Items
              PROVE  /\ stream.pos = file.start[i + 1] => curBar = i + 1
                     /\ stream.pos > file.start[i] /\ stream.pos < file.start[i + 1] =>
                          curBar = IF stream.pos >= file.size THEN Len(file.recs) + 1 ELSE 0
  BY DEF StandsBehind
<1>1. CursorStands /\ stream.pos \in Nat
  BY MappingFacts DEF Stream
<1>2. /\ file.size \in Nat /\ Len(file.recs) \in Nat
      /\ i \in Nat /\ i <= Len(file.recs)
      /\ file.start[i] \in Nat /\ file.start[i] >= HeaderSize /\ file.start[i + 1] \in Nat
      /\ file.start[i + 1] = file.start[i] + 8 + 2 * file.recs[i].len
      /\ i + 1 \in Items \/ i = Len(file.recs)
      /\ file.size <= file.start[Len(file.recs) + 1]
      /\ file.recs[i] \in Record
  BY FileFacts
<1>3. file.recs[i].len \in Nat /\ HeaderSize > 0
  BY <1>2, RecordFacts DEF HeaderSize
<1>4. file.start[i + 1] >= file.start[i] + 8 /\ file.start[i] > 0
  <2>1. PICK here, next, len \in Nat :
          /\ here = file.start[i] /\ next = file.start[i + 1] /\ len = file.recs[i].len
          /\ here \in Nat /\ here >= 100 /\ next = here + 8 + 2 * len
    BY <1>2, <1>3 DEF HeaderSize
  <2>2. next >= here + 8 /\ here > 0
    BY <2>1
  <2>. QED
    BY <2>1, <2>2
<1>5. ASSUME NEW j \in Items
      PROVE  file.start[j] <= file.start[i] \/ (file.start[j] >= file.start[i + 1] /\ j > i)
  <2>1. j \in Nat /\ j <= Len(file.recs) /\ file.start[j] \in Nat
    BY FileFacts
  <2>2. CASE j > i + 1
    <3>1. i + 1 \in Items
      BY <1>2, <2>1, <2>2
    <3>2. file.start[i + 1] + 8 <= file.start[j]
      BY <2>2, <3>1, FileFacts
    <3>. QED
      BY <1>2, <2>1, <2>2, <3>2
  <2>3. CASE j = i + 1
    BY <1>2, <2>3
  <2>4. CASE j = i
    BY <1>2, <2>4
  <2>5. CASE j < i
    <3>1. file.start[j] + 8 <= file.start[i]
      BY <2>5, FileFacts
    <3>. QED
      BY <1>2, <2>1, <3>1
  <2>. QED
    BY <1>2, <2>1, <2>2, <2>3, <2>4, <2>5
<1>6. CASE stream.pos > file.start[i] /\ stream.pos < file.start[i + 1]
  <2>1. ASSUME NEW j \in Items
        PROVE  file.start[j] # stream.pos
    <3>1. file.start[j] \in Nat
      BY FileFacts
    <3>2. file.start[i] \in Nat /\ file.start[i + 1] \in Nat
      BY <1>2
    <3>. QED
      BY <1>1, <1>5, <1>6, <3>1, <3>2
  <2>. QED
    BY <1>1, <1>2, <1>6, <2>1 DEF CursorStands
<1>7. CASE stream.pos = file.start[i + 1]
  <2>1. stream.pos > 0
    BY <1>2, <1>4, <1>7
  <2>2. CASE i + 1 \in Items
    BY <1>1, <1>2, <1>7, <2>1, <2>2 DEF CursorStands
  <2>3. CASE i = Len(file.recs)
    <3>1. ASSUME NEW j \in Items
          PROVE  file.start[j] # stream.pos
      <4>1. file.start[j] \in Nat /\ j \in Nat /\ j <= i
        BY <2>3, FileFacts
      <4>2. file.start[i] \in Nat /\ file.start[i + 1] \in Nat /\ i \in Nat
        BY <1>2
      <4>3. file.start[j] <= file.start[i]
        BY <1>5, <4>1, <4>2
      <4>. QED
        BY <1>4, <1>7, <4>1, <4>2, <4>3
    <3>. QED
      BY <1>1, <1>2, <1>7, <2>1, <2>3, <3>1 DEF CursorStands
  <2>. QED
    BY <1>2, <1>7, <2>2, <2>3
<1>. QED
  BY <1>1, <1>2, <1>6, <1>7

(* So also after a step.                                                   *)
LEMMA BehindFactsNext ==
  (file \in Files)' /\ (stream \in Stream)' => StandsBehind'
BY BehindFacts, PTL

(* What the records are to the cursor.                                     *)
LEMMA KindsFacts ==
  ASSUME file \in Files
  PROVE  /\ DOMAIN kindsBar = Items
         /\ Len(kindsBar) = Len(file.recs)
         /\ \A i \in Items : kindsBar[i] = Kind(i)
         /\ kindsBar \in Seq(Cursor!Kinds)
<1>1. Len(file.recs) \in Nat /\ Items = 1 .. Len(file.recs)
  BY FileFacts DEF Items
<1>2. kindsBar \in [1 .. Len(file.recs) -> Cursor!Kinds]
  BY <1>1 DEF kindsBar, Kind, Cursor!Kinds
<1>. QED
  BY <1>1, <1>2 DEF kindsBar

(* They do not change.                                                     *)
LEMMA SameKinds ==
  ASSUME file' = file
  PROVE  kindsBar' = kindsBar /\ Items' = Items
BY DEF kindsBar, Kind, Items

(* A failing call is a failing call to the cursor, wherever it stops.      *)
LEMMA FailStep ==
  ASSUME TypeOK, TypeOK', file' = file, NEW b \in CallState, Done(b),
         Failing(stream, faults, b), ferror(stream) => ferror(b.stream)
  PROVE  Cursor!Fail
<1>1. /\ stream' = b.stream /\ faults' = b.faults /\ got'.rc = -1
  BY DoneFacts DEF TypeOK, Failing, Done
<1>2. CursorStands' /\ AnswerStands'
  BY MappingFactsNext DEF TypeOK
<1>3. lastBar' = [rc |-> -1, item |-> 0]
  BY <1>1, <1>2 DEF AnswerStands
<1>4. curBar' \in -1 .. Len(kindsBar) + 1
  <2>1. Len(kindsBar) = Len(file.recs)
    BY KindsFacts DEF TypeOK
  <2>. QED
    BY <1>2, <2>1 DEF CursorStands
<1>5. ferror(stream)' \in {ferror(stream), TRUE}
  <2>1. ferror(stream) => ferror(stream)'
    BY <1>1 DEF ferror
  <2>2. ferror(stream) \in BOOLEAN /\ ferror(stream)' \in BOOLEAN
    BY DEF ferror
  <2>. QED
    BY <2>1, <2>2, Zenon
<1>6. \/ faults > 0 /\ faults' = faults - 1
      \/ ferror(stream) /\ faults' = faults
  BY <1>1 DEF Failing
<1>. QED
  BY <1>3, <1>4, <1>5, <1>6, SameKinds
     DEF Cursor!Fail, Cursor!Answer, Cursor!Position, Cursor!End

(* An undisturbed call that begins where an item stands, by the item's     *)
(* kind.                                                                   *)
LEMMA ItemStep ==
  ASSUME TypeOK, TypeOK', file' = file, NEW b \in CallState, Done(b),
         NEW i \in Items, file.start[i] = stream.pos, b.start = stream.pos,
         Undisturbed(stream, faults, b), ByPosition(stream.pos, b)
  PROVE  Cursor!Read(i)
<1>1. /\ stream' = b.stream /\ faults' = faults /\ got'.rc = b.rc /\ got'.start = stream.pos
      /\ ~ferror(stream) /\ ~ferror(stream')
  BY DoneFacts DEF TypeOK, Undisturbed, Done
<1>2. CursorStands' /\ AnswerStands'
  BY MappingFactsNext DEF TypeOK
<1>3. file \in Files /\ stream'.pos \in Nat /\ stream.pos \in Nat
  BY DEF TypeOK, Stream
<1>4. /\ file.size \in Nat /\ Len(file.recs) \in Nat
      /\ file.recs[i] \in Record
      /\ i \in Nat /\ i >= 1 /\ i <= Len(file.recs)
      /\ file.start[i] \in Nat /\ file.start[i] >= HeaderSize
      /\ file.start[i + 1] \in Nat
      /\ file.start[i + 1] = file.start[i] + 8 + 2 * file.recs[i].len
      /\ i + 1 \in Items \/ i = Len(file.recs)
  BY <1>3, FileFacts
<1>5. /\ stream'.pos = file.start[i] => curBar' = i
      /\ stream'.pos = file.start[i + 1] => curBar' = i + 1
      /\ stream'.pos > file.start[i] /\ stream'.pos < file.start[i + 1] =>
           curBar' = IF stream'.pos >= file.size THEN Len(file.recs) + 1 ELSE 0
  <2>1. StandsBehind' /\ Items' = Items
    BY BehindFactsNext, SameKinds DEF TypeOK
  <2>2. /\ stream'.pos = file.start[i + 1] => curBar' = i + 1
        /\ stream'.pos > file.start[i] /\ stream'.pos < file.start[i + 1] =>
             curBar' = IF stream'.pos >= file.size THEN Len(file.recs) + 1 ELSE 0
    BY <2>1 DEF StandsBehind
  <2>3. stream'.pos = file.start[i] => stream'.pos > 0
    BY <1>3, <1>4 DEF HeaderSize
  <2>. QED
    BY <1>2, <2>1, <2>2, <2>3 DEF CursorStands
<1>6. /\ got'.rc # 1 => lastBar' = [rc |-> got'.rc, item |-> 0]
      /\ got'.rc = 1 => lastBar' = [rc |-> 1, item |-> i]
  BY <1>1, <1>2, SameKinds DEF AnswerStands
<1>7. /\ i \in DOMAIN kindsBar /\ kindsBar[i] = Kind(i) /\ Len(kindsBar) = Len(file.recs)
      /\ kindsBar' = kindsBar
  BY <1>3, KindsFacts, SameKinds
<1>8. ferror(stream)' = ferror(stream)
  BY <1>1 DEF ferror
<1>9. ASSUME NEW kind, kind = Kind(i)
      PROVE  Cursor!Holds(i, kind)
  BY <1>1, <1>7, <1>9 DEF Cursor!Holds
<1>10. ASSUME NEW p, curBar' = p
       PROVE  Cursor!MoveTo(p)
  BY <1>1, <1>7, <1>8, <1>10 DEF Cursor!MoveTo
<1>. DEFINE rec == file.recs[i]
            content == file.start[i] + 8
<1>11. /\ rec.len \in Nat /\ record_size(rec) = 2 * rec.len
       /\ content \in Nat /\ file.start[i + 1] = content + 2 * rec.len
  BY <1>4, RecordFacts
<1>12. CASE /\ content > file.size
            /\ b.rc = 0
            /\ b.stream.pos = IF stream.pos < file.size THEN file.size ELSE stream.pos
  <2>1. curBar' \in {i, Len(file.recs) + 1}
    <3>1. stream'.pos = IF stream.pos < file.size THEN file.size ELSE stream.pos
      BY <1>1, <1>12
    <3>2. /\ file.start[i] = stream.pos /\ stream.pos \in Nat /\ file.size \in Nat
          /\ stream.pos + 8 > file.size
      BY <1>3, <1>4, <1>12
    <3>3. CASE stream.pos < file.size
      <4>1. /\ stream'.pos = file.size /\ stream'.pos > file.start[i]
            /\ stream'.pos < file.start[i + 1] /\ stream'.pos >= file.size
        BY <1>11, <3>1, <3>2, <3>3
      <4>. QED
        BY <1>5, <4>1
    <3>4. CASE ~(stream.pos < file.size)
      BY <1>5, <3>1, <3>2, <3>4
    <3>. QED
      BY <3>3, <3>4
  <2>2. Kind(i) = "absent"
    BY <1>12 DEF Kind
  <2>3. Cursor!Finish(i)
    BY <1>1, <1>6, <1>7, <1>9, <1>10, <1>12, <2>1, <2>2
       DEF Cursor!Finish, Cursor!Answer, Cursor!End
  <2>. QED
    BY <2>3 DEF Cursor!Read
<1>13. CASE content <= file.size /\ ByContent(content, rec, b)
  <2>1. CASE Runt(content, rec, b)
    <3>1. curBar' \in {0, i + 1, Len(file.recs) + 1}
      <4>1. stream'.pos = content
        BY <1>1, <2>1 DEF Runt
      <4>2. file.start[i] \in Nat /\ content > file.start[i]
        BY <1>4
      <4>3. CASE rec.len = 0
        <5>1. stream'.pos = file.start[i + 1]
          BY <1>11, <4>1, <4>3
        <5>. QED
          BY <1>5, <5>1
      <4>4. CASE rec.len # 0
        <5>1. stream'.pos < file.start[i + 1] /\ stream'.pos > file.start[i]
          BY <1>11, <4>1, <4>2, <4>4
        <5>. QED
          BY <1>5, <5>1
      <4>. QED
        BY <4>3, <4>4
    <3>2. Kind(i) = "runt"
      BY <1>4, <1>13, <2>1 DEF Kind, Runt
    <3>3. Cursor!Stumble(i)
      BY <1>1, <1>6, <1>7, <1>9, <1>10, <2>1, <3>1, <3>2
         DEF Cursor!Stumble, Cursor!Answer, Cursor!End, Runt
    <3>. QED
      BY <3>3 DEF Cursor!Read
  <2>2. CASE Cut(content, rec, b)
    <3>1. curBar' = Len(file.recs) + 1
      <4>1. stream'.pos = file.size /\ content + 2 * rec.len > file.size /\ content <= file.size
        BY <1>1, <1>11, <1>13, <2>2 DEF Cut
      <4>2. /\ stream'.pos >= file.size
            /\ stream'.pos < file.start[i + 1] /\ stream'.pos > file.start[i]
        <5>1. content = file.start[i] + 8
          OBVIOUS
        <5>. HIDE DEF rec, content
        <5>. QED
          BY ONLY <1>3, <1>4, <1>11, <4>1, <5>1
      <4>. QED
        BY <1>5, <4>2
    <3>2. Kind(i) = "cut"
      <4>1. ~(content > file.size) /\ ~(rec.len < 2) /\ content + record_size(rec) > file.size
        <5>. HIDE DEF rec, content
        <5>. QED
          BY ONLY <1>4, <1>11, <1>13, <2>2 DEF Cut
      <4>. QED
        BY <4>1 DEF Kind
    <3>3. Cursor!Break(i)
      BY <1>1, <1>6, <1>7, <1>9, <1>10, <2>2, <3>1, <3>2
         DEF Cursor!Break, Cursor!Answer, Cursor!End, Cut
    <3>. QED
      BY <3>3 DEF Cursor!Read
  <2>3. CASE Whole(content, rec, b)
    <3>1. curBar' = i + 1
      BY <1>1, <1>5, <1>11, <2>3 DEF Whole
    <3>2. /\ Accepted(rec) => Kind(i) = "shape" /\ b.rc = 1
          /\ ~Accepted(rec) => Kind(i) = "bad" /\ b.rc = -1
      <4>1. ~(content > file.size) /\ ~(rec.len < 2) /\ ~(content + record_size(rec) > file.size)
        <5>. HIDE DEF rec, content
        <5>. QED
          BY ONLY <1>4, <1>11, <1>13, <2>3 DEF Whole
      <4>. QED
        BY <2>3, <4>1 DEF Kind, Whole
    <3>3. Accepted(rec) => Cursor!Deliver(i)
      BY <1>1, <1>6, <1>9, <1>10, <3>1, <3>2 DEF Cursor!Deliver, Cursor!Answer
    <3>4. ~Accepted(rec) => Cursor!Reject(i)
      BY <1>1, <1>6, <1>9, <1>10, <3>1, <3>2 DEF Cursor!Reject, Cursor!Answer
    <3>. QED
      BY <3>3, <3>4 DEF Cursor!Read
  <2>. QED
    BY <1>13, <2>1, <2>2, <2>3 DEF ByContent
<1>. QED
  <2>1. RecordsAt(stream.pos) = {rec}
    BY <1>3, RecordAtItem
  <2>. QED
    BY <1>12, <1>13, <2>1 DEF ByPosition

(* The cursor does not see a step that leaves the stream, the latest       *)
(* answer and the faults as they are.                                      *)
LEMMA UnseenStep ==
  ASSUME UNCHANGED <<file, stream, got>>
  PROVE  UNCHANGED <<kindsBar, curBar, lastBar, ferror(stream)>>
BY DEF kindsBar, Kind, Items, curBar, lastBar, ItemAt, ferror

(* A call of read_record, wherever the stream stands behind the header.    *)
LEMMA RecordStep ==
  ASSUME TypeOK, TypeOK', file' = file, EndIsEnd(stream), stream.pos > 0,
         NEW cap \in Nat, NEW b \in read_record(Call(stream, cap, faults)), Done(b)
  PROVE  /\ Cursor!Next
         /\ EndIsEnd(stream') /\ stream'.pos > 0
<1>1. /\ file \in Files /\ stream \in Stream /\ faults \in Nat
      /\ stream.pos \in Nat /\ file.size \in Nat /\ Len(file.recs) \in Nat
  BY FileFacts DEF TypeOK, Stream
<1>2. /\ b \in CallState /\ b.start = stream.pos /\ b.stream.pos = stream.pos + b.nr
      /\ ferror(stream) => ferror(b.stream)
  BY <1>1, ReadRecordFacts
<1>3. /\ EndIsEnd(b.stream)
      /\ \/ Failing(stream, faults, b)
         \/ Undisturbed(stream, faults, b) /\ ByPosition(stream.pos, b)
  BY <1>1, RecordOutcomes
<1>4. /\ stream' = b.stream /\ faults' = b.faults /\ got'.rc = b.rc /\ got'.start = stream.pos
  BY <1>2, DoneFacts DEF TypeOK, Done
<1>5. EndIsEnd(stream') /\ stream'.pos > 0
  <2>1. b.nr \in Nat
    BY <1>2 DEF CallState
  <2>. QED
    BY <1>1, <1>2, <1>3, <1>4, <2>1
<1>6. CASE Failing(stream, faults, b)
  BY <1>2, <1>5, <1>6, FailStep DEF Cursor!Next
<1>7. CASE Undisturbed(stream, faults, b) /\ ByPosition(stream.pos, b)
  <2>1. CursorStands /\ CursorStands' /\ AnswerStands'
    BY <1>1, MappingFacts, MappingFactsNext DEF TypeOK
  <2>2. /\ kindsBar' = kindsBar /\ Items' = Items /\ Len(kindsBar) = Len(file.recs)
        /\ faults' = faults /\ ~ferror(stream) /\ ferror(stream)' = ferror(stream)
    BY <1>1, <1>4, <1>7, SameKinds, KindsFacts DEF Undisturbed, ferror
  <2>3. ASSUME NEW i \in Items, file.start[i] = stream.pos
        PROVE  Cursor!Next
    <3>1. curBar = i
      BY <2>1, <2>3 DEF CursorStands
    <3>2. Cursor!Read(i)
      BY <1>2, <1>7, <2>3, ItemStep
    <3>. QED
      BY <3>1, <3>2 DEF Cursor!Next
  <2>4. ASSUME \A i \in Items : file.start[i] # stream.pos, stream.pos >= file.size
        PROVE  Cursor!Next
    <3>1. curBar = Len(file.recs) + 1
      BY <2>1, <2>4 DEF CursorStands
    <3>2. b.rc = 0 /\ b.stream.pos = stream.pos
      BY <1>1, <1>7, <2>4 DEF ByPosition
    <3>3. curBar' = Len(file.recs) + 1
      BY <1>1, <1>4, <2>1, <2>2, <2>4, <3>2 DEF CursorStands
    <3>4. lastBar' = [rc |-> 0, item |-> 0]
      BY <1>4, <2>1, <3>2 DEF AnswerStands
    <3>5. Cursor!AtEnd(curBar)
      BY <1>1, <2>2, <3>1, <3>3, <3>4
         DEF Cursor!AtEnd, Cursor!Answer, Cursor!MoveTo, Cursor!End
    <3>. QED
      BY <3>5 DEF Cursor!Next, Cursor!Read
  <2>5. ASSUME \A i \in Items : file.start[i] # stream.pos, ~(stream.pos >= file.size)
        PROVE  Cursor!Next
    <3>1. curBar = 0
      BY <2>1, <2>5 DEF CursorStands
    <3>2. curBar' \in Cursor!Position
      BY <2>1, <2>2 DEF CursorStands, Cursor!Position, Cursor!End
    <3>3. PICK item \in 0 .. Len(kindsBar) : lastBar' = [rc |-> b.rc, item |-> item]
      BY <1>4, <2>1, <2>2 DEF AnswerStands
    <3>4. b.rc \in {-1, 0, 1}
      BY <1>2 DEF CallState
    <3>5. Cursor!Wander
      BY <2>2, <3>1, <3>2, <3>3, <3>4 DEF Cursor!Wander, Cursor!Answer, Cursor!MoveTo
    <3>. QED
      BY <3>5 DEF Cursor!Next
  <2>. QED
    BY <1>5, <2>3, <2>4, <2>5
<1>. QED
  BY <1>3, <1>6, <1>7

(* A call of shp_read_header at the beginning of the file.                 *)
LEMMA HeaderStep ==
  ASSUME TypeOK, TypeOK', file' = file, EndIsEnd(stream), stream.pos = 0,
         NEW b \in shp_read_header(Call(stream, 0, faults)), Done(b)
  PROVE  /\ Cursor!Next
         /\ EndIsEnd(stream')
         /\ b.rc > 0 => stream'.pos > 0
<1>1. /\ file \in Files /\ stream \in Stream /\ faults \in Nat
      /\ file.size \in Nat /\ Len(file.recs) \in Nat
  BY FileFacts DEF TypeOK
<1>2. /\ b \in CallState /\ b.start = stream.pos
      /\ ferror(stream) => ferror(b.stream)
  BY <1>1, ReadHeaderFacts
<1>3. /\ EndIsEnd(b.stream)
      /\ b.rc \in {-1, 1}
      /\ \/ Failing(stream, faults, b)
         \/ /\ Undisturbed(stream, faults, b)
            /\ \/ b.stream.pos = HeaderSize /\ HeaderSize <= file.size
               \/ b.stream.pos = file.size /\ file.size < HeaderSize /\ b.rc = -1
  BY <1>1, HeaderOutcomes
<1>4. /\ stream' = b.stream /\ faults' = b.faults /\ got'.rc = b.rc /\ got'.start = 0
  BY <1>2, DoneFacts DEF TypeOK, Done
<1>5. CASE Failing(stream, faults, b)
  BY <1>2, <1>3, <1>4, <1>5, FailStep DEF Cursor!Next, Failing
<1>6. CASE /\ Undisturbed(stream, faults, b)
           /\ \/ b.stream.pos = HeaderSize /\ HeaderSize <= file.size
              \/ b.stream.pos = file.size /\ file.size < HeaderSize /\ b.rc = -1
  <2>1. CursorStands /\ CursorStands' /\ AnswerStands'
    BY <1>1, MappingFacts, MappingFactsNext DEF TypeOK
  <2>2. /\ kindsBar' = kindsBar /\ Items' = Items /\ Len(kindsBar) = Len(file.recs)
        /\ faults' = faults /\ ~ferror(stream) /\ ferror(stream)' = ferror(stream)
    BY <1>1, <1>4, <1>6, SameKinds, KindsFacts DEF Undisturbed, ferror
  <2>3. \A i \in Items : file.start[i] \in Nat /\ file.start[i] >= 100
    BY <1>1, FileFacts DEF HeaderSize
  <2>4. lastBar' = [rc |-> b.rc, item |-> 0]
    <3>1. \A i \in Items : file.start[i] # 0
      BY <2>3
    <3>. QED
      BY <1>3, <1>4, <2>1, <2>2, <3>1 DEF AnswerStands
  <2>5. curBar = -1
    BY <2>1 DEF CursorStands
  <2>6. CASE b.stream.pos = 100 /\ 100 <= file.size
    <3>1. curBar' = 1
      <4>1. CASE 1 \in Items
        <5>1. file.start[1] = 100
          BY <1>1, <4>1, FileFacts DEF HeaderSize
        <5>. QED
          BY <1>4, <2>1, <2>2, <2>6, <4>1, <5>1 DEF CursorStands
      <4>2. CASE 1 \notin Items
        <5>1. Len(file.recs) = 0 /\ Items = {}
          BY <1>1, <4>2 DEF Items
        <5>. QED
          BY <1>1, <1>4, <2>1, <2>2, <2>6, <5>1, FileFacts DEF CursorStands, HeaderSize
      <4>. QED
        BY <4>1, <4>2
    <3>2. CASE b.rc = 1
      <4>1. Cursor!Open
        BY <2>2, <2>4, <2>5, <3>1, <3>2 DEF Cursor!Open, Cursor!Answer, Cursor!MoveTo
      <4>. QED
        BY <1>3, <1>4, <2>6, <4>1 DEF Cursor!Next
    <3>3. CASE b.rc = -1
      <4>1. Cursor!Refuse
        BY <2>2, <2>4, <2>5, <3>1, <3>3 DEF Cursor!Refuse, Cursor!Answer, Cursor!MoveTo
      <4>. QED
        BY <1>3, <1>4, <3>3, <4>1 DEF Cursor!Next
    <3>. QED
      BY <1>3, <3>2, <3>3
  <2>7. CASE b.stream.pos = file.size /\ file.size < 100 /\ b.rc = -1
    <3>1. \A i \in Items : file.start[i] # stream'.pos
      BY <1>1, <1>4, <2>3, <2>7
    <3>2. curBar' \in {-1, Len(file.recs) + 1}
      BY <1>1, <1>4, <2>1, <2>2, <2>7, <3>1 DEF CursorStands
    <3>3. Cursor!Refuse
      BY <2>2, <2>4, <2>5, <2>7, <3>2
         DEF Cursor!Refuse, Cursor!Answer, Cursor!MoveTo, Cursor!End
    <3>. QED
      BY <1>3, <1>4, <2>7, <3>3 DEF Cursor!Next
  <2>. QED
    BY <1>6, <2>6, <2>7 DEF HeaderSize
<1>. QED
  BY <1>3, <1>5, <1>6

(* What the cursor needs to know of the stream: its end-of-file indicator  *)
(* is no lie, and shp_read has the header behind it.                       *)
StreamSound == EndIsEnd(stream) /\ (at # "caller" => stream.pos > 0)

(* Every step is a step of the cursor or is not seen by it.                *)
LEMMA CursorStep ==
  ASSUME SeekOffsets = {}, TypeOK, TypeOK', StreamSound, Next
  PROVE  StreamSound' /\ [Cursor!Next]_(Cursor!cvars)
<1>1. /\ 0 \in Nat /\ loop.cap \in Nat /\ file' = file
  BY StepReads DEF TypeOK
<1>2. CASE ReadHeader \/ BeginRead
  <2>1. PICK b \in shp_read_header(Call(stream, 0, faults)) :
          Done(b) /\ (at' # "caller" => at # "caller" \/ b.rc > 0)
    BY <1>2 DEF ReadHeader, BeginRead
  <2>2. stream.pos = 0 /\ at = "caller"
    BY <1>2 DEF ReadHeader, BeginRead
  <2>3. Cursor!Next /\ EndIsEnd(stream') /\ (b.rc > 0 => stream'.pos > 0)
    BY <1>1, <2>1, <2>2, HeaderStep DEF StreamSound
  <2>. QED
    BY <1>1, <2>1, <2>2, <2>3 DEF StreamSound, EndIsEnd
<1>3. CASE ReadRecord \/ NextRecord
  <2>1. PICK cap \in {0, loop.cap} : \E b \in read_record(Call(stream, cap, faults)) : Done(b)
    BY <1>3 DEF ReadRecord, NextRecord
  <2>2. PICK b \in read_record(Call(stream, cap, faults)) : Done(b)
    BY <2>1
  <2>3. stream.pos > 0
    BY <1>3 DEF ReadRecord, NextRecord, StreamSound
  <2>4. Cursor!Next /\ EndIsEnd(stream') /\ stream'.pos > 0
    BY <1>1, <2>2, <2>3, RecordStep DEF StreamSound
  <2>. QED
    BY <1>1, <2>4 DEF StreamSound, EndIsEnd
<1>4. ASSUME UNCHANGED <<stream, got, faults>>, at' # "caller" => at # "caller"
      PROVE  StreamSound' /\ UNCHANGED Cursor!cvars
  <2>1. UNCHANGED <<kindsBar, curBar, lastBar, ferror(stream)>>
    BY <1>1, <1>4, UnseenStep
  <2>. QED
    BY <1>1, <1>4, <2>1 DEF StreamSound, EndIsEnd, feof, Cursor!cvars
<1>5. CASE FreeRecord \/ SetError
  BY <1>4, <1>5 DEF FreeRecord, SetError
<1>6. CASE \E answer \in {-1, 0, 1} : RecordCallback(answer)
  BY <1>4, <1>6 DEF RecordCallback, Cleanup
<1>7. CASE \E answer \in {-1, 0, 1} : HeaderCallback(answer)
  <2>1. UNCHANGED <<stream, got>> /\ at = "header_cb"
    BY <1>7 DEF HeaderCallback
  <2>2. CASE faults' = faults
    BY <1>4, <2>1, <2>2
  <2>3. CASE faults > 0 /\ faults' = faults - 1
    <3>1. UNCHANGED <<kindsBar, curBar, lastBar, ferror(stream)>>
      BY <1>1, <2>1, UnseenStep
    <3>2. Cursor!Elsewhere
      BY <2>3, <3>1 DEF Cursor!Elsewhere
    <3>3. StreamSound'
      BY <1>1, <2>1 DEF StreamSound, EndIsEnd, feof
    <3>. QED
      BY <3>2, <3>3 DEF Cursor!Next
  <2>. QED
    BY <1>7, <2>2, <2>3 DEF HeaderCallback
<1>. QED
  BY <1>2, <1>3, <1>4, <1>5, <1>6, <1>7 DEF Next, Reading

(***************************************************************************)
(* A program that never calls shp_seek_record reads a ".shp" file as the   *)
(* cursor of RecordCursor does: every record is answered for exactly once  *)
(* and in order, one that is rejected does not stop those behind it, and   *)
(* the end is reported only where the file ends.                           *)
(***************************************************************************)
THEOREM ReaderIsACursor ==
  ASSUME SeekOffsets = {}
  PROVE  Spec => ReadsAsCursor
<1>1. Init => Cursor!Init /\ StreamSound
  <2>. SUFFICES ASSUME Init
                PROVE  Cursor!Init /\ StreamSound
    OBVIOUS
  <2>1. TypeOK /\ stream.pos = 0 /\ ~feof(stream) /\ ferror(stream) = FALSE /\ at = "caller"
    BY TypeInit DEF Init, Opened, feof, ferror
  <2>2. curBar = -1 /\ lastBar = [rc |-> 0, item |-> 0]
    BY <2>1, MappingFacts DEF Init, TypeOK, CursorStands, AnswerStands
  <2>3. kindsBar \in Seq(Cursor!Kinds) /\ faults \in Nat
    BY <2>1, KindsFacts DEF TypeOK
  <2>. QED
    BY <2>1, <2>2, <2>3 DEF Cursor!Init, StreamSound, EndIsEnd
<1>2. TypeOK /\ TypeOK' /\ StreamSound /\ [Next]_vars =>
        StreamSound' /\ [Cursor!Next]_(Cursor!cvars)
  <2>1. CASE UNCHANGED vars
    <3>1. UNCHANGED <<kindsBar, curBar, lastBar, ferror(stream)>>
      BY <2>1, UnseenStep DEF vars
    <3>. QED
      BY <2>1, <3>1 DEF vars, StreamSound, EndIsEnd, feof, Cursor!cvars
  <2>. QED
    BY <2>1, CursorStep
<1>. QED
  BY <1>1, <1>2, TypeCorrect, PTL DEF Spec, ReadsAsCursor, Cursor!Spec
=============================================================================
