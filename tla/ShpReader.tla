----------------------------- MODULE ShpReader ------------------------------
(***************************************************************************)
(* The reader of ".shp" files, shp.c: a file handle, the stream under it,  *)
(* and the calls a program makes on the handle, shp_read_header,           *)
(* shp_read_record, shp_seek_record and shp_read, the last of which calls  *)
(* the program back for the header and for each record.  A callback gets   *)
(* the handle and may itself read and seek with it.                        *)
(*                                                                         *)
(* The handle is used by one thread at a time, so a call that makes no     *)
(* callback is one step.  shp_read is a step up to each callback and a     *)
(* step for what each callback answers.                                    *)
(***************************************************************************)
EXTENDS FileStream, ShpLayout, Sequences, FiniteSets

CONSTANTS
  Files,         \* the files that may be opened
  Garbage,       \* what may be read where no record starts
  MinBufSize,    \* SHP_MIN_BUF_SIZE
  SizeofRecord,  \* sizeof(shp_record_t)
  CallSites,     \* where the program may use the handle
  SeekOffsets,   \* the offsets it asks shp_seek_record for
  MaxHeld,       \* bound: records the program keeps without freeing them
  MaxFaults,     \* bound: calls of the operating system that fail
  MaxBytes       \* bound: no shp_seek_record once that much has been read

HeaderSize == 100

(***************************************************************************)
(* A file: its size in bytes, its file code, its records one after the     *)
(* other behind the header, and the offset of each of them and of the end  *)
(* of the last.  The size says where the file ends, which may be anywhere. *)
(***************************************************************************)
IsFile(f) ==
  /\ f.size \in Nat
  /\ f.code \in Int
  /\ f.recs \in Seq(Record)
  /\ f.start \in [1 .. Len(f.recs) + 1 -> Nat]
  /\ f.start[1] = HeaderSize
  /\ \A i \in 1 .. Len(f.recs) : f.start[i + 1] = f.start[i] + 8 + 2 * f.recs[i].len
  /\ \A i, j \in 1 .. Len(f.recs) + 1 : i < j => f.start[i] + 8 <= f.start[j]
  /\ f.size <= f.start[Len(f.recs) + 1]

ASSUME ShpReaderAssumption ==
  /\ \A f \in Files : IsFile(f)
  /\ Garbage \subseteq Record
  /\ Garbage # {}
  /\ MinBufSize \in Nat \ {0}
  /\ SizeofRecord \in Nat \ {0}
  /\ CallSites \subseteq {"caller", "header_cb", "record_cb"}
  /\ SeekOffsets \subseteq Nat
  /\ {MaxHeld, MaxFaults, MaxBytes} \subseteq Nat

(* The reader is built with a size_t wide enough for the largest record a  *)
(* header can describe, as on every LP64 system.                           *)
ASSUME WideSizeAssumption ==
  /\ 76 + 40 * CountLimit <= SizeModulus
  /\ SizeofRecord + 2 * CountLimit <= SizeModulus

VARIABLES
  file,       \* the file's content
  stream,     \* fh->stream
  num_bytes,  \* fh->num_bytes
  error,      \* the message in fh->error
  at,         \* who runs: the program, one of its callbacks, or shp_read's loop
  loop,       \* shp_read's buffer size and file_offset
  got,        \* the latest header or record read: result, record, its offset
  out,        \* the latest call to return to the program and its result
  held,       \* records the program has not freed
  live,       \* blocks allocated and not freed
  faults      \* how many more calls of the operating system may fail

vars == <<file, stream, num_bytes, error, at, loop, got, out, held, live, faults>>

NoRecord == [len |-> 0, type |-> 0, parts |-> 0, points |-> 0]
Idle     == [cap |-> 0, offset |-> 0]

Messages ==
  {NoMessage, "cannot_read_file_header", "expected_file_header", "expected_file_code",
   "cannot_read_record_header", "expected_record_header", "content_length_is_invalid",
   "cannot_allocate", "cannot_read_record", "expected_record", "record_size_is_too_small",
   "shape_type_is_unknown", "cannot_set_file_position", "set_by_program"}

Result == [rc : {-1, 0, 1}, rec : Record, start : Nat]

TypeOK ==
  /\ file \in Files
  /\ stream \in Stream
  /\ num_bytes \in Nat
  /\ error \in Messages
  /\ at \in {"caller", "header_cb", "record_cb", "loop"}
  /\ loop \in [cap : Nat, offset : Nat]
  /\ got \in Result
  /\ out \in [op : {"none", "header", "record", "seek", "read", "callback"}, rc : {-1, 0, 1}]
  /\ held \in Nat
  /\ live \in Int
  /\ faults \in Nat

Init ==
  /\ file \in Files
  /\ stream = Opened
  /\ num_bytes = 0
  /\ error = NoMessage
  /\ at = "caller"
  /\ loop = Idle
  /\ got = [rc |-> 0, rec |-> NoRecord, start |-> 0]
  /\ out = [op |-> "none", rc |-> 0]
  /\ held = 0
  /\ live = 0
  /\ faults = MaxFaults

-----------------------------------------------------------------------------
(***************************************************************************)
(* A call in progress: the result it would return, as in the source -1     *)
(* until it is known to be better, the message it has set, the stream, the *)
(* bytes read, the faults left, the size of the record's block (0 for no   *)
(* block), the record, and where in the file the call began to read.       *)
(***************************************************************************)
Call(s, cap, budget) ==
  [rc |-> -1, message |-> NoMessage, stream |-> s, nr |-> 0, faults |-> budget,
   cap |-> cap, rec |-> NoRecord, start |-> s.pos]

file_fread(c, count) ==
  {[c EXCEPT !.stream = r.stream, !.nr = c.nr + r.nr, !.faults = c.faults - r.fault] :
     r \in fread(c.stream, file.size, count, c.faults)}

(* The call succeeds when there is no message.                             *)
Verdict(c, message) ==
  [c EXCEPT !.message = message, !.rc = IF message = NoMessage THEN 1 ELSE -1]

(***************************************************************************)
(* shp_read_header.                                                        *)
(***************************************************************************)
HeaderMessage(c) ==
  IF ferror(c.stream) THEN "cannot_read_file_header"
  ELSE IF c.nr # HeaderSize THEN "expected_file_header"
  ELSE IF file.code # 9994 THEN "expected_file_code" ELSE NoMessage

shp_read_header(c) == {Verdict(h, HeaderMessage(h)) : h \in file_fread(c, HeaderSize)}

(***************************************************************************)
(* read_record: the record header, the record's length, the block for it,  *)
(* the content, the shape.  Where no record starts, the bytes may say      *)
(* anything.                                                               *)
(***************************************************************************)
RecordsAt(pos) ==
  LET here == {i \in 1 .. Len(file.recs) : file.start[i] = pos}
  IN  IF here = {} THEN Garbage ELSE {file.recs[i] : i \in here}

buf_size(rec) == size_t(SizeofRecord + record_size(rec))

Grown(c) == [c EXCEPT !.cap = buf_size(c.rec)]
Spend(c) == [c EXCEPT !.faults = c.faults - 1]

reallocForContentOnly(c) ==          \* mutant: forgets the shp_record_t
  IF c.cap >= record_size(c.rec) THEN {c} ELSE {Grown(c)}

realloc(c) ==
  IF c.cap >= buf_size(c.rec)
  THEN {c}
  ELSE {Grown(c)} \cup {Verdict(Spend(c), "cannot_allocate") : n \in 1 .. c.faults}

ContentNotCounted(c, nr) ==          \* mutant: a short read goes unnoticed
  IF ferror(c.stream) THEN "cannot_read_record" ELSE ParseError(c.rec)

ContentMessage(c, nr) ==
  IF ferror(c.stream) THEN "cannot_read_record"
  ELSE IF nr # record_size(c.rec) THEN "expected_record" ELSE ParseError(c.rec)

ReadContent(c) ==
  IF c.message # NoMessage
  THEN {c}
  ELSE {Verdict(b, ContentMessage(b, b.nr - c.nr)) : b \in file_fread(c, record_size(c.rec))}

LengthTakenForBytes(c) ==            \* mutant: the minimum of 4 bytes, not 2 words
  IF c.rec.len < 4
  THEN {Verdict(c, "content_length_is_invalid")}
  ELSE UNION {ReadContent(b) : b \in realloc(c)}

ReadBody(c) ==
  IF c.rec.len < 2
  THEN {Verdict(c, "content_length_is_invalid")}
  ELSE UNION {ReadContent(b) : b \in realloc(c)}

Found(c, rec) == [c EXCEPT !.rec = rec]
Ended(c) == [c EXCEPT !.rc = 0]

EofIsSuccess(c) ==                   \* mutant: the end of the file is not told
  IF ferror(c.stream) THEN {Verdict(c, "cannot_read_record_header")}
  ELSE IF c.nr # 8 THEN {Verdict(c, NoMessage)}
  ELSE UNION {ReadBody(Found(c, rec)) : rec \in RecordsAt(c.start)}

EofReturnsCount(c) ==                \* mutant: fread's result is returned
  IF ferror(c.stream) THEN {Verdict(c, "cannot_read_record_header")}
  ELSE IF c.nr # 8 THEN {[c EXCEPT !.rc = c.nr]}
  ELSE UNION {ReadBody(Found(c, rec)) : rec \in RecordsAt(c.start)}

AfterRecordHeader(c) ==
  IF ferror(c.stream) THEN {Verdict(c, "cannot_read_record_header")}
  ELSE IF feof(c.stream) THEN {Ended(c)}
  ELSE IF c.nr # 8 THEN {Verdict(c, "expected_record_header")}
  ELSE UNION {ReadBody(Found(c, rec)) : rec \in RecordsAt(c.start)}

read_record(c) == UNION {AfterRecordHeader(h) : h \in file_fread(c, 8)}

(***************************************************************************)
(* shp_seek_record, up to what it does with the record.                    *)
(***************************************************************************)
seek_and_read(offset) ==
  UNION {IF p.rc = 0
         THEN read_record(Call(p.stream, 0, faults - p.fault))
         ELSE {Verdict(Call(p.stream, 0, faults - p.fault), "cannot_set_file_position")} :
           p \in fsetpos(stream, offset, faults)}

-----------------------------------------------------------------------------
CountsSuccessOnly(c) ==              \* mutant: num_bytes after the checks
  /\ stream' = c.stream
  /\ num_bytes' = IF c.rc = 1 THEN num_bytes + c.nr ELSE num_bytes
  /\ error' = IF c.message = NoMessage THEN error ELSE c.message
  /\ faults' = c.faults
  /\ got' = [rc |-> c.rc, rec |-> c.rec, start |-> c.start]

FaultsLeftToErrno(c) ==              \* mutant: no message where errno is set
  /\ stream' = c.stream
  /\ num_bytes' = num_bytes + c.nr
  /\ error' = IF c.message = NoMessage \/ c.faults < faults THEN error ELSE c.message
  /\ faults' = c.faults
  /\ got' = [rc |-> c.rc, rec |-> c.rec, start |-> c.start]

(* What every function that has read leaves in the handle.                 *)
Done(c) ==
  /\ stream' = c.stream
  /\ num_bytes' = num_bytes + c.nr
  /\ error' = IF c.message = NoMessage THEN error ELSE c.message
  /\ faults' = c.faults
  /\ got' = [rc |-> c.rc, rec |-> c.rec, start |-> c.start]

Return(op, rc) == out' = [op |-> op, rc |-> rc]

FreedAtEndOnly(c) ==                 \* mutant: rc == 0 where it should be rc <= 0
  LET allocated == IF c.cap > 0 THEN 1 ELSE 0
      freed     == IF c.rc = 0 THEN allocated ELSE 0
  IN  /\ live' = live + allocated - freed
      /\ held' = IF c.rc > 0 THEN held + 1 ELSE held

(* The block goes to the program with the record in it, or is freed.       *)
HandOver(c) ==
  LET allocated == IF c.cap > 0 THEN 1 ELSE 0
      freed     == IF c.rc <= 0 THEN allocated ELSE 0
  IN  /\ live' = live + allocated - freed
      /\ held' = IF c.rc > 0 THEN held + 1 ELSE held

(* The program reads the header first, as every example of the docs does.  *)
ReadHeader ==
  /\ at = "caller"
  /\ stream.pos = 0
  /\ \E c \in shp_read_header(Call(stream, 0, faults)) : Done(c) /\ Return("header", c.rc)
  /\ UNCHANGED <<file, at, loop, held, live>>

ReadRecord ==
  /\ at \in CallSites
  /\ stream.pos > 0
  /\ held < MaxHeld
  /\ \E c \in read_record(Call(stream, 0, faults)) :
       Done(c) /\ HandOver(c) /\ Return("record", c.rc)
  /\ UNCHANGED <<file, at, loop>>

SeekRecord(offset) ==
  /\ at \in CallSites
  /\ held < MaxHeld
  /\ num_bytes <= MaxBytes
  /\ \E c \in seek_and_read(offset) : Done(c) /\ HandOver(c) /\ Return("seek", c.rc)
  /\ UNCHANGED <<file, at, loop>>

(* shp_set_error is there for callbacks too.                               *)
SetError ==
  /\ at \in CallSites
  /\ error' = "set_by_program"
  /\ UNCHANGED <<file, stream, num_bytes, at, loop, got, out, held, live, faults>>

FreeRecord ==
  /\ at \in CallSites
  /\ held > 0
  /\ held' = held - 1
  /\ live' = live - 1
  /\ UNCHANGED <<file, stream, num_bytes, error, at, loop, got, out, faults>>

-----------------------------------------------------------------------------
(* shp_read, from the call to handle_header.                               *)
BeginRead ==
  /\ at = "caller"
  /\ stream.pos = 0
  /\ \E c \in shp_read_header(Call(stream, 0, faults)) :
       /\ Done(c)
       /\ IF c.rc > 0 THEN at' = "header_cb" /\ out' = out
                      ELSE at' = "caller" /\ Return("read", c.rc)
  /\ UNCHANGED <<file, loop, held, live>>

(* handle_header returns; the buffer is allocated.                         *)
HeaderCallback(answer) ==
  /\ at = "header_cb"
  /\ \/ /\ answer <= 0
        /\ at' = "caller"
        /\ Return("callback", answer)
        /\ UNCHANGED <<error, loop, live, faults>>
     \/ /\ answer > 0
        /\ at' = "loop"
        /\ loop' = [cap |-> MinBufSize, offset |-> 0]
        /\ live' = live + 1
        /\ UNCHANGED <<error, out, faults>>
     \/ /\ answer > 0
        /\ faults > 0
        /\ faults' = faults - 1
        /\ error' = "cannot_allocate"
        /\ at' = "caller"
        /\ Return("read", -1)
        /\ UNCHANGED <<loop, live>>
  /\ UNCHANGED <<file, stream, num_bytes, got, held>>

(* The end of shp_read: the buffer is freed.                               *)
Cleanup ==
  /\ at' = "caller"
  /\ loop' = Idle
  /\ live' = live - 1

(* One round of the loop, from taking file_offset to handle_record.        *)
NextRecord ==
  /\ at = "loop"
  /\ \E c \in read_record(Call(stream, loop.cap, faults)) :
       /\ Done(c)
       /\ \/ /\ c.rc > 0
             /\ at' = "record_cb"
             /\ loop' = [cap |-> c.cap, offset |-> num_bytes]
             /\ UNCHANGED <<out, live>>
          \/ /\ c.rc <= 0
             /\ Cleanup
             /\ Return("read", c.rc)
  /\ UNCHANGED <<file, held>>

RecordCallback(answer) ==
  /\ at = "record_cb"
  /\ \/ answer > 0 /\ at' = "loop" /\ UNCHANGED <<loop, live, out>>
     \/ answer <= 0 /\ Cleanup /\ Return("callback", answer)
  /\ UNCHANGED <<file, stream, num_bytes, error, got, held, faults>>

Reading ==
  \/ \E answer \in {-1, 0, 1} : HeaderCallback(answer) \/ RecordCallback(answer)
  \/ NextRecord

Next ==
  \/ ReadHeader
  \/ ReadRecord
  \/ \E offset \in SeekOffsets : SeekRecord(offset)
  \/ FreeRecord
  \/ SetError
  \/ BeginRead
  \/ Reading

Spec == Init /\ [][Next]_vars

(* Callbacks return and shp_read goes on; nobody has to call the library.  *)
FairSpec == Spec /\ WF_vars(Reading)

-----------------------------------------------------------------------------
(***************************************************************************)
(* No block is lost and none is freed twice: the blocks allocated are the  *)
(* records the program holds and, while shp_read runs, its buffer.  It is  *)
(* about the free calls of shp_read_record, shp_seek_record and shp_read   *)
(* on every path that ends without a record, a failed realloc included.    *)
(***************************************************************************)
BlocksAccounted ==
  live = held + (IF at \in {"loop", "record_cb"} THEN 1 ELSE 0)

(***************************************************************************)
(* A record that reaches the program was read in full from the file, and   *)
(* its arrays tile its content.  It has to hold behind every path into     *)
(* read_record: truncated files, failing reads, and offsets at which no    *)
(* record starts.                                                          *)
(***************************************************************************)
Delivered == got.rc = 1 /\ got.rec # NoRecord

DeliveredRecordFits ==
  Delivered =>
    /\ got.start + 8 + record_size(got.rec) <= file.size
    /\ ArraysTile(got.rec)

(***************************************************************************)
(* When shp_read hands a record to handle_record, its buffer is large      *)
(* enough for the record and the shp_record_t before it, although the      *)
(* buffer is reused for every record and only ever grows.                  *)
(***************************************************************************)
BufferHoldsRecord ==
  [][at = "loop" /\ at' = "record_cb" => loop'.cap >= buf_size(got'.rec)]_vars

(***************************************************************************)
(* The file_offset that handle_record gets is "the record's position in    *)
(* the file" (shp.h:184): where the stream stood when the record was read. *)
(***************************************************************************)
OffsetIsPosition ==
  [][at = "loop" /\ at' = "record_cb" => loop'.offset = stream.pos]_vars

(***************************************************************************)
(* A read error is never forgotten.  After it every call fails, a seek     *)
(* that succeeds and a read that gets all its bytes included, so nothing   *)
(* is ever taken for a record at a position nobody knows.                  *)
(***************************************************************************)
ErrorIsSticky ==
  [][ferror(stream) => ferror(stream') /\ (got' = got \/ got'.rc = -1)]_vars

(***************************************************************************)
(* A call that returns -1 on its own account has left a message in         *)
(* fh->error, which is all that a program has to report (README.md:76).    *)
(***************************************************************************)
FailureExplained ==
  out.rc = -1 /\ out.op # "callback" => error # NoMessage

(***************************************************************************)
(* shp_read returns, whatever the file holds and wherever it ends.  It is  *)
(* claimed for programs that do not seek in a callback.                    *)
(***************************************************************************)
ReadReturns == (at # "caller") ~> (at = "caller")

-----------------------------------------------------------------------------
(***************************************************************************)
(* What the documentation says and the code does not do.                   *)
(*                                                                         *)
(* shp.c:744: a record header of fewer than 8 bytes is an error,           *)
(* "Expected record header of 8 bytes", and not the end of the file.       *)
(***************************************************************************)
PartialRecordHeaderIsError ==
  [][NextRecord /\ Available(stream, file.size) \in 1 .. 7 => got'.rc = -1]_vars
=============================================================================
