----------------------------- MODULE DbfReader ------------------------------
(***************************************************************************)
(* The reader of ".dbf" files, dbf.c: dbf_read_header, dbf_read_record,    *)
(* dbf_seek_record and dbf_read, the last of which calls the program back  *)
(* for the header and for each record.  A callback gets the handle and may *)
(* itself read and seek with it.  A call that makes no callback is a step; *)
(* dbf_read is a step up to each callback and one for what it answers.     *)
(***************************************************************************)
EXTENDS FileStream, DbfHeader

CONSTANTS
  Tables,         \* the files that may be opened
  SizeModulus,    \* SIZE_MAX + 1
  CallSites,      \* where the program may use the handle
  RecordNumbers,  \* the numbers it asks dbf_seek_record for
  MaxHeld,        \* bound: blocks the program keeps without freeing them
  MaxFaults,      \* bound: calls of the operating system that fail
  MaxBytes        \* bound: no dbf_seek_record once that much has been read

(***************************************************************************)
(* A file: what it has for a header, its size in bytes, and the offsets at *)
(* which a row would begin but the end-of-file marker, '\x1a', stands.     *)
(***************************************************************************)
Aligned(f, pos) ==
  /\ pos >= FirstRow(f.head)
  /\ f.head.record_size > 0
  /\ (pos - FirstRow(f.head)) % f.head.record_size = 0

IsTable(f) ==
  /\ f.head \in HeadBytes
  /\ Len(f.head.area) >= Limit(f.head)
  /\ f.size \in Nat
  /\ f.marks \subseteq Nat
  /\ \A pos \in f.marks : Aligned(f, pos)

ASSUME DbfReaderAssumption ==
  /\ \A f \in Tables : IsTable(f)
  /\ SizeModulus \in Nat \ {0}
  /\ CallSites \subseteq {"caller", "header_cb", "record_cb"}
  /\ RecordNumbers \subseteq Nat
  /\ {MaxHeld, MaxFaults, MaxBytes} \subseteq Nat

VARIABLES
  file,       \* the file's content
  stream,     \* fh->stream
  num_bytes,  \* fh->num_bytes
  error,      \* the message in fh->error
  sizes,      \* fh->header_size and fh->record_size
  at,         \* who runs: the program, one of its callbacks, or dbf_read's loop
  loop,       \* dbf_read's record_num and file_offset
  fields,     \* the fields of the latest header
  got,        \* the latest result, and where in the file its record begins
  asked,      \* the number of the latest dbf_seek_record, -1 for other reads
  out,        \* the latest call to return to the program and its result
  held,       \* blocks the program has not freed, headers and records
  live,       \* blocks allocated and not freed
  faults      \* how many more calls of the operating system may fail

vars == <<file, stream, num_bytes, error, sizes, at, loop, fields, got, asked, out,
          held, live, faults>>

NoMessage == "none"
NoSizes   == [header |-> 0, record |-> 0]
Idle      == [num |-> 0, offset |-> 0]

Messages ==
  {NoMessage, "cannot_read_file_version", "expected_1_byte", "version_is_not_supported",
   "cannot_read_file_header", "expected_file_header", "header_size_is_invalid",
   "record_size_is_invalid", "no_field_descriptors", "cannot_allocate",
   "cannot_read_field_descriptors", "expected_field_descriptors", "expected_fewer_fields",
   "sum_of_field_lengths_differs", "expected_record", "cannot_read_record",
   "expected_records", "cannot_set_file_position", "set_by_program"}

TypeOK ==
  /\ file \in Tables
  /\ stream \in Stream
  /\ num_bytes \in Nat
  /\ error \in Messages
  /\ sizes \in [header : UInt16, record : UInt16]
  /\ at \in {"caller", "header_cb", "record_cb", "loop"}
  /\ loop \in [num : Nat, offset : Nat]
  /\ fields \in Seq([offset : Nat, size : Nat])
  /\ got \in [rc : {-1, 0, 1}, start : Nat]
  /\ asked \in Nat \cup {-1}
  /\ out \in [op : {"none", "header", "record", "seek", "read", "callback"}, rc : {-1, 0, 1}]
  /\ held \in Nat
  /\ live \in Int
  /\ faults \in Nat

Init ==
  /\ file \in Tables
  /\ stream = Opened
  /\ num_bytes = 0
  /\ error = NoMessage
  /\ sizes = NoSizes
  /\ at = "caller"
  /\ loop = Idle
  /\ fields = <<>>
  /\ got = [rc |-> 0, start |-> 0]
  /\ asked = -1
  /\ out = [op |-> "none", rc |-> 0]
  /\ held = 0
  /\ live = 0
  /\ faults = MaxFaults

-----------------------------------------------------------------------------
(***************************************************************************)
(* A call in progress: the result it would return, the message it has set, *)
(* the stream, the bytes read, the faults left, the blocks it has in hand, *)
(* the sizes in the handle, the fields of the header it has read, and      *)
(* where in the file it began to read.                                     *)
(***************************************************************************)
Call(s, budget) ==
  [rc |-> -1, message |-> NoMessage, stream |-> s, nr |-> 0, faults |-> budget,
   blocks |-> {}, sizes |-> sizes, fields |-> fields, start |-> s.pos]

file_fread(c, count) ==
  {[c EXCEPT !.stream = r.stream, !.nr = c.nr + r.nr, !.faults = c.faults - r.fault] :
     r \in fread(c.stream, file.size, count, c.faults)}

Explained(c, message) == [c EXCEPT !.message = message]
Answered(c, rc)       == [c EXCEPT !.rc = rc]
Running(c)            == c.message = NoMessage

(* The first of the tests that fails sets the message.                     *)
Check(c, ok, message) == IF Running(c) /\ ~ok THEN Explained(c, message) ELSE c

ReadBlock(c, count, unreadable, short) ==
  {Check(Check(b, ~ferror(b.stream), unreadable), b.nr = c.nr + count, short) :
     b \in file_fread(c, count)}

Allocated(c, block) == [c EXCEPT !.blocks = c.blocks \cup {block}]
free(c, block)      == [c EXCEPT !.blocks = c.blocks \ {block}]

malloc(c, block) ==
  {Allocated(c, block)} \cup
  {Explained([c EXCEPT !.faults = c.faults - 1], "cannot_allocate") : n \in 1 .. c.faults}

-----------------------------------------------------------------------------
(* From the number of fields to the end: the header is allocated, its      *)
(* fields are filled in and have to make up the record.                    *)
FitsInRecord(c, fs) ==               \* mutant: only a sum too large is refused
  IF EndOfFields(fs) > file.head.record_size
  THEN free(Explained(c, "sum_of_field_lengths_differs"), "header")
  ELSE [c EXCEPT !.rc = 1, !.fields = fs]

HeaderLeaks(c, fs) ==                \* mutant: header = NULL without free
  IF EndOfFields(fs) # file.head.record_size
  THEN Explained(c, "sum_of_field_lengths_differs")
  ELSE [c EXCEPT !.rc = 1, !.fields = fs]

SumChecked(c, fs) ==
  IF EndOfFields(fs) # file.head.record_size
  THEN free(Explained(c, "sum_of_field_lengths_differs"), "header")
  ELSE [c EXCEPT !.rc = 1, !.fields = fs]

BuildHeader(c) ==
  UNION {IF Running(b)
         THEN {SumChecked(b, Fields(file.head, ds)) : ds \in DescriptorsRead(file.head)}
         ELSE {b} : b \in malloc(c, "header")}

read_header_dbase2(c) ==
  UNION {LET h == Check(b, file.head.record_size >= 1, "record_size_is_invalid")
         IN  IF Running(h) THEN BuildHeader(h) ELSE {h} :
           b \in ReadBlock(c, 520, "cannot_read_file_header", "expected_file_header")}

SizesChecked(c) ==
  Check(Check(Check(c, file.head.header_size >= 32, "header_size_is_invalid"),
              file.head.record_size >= 1, "record_size_is_invalid"),
        file.head.header_size # 32, "no_field_descriptors")

ReadDescriptors(c) ==
  UNION {LET d == Check(b, num_fields(file.head) <= 2046, "expected_fewer_fields")
         IN  IF Running(d) THEN BuildHeader(d) ELSE {d} :
           b \in ReadBlock(c, DescriptorsSize(file.head), "cannot_read_field_descriptors",
                           "expected_field_descriptors")}

read_header_dbase3(c) ==
  UNION {LET h == SizesChecked(b)
         IN  IF ~Running(h) THEN {h}
             ELSE UNION {IF Running(m)
                         THEN {free(d, "descriptors") : d \in ReadDescriptors(m)}
                         ELSE {m} : m \in malloc(h, "descriptors")} :
           b \in ReadBlock(c, 31, "cannot_read_file_header", "expected_file_header")}

(* The handle keeps the sizes of a header that was read.                   *)
SizesKept(c) ==
  IF c.rc = 1
  THEN [c EXCEPT !.sizes = [header |-> FirstRow(file.head), record |-> file.head.record_size]]
  ELSE c

VersionUnexplained(c) ==             \* mutant: only errno is set
  LET type == database_type(file.head.version)
  IN  IF ~Running(c) THEN {c}
      ELSE IF type = "dbase2" THEN read_header_dbase2(c)
      ELSE IF type = "dbase3" THEN read_header_dbase3(c)
      ELSE {c}

ReadVersion(c) ==
  LET type == database_type(file.head.version)
  IN  IF ~Running(c) THEN {c}
      ELSE IF type = "dbase2" THEN read_header_dbase2(c)
      ELSE IF type = "dbase3" THEN read_header_dbase3(c)
      ELSE {Explained(c, "version_is_not_supported")}

dbf_read_header(c) ==
  {SizesKept(h) : h \in UNION {ReadVersion(b) :
     b \in ReadBlock(c, 1, "cannot_read_file_version", "expected_1_byte")}}

-----------------------------------------------------------------------------
(***************************************************************************)
(* Whether the byte at an offset is the end-of-file marker.  It can be any *)
(* byte where no row begins.                                               *)
(***************************************************************************)
MarkerAt(pos) == IF Aligned(file, pos) THEN {pos \in file.marks} ELSE BOOLEAN

MarkerSeenLast(c, marker) ==         \* mutant: the number of bytes is tested first
  IF c.nr > 0 /\ c.nr # c.sizes.record THEN Explained(c, "expected_record")
  ELSE IF c.nr > 0 /\ marker THEN Answered(c, 0)
  ELSE IF ferror(c.stream) THEN Explained(c, "cannot_read_record")
  ELSE IF feof(c.stream) THEN Answered(c, 0) ELSE Answered(c, 1)

ErrorUnseen(c, marker) ==            \* mutant: the error indicator is not looked at
  IF c.nr > 0 /\ marker THEN Answered(c, 0)
  ELSE IF c.nr > 0 /\ c.nr # c.sizes.record THEN Explained(c, "expected_record")
  ELSE IF feof(c.stream) THEN Answered(c, 0) ELSE Answered(c, 1)

AnswersCount(c, marker) ==           \* mutant: fread's result is returned
  IF c.nr > 0 /\ marker THEN Answered(c, 0)
  ELSE IF c.nr > 0 /\ c.nr # c.sizes.record THEN Explained(c, "expected_record")
  ELSE IF ferror(c.stream) THEN Explained(c, "cannot_read_record") ELSE Answered(c, c.nr)

(* What dbf_read_record makes of the bytes it got.                         *)
RecordRead(c, marker) ==
  IF c.nr > 0 /\ marker THEN Answered(c, 0)
  ELSE IF c.nr > 0 /\ c.nr # c.sizes.record THEN Explained(c, "expected_record")
  ELSE IF ferror(c.stream) THEN Explained(c, "cannot_read_record")
  ELSE IF feof(c.stream) THEN Answered(c, 0) ELSE Answered(c, 1)

FreedUnlessRead(c) == IF c.rc = 1 THEN c ELSE free(c, "record")

ReadRow(c) ==
  {FreedUnlessRead(RecordRead(b, marker)) :
     b \in file_fread(c, c.sizes.record), marker \in MarkerAt(c.start)}

dbf_read_record(c) ==
  UNION {IF Running(b) THEN ReadRow(b) ELSE {b} : b \in malloc(c, "record")}

file_offset(n) == (n * sizes.record + sizes.header) % SizeModulus

dbf_seek_record(n) ==
  UNION {IF p.rc = 0
         THEN dbf_read_record(Call(p.stream, faults - p.fault))
         ELSE {Explained(Call(p.stream, faults - p.fault), "cannot_set_file_position")} :
           p \in fsetpos(stream, file_offset(n), faults)}

-----------------------------------------------------------------------------
CountsWholeRows(c) ==                \* mutant: num_bytes after the checks
  /\ stream' = c.stream
  /\ num_bytes' = IF c.rc = 1 THEN num_bytes + c.nr ELSE num_bytes
  /\ error' = IF c.message = NoMessage THEN error ELSE c.message
  /\ faults' = c.faults
  /\ sizes' = c.sizes
  /\ fields' = c.fields
  /\ got' = [rc |-> c.rc, start |-> c.start]

(* What every function that has read leaves in the handle.                 *)
Done(c) ==
  /\ stream' = c.stream
  /\ num_bytes' = num_bytes + c.nr
  /\ error' = IF c.message = NoMessage THEN error ELSE c.message
  /\ faults' = c.faults
  /\ sizes' = c.sizes
  /\ fields' = c.fields
  /\ got' = [rc |-> c.rc, start |-> c.start]

Return(op, rc) == out' = [op |-> op, rc |-> rc]

(* The blocks the call still has; those of a success are the program's.    *)
HandOver(c) ==
  /\ live' = live + Cardinality(c.blocks)
  /\ held' = IF c.rc > 0 THEN held + 1 ELSE held

(* The program reads the header first, as every example of the docs does.  *)
ReadHeader ==
  /\ at = "caller"
  /\ stream.pos = 0
  /\ held < MaxHeld
  /\ \E c \in dbf_read_header(Call(stream, faults)) :
       Done(c) /\ HandOver(c) /\ Return("header", c.rc)
  /\ asked' = -1
  /\ UNCHANGED <<file, at, loop>>

(* assert(fh->record_size > 0)                                             *)
ReadRecord ==
  /\ at \in CallSites
  /\ sizes.record > 0
  /\ held < MaxHeld
  /\ \E c \in dbf_read_record(Call(stream, faults)) :
       Done(c) /\ HandOver(c) /\ Return("record", c.rc)
  /\ asked' = -1
  /\ UNCHANGED <<file, at, loop>>

SeekRecord(n) ==
  /\ at \in CallSites
  /\ sizes.record > 0
  /\ held < MaxHeld
  /\ num_bytes <= MaxBytes
  /\ \E c \in dbf_seek_record(n) : Done(c) /\ HandOver(c) /\ Return("seek", c.rc)
  /\ asked' = n
  /\ UNCHANGED <<file, at, loop>>

FreeBlock ==
  /\ at \in CallSites
  /\ held > 0
  /\ held' = held - 1
  /\ live' = live - 1
  /\ UNCHANGED <<file, stream, num_bytes, error, sizes, at, loop, fields, got, asked, out,
                 faults>>

SetError ==
  /\ at \in CallSites
  /\ error' = "set_by_program"
  /\ UNCHANGED <<file, stream, num_bytes, sizes, at, loop, fields, got, asked, out, held,
                 live, faults>>

-----------------------------------------------------------------------------
(***************************************************************************)
(* dbf_read.  It has the header and one record while it runs, and frees    *)
(* both at its end.                                                        *)
(***************************************************************************)
RecordForLoop(c) ==
  IF c.rc = 1
  THEN {IF Running(b) THEN b ELSE free(Answered(b, -1), "header") : b \in malloc(c, "record")}
  ELSE {c}

BeginRead ==
  /\ at = "caller"
  /\ stream.pos = 0
  /\ \E h \in dbf_read_header(Call(stream, faults)) : \E c \in RecordForLoop(h) :
       /\ Done(c)
       /\ live' = live + Cardinality(c.blocks)
       /\ IF c.rc > 0 THEN at' = "header_cb" /\ out' = out
                      ELSE at' = "caller" /\ Return("read", c.rc)
  /\ asked' = -1
  /\ UNCHANGED <<file, loop, held>>

Cleanup ==
  /\ at' = "caller"
  /\ loop' = Idle
  /\ live' = live - 2

(* handle_header or handle_record returns.                                 *)
Callback(answer) ==
  /\ at \in {"header_cb", "record_cb"}
  /\ \/ /\ answer > 0
        /\ at' = "loop"
        /\ loop' = [num |-> IF at = "record_cb" THEN loop.num + 1 ELSE 0,
                    offset |-> num_bytes]
        /\ UNCHANGED <<out, live>>
     \/ /\ answer <= 0
        /\ Cleanup
        /\ Return("callback", answer)
  /\ UNCHANGED <<file, stream, num_bytes, error, sizes, fields, got, asked, held, faults>>

NeverShort(c, marker) ==             \* mutant: the rows are not counted
  IF c.nr > 0 /\ marker THEN Answered(c, 0)
  ELSE IF c.nr > 0 /\ c.nr # c.sizes.record THEN Explained(c, "expected_record")
  ELSE IF c.nr > 0 THEN Answered(c, 1)
  ELSE IF ferror(c.stream) THEN Explained(c, "cannot_read_record")
  ELSE Answered(c, 0)

(* What the loop makes of the bytes it got: a record if there are any, and *)
(* otherwise what follows the loop.                                        *)
LoopRead(c, marker) ==
  IF c.nr > 0 /\ marker THEN Answered(c, 0)
  ELSE IF c.nr > 0 /\ c.nr # c.sizes.record THEN Explained(c, "expected_record")
  ELSE IF c.nr > 0 THEN Answered(c, 1)
  ELSE IF ferror(c.stream) THEN Explained(c, "cannot_read_record")
  ELSE IF loop.num < file.head.num_records THEN Explained(c, "expected_records")
  ELSE Answered(c, 0)

EndIgnored ==                        \* mutant: the loop goes on when there is no row
  /\ at = "loop"
  /\ \E c \in file_fread(Call(stream, faults), sizes.record), marker \in MarkerAt(stream.pos) :
       LET r == LoopRead(c, marker)
       IN  /\ Done(r)
           /\ IF r.rc > 0
              THEN at' = "record_cb" /\ UNCHANGED <<loop, live, out>>
              ELSE IF r.nr > 0 THEN Cleanup /\ Return("read", r.rc)
              ELSE UNCHANGED <<at, loop, live, out>>
  /\ asked' = -1
  /\ UNCHANGED <<file, held>>

NextRow ==
  /\ at = "loop"
  /\ \E c \in file_fread(Call(stream, faults), sizes.record), marker \in MarkerAt(stream.pos) :
       LET r == LoopRead(c, marker)
       IN  /\ Done(r)
           /\ IF r.rc > 0
              THEN at' = "record_cb" /\ UNCHANGED <<loop, live, out>>
              ELSE Cleanup /\ Return("read", r.rc)
  /\ asked' = -1
  /\ UNCHANGED <<file, held>>

Reading == NextRow \/ \E answer \in {-1, 0, 1} : Callback(answer)

Next ==
  \/ ReadHeader
  \/ ReadRecord
  \/ \E n \in RecordNumbers : SeekRecord(n)
  \/ FreeBlock
  \/ SetError
  \/ BeginRead
  \/ Reading

Spec == Init /\ [][Next]_vars

(* Callbacks return and dbf_read goes on; nobody has to call the library.  *)
FairSpec == Spec /\ WF_vars(Reading)

-----------------------------------------------------------------------------
(***************************************************************************)
(* No block is lost and none is freed twice: the blocks allocated are the  *)
(* headers and records the program holds and, while dbf_read runs, the two *)
(* it has.  It is about the paths of read_header_dbase3, where a read may  *)
(* fail with the descriptors allocated, and of dbf_read_record.            *)
(***************************************************************************)
BlocksAccounted == live = held + (IF at = "caller" THEN 0 ELSE 2)

(***************************************************************************)
(* The fields of a header that was read fill its records, so that no       *)
(* dbf_record_* function looks behind the bytes of a record: for every     *)
(* version, descriptors that overhang their area, and names without '\r'.  *)
(***************************************************************************)
FieldsFillRecord == sizes.record > 0 => FieldsTile(fields, sizes.record)

(***************************************************************************)
(* A call that returns -1 on its own account has left a message in         *)
(* fh->error.                                                              *)
(***************************************************************************)
FailureExplained == out.rc = -1 /\ out.op # "callback" => error # NoMessage

(***************************************************************************)
(* After a read error dbf_read_record and dbf_seek_record deliver nothing, *)
(* and neither they nor dbf_read take the error for the end of the table:  *)
(* 0 is then the answer to a marker, or where no row begins.               *)
(***************************************************************************)
Whole(pos) == pos + file.head.record_size <= file.size

ErrorIsNotTheEnd ==
  [][ferror(stream') /\ got' # got =>
       /\ got'.rc = 1 => at = "loop"
       /\ got'.rc = 0 => got'.start \in file.marks \/ ~Aligned(file, got'.start)]_vars

(***************************************************************************)
(* Where no marker ends the table, dbf_read tells a table with fewer rows  *)
(* than its header says, or with part of a row at its end, from a complete *)
(* one.  It is claimed where callbacks have not read on by themselves: the *)
(* rows that they read are not counted.  A table that a marker ends may    *)
(* have fewer rows than the header says.                                   *)
(***************************************************************************)
Complete ==
  LET bytes == file.size - FirstRow(file.head)
  IN  /\ bytes % file.head.record_size = 0
      /\ bytes >= file.head.num_records * file.head.record_size

AllCounted == stream.pos = FirstRow(file.head) + loop.num * file.head.record_size

ShortTableIsError ==
  [][at = "loop" /\ at' = "caller" /\ ~ferror(stream') /\ file.marks = {} /\ AllCounted =>
       (out'.rc = 0 <=> Complete)]_vars

(***************************************************************************)
(* The file_offset that handle_record gets is "the record's position in    *)
(* the file" (dbf.h:549): where the stream stood when the row was read.    *)
(***************************************************************************)
OffsetIsPosition ==
  [][at = "loop" /\ at' = "record_cb" => loop.offset = stream.pos]_vars

(***************************************************************************)
(* dbf_read returns, if its callbacks do not seek.                         *)
(***************************************************************************)
ReadReturns == (at # "caller") ~> (at = "caller")

-----------------------------------------------------------------------------
(***************************************************************************)
(* The file as a table of rows, for RowTable.                              *)
(***************************************************************************)
RowStart(i) == FirstRow(file.head) + (i - 1) * file.head.record_size

Rows ==
  IF file.head.record_size = 0 THEN {}
  ELSE 1 .. StepsUpTo(Max({0, file.size - FirstRow(file.head)}), file.head.record_size)

Kind(i) ==
  IF RowStart(i) \in file.marks THEN "mark"
  ELSE IF Whole(RowStart(i)) THEN "row" ELSE "cut"

kindsBar == [i \in Rows |-> Kind(i)]

curBar ==
  LET here == {i \in Rows : RowStart(i) = stream.pos}
  IN  IF stream.pos = 0 THEN -1
      ELSE IF here # {} THEN CHOOSE i \in here : TRUE
      ELSE IF stream.pos >= file.size THEN Cardinality(Rows) + 1 ELSE 0

itemBar ==
  LET here == {i \in Rows : RowStart(i) = got.start}
  IN  IF got.rc = 1 /\ here # {} THEN CHOOSE i \in here : TRUE ELSE 0

Table == INSTANCE RowTable
           WITH kinds <- kindsBar, cur <- curBar, last <- [rc |-> got.rc, item |-> itemBar],
                broken <- ferror(stream)

(***************************************************************************)
(* The file answers as a table: row n for number n from wherever the       *)
(* stream stands, then the rows behind it, deleted ones too, each once and *)
(* in order, and the end at a marker and where the file ends, through      *)
(* dbf_read_record, dbf_seek_record and dbf_read alike and in callbacks.   *)
(***************************************************************************)
AnswersAsTable == Table!Spec
=============================================================================
