----------------------------- MODULE ShxReader ------------------------------
(***************************************************************************)
(* The reader of ".shx" files, shx.c: a handle and the calls a program     *)
(* makes on it, shx_read_header, shx_read_record, shx_seek_record and      *)
(* shx_read.  An index has an entry of eight bytes for each record of the  *)
(* ".shp" file, which says where the record is and how long.               *)
(*                                                                         *)
(* The granularity is that of ShpReader.  The handle counts bytes as the   *)
(* other one does, but no code in shx.c reads the number.                  *)
(***************************************************************************)
EXTENDS FileStream, Sequences

CONSTANTS
  Indexes,        \* the files that may be opened
  Noise,          \* what may be read where no entry starts
  LargestNumber,  \* 715827874, the largest record number
  SizeModulus,    \* size_t arithmetic wraps there
  CallSites,      \* where the program may use the handle
  RecordNumbers,  \* the numbers it asks shx_seek_record for
  MaxFaults       \* bound: calls of the operating system that fail

HeaderSize == 100
EntrySize  == 8

(* Offset and content length, in 16-bit words.                             *)
Entry == [offset : Nat, len : Nat]

EntryStart(i) == HeaderSize + EntrySize * (i - 1)

IsIndex(f) ==
  /\ f.size \in Nat
  /\ f.code \in Int
  /\ f.entries \in Seq(Entry)
  /\ f.size <= EntryStart(Len(f.entries) + 1)

ASSUME ShxReaderAssumption ==
  /\ \A f \in Indexes : IsIndex(f)
  /\ Noise \subseteq Entry
  /\ Noise # {}
  /\ {LargestNumber, MaxFaults} \subseteq Nat
  /\ SizeModulus \in Nat \ {0}
  /\ CallSites \subseteq {"caller", "header_cb", "record_cb"}
  /\ RecordNumbers \subseteq Nat

VARIABLES
  index,    \* the file's content
  stream,   \* fh->stream
  error,    \* the message in fh->error
  at,       \* who runs: the program, one of its callbacks, or shx_read's loop
  got,      \* the latest result and the shx_record_t that came with it
  asked,    \* the number of the latest shx_seek_record, -1 for other reads
  out,      \* the latest call to return to the program and its result
  faults    \* how many more calls of the operating system may fail

vars == <<index, stream, error, at, got, asked, out, faults>>

NoMessage == "none"

Messages ==
  {NoMessage, "cannot_read_file_header", "expected_file_header", "expected_file_code",
   "cannot_read_index_record", "expected_index_record", "offset_is_invalid",
   "content_length_is_invalid", "record_number_is_too_big", "cannot_set_file_position",
   "set_by_program"}

(* shx_record_t, in bytes.                                                 *)
ShxRecord == [file_offset : Nat, record_size : Nat]
NoRecord  == [file_offset |-> 0, record_size |-> 0]

TypeOK ==
  /\ index \in Indexes
  /\ stream \in Stream
  /\ error \in Messages
  /\ at \in {"caller", "header_cb", "record_cb", "loop"}
  /\ got \in [rc : {-1, 0, 1}, rec : ShxRecord, start : Nat]
  /\ asked \in Nat \cup {-1}
  /\ out \in [op : {"none", "header", "record", "seek", "read", "callback"}, rc : {-1, 0, 1}]
  /\ faults \in Nat

Init ==
  /\ index \in Indexes
  /\ stream = Opened
  /\ error = NoMessage
  /\ at = "caller"
  /\ got = [rc |-> 0, rec |-> NoRecord, start |-> 0]
  /\ asked = -1
  /\ out = [op |-> "none", rc |-> 0]
  /\ faults = MaxFaults

-----------------------------------------------------------------------------
(***************************************************************************)
(* A call in progress: result, message, stream, bytes read, faults left,   *)
(* the record to be returned, and where in the file it began to read.      *)
(***************************************************************************)
Call(s, rec, budget) ==
  [rc |-> -1, message |-> NoMessage, stream |-> s, nr |-> 0, faults |-> budget,
   rec |-> rec, start |-> s.pos]

file_fread(c, count) ==
  {[c EXCEPT !.stream = r.stream, !.nr = r.nr, !.faults = c.faults - r.fault] :
     r \in fread(c.stream, index.size, count, c.faults)}

Verdict(c, message) ==
  [c EXCEPT !.message = message, !.rc = IF message = NoMessage THEN 1 ELSE -1]

HeaderMessage(c) ==
  IF ferror(c.stream) THEN "cannot_read_file_header"
  ELSE IF c.nr # HeaderSize THEN "expected_file_header"
  ELSE IF index.code # 9994 THEN "expected_file_code" ELSE NoMessage

(* shp_read_header, which leaves the record alone.                         *)
shx_read_header(c) == {Verdict(h, HeaderMessage(h)) : h \in file_fread(c, HeaderSize)}

size_t(n) == n % SizeModulus

EntriesAt(pos) ==
  LET here == {i \in 1 .. Len(index.entries) : EntryStart(i) = pos}
  IN  IF here = {} THEN Noise ELSE {index.entries[i] : i \in here}

EntryMessage(entry) ==
  IF entry.offset < 50 THEN "offset_is_invalid"
  ELSE IF entry.len < 2 THEN "content_length_is_invalid" ELSE NoMessage

Found(c, entry) ==
  [c EXCEPT !.rec = [file_offset |-> size_t(2 * entry.offset),
                     record_size |-> size_t(2 * entry.len)]]

(* The record is set on the way out, to zeros if the entry is not there.   *)
EofReturnsCount(c) ==                \* mutant: fread's result is returned
  [c EXCEPT !.rc = c.nr, !.rec = NoRecord]

Ended(c)  == [c EXCEPT !.rc = 0, !.rec = NoRecord]
Unread(c) == [c EXCEPT !.rec = NoRecord]

ErrorsUnseen(c) ==                   \* mutant: a failed read is taken for the end
  IF c.nr # EntrySize THEN {Ended(c)}
  ELSE {Verdict(Found(c, entry), EntryMessage(entry)) : entry \in EntriesAt(c.start)}

AfterEntry(c) ==
  IF ferror(c.stream) THEN {Verdict(Unread(c), "cannot_read_index_record")}
  ELSE IF feof(c.stream) THEN {Ended(c)}
  ELSE IF c.nr # EntrySize THEN {Verdict(Unread(c), "expected_index_record")}
  ELSE {Verdict(Found(c, entry), EntryMessage(entry)) : entry \in EntriesAt(c.start)}

read_record(c) == UNION {AfterEntry(b) : b \in file_fread(c, EntrySize)}

OneBasedOffset(n) ==                 \* mutant: numbers as in the ".shp" file
  size_t(IF n = 0 THEN HeaderSize ELSE (n - 1) * EntrySize + HeaderSize)

file_offset(n) == size_t(n * EntrySize + HeaderSize)

seek_and_read(n) ==
  UNION {IF p.rc = 0
         THEN read_record(Call(p.stream, got.rec, faults - p.fault))
         ELSE {Verdict(Call(p.stream, got.rec, faults - p.fault), "cannot_set_file_position")} :
           p \in fsetpos(stream, file_offset(n), faults)}

shx_seek_record(n) ==
  IF n > LargestNumber
  THEN {Verdict(Call(stream, got.rec, faults), "record_number_is_too_big")}
  ELSE seek_and_read(n)

-----------------------------------------------------------------------------
(* What every function that has read leaves behind.                        *)
Done(c) ==
  /\ stream' = c.stream
  /\ error' = IF c.message = NoMessage THEN error ELSE c.message
  /\ faults' = c.faults
  /\ got' = [rc |-> c.rc, rec |-> c.rec, start |-> c.start]

Return(op, rc) == out' = [op |-> op, rc |-> rc]

ReadHeader ==
  /\ at = "caller"
  /\ stream.pos = 0
  /\ \E c \in shx_read_header(Call(stream, got.rec, faults)) : Done(c) /\ Return("header", c.rc)
  /\ asked' = -1
  /\ UNCHANGED <<index, at>>

ReadRecord ==
  /\ at \in CallSites
  /\ stream.pos > 0
  /\ \E c \in read_record(Call(stream, got.rec, faults)) : Done(c) /\ Return("record", c.rc)
  /\ asked' = -1
  /\ UNCHANGED <<index, at>>

SeekRecord(n) ==
  /\ at \in CallSites
  /\ \E c \in shx_seek_record(n) : Done(c) /\ Return("seek", c.rc)
  /\ asked' = n
  /\ UNCHANGED <<index, at>>

SetError ==
  /\ at \in CallSites
  /\ error' = "set_by_program"
  /\ UNCHANGED <<index, stream, at, got, asked, out, faults>>

(* shx_read, from the call to handle_header.                               *)
BeginRead ==
  /\ at = "caller"
  /\ stream.pos = 0
  /\ \E c \in shx_read_header(Call(stream, got.rec, faults)) :
       /\ Done(c)
       /\ IF c.rc > 0 THEN at' = "header_cb" /\ out' = out
                      ELSE at' = "caller" /\ Return("read", c.rc)
  /\ asked' = -1
  /\ UNCHANGED index

(* handle_header or handle_record returns.                                 *)
Callback(answer) ==
  /\ at \in {"header_cb", "record_cb"}
  /\ IF answer > 0 THEN at' = "loop" /\ out' = out
                   ELSE at' = "caller" /\ Return("callback", answer)
  /\ UNCHANGED <<index, stream, error, got, asked, faults>>

EndIgnored ==                        \* mutant: the loop goes on at the end of the file
  /\ at = "loop"
  /\ \E c \in read_record(Call(stream, NoRecord, faults)) :
       /\ Done(c)
       /\ IF c.rc > 0 THEN at' = "record_cb" /\ out' = out
          ELSE IF c.rc = 0 THEN at' = "loop" /\ out' = out
          ELSE at' = "caller" /\ Return("read", c.rc)
  /\ asked' = -1
  /\ UNCHANGED index

(* One round of the loop, up to handle_record.                             *)
NextRecord ==
  /\ at = "loop"
  /\ \E c \in read_record(Call(stream, NoRecord, faults)) :
       /\ Done(c)
       /\ IF c.rc > 0 THEN at' = "record_cb" /\ out' = out
                      ELSE at' = "caller" /\ Return("read", c.rc)
  /\ asked' = -1
  /\ UNCHANGED index

Reading == NextRecord \/ \E answer \in {-1, 0, 1} : Callback(answer)

Next ==
  \/ ReadHeader
  \/ ReadRecord
  \/ \E n \in RecordNumbers : SeekRecord(n)
  \/ SetError
  \/ BeginRead
  \/ Reading

Spec == Init /\ [][Next]_vars

(* Callbacks return and shx_read goes on; nobody has to call the library.  *)
FairSpec == Spec /\ WF_vars(Reading)

-----------------------------------------------------------------------------
(***************************************************************************)
(* The index as a table.  An entry is answered for only with the offset    *)
(* and the length that the file has for it, in bytes.                      *)
(***************************************************************************)
Items == 1 .. Len(index.entries)

Kind(i) ==
  IF EntryStart(i + 1) > index.size THEN "absent"
  ELSE IF EntryMessage(index.entries[i]) = NoMessage THEN "shape" ELSE "bad"

kindsBar == [i \in Items |-> Kind(i)]

curBar ==
  LET here == {i \in Items : EntryStart(i) = stream.pos}
  IN  IF stream.pos = 0 THEN -1
      ELSE IF here # {} THEN CHOOSE i \in here : TRUE
      ELSE IF stream.pos >= index.size THEN Len(index.entries) + 1 ELSE 0

InBytes(entry) == [file_offset |-> 2 * entry.offset, record_size |-> 2 * entry.len]

ItemGot ==
  LET here == {i \in Items : EntryStart(i) = got.start /\ InBytes(index.entries[i]) = got.rec}
  IN  IF here = {} THEN 0 ELSE CHOOSE i \in here : TRUE

lastBar == [rc |-> got.rc, item |-> IF got.rc = 1 THEN ItemGot ELSE 0]

Table == INSTANCE RecordTable
           WITH kinds <- kindsBar, cur <- curBar, last <- lastBar,
                broken <- ferror(stream)

(***************************************************************************)
(* The index answers as a table: entry n is found from wherever the stream *)
(* stands, reading on begins behind it, and the end is reported behind the *)
(* last entry and nowhere else, in callbacks of shx_read too.              *)
(***************************************************************************)
AnswersAsTable == Table!TableSpec

(***************************************************************************)
(* shx_read returns, unless its callbacks seek for ever: whatever they     *)
(* read, wherever the file ends and whatever fails, the loop ends.         *)
(***************************************************************************)
SeekInCallback == at # "caller" /\ \E n \in RecordNumbers : SeekRecord(n)

ReadReturns == []<>(at = "caller") \/ []<><<SeekInCallback>>_vars

(***************************************************************************)
(* shx.h:187: shx_seek_record "sets the file position to the specified     *)
(* record number and reads the requested index record".  What it delivers  *)
(* is the entry with that number, and not another one or no entry at all.  *)
(* So it is where 8 * LargestNumber + 100 fits a size_t, and is not where  *)
(* size_t has 32 bits.                                                     *)
(***************************************************************************)
SeekFindsNumber ==
  asked >= 0 /\ got.rc = 1 =>
    /\ asked < Len(index.entries)
    /\ got.rec = InBytes(index.entries[asked + 1])
=============================================================================
