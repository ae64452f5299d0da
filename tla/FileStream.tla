----------------------------- MODULE FileStream -----------------------------
(***************************************************************************)
(* The stdio stream below a file handle.  shp.c and dbf.c reach it only    *)
(* through four static functions, file_fread, file_feof, file_ferror and   *)
(* file_fsetpos, which call fread, feof, ferror and fseek.                 *)
(*                                                                         *)
(* A stream is a record: the file position and the indicators for the end  *)
(* of the file and for an error.  fread and fsetpos are the sets of the    *)
(* outcomes a call may have; [fault] is 1 in an outcome that needs the     *)
(* operating system to fail, which the caller pays for from its budget of  *)
(* faults.  What the bytes mean is the business of the modules that use    *)
(* this one.                                                               *)
(***************************************************************************)
EXTENDS Integers

CONSTANTS
  LongMax,     \* LONG_MAX, the largest offset fseek takes
  ShortReads   \* how many bytes a failing fread may still deliver

ASSUME FileStreamAssumption ==
  /\ LongMax \in Nat
  /\ ShortReads \subseteq Nat

(* The indicators are those that feof and ferror report.                   *)
Stream == [pos : Nat, indicators : SUBSET {"eof", "err"}]

Opened == [pos |-> 0, indicators |-> {}]

feof(s)   == "eof" \in s.indicators
ferror(s) == "err" \in s.indicators

Available(s, size) == IF s.pos < size THEN size - s.pos ELSE 0

Stopped(nr, count) == IF nr < count THEN {"eof"} ELSE {}

(***************************************************************************)
(* Without a fault fread delivers what is asked, or what is left and then  *)
(* sets the end-of-file indicator.  With a fault it delivers less than is  *)
(* asked and sets the error indicator, which nothing in the library clears.*)
(***************************************************************************)
CleanRead(s, size, count) ==
  LET nr == IF count <= Available(s, size) THEN count ELSE Available(s, size)
  IN  [nr     |-> nr,
       stream |-> [pos |-> s.pos + nr, indicators |-> s.indicators \cup Stopped(nr, count)],
       fault  |-> 0]

FailedRead(s, nr) ==
  [nr     |-> nr,
   stream |-> [pos |-> s.pos + nr, indicators |-> s.indicators \cup {"err"}],
   fault  |-> 1]

fread(s, size, count, faults) ==
  {CleanRead(s, size, count)} \cup
  {FailedRead(s, nr) : nr \in {n \in ShortReads : /\ faults > 0
                                                  /\ n < count
                                                  /\ n <= Available(s, size)}}

(***************************************************************************)
(* fsetpos refuses an offset above LONG_MAX and leaves the rest to fseek,  *)
(* which takes any offset, beyond the end of the file too, and clears the  *)
(* end-of-file indicator but not the error indicator.                      *)
(***************************************************************************)
RewoundTo(s, offset) ==              \* mutant: as rewind() does, which clears both
  [rc |-> 0, stream |-> [pos |-> offset, indicators |-> {}], fault |-> 0]

StillAtEnd(s, offset) ==             \* mutant: as lseek() does, which clears none
  [rc |-> 0, stream |-> [pos |-> offset, indicators |-> s.indicators], fault |-> 0]

Positioned(s, offset) ==
  [rc |-> 0, stream |-> [pos |-> offset, indicators |-> s.indicators \ {"eof"}], fault |-> 0]

Refused(s, fault) == [rc |-> -1, stream |-> s, fault |-> fault]

fsetpos(s, offset, faults) ==
  IF offset > LongMax
  THEN {Refused(s, 0)}
  ELSE {Positioned(s, offset)} \cup {Refused(s, n) : n \in {1} \cap 0..faults}
=============================================================================
