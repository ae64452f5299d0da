---------------------------- MODULE RecordCursor ----------------------------
(***************************************************************************)
(* What reading a ".shp" file from front to back promises, with no byte    *)
(* offsets, buffers or callbacks: a cursor over the file's records.        *)
(*                                                                         *)
(* Every call answers with 1 and the record under the cursor, with 0 at    *)
(* the end, or with -1; and the cursor moves over exactly the record it    *)
(* answered for, so that no record is skipped or delivered twice and a     *)
(* rejected record does not stop the ones behind it from being read.       *)
(* Promises end where the code gives none: after a record whose length is  *)
(* below the minimum the reader is in the middle of nowhere, and after a   *)
(* stream error every answer is -1.                                        *)
(***************************************************************************)
EXTENDS Integers, Sequences

VARIABLES
  kinds,    \* what the file holds, record by record
  cur,      \* -1 before the header, 0 in the middle of nowhere, else the next
            \* record or, behind the last one, End
  last,     \* the latest answer [rc, item]; item is the record delivered or 0
  faults,   \* how many more calls of the operating system may fail
  broken    \* the stream has failed

cvars == <<kinds, cur, last, faults, broken>>

(* A shape, a record that is no shape, a record that the end of the file   *)
(* cuts off, a record whose length is below the minimum, and a record that *)
(* is not there, not even with its header.                                 *)
Kinds    == {"shape", "bad", "cut", "runt", "absent"}
End      == Len(kinds) + 1
Position == -1 .. End

TypeOK ==
  /\ kinds \in Seq(Kinds)
  /\ cur \in Position
  /\ last \in [rc : {-1, 0, 1}, item : 0 .. Len(kinds)]
  /\ faults \in Nat
  /\ broken \in BOOLEAN

Init ==
  /\ kinds \in Seq(Kinds)
  /\ cur = -1
  /\ last = [rc |-> 0, item |-> 0]
  /\ faults \in Nat
  /\ broken = FALSE

Answer(rc, item) == last' = [rc |-> rc, item |-> item]
MoveTo(position) == cur' = position /\ UNCHANGED <<kinds, faults, broken>>

Holds(i, kind) == ~broken /\ i \in DOMAIN kinds /\ kinds[i] = kind

Open       == ~broken /\ cur = -1 /\ Answer(1, 0) /\ MoveTo(1)
Refuse     == ~broken /\ cur = -1 /\ Answer(-1, 0) /\ \E p \in {-1, 1, End} : MoveTo(p)
Deliver(i) == Holds(i, "shape") /\ Answer(1, i) /\ MoveTo(i + 1)
Reject(i)  == Holds(i, "bad") /\ Answer(-1, 0) /\ MoveTo(i + 1)
Break(i)   == Holds(i, "cut") /\ Answer(-1, 0) /\ MoveTo(End)
Stumble(i) == Holds(i, "runt") /\ Answer(-1, 0) /\ \E p \in {0, i + 1, End} : MoveTo(p)
Finish(i)  == Holds(i, "absent") /\ Answer(0, 0) /\ \E p \in {i, End} : MoveTo(p)
AtEnd(i)   == ~broken /\ i >= End /\ Answer(0, 0) /\ MoveTo(End)

Read(i) == \/ Deliver(i) \/ Reject(i) \/ Break(i) \/ Stumble(i)
           \/ Finish(i) \/ AtEnd(i)

(* In the middle of nowhere the bytes decide.                              *)
Wander ==
  /\ ~broken /\ cur = 0
  /\ \E rc \in {-1, 0, 1}, item \in 0 .. Len(kinds) : Answer(rc, item)
  /\ \E p \in Position : MoveTo(p)

(* A failing call costs a fault; a broken stream fails for free.           *)
Fail ==
  /\ Answer(-1, 0)
  /\ cur' \in Position
  /\ broken' \in {broken, TRUE}
  /\ \/ faults > 0 /\ faults' = faults - 1
     \/ broken /\ faults' = faults
  /\ kinds' = kinds

(* A fault that the reading of records does not notice.                    *)
Elsewhere ==
  /\ faults > 0
  /\ faults' = faults - 1
  /\ UNCHANGED <<kinds, cur, last, broken>>

Next ==
  \/ Open \/ Refuse
  \/ Read(cur) \/ Wander
  \/ Fail \/ Elsewhere

Spec == Init /\ [][Next]_cvars
=============================================================================
