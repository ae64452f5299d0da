------------------------------ MODULE RowTable ------------------------------
(***************************************************************************)
(* What reading a ".dbf" file promises, with no byte offsets, blocks or    *)
(* callbacks: a table of rows with a cursor.  Every read answers with 1    *)
(* and the row under the cursor, with 0 at an end-of-file marker and       *)
(* behind the last row, or with -1 for a row that is cut off, and moves    *)
(* the cursor on by one.  A row can also be asked for by its number.       *)
(***************************************************************************)
EXTENDS Integers, Sequences

VARIABLES
  kinds,    \* what the file holds, row by row
  cur,      \* -1 before the header, 0 in the middle of nowhere, else the next
            \* row or, behind the last one, End
  last,     \* the latest answer [rc, item]; item is the row delivered or 0
  asked,    \* the number the latest answer is for, or NoNumber
  faults,   \* how many more calls of the operating system may fail
  broken    \* the stream has failed

tvars == <<kinds, cur, last, asked, faults, broken>>

Kinds    == {"row", "mark", "cut"}
End      == Len(kinds) + 1
Position == -1 .. End
NoNumber == -1

Init ==
  /\ kinds \in Seq(Kinds)
  /\ cur = -1
  /\ last = [rc |-> 0, item |-> 0]
  /\ asked = NoNumber
  /\ faults \in Nat
  /\ broken = FALSE

Answer(rc, item) == last' = [rc |-> rc, item |-> item]
MoveTo(position) == cur' = position /\ UNCHANGED <<kinds, faults, broken>>

Holds(i, kind) == i \in DOMAIN kinds /\ kinds[i] = kind

Open   == cur = -1 /\ Answer(1, 0) /\ MoveTo(IF kinds = <<>> THEN End ELSE 1)
Refuse == cur = -1 /\ Answer(-1, 0) /\ \E p \in Position : MoveTo(p)

Deliver(i) == Holds(i, "row") /\ Answer(1, i) /\ MoveTo(i + 1)
Mark(i)    == Holds(i, "mark") /\ Answer(0, 0) /\ MoveTo(i + 1)
Break(i)   == Holds(i, "cut") /\ Answer(-1, 0) /\ MoveTo(End)

(* dbf_read answers with -1 if the header says that there are more rows.   *)
AtEnd(i) == i >= End /\ MoveTo(End) /\ \E rc \in {-1, 0} : Answer(rc, 0)

(* A number so large that the position cannot be set.                      *)
TooFar(n) == n >= End /\ Answer(-1, 0) /\ MoveTo(cur)

Read(i) == Deliver(i) \/ Mark(i) \/ Break(i) \/ AtEnd(i)

(* A failing call costs a fault; behind a stream error there are no        *)
(* promises.                                                               *)
Fail ==
  /\ faults > 0
  /\ faults' = faults - 1
  /\ \E rc \in {-1, 0} : Answer(rc, 0)
  /\ cur' \in Position
  /\ broken' \in {broken, TRUE}
  /\ kinds' = kinds

Wander ==
  /\ broken
  /\ \E rc \in {-1, 0, 1}, item \in 0 .. Len(kinds) : Answer(rc, item)
  /\ cur' \in Position
  /\ faults' \in 0 .. faults
  /\ UNCHANGED <<kinds, broken>>

Next ==
  \/ /\ asked' = NoNumber
     /\ (~broken /\ (Open \/ Refuse \/ Read(cur))) \/ Fail \/ Wander
  \/ /\ asked' \in Nat
     /\ (~broken /\ (Read(asked' + 1) \/ TooFar(asked'))) \/ Fail \/ Wander

Spec == Init /\ [][Next]_tvars
=============================================================================
