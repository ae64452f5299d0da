---------------------------- MODULE RecordTable -----------------------------
(***************************************************************************)
(* What a file of records promises that can be asked for by number: the    *)
(* cursor of RecordCursor, and Lookup(n), which answers what reading in    *)
(* order would answer for record n and leaves the cursor behind it, from   *)
(* wherever the cursor was.  Numbers begin at 0.                           *)
(***************************************************************************)
EXTENDS RecordCursor

CONSTANT LargestNumber

VARIABLE asked   \* the number the latest answer is for, or NoNumber

NoNumber == -1

tvars == <<cvars, asked>>

TableInit == Init /\ asked = NoNumber

Lookup(n) ==
  \/ n <= LargestNumber /\ Read(n + 1)
  \/ n > LargestNumber /\ Answer(-1, 0) /\ MoveTo(cur)
  \/ Fail

TableNext ==
  \/ Next /\ asked' = NoNumber
  \/ asked' \in Nat /\ Lookup(asked')

TableSpec == TableInit /\ [][TableNext]_tvars
=============================================================================
