---------------------------- MODULE MCDbfValues -----------------------------
(***************************************************************************)
(* What the bytes of a table stand for: the texts of its fields, numbers   *)
(* in either byte order, and dates.  A behaviour writes texts into a       *)
(* record, or bytes into a file, or counts days, from the days of the      *)
(* calendar that are known.                                                *)
(***************************************************************************)
EXTENDS MCDbfDates, MCDbfFields, MCByteOrder

FirstDay == jdn = 0
NoDays   == FirstDay /\ UNCHANGED cvars

ValuesInit == Init /\ NoText /\ NoBytes

Count == NoText /\ NoBytes /\ NextDay /\ UNCHANGED <<rvars, bvars>>

Compose == NoDays /\ NoBytes /\ (\E piece \in Pieces : WriteText(piece)) /\ UNCHANGED bvars

Store == NoDays /\ NoText /\ (\E d \in Digits : WriteByte(d)) /\ UNCHANGED rvars

ValuesNext == Count \/ Compose \/ Store

ValuesSpec == ValuesInit /\ [][ValuesNext]_<<cvars, rvars, bvars>>
=============================================================================
