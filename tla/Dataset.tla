------------------------------ MODULE Dataset -------------------------------
(***************************************************************************)
(* A program with a handle for the ".shp" file and one for its ".shx"      *)
(* file.  It looks a shape up as shx.h and shp.h say, shx_seek_record and  *)
(* then shp_seek_record with the offset that the index gave, between other *)
(* calls on either handle and in the callbacks of shp_read and shx_read.   *)
(*                                                                         *)
(* One thread uses both handles: nothing else happens while a loop runs,   *)
(* and neither shp_read nor shx_read is called in a callback of the other. *)
(***************************************************************************)
EXTENDS ShpCursor

CONSTANTS Indexes, Noise, LargestNumber, RecordNumbers

VARIABLES
  index, xstream, xerror, xat, xgot, asked, xout, xfaults   \* the index's handle

xvars == <<index, xstream, xerror, xat, xgot, asked, xout, xfaults>>
dvars == <<vars, xvars>>

Shx == INSTANCE ShxReader
         WITH stream <- xstream, error <- xerror, at <- xat, got <- xgot,
              out <- xout, faults <- xfaults

ASSUME DatasetAssumption ==
  /\ \A x \in Indexes : Shx!IsIndex(x)
  /\ Noise \subseteq Shx!Entry
  /\ Noise # {}
  /\ LargestNumber \in Nat
  /\ RecordNumbers \subseteq Nat

(* The index and the file are of one dataset, as far as either goes.       *)
IsIndexOf(x, f) ==
  /\ Len(x.entries) = Len(f.recs)
  /\ \A i \in 1 .. Len(f.recs) :
       x.entries[i] = [offset |-> f.start[i] \div 2, len |-> f.recs[i].len]

DInit == Init /\ Shx!Init /\ IsIndexOf(index, file)

-----------------------------------------------------------------------------
(* The index has delivered a record, not just its header.                  *)
Indexed == xgot.rc = 1 /\ xgot.start > 0

SeekIndexed == Indexed /\ SeekRecord(xgot.rec.file_offset)

ShapeStep ==
  /\ xat # "loop"
  /\ \/ ReadHeader
     \/ ReadRecord
     \/ SeekIndexed
     \/ FreeRecord
     \/ xat = "caller" /\ BeginRead
     \/ Reading
  /\ UNCHANGED xvars

IndexStep ==
  /\ at # "loop"
  /\ \/ Shx!ReadHeader
     \/ Shx!ReadRecord
     \/ \E n \in RecordNumbers : Shx!SeekRecord(n)
     \/ at = "caller" /\ Shx!BeginRead
     \/ Shx!Reading
  /\ UNCHANGED vars

DNext == ShapeStep \/ IndexStep

DSpec == DInit /\ [][DNext]_dvars

-----------------------------------------------------------------------------
(* The record that the index was asked for, or that it had next.           *)
Wanted ==
  IF asked >= 0 THEN asked + 1 ELSE (xgot.start - HeaderSize) \div Shx!EntrySize + 1

AnswerOf(kind) == CASE kind = "shape" -> 1 [] kind = "absent" -> 0 [] OTHER -> -1

(***************************************************************************)
(* A lookup through the index answers for the record it was asked for, and *)
(* as that record deserves: delivers it if it is a shape, rejects it if it *)
(* is none, and says 0 if the file ends before it.  Nothing that either    *)
(* handle did before makes a difference: the end of a file that was met,   *)
(* records that were rejected, shp_read or shx_read in the middle of its   *)
(* loop; unless a call fails in it or the stream has failed before.        *)
(***************************************************************************)
LookupAnswers ==
  [][SeekIndexed /\ faults' = faults /\ ~ferror(stream') =>
       /\ Wanted \in Items
       /\ got'.rc = AnswerOf(Kind(Wanted))
       /\ got'.rc = 1 => got'.rec = file.recs[Wanted]]_dvars
=============================================================================
