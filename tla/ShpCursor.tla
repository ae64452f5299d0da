----------------------------- MODULE ShpCursor ------------------------------
(***************************************************************************)
(* A program that does not seek reads a ".shp" file as RecordCursor says:  *)
(* the refinement mapping from the reader of shp.c to the cursor.          *)
(***************************************************************************)
EXTENDS ShpReader

Items == 1 .. Len(file.recs)

Kind(i) ==
  LET rec == file.recs[i]
      content == file.start[i] + 8
  IN  IF content > file.size THEN "absent"
      ELSE IF rec.len < 2 THEN "runt"
      ELSE IF content + record_size(rec) > file.size THEN "cut"
      ELSE IF Accepted(rec) THEN "shape" ELSE "bad"

kindsBar == [i \in Items |-> Kind(i)]

(* The item of a set that stands at an offset, or else the default.        *)
ItemAt(items, pos, default) ==
  LET here == {i \in items : file.start[i] = pos}
  IN  IF here = {} THEN default ELSE CHOOSE i \in here : TRUE

curBar ==
  IF stream.pos = 0 THEN -1
  ELSE ItemAt(Items, stream.pos, IF stream.pos >= file.size THEN Len(file.recs) + 1 ELSE 0)

lastBar == [rc |-> got.rc, item |-> IF got.rc = 1 THEN ItemAt(Items, got.start, 0) ELSE 0]

Cursor == INSTANCE RecordCursor
            WITH kinds <- kindsBar, cur <- curBar, last <- lastBar,
                 broken <- ferror(stream)

(***************************************************************************)
(* The reader implements the cursor: through shp_read_record and shp_read  *)
(* alike, and when a callback reads on by itself, every record of the file *)
(* is answered for exactly once, in order, and the end is reported only    *)
(* where the file ends.                                                    *)
(***************************************************************************)
ReadsAsCursor == Cursor!Spec
=============================================================================
