----------------------------- MODULE DbfBinary ------------------------------
(***************************************************************************)
(* The fields of a record of dbf.c, and those that hold a number in its    *)
(* binary form.  A record is the sequence of its bytes and a field says    *)
(* which of them are its own.                                              *)
(***************************************************************************)
EXTENDS ByteOrder

get_bytes_readonly(record, field) ==
  SubSeq(record, field.offset + 1, field.offset + field.size)

dbf_record_bytes(record, field) == get_bytes_readonly(record, field)

(* The first byte is '*' in a deleted record.                              *)
dbf_record_is_deleted(record) == IF record[1] = 42 THEN 1 ELSE 0

(* A conversion's result and the value that is 0 if it fails.              *)
Failed     == [ok |-> 0, value |-> 0]
Success(v) == [ok |-> 1, value |-> v]

dbf_record_double(record, field) ==
  LET bytes == get_bytes_readonly(record, field)
  IN  IF Len(bytes) = 8 THEN Success(shp_le64_to_double(bytes)) ELSE Failed

ShortInteger(record, field) ==       \* mutant: takes the first bytes of any longer field
  LET bytes == get_bytes_readonly(record, field)
  IN  IF Len(bytes) >= 4 THEN Success(shp_le32_to_int32(SubSeq(bytes, 1, 4))) ELSE Failed

dbf_record_int32(record, field) ==
  LET bytes == get_bytes_readonly(record, field)
  IN  IF Len(bytes) = 4 THEN Success(shp_le32_to_int32(bytes)) ELSE Failed

dbf_record_int64(record, field) ==
  LET bytes == get_bytes_readonly(record, field)
  IN  IF Len(bytes) = 8 THEN Success(shp_le64_to_int64(bytes)) ELSE Failed

(* The two numbers that dbf_jd_to_tm is asked to convert, in any case.     *)
dbf_record_datetime(record, field) ==
  LET bytes == get_bytes_readonly(record, field)
  IN  IF Len(bytes) = 8
      THEN Success([jdn |-> shp_le32_to_int32(SubSeq(bytes, 1, 4)),
                    jt  |-> shp_le32_to_int32(SubSeq(bytes, 5, 8))])
      ELSE [Failed EXCEPT !.value = [jdn |-> 0, jt |-> 0]]
=============================================================================
