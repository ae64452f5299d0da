# A TLA+ specification of the shapereader library

The library reads ESRI shapefiles: the shapes themselves (`.shp`), the index
of the shapes (`.shx`) and the attribute table (`.dbf`).  It is sequential C.
What makes it hard is not concurrency between threads but the order of things
on one handle: a stream that may end or fail anywhere, buffers that are reused,
bookkeeping that must follow the stream, callbacks that get the handle while
the reader is in the middle of a loop, and sizes computed from numbers in the
file.

## Inventory

| Component | State | Operations | What makes it correct |
|---|---|---|---|
| Stream access (`file_fread`, `file_feof`, `file_ferror`, `file_fsetpos` in `shp.c` and again in `dbf.c`) | position, end-of-file and error indicators, `num_bytes` | read, ask, seek | bytes counted as delivered; offsets refused beyond `LONG_MAX` |
| Shape file reader (`shp.c`) | handle (stream, `num_bytes`, `error`); inside `shp_read` one buffer and its size | `shp_init_file`, `shp_set_error`, `shp_read_header`, `shp_read_record`, `shp_seek_record`, `shp_read` with two callbacks | every record answered for once and in order; only records that are in the file are delivered; no block lost; errors kept and explained; `shp_read` returns |
| Shape layout (`get_point` ... `get_multipatch` in `shp.c`) | none | the verdict on a record and the places of its arrays | arrays of an accepted record tile it |
| Parts and points (`shp-polyline*.c`, `shp-polygon*.c`, `shp-multipoint*.c`, `shp-multipatch.c`) | none | range of a part, point with a number | ranges are valid or empty; accesses stay in the arrays |
| Point in polygon (`shp-polygon.c`, `shp-point.c`) | none | bounding box test, crossing count | inside, outside and on the edge told apart, whatever vertex the point is level with |
| Index reader (`shx.c`) | a handle as above | `shx_read_header`, `shx_read_record`, `shx_seek_record`, `shx_read` | entry n is found at 100 + 8n; results set on every path that says so |
| Database header (`dbf.c`) | handle with `header_size` and `record_size`; header block with a list of fields | `dbf_read_header` for dBASE II and III layouts | fields in the record, one behind the other; blocks freed on every error path |
| Database reader (`dbf.c`) | the same handle; one record buffer | `dbf_read_record`, `dbf_seek_record`, `dbf_read` with two callbacks | all records, once and in order; the marker, the count and the end of the file agree |
| Database fields (`dbf.c`) | none | strings, numbers in text and binary, logicals, null | what is null, what converts |
| Dates (`dbf.c`) | none | `dbf_yyyymmdd_to_tm`, `dbf_jd_to_tm` | a calendar: consecutive days, valid days |
| Byte order (`byteorder.h`) | none | loads of fixed width | the same numbers on machines of both byte orders |

How they interact: a program holds one handle per file.  The readers call
stdio through four function pointers in the handle.  `shp_read`, `shx_read` and
`dbf_read` call the program back with the handle, so that a callback can itself
read, seek and set the error message.  A program that looks up record *n* asks
`shx_seek_record` for an offset and gives it to `shp_seek_record`; the accessors
then work on the arrays that the shape layout found in the record's block.

Hard behaviours, with the lines where they bite, are the `hazards` of
`PROJECT.json`.

## Modules

| Module | What it is |
|---|---|
| `FileStream` | the stream below a handle: each call as the set of its outcomes |
| `FileStreamProofs` | what the readers rely on of a read and of a seek, and the facts on numbers that the readers' proofs share: least elements, products, remainders |
| `ShpLayout` | sizes, verdict and arrays of a record (13 `get_*` functions and the switch of `read_record`) |
| `ShpLayoutProofs` | the arrays of an accepted record tile it just when a `size_t` holds their sizes |
| `ShpReader` | the reader of `.shp` files as a state machine |
| `RecordCursor` | what reading from front to back promises, with no bytes in it |
| `ShpCursor` | the refinement mapping from `ShpReader` to `RecordCursor` |
| `ShpReaderProofs` | the reader's invariants and action properties, and the refinement |
| `ShxReader` | the reader of `.shx` files, and its mapping to `RecordTable` |
| `ShxReaderProofs` | its type, that a seek finds the number it was asked for, and the refinement |
| `RecordTable` | `RecordCursor` with a lookup by number |
| `Dataset` | a program with both handles, looking shapes up through the index |
| `DatasetProofs` | that a lookup answers for the record it was asked for |
| `ShpParts` | the ranges of parts and the bytes of points, on the arrays of `ShpLayout` |
| `ShpPartsProofs` | reads stay in the arrays, valid parts share the points out, and `shp_point_in_polygon` tells inside from outside |
| `PointInPolygon` | `shp_point_in_polygon`, on the parts of `ShpParts` |
| `DbfHeader` | the header of a `.dbf` file: versions, descriptors, fields |
| `DbfReader` | the reader of `.dbf` files as a state machine, and its mapping to `RowTable` |
| `RowTable` | what reading rows and looking them up promises, with no bytes in it |
| `DbfReaderProofs` | the fields of a header, the reader's invariants and action properties, and the refinement |
| `ByteOrder`, `DbfBinary` | loads from bytes, and the fields that hold binary numbers |
| `DbfDates`, `Calendar` | the conversions of dates, and a calendar that counts days |
| `DbfFields` | the fields that hold text: trimming, null, logicals, numbers |
| `DbfValuesProofs` | what a field holds is read back as it was written, and the dates are those of the calendar |
| `MC*` | values for the constants, the walks over records, fields, rings and bytes, and the properties of the modules without a state |

### FileStream

A stream is its position and the set of its indicators.  `fread` delivers what
is asked or what is left, and sets the end-of-file indicator exactly when it
delivers less; or, for one of the faults a run allows, delivers fewer bytes than
asked and sets the error indicator.  `fseek` clears the end-of-file indicator
and not the error indicator, which nothing in the library clears.

### ShpLayout

A record is what the code looks at: length in 16-bit words, type, `NumParts`,
`NumPoints`.  The thirteen functions differ in which arrays a type has and in
the size of its fixed part, so the module has the classes of types and one
definition for each size and pointer, in `size_t` arithmetic (`% SizeModulus`).
Each pointer is computed from the one before it, as in the source.  A `size_t`
has the 32 bits of the counts or more.  The arrays are as the program indexes
them, with an item for each part and point counted, so that sizes which wrap do
show: `NeededSize` is what the arrays take, and `SizesFit` that a `size_t` holds
that.  `ShpReader` is about builds in which no record's sizes wrap
(`WideSizeAssumption`).

### ShpReader

| Variable | In the code |
|---|---|
| `file` | the file: size, file code, records, their offsets |
| `stream`, `num_bytes`, `error` | the handle's fields |
| `at` | who runs: the program, a callback, the loop of `shp_read` |
| `loop` | `buf_size` and `file_offset` of `shp_read` |
| `got` | what the latest read came to: result, record, where it began |
| `out` | the latest call that returned to the program, and its result |
| `held`, `live` | records the program has to free; blocks that are allocated |
| `faults` | how many more calls of the operating system may fail |

A call without callbacks is one step: `ReadHeader`, `ReadRecord`, `SeekRecord`.
Within it the functions of the source are operators from a call in progress to
the set of calls it may become: `read_record` reads the record header,
`AfterRecordHeader` is the three checks behind it, `ReadBody` checks the length
and calls `realloc`, `ReadContent` reads and judges the content.  `Done` is what
a call leaves in the handle, `HandOver` what becomes of the block.  `shp_read`
is `BeginRead` up to the first callback, `HeaderCallback` with what it answers,
`NextRecord` for a round of the loop, and `RecordCallback`.  While `at` is a
callback the other actions are enabled too: that is the callback using its
handle.

A file may end anywhere, also inside its header, a record header or a record.
At an offset where no record starts the bytes may say anything in `Garbage`.

### RecordCursor and ShpCursor

`RecordCursor` has the kinds of the records (a shape, a bad one, one cut off by
the end of the file, one with an invalid length, one that is missing) and a
cursor.  Its actions say what a call answers at each kind and where the cursor
goes.  The promise ends in two places where the code gives none: after an
invalid length, the reader is in the middle of nowhere; and after a stream
error, it answers -1 for ever.  `ShpCursor` maps the position of the stream to
the cursor, and the latest result and its offset to the answer.

### ShxReader and RecordTable

The same shape as `ShpReader`, without blocks: the program owns the
`shx_record_t` that the calls fill in.  `got.rec` is that record, in bytes and in
`size_t` arithmetic.  It keeps its content where the code returns before it is
set (a number that is too big, a failing seek) and is zero where no entry was
read.  `num_bytes` is left out: `file_fread` counts it, and nothing in `shx.c`
reads it.  `RecordTable` adds `Lookup(n)` to the cursor: the answer that reading
in order gives for record n, from wherever the cursor was.  The mapping takes an
item for delivered only if the record has that entry's offset and length.

### Dataset

The variables of `ShpReader` and those of `ShxReader`, substituted in an
instance, with each step leaving the other handle alone.  The one step they
share is `SeekIndexed`: `shp_seek_record` with the offset that the index gave,
as in `tests/test_multipoint.c:250-258`.  A single thread uses both handles: no
step is taken beside a running loop, and `shp_read` and `shx_read` do not run
inside one another, but either may run while its callbacks use both handles.

### ShpParts and PointInPolygon

A shape is a record of `ShpLayout` with its part table, whose entries are signed
32-bit numbers of any size and in any order.  `shp_polyline_points` and its six
siblings are one computation, `part_range`, and return `start`, `end` and
`num_points` as the code does: all three are set for an invalid part too.  The
entry is a number that becomes a `size_t`, so a negative one becomes a large one
(`% SizeModulus`).  The ten functions that get a point are modelled by the bytes
they read, as offsets in the record, which is what can be wrong about them; the
coordinates are not modelled there.

`shp_point_in_polygon` goes over every part with four points or more.  An edge is
seen from the point, `f` is the code's cross product, `Touches` its `return -1`
and `Crosses` its `++k`; since an edge that touches ends the function whatever
was counted, the loop is a set of edges and a cardinality.

### DbfHeader and DbfReader

The header of a file is what the code looks at: version, number of records, the
two sizes, and the descriptors in steps of 16 or 32 bytes.  `num_fields` walks
them to the first `\r`.  Where the size of the area is no multiple of 32, the last
step of dBASE III reads behind the block: what is there is any of `HeapBytes`
(`Readings`), so the sum of the sizes is checked against nondeterministic bytes.

| Variable | In the code |
|---|---|
| `file` | the header, the size, the places of `\x1a` where a row would begin |
| `stream`, `num_bytes`, `error`, `sizes` | the handle's fields |
| `at` | who runs: the program, a callback, the loop of `dbf_read` |
| `loop` | `record_num` and `file_offset` of `dbf_read` |
| `got`, `asked`, `out` | the latest result and where its record began; the number sought; the latest call to return |
| `held`, `live`, `faults` | as in `ShpReader` |

As in `ShpReader` a call in progress is a record; here it also has the set of
blocks it has in hand, which `malloc` and `free` change, so that every error path
is followed to what it leaves allocated.  `Check` is the code's "first test that
fails sets the message and goes to cleanup".  A read of a row that begins between
rows may find the marker or not.

`RowTable` has rows, markers, and a row that is cut off.  A marker answers 0 and
reading goes on behind it; a number finds its row from anywhere; the end answers
0, or -1 where `dbf_read` counts fewer rows than the header says.

### ByteOrder, DbfBinary, DbfFields, DbfDates

These have no state.  A conversion of `byteorder.h` is the permutation of bytes
that the source makes, followed by what the machine reads from that memory;
`WORDS_BIGENDIAN` is a constant, and `MCByteOrder` has an instance for each
value.  The fields of a record are an offset and a size in its bytes.  `strtol`
and its family are external and modelled in base 10: a sign, digits, saturation
at the type's bounds, and where they stop.  The spaces in front of a number are
cut by `get_right_justified_string`; texts with other white space there, which
`strtol` would skip, are left out.  A number that is not whole is modelled by an
integer scaled by `Places` decimal places.  A floating-point type holds the whole
numbers up to `DoubleMax` or `LongDoubleMax` (2^53 and, of the 80-bit type, 2^64)
and of larger ones the nearest of its own (`Held`).

The two functions that cut spaces are the code's loops, `length[n]` being what is
left when the loop is entered with `n` bytes.  The eight letters of a logical
value are listed three times in the code and in the module.

The divisions of doubles in `dbf_jd_to_tm` are made with integers.  For the date
the two agree: a comparison with the computation in doubles over every day from
0 to 5373484 found no difference.  For the time of day they do not: where the
hours or minutes since midnight are no binary fraction that a double holds
(`h_exact`, `m_exact`), the truncations that follow (`Truncated`) may see a number
a little below, at or above the true one.  A comparison over every millisecond of
a day, in three builds that round differently, found each result among the
model's outcomes.

`Calendar` counts days one by one from days whose date and day of the week are
known, through the reform of 1582.

The walks of `MCDbfFields`, `MCByteOrder` and `MCDbfDates` write what is read: a
record is one text behind another, as a program pads a field; a number is its
bytes, one after the other; a day is the one after the day before.  The
conversions are asked for each state of the walk.  A date has a text if its year
has four digits.

## Runs

| Run | Question | Bounds |
|---|---|---|
| `sequential` | does every way of reading from front to back do what `RecordCursor` says, with the bookkeeping right and `shp_read` returning? | 28 files: eight lists of up to three records (valid, bad, unknown, too short), whole, cut inside the last record header, behind it and a byte early; short headers; a wrong file code; two faults |
| `random_access` | what holds when the program and its callbacks seek? | three files; offsets of the header, of records, inside records, behind the end and above `LONG_MAX`; one fault; four kinds of garbage; no seek after 110 bytes |
| `index` | is the index a table with a cursor, whatever is sought in between, and does `shx_read` return? | 14 indexes: good and bad entries, ends at an entry, inside one, inside the header; numbers of entries, behind the end, the largest and one above it; two faults |
| `dataset` | does a lookup find its record, whatever both handles have done? | three datasets: a bad record and an index that ends in its last entry; a last record that is cut off; one that is missing. One fault on each handle; no `shp_seek_record` after 140 bytes |
| `shapes` | do the arrays of an accepted record tile it, do all reads stay in them, do valid parts share the points out, and is a point told to be inside a polygon just when it is? | 14 types and an unknown one, length to 100 words, 3 parts, 8 points: every type has records that are accepted and records that are a word too long or too short, and with 8 points the sizes exceed a `size_t` of 7 bits, as wide as the counts (`Narrow`), but not the one of 13; part tables with entries from -1 over all numbers of points to one too large, and the extreme ones. Rings of up to four corners on a grid of 3 by 3, closed, alone, behind a square that surrounds them or before one that overlaps them; asked for every point on, between and just outside the lines of the grid, so that points are level with corners and edges in all ways |
| `table` | do headers of both kinds and tables that end anywhere do what they should in order, and does `dbf_read` return? | 11 tables with rows of two bytes, with and without a marker, short, long, cut; 48 headers, among them areas that end in a descriptor, 32 and 33 descriptors of dBASE II, 2047 fields, fields of 0 and 256 bytes; headers truncated at eight places; two faults |
| `table_random_access` | with seeks in callbacks too, is the file a table of rows with a cursor? | three tables, with a marker at the end, in the middle, and a cut row; numbers of rows, of the end and one whose offset is refused; one fault |
| `values` | is what a field or a file holds read back as it was written? | texts: every field of up to five bytes that up to four of ten texts make up; `buf` of 3 bytes instead of 256 and small types, so that numbers saturate, doubles round and texts fill `buf`. Bytes: up to eight bytes of a machine whose bytes have six values, of which three are written: numbers on both sides of the sign bit. Dates: 1600 days from each of six days in -4712, -1000, 1582, 1600, 1900 and 2000: the reform, leap days and centuries with and without one; with each day twelve times of day, a whole hour, a whole minute and another second, and milliseconds after each |
| `dates_month_end`, `dates_july` | violations: the last days of months | 400 days of 2000 and 2001 |
| `narrow_size` | violation: `shx_seek_record` where `size_t` has 32 bits | the largest number, `SizeModulus` and `LongMax` in the relation of 715827874, 2^32 and 2^31 - 1 |
| `partial_record_header` | violation: a file that ends in a record header | |

The bounds are chosen around the code's comparisons.  `MinBufSize` is 170 so
that a point fits the first buffer of `shp_read` and a polygon does not.  Two
faults let a failed allocation, which leaves the reader inside a record, be
followed by a read error.  `ShortReads` has no byte and three bytes.  One held
record is enough for a block to be lost or freed twice.  `CountLimit` (2^32 in
the code) and `SizeModulus` (2^64) are small numbers in the same relation, and
`NarrowTiles` has them equal;
`LongMax` lies between the files and the largest offset.  No run uses symmetry,
and only the walks over data (`shapes`, `values`, and the two runs on dates),
which end at their bounds, switch deadlock checking off.  The walks of `values`
and `shapes` over different data are taken one at a time from a common first
state.

Fairness: `ReadReturns` is checked under weak fairness of the steps inside
`shp_read`, `shx_read` and `dbf_read` (`Reading`): callbacks return and the loop
goes on.  Nothing obliges a program to make a call.  A callback that seeks can send the loop back for
ever: `sequential` and `table` have none, and for `shx_read` the property says
that nothing else can keep it from returning.

What the properties say:

- `BlocksAccounted`: allocated blocks are held records and `shp_read`'s buffer.
- `FailureExplained`: a -1 of the library's own comes with a message.
- `DeliveredRecordFits`: a delivered record was read in full and is a shape.
- `BufferHoldsRecord`: the reused buffer is large enough at every callback.
- `OffsetIsPosition`: `file_offset` is where the record is.
- `ErrorIsSticky`: after a read error everything fails.
- `ReadsAsCursor`: the refinement.
- `ReadReturns`: `shp_read` ends.
- `AcceptedTiles`, `NarrowTiles`: the arrays of an accepted record tile it just
  when a `size_t` holds their sizes, where it is wider than the counts and where
  it is not.
- `AnswersAsTable`: the refinement of `RecordTable` by the index reader.
- `SeekFindsNumber`: a seek delivers the entry with the number asked for.
- `LookupAnswers`: a lookup through the index answers for the record wanted.
- `ReadsInside`, `PartsTile`: part entries and points are read from the arrays
  they are in; valid parts of a table in order are disjoint and complete.
- `InsideIsEvenOdd`: -1 on the rings, and 1 inside an odd number of them by a
  definition that counts crossings of another line, one that meets no corner.
- `FieldsFillRecord`: the fields of an accepted header tile its records.
- `ErrorIsNotTheEnd`: an error is never taken for the end of the table.
- `ShortTableIsError`: `dbf_read` tells an incomplete table from a complete one,
  where no marker ends it and callbacks do not read on.
- `AnswersAsTable` of `DbfReader`: the refinement of `RowTable`.
- `ReadsBack`, `BinaryFields`: numbers in bytes.
- `NullHasNoValue`, `NumbersAgree`: the fields' conversions against one another.
- `NumberReadsBack`, `StringReadsBack`: a field has what was written into it,
  empty strings and numbers that fill `buf` included.
- `JulianDateIsSameDay`, `WeekAndYearDay`, `AcceptsDates`: dates, short of what the
  violations show; days of the week and of the year from 1583 on.
- `TimeIsNear`: the hour is right; nothing is lost on a whole minute, which may
  come out as the 60th second of the minute before; at most a second is lost on
  another whole second, and none between seconds.

## What the violations show

1. A file that ends inside a record header is a regular end of file: the
   end-of-file indicator is tested before the number of bytes, so the message
   for this case (`shp.c:744`) is never set.  The same order is in `shx.c`.
2. Where `size_t` has 32 bits, `shx_seek_record` takes numbers from 536870900 to
   715827874 for smaller ones: the limit is below the one for records and above
   the one for offsets in the index.
3. `dbf_jd_to_tm` makes 31 January, 31 March and 31 August of any year day 0 of
   the month after (`JulianDateIsSameDay` takes it for the same day, as `mktime`
   does).
4. `dbf_yyyymmdd_to_tm` refuses 31 July: the table of months has 30 days for it
   (`AcceptsDates` leaves that day out).

Other places where the documentation says more than the code does.  No run is
about them; the properties named here are stated so that they leave room:

- `shp_read_header` and `dbf_read_header` never return 0 (`shp.h:244`,
  `dbf.h:610`): an empty file is an error.
- `file_offset` is `num_bytes`, which is not "the record's position in the file"
  (`shp.h:184`, `dbf.h:549`) once a callback has sought.  `OffsetIsPosition` is
  checked for programs that do not.
- `dbf_seek_record` does not limit the number, so that the product wraps for any
  width of `size_t`.  `RowTable` answers for the numbers whose offset does not.
- The functions that give the range of a part set `start` and `end` for an
  invalid part too, and the loop at `shp-polygon.h:66` uses them without looking
  at the result.  `ReadsInside` is about programs that do look.
- `dbf_record_strtoul` takes -1 for the largest number, where `dbf.h:441` says
  that it fails; a number field of NUL bytes is 0 with success; `dbf.h:291` says
  the opposite of what `dbf_record_is_null` returns.  `NumbersAgree` compares
  values that are not negative.
- `dbf_jd_to_tm` makes 623 of the 1416 whole minutes of a day that are not whole
  hours the minute before with 60 seconds, and loses a second of 5903 of the
  84960 whole seconds that are not whole minutes.  (So compiled for SSE2; where
  intermediate results are wider, the numbers differ.)  `TimeIsNear` allows both.
- Where `size_t` has 32 bits, the expected size of a record can wrap, and the
  check then compares with the wrapped one.  `AcceptedTiles` says exactly when.
- `shp-polygon.h:51` says that a part has at least four points; the functions
  return any number above 0.  `PartsTile` calls those parts valid.

## Proofs

TLAPS checks the theorems below for every value of the constants.  Each named
assumption is on constants, is evaluated by TLC in the runs, and says no more
than the code needs:

| Assumption | What it says |
|---|---|
| `FileStreamAssumption` | `LONG_MAX` and the bytes of a failing `fread` are natural numbers |
| `ShpLayoutAssumption` | `size_t` has at least the bits of a count |
| `WideSizeAssumption` | of `ShpReader`: `size_t` holds the sizes of the largest record that 32-bit counts describe, and of its block, as 64 bits do |
| `ShpReaderAssumption`, `ShxReaderAssumption`, `DbfReaderAssumption` | the files are lists of records, entries or rows that may be cut anywhere; the bounds of the runs are natural numbers |
| `DatasetAssumption` | as `ShxReaderAssumption`, for the index of a dataset |
| `ShpPartsAssumption` | a part entry is signed and as wide as a count |
| `DbfHeaderAssumption` | what lies behind the descriptors' block is bytes |
| `DbfFieldsAssumption` | `long` is no wider than `long long`, and `double` no more precise than `long double`; the sizes are positive |
| `DbfDatesAssumption` | a `size_t` has at least the bits of an `int` |
| `ByteOrderAssumption` | as `MCByteOrderAssumption`, for one machine |
| `MCDbfFieldsAssumption` | texts are of bytes, and `long long` holds the numbers that `NumberReadsBack` writes |
| `MCByteOrderAssumption` | a byte has an even number of values, so that half of them have the sign bit, and what is written is bytes |
| `MCDbfDatesAssumption` | the days at which counting begins are known ones, and `int` has 16 bits or more |
| `MCShpShapesAssumption` | the bounds of the lengths and counts that the walk over records reaches have 32 bits |
| `MCPointInPolygonAssumption` | coordinates are bounded by some number `Reach`, and the points of a polygon are counted in 32 bits |

Three hypotheses are stated with the theorems that need them.  `SeekOffsets = {}`
or `RecordNumbers = {}` makes a statement about programs that do not seek.
`WideSize` says that `size_t` holds the offsets of the numbers a program asks
for, and `WideLong` that `long` does; `narrow_size` shows what happens without
the first.  The instances of all passing runs fulfil those they are proved under.

### What is proved

`FileStream`: `FreadFacts`, `FreadOutcomes`, `FsetposFacts` and `FsetposOutcomes` say what
the readers rely on of a call.  All that follows uses the stream through them.

`ShpLayout`: `AcceptedArraysTile`, for every width of `size_t` from that of the
counts on.  If `size_t` holds the sizes they do not wrap (`NoWrap`) and are the
true ones (`TrueSizes`); then the arrays' places follow from one another
(`TruePositions`), and the exact size check puts the end of the last array at the
end of the record (`FittingArraysTile`).  If it does not, the arrays take more
bytes than any record has, and cannot lie side by side in it
(`TilingArraysFit`).  That 64 bits are always enough is `WideSizesFit`, on which
`DeliveredFits` rests.

`AcceptedRecordsTile` is the same for the walk of `MCShpShapes`, whose records
keep within 32 bits (`ShapeInv`).

`ShpParts`: `ReadsStay`, `PartsShare`, for every shape there is and not only
those of the walk.  An item of an array of an accepted shape lies in it (`ItemWithin`, from `ShapeArrays` and
`ShapePositions`); the checks in `part_range` give the points of a valid part
numbers of the shape (`RangeFacts`), whatever the part table holds, since an
entry that is negative becomes a `size_t` that is too large for any count.

`PointInPolygon`: `InsideIsTheEvenOddRule`, for every grid within any `Reach` and
for rings of every length, alone, behind a second ring or before one.  The second
ring is one of two squares, as in the run.

`ShpReader`: `TypeCorrect`, `NoBlockLost`, `DeliveredFits`, `FailuresExplained`,
`ReadErrorIsSticky`, `BufferIsLargeEnough`; for programs that do not seek,
`OffsetsArePositions` and `ReaderIsACursor`.

`ShxReader`: `TypeCorrect`; `SeeksFindNumbers` under `WideSize`; `IndexIsATable`
under `WideSize` and `WideLong`.

`DbfHeader` and `DbfReader`: `ChainFillsRecord`, `TypeCorrect`, `NoBlockLost`,
`FieldsAlwaysFill`, `FailuresExplained`, `ErrorIsNeverTheEnd`; for programs that
do not seek, `OffsetsArePositions` and `ShortTablesAreErrors`; `FileIsATable`
under `WideSize` and `WideLong`.

`Dataset`: `LookupsAnswer`, under a `WideSize` and a `WideLong` for the offsets
of records.

`DbfFields`, `DbfBinary`, `ByteOrder` and `DbfDates`: each property that the run
`values` checks, as `ValuesSpec => []P`.  `NullsHaveNoValue`, `NumbersAreTheSame`,
`NumbersReadBack` and `StringsReadBack` are about records of any length, of any
texts of bytes, and any sizes of `buf`, `long`, `long long`, `double` and `long
double`; `BytesReadBack` and `FieldsOfBytesHaveTheirNumbers` about bytes with any
even number of values, on machines of both orders; `DaysAreTheSame`,
`WeekAndYearDays`, `DatesAreAccepted` and `TimesAreNear` about every day that is
reached by counting from a known one, however far.

### The arguments

*Bookkeeping.*  One chain of lemmas runs along the stages of a call, from
`file_fread` to the whole read.  `Progress(c, b)` says what each stage keeps of
the call it goes on with: the position moves by the bytes counted, the buffer
only grows, faults are only used up, an error stays, blocks in hand are
accounted for.  `Sound(b)` says what a result of 1 has established: the block holds the
record, all of it was in the file, and the layout was accepted; and a result of
-1, that there is a message.  `ReadRecordFacts` puts the stages together,
`StepReads` says that every step of the system either reads in this way or
leaves the stream alone, and the invariants follow from it, each inductive
together with `TypeOK`.  `NoBlockLost` needs `Sound` because a block is handed
over exactly when the result is 1, and then there is one.

*Offsets.*  `OffsetsArePositions` rests on `CountIsPosition` (`num_bytes` is the
position) and, in `DbfReader`, on `PositionCounted` and `HeaderInUse`: inside
`dbf_read` the sizes in the handle are those of the file and a row has at least
one byte.  `HeaderInUse` is what makes the offset and the number of a row
determine one another, and with it `ShortTablesAreErrors` is arithmetic.

*Numbers.*  `SeeksFindNumbers`: a result of 1 means that eight bytes were read
where the seek went and are in the file (`ReadRecordFacts`, `SeekFacts`); the
file is not longer than its entries, so these bytes are an entry, and places of
entries differ, so it is entry n (`EntryAtNumber`).

*Lookups.*  `LookupsAnswer` has an invariant that relates the two handles to the
two files: the index has the places of the records (`IsIndexOf`), as long as its
stream has not failed it stands at an entry or behind the end (`OnEntry`), and
an answer of 1 that came from a place of the file is the offset of the record
wanted.  Then `shp_seek_record` goes to a place where a record begins, and
`RecordOutcomes` says what it finds there; it needs nothing of what the shapes'
stream did before, since `fseek` sets the position and clears the end-of-file
indicator.  That two divisions by two and a product give the offset back rests on
lengths being in 16-bit words (`StartsAreEven`).  The prover takes no facts from
a module that is instantiated, so the few facts about the index's reader are
proved again under its name there.

*Fields.*  Induction over the fields of a header is not open to the provers as
such.  `ChainFillsRecord` takes the least number for which the statement fails
(`LeastNumber`) and derives it from the number before.

*Refinements.*  A second chain says what a stage can come to as alternatives,
not as bounds: the call ends in one of the kinds of the abstract specification,
or a call of the operating system failed in it (`...Outcomes` in the first two
readers, `Outcome` in the third).  Lemmas on the mapping (`MappingFacts`,
`RowStartFacts`, `RowsFacts`) say which position is which item; then each
outcome is one action of the abstract specification (`ItemStep`, `EntryStep`,
`RowStep`, `EndStep`, `FailStep`).  A step is only known to map if the state is
one that can be reached, which takes three invariants more than the type:

- the end-of-file indicator is no lie: it is set only at or behind the end
  (`EndIsEnd`), so that a 0 that a call returns because of it is the end;
- while `shp_read` or `shx_read` runs the position is not 0: the header was read;
- in `DbfReader`, `SizesKnown` (the sizes in the handle, once there are any, are
  the file's, and the first row is in it or at its end) and, as long as the
  stream has not failed, that it stands where a row or the end is: reading never
  stops inside a row, and `fseek` goes to rows only.  After an error the
  abstract specification promises nothing more.

*Values.*  `ValuesInvariant` has the invariant behind all of them, `ValuesInv`: a
record is of bytes (`RecordInv`), a number is that of its bytes and below the
power of their number (`StoreInv`), and `DaysInv`.  TLC has checked it on the
instance of `values`.

*Days.*  The code finds a date by dividing, the calendar by counting, and
`DaysInv` joins them: the number of a day is `DayNumber` of its date, a closed
form with years that begin in March, so that the leap day is the last of a year.
One step of the calendar adds 1 to `DayNumber`: inside a month, from month to
month, from year to year, and over the ten days that were left out in 1582.  Then
the divisions of `dbf_jd_to_tm` undo the closed form one after another, the
century first.  They divide the days of a year by 30.6; `MonthStart` has the
multiples of 30.6, rounded down, and the last days of months for which the
quotient is already that of the next month come out as its day 0.

*Texts.*  What a recursive function computes is argued by the least number for
which it would be something else, as for the fields of a header: the number that
a row of digits stands for, where a loop that cuts spaces ends (`LoopsEnd`), where
`strtol` stops.  `StringReadsBack` says nothing of the loop: that what it leaves
is the text that was padded rests on where the last byte that is no space is
(`LeftJustified`, `StringCase`).  Six conversions are one text read with six
bounds, so `NumbersAgree` is about bounds; saturating twice is saturating once
if the second bound is the narrower, and a number that a floating-point type
holds is not rounded (`WholeDouble`).

*Times.*  An error of less than half a millisecond moves a truncation only at a
whole number (`TruncatedFacts`).  At a whole hour `h` is exact, so the hour is
right; a minute is lost only on whole minutes, and then the seconds, truncated
from what that leaves, are 60 (`TimeIsNearFor`).

*Edges.*  `InsideIsTheEvenOddRule` goes edge by edge.  The code gives an end that
is level with the point to the lower side; the definition it is compared with
draws a line that is so flat that it meets no corner.  `CrossesIsCut` has the two
agree for every edge, `TouchesIsOnSegment` has `return -1` mean that the point is
on the edge; both are about the signs of products.  `StartsAreEdges` has the part
table name each edge of each ring once, so that the numbers of edges are equal
(`EdgesAreSeen`).  What is left is the early return: outside the bounding box the
definition must say 0 as well.  Above, below and to the right of it no edge is
cut; to the left an edge is cut when one of its ends is above the point, and
along a ring, which ends where it begins, that changes an even number of times
(`EvenChanges`, `EvenOnAll`).

Three things were wrong for larger values of the constants than the runs have,
and were found by proving.  `NumbersAgree` compared
`dbf_record_strtod` with a number that `strtoll` had saturated to the lower end of
the range.  A date beyond the year 9999 was given the text of another year; now
only years of four digits have a text (`HasText`).  The assumptions on constants
that the walks over data rely on were not stated.

### What is only model-checked

`ReadReturns`, in the three readers: liveness under fairness is out of the
prover's reach.  TLC checks it on the instances of `sequential`, `index` and
`table`.  All other properties of the passing runs are theorems.

## Not modelled

Coordinates and bounding boxes other than in `PointInPolygon`, where they are
integers; names of fields, the date and the reserved bytes of a header, since
the readers do not act on them; `errno`, whose values no code in the library
reads; the text of messages, which are labels; threads, since a handle has no
locks and is used by one at a time; a callback that calls `shp_read` or
`dbf_read` on its own handle, and reading records before the header, which no
documented use does; `assert`, which states the callers' duties.

Rounding of doubles other than in the time of day and of numbers in text: in `PointInPolygon` it decides
on points at a distance from an edge that rounding can bridge, which is a matter
of numerical analysis.  Of the C library's conversions: exponents, hexadecimal
numbers, infinities, white space other than spaces and bases other than 10.  `dbf_record_strdup` without memory.
Julian days before 0.

The build files, the packaging, the examples and the tests have no behaviour of
the library; the tests are read for what they say of it.

## What could come next

Every component of the library has a module, and every safety property that a
run checks has its theorem.  What is left is beyond these models:

1. Rounding.  Coordinates are integers and the quotients of `dbf_jd_to_tm` have
   their outcomes as a choice; a model of doubles would say which points near
   an edge are taken for points inside.
2. Rings that are many.  `InsideIsEvenOdd` has two at most, one of which is
   fixed; the proof goes edge by edge, but adds the rings up one by one.
3. That `shp_read`, `shx_read` and `dbf_read` return, for every file: each round
   moves the position forward, which `Progress` already says, so the argument is
   at hand for a prover that knows `WF_`.
