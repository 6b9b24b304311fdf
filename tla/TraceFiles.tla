----------------------------- MODULE TraceFiles -----------------------------
(***************************************************************************)
(* What tp_manager.rs and server/mod.rs read of a trace file to know it    *)
(* again: its metadata, and samples of its content read one after the      *)
(* other from an open handle while others may write the file.              *)
(*                                                                         *)
(* A file is a sequence of cells with the ticks of its times; a sample is  *)
(* Sample cells (64 KiB in the code).  dev and ino are left out: what      *)
(* holds without them holds with them.                                     *)
(***************************************************************************)
EXTENDS Integers, Sequences

CONSTANT Sample

ASSUME SampleAssumption == Sample \in Nat \ {0}

Cells == {0, 1}
Systems == {"unix", "other"}
NoTime == -1

\* trace_file_metadata_snapshot: only on Unix is the change time part of it.
Metadata(file, system) ==
  [size |-> Len(file.cells),
   modified |-> file.modified,
   platform |-> IF system = "unix" THEN file.changed ELSE NoTime]

\* A reading is what one pass over the file has so far.  Its handle is of the
\* file that had the name when it was opened, and keeps its cells (old) when
\* another file takes the name.
Begun(meta) == [meta |-> meta, handle |-> "none", old |-> <<>>, got |-> <<>>, part |-> 0]
HeldCells(reading, file) == IF reading.handle = "replaced" THEN reading.old ELSE file.cells
Replaced(reading, old) ==
  IF reading.handle = "live" THEN [reading EXCEPT !.handle = "replaced", !.old = old] ELSE reading

\* trace_file_content_sha256 reads a file to its end when all of it is asked for,
\* or when the samples would cover a file of that size.
ReadsAll(size, full) == full \/ size <= 3 * Sample

MiddleOffset(size) == IF size \div 2 < Sample \div 2 THEN 0 ELSE size \div 2 - Sample \div 2

\* The cells after an offset, fewer than asked for at the end of the file.
After(cells, offset, n) ==
  SubSeq(cells, offset + 1, IF offset + n < Len(cells) THEN offset + n ELSE Len(cells))

\* Where the next read of a reading is: its part-th; the tail is sought from the
\* end the file has by then.
OffsetOf(reading, cells, full) ==
  CASE ReadsAll(reading.meta.size, full) -> Len(reading.got)
    [] ~ReadsAll(reading.meta.size, full) /\ reading.part = 0 -> 0
    [] ~ReadsAll(reading.meta.size, full) /\ reading.part = 1 -> MiddleOffset(reading.meta.size)
    [] OTHER -> Len(cells) - Sample

Block(reading, file, full) ==
  LET cells == HeldCells(reading, file)
      offset == OffsetOf(reading, cells, full)
  IN  IF offset < 0 THEN <<>> ELSE After(cells, offset, Sample)

\* read_exact and the seek fail on a file that has become too short.
TooShort(reading, file, full) ==
  /\ ~ReadsAll(reading.meta.size, full)
  /\ Len(Block(reading, file, full)) < Sample

\* The loop of a whole read ends with an empty read, the samples are three.
Complete(reading, file, full) ==
  IF ReadsAll(reading.meta.size, full)
  THEN Block(reading, file, full) = <<>>
  ELSE reading.part = 3

ReadOn(reading, file, full) ==
  [reading EXCEPT
     !.handle = IF reading.handle = "none" THEN "live" ELSE reading.handle,
     !.got = reading.got \o Block(reading, file, full),
     !.part = IF ReadsAll(reading.meta.size, full) THEN 0 ELSE reading.part + 1]

\* The digest stands for what was hashed.
Identity(reading) == [meta |-> reading.meta, sample |-> reading.got]

\* What an undisturbed reading covers.
Covered(cells, full) ==
  IF ReadsAll(Len(cells), full) THEN cells
  ELSE SubSeq(cells, 1, Sample)
       \o After(cells, MiddleOffset(Len(cells)), Sample)
       \o SubSeq(cells, Len(cells) - Sample + 1, Len(cells))
=============================================================================
