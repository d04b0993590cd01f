------------------------------- MODULE FileData -------------------------------
(***************************************************************************)
(* What is in files: reading, writing and positions of open files          *)
(* (protocols/simple_file_system/posix-fd.c), and efi_file_read_all, with  *)
(* which LoadImage reads a file it has just opened.  Which objects there   *)
(* are and what keeps them is the business of Files: here two objects stay *)
(* open, on one file or on two.                                            *)
(***************************************************************************)
EXTENDS Naturals, Sequences, SequencesExt

CONSTANTS
  Openings,   \* functions from file objects to the files they are open on
  Marks,      \* contents of a cell; 0 is what a gap is filled with
  MaxSize     \* bound on the size of a file, and of what is read or written at once

VARIABLES
  fileOf,    \* object |-> file
  mayWrite,  \* fs->writable
  cells,     \* file |-> its contents
  position,  \* object |-> the offset of its descriptor
  reply,     \* status and size of the last call
  told,      \* history: object |-> where the program must think it is
  reader     \* efi_file_read_all on its way, or NoReader

fileDataVars == <<fileOf, mayWrite, cells, position, reply, told, reader>>

NoReader == <<>>
Handles == DOMAIN fileOf
SizeNow(h) == Len(cells[fileOf[h]])
Least(x, y) == IF x < y THEN x ELSE y
NoWrites == UNCHANGED <<fileOf, mayWrite, cells>>

FileDataInit ==
  /\ fileOf \in Openings /\ mayWrite \in BOOLEAN
  /\ cells = [f \in {fileOf[h] : h \in DOMAIN fileOf} |-> <<1>>]
  /\ position = [h \in DOMAIN fileOf |-> 0]
  /\ told = [h \in DOMAIN fileOf |-> 0]
  /\ reply = [status |-> "success", size |-> 0]
  /\ reader = NoReader

Reply(status, size) == reply' = [status |-> status, size |-> size]

\* The host gives what there is from the offset on, or less, but something if it can.
Given(h, n) ==
  LET there == IF position[h] < SizeNow(h) THEN Least(n, SizeNow(h) - position[h]) ELSE 0
  IN IF there = 0 THEN {0} ELSE 1..there

\* Faulty variant of Read: the size is left as it was asked.
ReadClaiming(h, n) ==
  /\ reader = NoReader
  /\ \E k \in Given(h, n) :
       /\ position' = [position EXCEPT ![h] = @ + k]
       /\ told' = [told EXCEPT ![h] = @ + n]
       /\ Reply("success", n)
  /\ NoWrites /\ UNCHANGED reader

Read(h, n) ==
  /\ reader = NoReader
  /\ \E k \in Given(h, n) :
       /\ position' = [position EXCEPT ![h] = @ + k]
       /\ told' = [told EXCEPT ![h] = @ + k]
       /\ Reply("success", k)
  /\ NoWrites /\ UNCHANGED reader

\* The host refuses a read or the flush of what was written.
Fails(h) ==
  /\ reader = NoReader
  /\ Reply("device_error", 0)
  /\ NoWrites /\ UNCHANGED <<position, told, reader>>

\* The cells from a place on are replaced, a gap before them is filled.
Written(contents, at, new) ==
  [i \in 1..(IF at + Len(new) > Len(contents) THEN at + Len(new) ELSE Len(contents)) |->
     IF i > at /\ i <= at + Len(new) THEN new[i - at] ELSE IF i <= Len(contents) THEN contents[i] ELSE 0]

\* The host writes all, a part, or fails; what was written is told together with
\* the status of a function that is not there.
Write(h, new) ==
  /\ reader = NoReader
  /\ position[h] + Len(new) <= MaxSize
  /\ IF ~mayWrite THEN Reply("write_protected", 0) /\ NoWrites /\ UNCHANGED <<position, told>>
     ELSE \/ \E k \in 1..Len(new) :
               /\ cells' = [cells EXCEPT ![fileOf[h]] = Written(@, position[h], SubSeq(new, 1, k))]
               /\ position' = [position EXCEPT ![h] = @ + k]
               /\ told' = [told EXCEPT ![h] = @ + k]
               /\ Reply("unsupported", k)
               /\ UNCHANGED <<fileOf, mayWrite>>
          \/ Reply("volume_full", 0) /\ NoWrites /\ UNCHANGED <<position, told>>
  /\ UNCHANGED reader

AllOnes == MaxSize + 1  \* stands for the largest offset

\* The end of the file, which a program names by all ones, is no offset for the host.
SetPosition(h, p) ==
  /\ reader = NoReader
  /\ IF p = AllOnes THEN Reply("invalid_parameter", 0) /\ UNCHANGED <<position, told>>
     ELSE /\ position' = [position EXCEPT ![h] = p]
          /\ told' = [told EXCEPT ![h] = p]
          /\ Reply("success", 0)
  /\ NoWrites /\ UNCHANGED reader

GetPosition(h) ==
  /\ reader = NoReader
  /\ Reply("success", position[h])
  /\ NoWrites /\ UNCHANGED <<position, told, reader>>

Flush(h) ==
  /\ reader = NoReader
  /\ Reply(IF mayWrite THEN "success" ELSE "write_protected", 0)
  /\ NoWrites /\ UNCHANGED <<position, told, reader>>

\* SetInfo: the volume is asked before the function says that it is not there.
SetInfo(h) ==
  /\ reader = NoReader
  /\ Reply(IF mayWrite THEN "unsupported" ELSE "write_protected", 0)
  /\ NoWrites /\ UNCHANGED <<position, told, reader>>

\* The size is asked for; limit is the caller's buffer, 0 if there is none.  From
\* behind the start of the file the loop would never end: its callers read a file
\* they have just opened.
ReadAllBegins(h, limit) ==
  /\ reader = NoReader /\ position[h] = 0
  /\ IF SizeNow(h) = 0 THEN Reply("end_of_file", 0) /\ UNCHANGED reader
     ELSE /\ reader' = [by |-> h, len |-> IF limit > 0 THEN Least(limit, SizeNow(h)) ELSE SizeNow(h),
                        buf |-> <<>>]
          /\ UNCHANGED reply
  /\ NoWrites /\ UNCHANGED <<position, told>>

\* Faulty variant of ReadAllGoesOn: what is read goes to the start of the buffer.
ReadAllRestarts ==
  /\ reader # NoReader
  /\ LET h == reader.by
     IN \E k \in Given(h, reader.len - Len(reader.buf)) :
          /\ reader' = [reader EXCEPT !.buf = SubSeq(cells[fileOf[h]], position[h] + 1, position[h] + k) \o @]
          /\ position' = [position EXCEPT ![h] = @ + k]
          /\ told' = [told EXCEPT ![h] = @ + k]
  /\ NoWrites /\ UNCHANGED reply

\* A round of the loop
ReadAllGoesOn ==
  /\ reader # NoReader /\ Len(reader.buf) < reader.len
  /\ LET h == reader.by
     IN \E k \in Given(h, reader.len - Len(reader.buf)) :
          /\ reader' = [reader EXCEPT !.buf = @ \o SubSeq(cells[fileOf[h]], position[h] + 1, position[h] + k)]
          /\ position' = [position EXCEPT ![h] = @ + k]
          /\ told' = [told EXCEPT ![h] = @ + k]
  /\ NoWrites /\ UNCHANGED reply

\* A read that fails ends the loop; the caller gets nothing.
ReadAllFails ==
  /\ reader # NoReader /\ Len(reader.buf) < reader.len
  /\ Reply("device_error", 0)
  /\ reader' = NoReader
  /\ NoWrites /\ UNCHANGED <<position, told>>

ReadAllEnds ==
  /\ reader # NoReader /\ Len(reader.buf) = reader.len
  /\ Reply("success", reader.len)
  /\ reader' = NoReader
  /\ NoWrites /\ UNCHANGED <<position, told>>

\* What a program writes at once
Chunks == UNION {[1..n -> Marks] : n \in 1..MaxSize}

FileDataNext ==
  \/ \E h \in Handles :
       \/ \E n \in 0..MaxSize : Read(h, n)
       \/ \E new \in Chunks : Write(h, new)
       \/ \E p \in 0..AllOnes : SetPosition(h, p)
       \/ Fails(h) \/ GetPosition(h) \/ Flush(h) \/ SetInfo(h)
       \/ \E limit \in 0..MaxSize : ReadAllBegins(h, limit)
  \/ ReadAllGoesOn \/ ReadAllFails \/ ReadAllEnds

FileDataSpec == FileDataInit /\ [][FileDataNext]_fileDataVars

-----------------------------------------------------------------------------

\* A program that adds up the sizes it is told knows its position, through short
\* reads, writes that do not fit and other objects on the same file; a file read as
\* a whole, however short the reads, is its first cells in their order.
DataSound ==
  /\ position = told
  /\ reader # NoReader =>
       /\ IsPrefix(reader.buf, cells[fileOf[reader.by]])
       /\ Len(reader.buf) <= reader.len /\ reader.len <= SizeNow(reader.by)
       /\ position[reader.by] = Len(reader.buf)
  /\ ~mayWrite => \A f \in DOMAIN cells : cells[f] = <<1>>
=============================================================================
