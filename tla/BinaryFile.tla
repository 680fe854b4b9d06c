------------------------------ MODULE BinaryFile ------------------------------
(* BinaryFile: numbers and strings written to a file one after the other and *)
(* read back in the same order, through the buffer of a FILE that a crash    *)
(* loses and a full disk cuts short.  Serializer::WriteToFile and            *)
(* ReadFromFile are a number and a string without terminator.                *)
(*                                                                           *)
(* A byte is <<i, k>>, the k-th of the i-th item; what an item says does not *)
(* matter, only whether it comes back whole and in its place.  The reader    *)
(* asks for the kinds in the order the writer used.  Bounds: MaxItems.       *)
EXTENDS Naturals, Sequences

CONSTANTS
  Kinds,       \* the kinds of items: numbers of each size, and strings
  SizeOf,      \* SizeOf[k]: bytes of an item of kind k, the length of a string included
  MaxItems

ASSUME FileAssumption ==
  /\ SizeOf \in [Kinds -> Nat \ {0}] /\ MaxItems \in Nat

VARIABLES
  file,      \* the stream: whether it is open, and how ("w+b", "a+b", "rb")
  named,     \* filePath_ is not empty
  disk,      \* the bytes in the file
  buffer,    \* the bytes written but not yet on disk
  items,     \* the kinds of the items written since the file was created
  readPos, next,  \* where the reader is, and the item it asks for
  outcome,   \* of the last read: "none", "item", "threw" or "other", a wrong item
  full,      \* the disk is full
  written,   \* history: the bytes the items should have put into the file
  spliced    \* history: written although bytes of the items before were missing

fileVars == <<file, named, disk, buffer, items, readPos, next, outcome, full, written, spliced>>

FileTypeOK ==
  /\ file \in {"closed", "w+b", "a+b", "rb"} /\ named \in BOOLEAN
  /\ disk \in Seq((1 .. MaxItems) \X Nat) /\ buffer \in Seq((1 .. MaxItems) \X Nat)
  /\ written \in Seq((1 .. MaxItems) \X Nat) /\ items \in Seq(Kinds) /\ Len(items) <= MaxItems
  /\ readPos \in 0 .. Len(disk) /\ next \in 1 .. MaxItems + 1
  /\ outcome \in {"none", "item", "threw", "other"}
  /\ full \in BOOLEAN /\ spliced \in BOOLEAN

FileInit ==
  /\ file = "closed" /\ named = FALSE /\ disk = <<>> /\ buffer = <<>> /\ items = <<>>
  /\ readPos = 0 /\ next = 1 /\ outcome = "none"
  /\ full = FALSE /\ written = <<>> /\ spliced = FALSE

ItemBytes(i, k) == [j \in 1 .. SizeOf[k] |-> <<i, j>>]

\* What fflush and fclose may leave: the whole buffer is on disk, or the disk is full and a part
\* of it is.  Nobody looks at what they return.
Flushed ==
  IF full THEN {[disk |-> disk, full |-> TRUE]}
  ELSE {[disk |-> disk \o buffer, full |-> FALSE]}
         \cup {[disk |-> disk \o SubSeq(buffer, 1, n), full |-> TRUE] : n \in 0 .. Len(buffer)}

FlushBuffer == buffer' = <<>> /\ \E r \in Flushed : disk' = r.disk /\ full' = r.full

-----------------------------------------------------------------------------
\* Close, and an Open that fails after it, as it always does for Open(file.getFilePath(), mode):
\* Close empties the path that the argument refers to.
CloseFile ==
  /\ file' = "closed" /\ named' = FALSE /\ FlushBuffer
  /\ UNCHANGED <<items, readPos, next, outcome, written, spliced>>

\* Open(path, mode) closes what was open; "w+b" empties the file.  There may be space again.
OpenFile(mode) ==
  /\ file' = mode /\ named' = TRUE /\ buffer' = <<>>
  /\ IF mode = "w+b" THEN disk' = <<>> /\ items' = <<>> /\ written' = <<>> /\ spliced' = FALSE
     ELSE (\E r \in Flushed : disk' = r.disk) /\ UNCHANGED <<items, written, spliced>>
  /\ readPos' = 0 /\ next' = 1 /\ outcome' = "none"
  /\ full' = FALSE

\* Write...: the item goes to the buffer.
WriteItem(k) ==
  /\ file \in {"w+b", "a+b"} /\ Len(items) < MaxItems
  /\ buffer' = buffer \o ItemBytes(Len(items) + 1, k)
  /\ items' = Append(items, k) /\ written' = written \o ItemBytes(Len(items) + 1, k)
  /\ spliced' = (spliced \/ disk \o buffer # written)
  /\ UNCHANGED <<file, named, disk, readPos, next, outcome, full>>

FlushFile ==
  /\ file \in {"w+b", "a+b"} /\ buffer # <<>>
  /\ FlushBuffer
  /\ UNCHANGED <<file, named, items, readPos, next, outcome, written, spliced>>

\* Mutant of Taken: a short read is not an error.
TakenShort(n) == [ok |-> TRUE, pos |-> IF readPos + n <= Len(disk) THEN readPos + n ELSE Len(disk)]

\* fread of n bytes, which fails when there are fewer and takes those.
Taken(n) ==
  IF readPos + n <= Len(disk) THEN [ok |-> TRUE, pos |-> readPos + n] ELSE [ok |-> FALSE, pos |-> Len(disk)]

\* Read...: the item, or an exception.  A wrong item ends the reading.
ReadItem ==
  LET k == items[next]
      t == Taken(SizeOf[k])
  IN
  /\ file = "rb" /\ next <= Len(items) /\ outcome # "other"
  /\ readPos' = t.pos
  /\ next' = IF t.ok THEN next + 1 ELSE next
  /\ outcome' = IF ~t.ok THEN "threw"
                ELSE IF SubSeq(disk, readPos + 1, t.pos) = ItemBytes(next, k) THEN "item" ELSE "other"
  /\ UNCHANGED <<file, named, disk, buffer, items, full, written, spliced>>

\* Seek to the start of what is read.
Rewind ==
  /\ file = "rb"
  /\ readPos' = 0 /\ next' = 1 /\ outcome' = "none"
  /\ UNCHANGED <<file, named, disk, buffer, items, full, written, spliced>>

\* The process ends without closing: some of the buffer may have been written.
FileCrash ==
  /\ file # "closed"
  /\ file' = "closed" /\ named' = FALSE /\ buffer' = <<>>
  /\ \E n \in 0 .. Len(buffer) : disk' = IF full THEN disk ELSE disk \o SubSeq(buffer, 1, n)
  /\ UNCHANGED <<items, readPos, next, outcome, full, written, spliced>>

FileNext ==
  \/ CloseFile \/ \E m \in {"w+b", "a+b", "rb"} : OpenFile(m)
  \/ \E k \in Kinds : WriteItem(k)
  \/ FlushFile \/ ReadItem \/ Rewind \/ FileCrash

FileSpec == FileInit /\ [][FileNext]_fileVars
-----------------------------------------------------------------------------
\* A read returns the item that was written in its place or throws: a crash or a full disk may cost
\* the end of a file, and nobody is told by a write, but a reader never takes one item for another.
\* Only a file that was continued where bytes were missing can make it.
ReadsBack == outcome = "other" => spliced
=============================================================================
