----------------------------- MODULE StoredFile -----------------------------
(***************************************************************************)
(* What the file store promises of one file (pkg/filestore/blockstore.go): *)
(* its readers see the last write, and what the database holds is a whole  *)
(* earlier state of the file, never a mixture of two.  Caching, parts and  *)
(* pins are left out; BlockStore shows that they implement this.           *)
(***************************************************************************)
EXTENDS Integers, Sequences

CONSTANTS
  MaxSize,    \* FileOpts.MaxSize of a circular file
  MaxChunk,   \* the longest data one call writes
  MaxBytes,   \* bound on the bytes ever written
  Kinds       \* the kinds of file made: a subset of {"plain", "circular", "ijson"}

VARIABLES
  file,    \* what a reader of the file sees now
  stored,  \* what a restarted program would see
  written  \* bytes handed to the store so far: byte n is the n-th written

vars == <<file, stored, written>>

NoFile == [kind |-> "none"]

\* A circular file keeps its last MaxSize bytes; its size counts them all.
Contents(kind, size, data) ==
  [kind |-> kind, size |-> size,
   data |-> IF kind = "circular" /\ Len(data) > MaxSize
              THEN SubSeq(data, Len(data) - MaxSize + 1, Len(data)) ELSE data]

NewBytes(n) == [i \in 1 .. n |-> written + i]

\* Position of the first byte still kept (DataStartIdx).
DataStartIdx(f) == f.size - Len(f.data)

\* Data before the first byte kept is dropped, the rest written.
Overwritten(f, offset, chunk) ==
  LET end   == offset + Len(chunk)
      start == DataStartIdx(f)
      late  == IF offset < start THEN start - offset ELSE 0
      at    == offset + late - start
      kept  == SubSeq(chunk, late + 1, Len(chunk))
  IN  Contents(f.kind, IF end > f.size THEN end ELSE f.size,
               SubSeq(f.data, 1, at) \o kept
                 \o SubSeq(f.data, at + Len(kept) + 1, Len(f.data)))

\* Compaction of an ijson file is represented by its last two bytes: some
\* shorter content determined by the whole of the old one.
Compacted(f) ==
  IF Len(f.data) < 2 THEN f
  ELSE Contents(f.kind, 2, <<f.data[Len(f.data)], Head(f.data)>>)

Init ==
  /\ file = NoFile
  /\ stored = NoFile
  /\ written = 0

\* Making and deleting a file reach the database before they return.
Make ==
  /\ file = NoFile
  /\ \E kind \in Kinds : file' = Contents(kind, 0, << >>)
  /\ stored' = file'
  /\ UNCHANGED written

Delete ==
  /\ file' = NoFile
  /\ stored' = NoFile
  /\ UNCHANGED written

Write ==
  /\ file # NoFile
  /\ \E n \in 1 .. MaxChunk, offset \in 0 .. file.size :
       /\ written + n <= MaxBytes
       /\ written' = written + n
       /\ \/ file' = Overwritten(file, offset, NewBytes(n))
          \/ /\ file.kind = "ijson"
             /\ offset = file.size
             /\ file' = Compacted(Overwritten(file, offset, NewBytes(n)))
  /\ UNCHANGED stored

\* A replaced file is in the database when the call succeeds.
Replace ==
  /\ file # NoFile
  /\ \E n \in 1 .. MaxChunk :
       /\ written + n <= MaxBytes
       /\ written' = written + n
       /\ file' \in {file, Contents(file.kind, n, NewBytes(n)), stored}
  /\ stored' \in {stored, file'}

Compact ==
  /\ file.kind = "ijson"
  /\ file' = Compacted(file)
  /\ UNCHANGED <<stored, written>>

Store ==
  /\ stored' = file
  /\ UNCHANGED <<file, written>>

\* Unsaved writes are lost: the program stopped, or gave up saving them.
Revert ==
  /\ file' = stored
  /\ UNCHANGED <<stored, written>>

Next ==
  \/ Make \/ Delete \/ Write \/ Replace \/ Compact \/ Store \/ Revert

Spec == Init /\ [][Next]_vars

=============================================================================
