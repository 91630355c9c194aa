----------------------------- MODULE BlockStore -----------------------------
(***************************************************************************)
(* The file store, pkg/filestore: one file, its row and its parts in the   *)
(* database, and the cache of unsaved writes that the callers share.       *)
(*                                                                         *)
(* A call pins the cache entry of the file, takes the entry's lock, does   *)
(* its work, and unpins: the last one out removes an entry that holds      *)
(* nothing.  Pinning, the work under the lock and unpinning are one step   *)
(* each.  A part is a function from offsets to bytes, 0 where nothing was  *)
(* written; byte n is the n-th byte handed to the store.                   *)
(***************************************************************************)
EXTENDS Integers, FiniteSetsExt, Sequences

CONSTANTS
  Clients,          \* goroutines that call the store
  Flusher,          \* the goroutine of runFlusher
  PartSize,         \* partDataSize
  MaxParts,         \* MaxSize / partDataSize of a circular file
  FlushErrorLimit,  \* failed flushes after which an entry is given up (3)
  MaxChunk,         \* the longest data one call writes
  MaxBytes,         \* bound on the bytes ever written
  MaxFaults,        \* bound on database errors and crashes
  Kinds,            \* the kinds of file made: plain, circular, ijson
  BehindWindow      \* TRUE: WriteAt is also called with offsets that a
                    \* circular file has already dropped

ASSUME StoreAssumption ==
  /\ PartSize \in Nat \ {0}
  /\ MaxParts \in Nat \ {0}
  /\ {FlushErrorLimit, MaxChunk, MaxBytes, MaxFaults} \subseteq Nat
  /\ Kinds \subseteq {"plain", "circular", "ijson"}
  /\ BehindWindow \in BOOLEAN
  /\ IsFiniteSet(Clients)
  /\ Flusher \notin Clients

VARIABLES
  row,      \* the row of db_wave_file, NoFile without one
  dbParts,  \* the rows of db_file_data: part index to bytes
  entries,  \* the CacheEntry objects
  current,  \* s.Cache: the entry of the file, 0 when there is none
  call,     \* what each goroutine is doing, and on which entry
  written,
  faults

vars == <<row, dbParts, entries, current, call, written, faults>>

NoFile  == [kind |-> "none"]
Callers == Clients \union {Flusher}
MaxSize == PartSize * MaxParts
Ids     == 1 .. Cardinality(Callers) + 1
NoParts == << >>
Blank   == [pins |-> 0, file |-> NoFile, parts |-> NoParts, errs |-> 0]
Outside == [at |-> "outside", id |-> 0]

TypeOK ==
  /\ current \in Ids \union {0}
  /\ call \in [Callers -> [at : {"outside", "pinned", "done"}, id : Ids \union {0}]]
  /\ DOMAIN entries = Ids
  /\ written \in 0 .. MaxBytes
  /\ faults \in 0 .. MaxFaults

Init ==
  /\ row = NoFile
  /\ dbParts = NoParts
  /\ entries = [i \in Ids |-> Blank]
  /\ current = 0
  /\ call = [c \in Callers |-> Outside]
  /\ written = 0
  /\ faults = 0

NewBytes(n) == [i \in 1 .. n |-> written + i]

----------------------------------------------------------------------------
(* Parts                                                                   *)

partIdxAtOffset(kind, offset) ==
  LET block == offset \div PartSize
  IN  IF kind = "circular" THEN block % MaxParts ELSE block

\* computePartMap, then the parts it does not cover whole: a later block of
\* the same part replaces what an earlier one counted.
incompleteParts(kind, offset, n) ==
  LET end    == offset + n
      blocks == {b \in offset \div PartSize .. end \div PartSize : b * PartSize < end}
      count(b) == (IF end < (b + 1) * PartSize THEN end ELSE (b + 1) * PartSize)
                  - (IF offset > b * PartSize THEN offset ELSE b * PartSize)
      idx(b) == partIdxAtOffset(kind, b * PartSize)
  IN  {idx(b) : b \in {b \in blocks :
         /\ \A later \in blocks : idx(later) = idx(b) => later <= b
         /\ count(b) # PartSize}}

\* The parts of new, and those of old it does not have.
Over(new, old) ==
  [p \in DOMAIN new \union DOMAIN old |-> IF p \in DOMAIN new THEN new[p] ELSE old[p]]

\* A write never reads the rest of a part it covers only in part.
Loaded_Nothing(parts, wanted) == parts

\* loadDataPartsIntoCache: a part already in the cache is not read again.
Loaded(parts, wanted) ==
  Over(parts, [p \in wanted \intersect DOMAIN dbParts |-> dbParts[p]])

\* The loop of writeAt over the parts the data touches.
Put(parts, kind, offset, data) ==
  LET part(i)  == partIdxAtOffset(kind, offset + i - 1)
      place(i) == (offset + i - 1) % PartSize
      touched  == {part(i) : i \in DOMAIN data}
      old(p, b) == IF p \in DOMAIN parts THEN parts[p][b] ELSE 0
      here(p, b) == {i \in DOMAIN data : part(i) = p /\ place(i) = b}
      patched(p) == [b \in 0 .. PartSize - 1 |->
                     IF here(p, b) = {} THEN old(p, b) ELSE data[Max(here(p, b))]]
  IN  Over([p \in touched |-> patched(p)], parts)

\* writeAt on a cache entry: a circular file drops the front of data that
\* falls before its window or is longer than it.
writeAt(entry, offset, data, replace) ==
  LET kind  == entry.file.kind
      size  == IF replace THEN 0 ELSE entry.file.size
      end   == offset + Len(data)
      skip  == IF kind = "circular"
                 THEN Max({0, size - MaxSize - offset, Len(data) - MaxSize}) ELSE 0
      parts == IF replace THEN NoParts ELSE entry.parts
  IN  IF kind = "circular" /\ end <= size - MaxSize
        THEN entry
        ELSE [entry EXCEPT
               !.parts = Put(parts, kind, offset + skip, SubSeq(data, skip + 1, Len(data))),
               !.file.size = IF end > size \/ replace THEN end ELSE size]

\* readAt of the whole file: the first byte still kept up to the end, each
\* part from the cache, else from the database, else zeros.
readAll(f, cached) ==
  LET start == IF f.kind = "circular" /\ f.size > MaxSize THEN f.size - MaxSize ELSE 0
      byte(pos) == LET p == partIdxAtOffset(f.kind, pos)
                       b == pos % PartSize
                   IN  IF p \in DOMAIN cached THEN cached[p][b]
                       ELSE IF p \in DOMAIN dbParts THEN dbParts[p][b] ELSE 0
  IN  [i \in 1 .. f.size - start |-> byte(start + i - 1)]

\* A compacted file is represented by two bytes of the old one.
CompactIJson(data) == IF Len(data) < 2 THEN data ELSE <<data[Len(data)], data[1]>>

compactIJson(entry) ==
  writeAt(entry, 0, CompactIJson(readAll(entry.file, entry.parts)), TRUE)

----------------------------------------------------------------------------
(* Pins                                                                    *)

Unused == CHOOSE i \in Ids : i # current /\ \A c \in Callers : call[c].id # i

\* getEntryAndPin
getEntryAndPin(c) ==
  LET id    == IF current = 0 THEN Unused ELSE current
      entry == IF current = 0 THEN Blank ELSE entries[current]
  IN  /\ call[c] = Outside
      /\ current' = id
      /\ entries' = [entries EXCEPT ![id] = [entry EXCEPT !.pins = @ + 1]]
      /\ call' = [call EXCEPT ![c] = [at |-> "pinned", id |-> id]]
      /\ UNCHANGED <<row, dbParts, written, faults>>

Enter(c) == c \in Clients /\ getEntryAndPin(c)

\* The flusher passes over entries that a caller has pinned.
FlushBegins_SkipsPinned ==
  /\ current # 0
  /\ entries[current].file # NoFile
  /\ entries[current].pins = 0
  /\ getEntryAndPin(Flusher)

\* FlushCache copies the keys of the dirty entries and pins each in turn.
FlushBegins ==
  /\ current # 0
  /\ entries[current].file # NoFile
  /\ getEntryAndPin(Flusher)

\* A flushed entry is removed although another caller has it pinned.
unpinEntryAndTryDelete_IgnoresPins(c) ==
  /\ call[c].at = "done"
  /\ call' = [call EXCEPT ![c] = Outside]
  /\ LET empty == current # 0 /\ entries[current].file = NoFile
     IN  /\ entries' = IF current = 0 THEN entries
                       ELSE [entries EXCEPT ![current].pins = @ - 1]
         /\ current' = IF empty THEN 0 ELSE current
  /\ UNCHANGED <<row, dbParts, written, faults>>

\* unpinEntryAndTryDelete looks the entry up again by its key.
unpinEntryAndTryDelete(c) ==
  /\ call[c].at = "done"
  /\ call' = [call EXCEPT ![c] = Outside]
  /\ IF current = 0 THEN UNCHANGED <<entries, current>>
     ELSE LET entry == [entries[current] EXCEPT !.pins = @ - 1]
              gone  == entry.pins <= 0 /\ entry.file = NoFile
          IN  /\ entries' = [entries EXCEPT ![current] = IF gone THEN Blank ELSE entry]
              /\ current' = IF gone THEN 0 ELSE current
  /\ UNCHANGED <<row, dbParts, written, faults>>

----------------------------------------------------------------------------
(* The calls, under the lock of the entry                                  *)

Finish(c, entry) ==
  /\ entries' = [entries EXCEPT ![call[c].id] = entry]
  /\ call' = [call EXCEPT ![c].at = "done"]
  /\ UNCHANGED current

Entry(c) == entries[call[c].id]

\* loadFileIntoCache
WithFile(entry) == IF entry.file # NoFile THEN entry ELSE [entry EXCEPT !.file = row]

clear(entry) == [entry EXCEPT !.file = NoFile, !.parts = NoParts, !.errs = 0]

Fault ==
  /\ faults < MaxFaults
  /\ faults' = faults + 1

Working(c) == c \in Clients /\ call[c].at = "pinned"

\* A call on a file that exists, writing n bytes.
Writing(c, n) ==
  /\ Working(c)
  /\ row # NoFile
  /\ written + n <= MaxBytes
  /\ written' = written + n

MakeFile(c, kind) ==
  /\ Working(c)
  /\ row' = IF Entry(c).file = NoFile /\ row = NoFile
              THEN [kind |-> kind, size |-> 0] ELSE row
  /\ Finish(c, Entry(c))
  /\ UNCHANGED <<dbParts, written, faults>>

DeleteFile(c) ==
  /\ Working(c)
  /\ row' = NoFile
  /\ dbParts' = NoParts
  /\ Finish(c, clear(Entry(c)))
  /\ UNCHANGED <<written, faults>>

\* A read, or a call that fails before it changes anything.
NoEffect(c) ==
  /\ Working(c)
  /\ Finish(c, Entry(c))
  /\ UNCHANGED <<row, dbParts, written, faults>>

\* The file's meta is abstracted: what is left is that the entry is dirty.
WriteMeta(c) ==
  /\ Working(c)
  /\ row # NoFile
  /\ Finish(c, WithFile(Entry(c)))
  /\ UNCHANGED <<row, dbParts, written, faults>>

\* The entry after the parts a write does not cover are loaded.
Prepared(c, offset, n) ==
  LET entry == WithFile(Entry(c))
  IN  [entry EXCEPT !.parts = Loaded(@, incompleteParts(entry.file.kind, offset, n))]

WriteAt(c, offset, n) ==
  LET f == WithFile(Entry(c)).file
  IN  /\ Writing(c, n)
      /\ offset <= f.size
      /\ f.kind = "circular" /\ ~BehindWindow => offset >= f.size - MaxSize
      /\ Finish(c, writeAt(Prepared(c, offset, n), offset, NewBytes(n), FALSE))
      /\ UNCHANGED <<row, dbParts, faults>>

AppendData(c, n) ==
  LET size == WithFile(Entry(c)).file.size
  IN  /\ Writing(c, n)
      /\ Finish(c, writeAt(Prepared(c, size, n), size, NewBytes(n), FALSE))
      /\ UNCHANGED <<row, dbParts, faults>>

\* The parts cannot be loaded: the file stays in the entry, unchanged.
LoadFails(c) ==
  /\ Working(c)
  /\ row # NoFile
  /\ Fault
  /\ Finish(c, WithFile(Entry(c)))
  /\ UNCHANGED <<row, dbParts, written>>

\* AppendIJson compacts when the counters in the file's meta say so; which
\* appends those are is left open.
AppendIJson(c, n) ==
  LET old      == WithFile(Entry(c)).file
      appended == writeAt(Prepared(c, old.size, n), old.size, NewBytes(n), FALSE)
  IN  /\ Writing(c, n)
      /\ old.kind = "ijson"
      /\ old.size > 0
      /\ Finish(c, compactIJson(appended))
      /\ UNCHANGED <<row, dbParts, faults>>

CompactFile(c) ==
  /\ Working(c)
  /\ row.kind = "ijson"
  /\ Finish(c, compactIJson(WithFile(Entry(c))))
  /\ UNCHANGED <<row, dbParts, written, faults>>

----------------------------------------------------------------------------
(* Saving                                                                  *)

\* dbWriteCacheEntry: one transaction, refused when the row is gone.
dbWriteCacheEntry(entry, replace) ==
  /\ row # NoFile
  /\ row' = [row EXCEPT !.size = entry.file.size]
  /\ dbParts' = Over(entry.parts, IF replace THEN NoParts ELSE dbParts)

FlushFails(entry) ==
  IF entry.errs + 1 > FlushErrorLimit THEN clear(entry)
  ELSE [entry EXCEPT !.errs = @ + 1]

\* The context may expire before or after the transaction commits: the entry
\* keeps its data either way.
flushToDB(c, entry, replace) ==
  \/ /\ dbWriteCacheEntry(entry, replace)
     /\ Finish(c, clear(entry))
     /\ UNCHANGED faults
  \/ /\ Fault
     /\ dbWriteCacheEntry(entry, replace)
     /\ Finish(c, entry)
  \/ /\ Fault
     /\ Finish(c, entry)
     /\ UNCHANGED <<row, dbParts>>
  \/ /\ Fault
     /\ Finish(c, FlushFails(entry))
     /\ UNCHANGED <<row, dbParts>>

WriteFile(c, n) ==
  /\ Writing(c, n)
  /\ flushToDB(c, writeAt(WithFile(Entry(c)), 0, NewBytes(n), TRUE), TRUE)

FlushCache ==
  /\ call[Flusher].at = "pinned"
  /\ IF Entry(Flusher).file = NoFile
       THEN Finish(Flusher, Entry(Flusher)) /\ UNCHANGED <<row, dbParts, faults>>
       ELSE flushToDB(Flusher, Entry(Flusher), FALSE)
  /\ UNCHANGED written

\* The program stops and starts again: the cache is gone.
Crash ==
  /\ Fault
  /\ entries' = [i \in Ids |-> Blank]
  /\ current' = 0
  /\ call' = [c \in Callers |-> Outside]
  /\ UNCHANGED <<row, dbParts, written>>

----------------------------------------------------------------------------

Call(c) ==
  \/ \E kind \in Kinds : MakeFile(c, kind)
  \/ DeleteFile(c)
  \/ NoEffect(c)
  \/ WriteMeta(c)
  \/ \E n \in 1 .. MaxChunk, offset \in 0 .. MaxBytes : WriteAt(c, offset, n)
  \/ \E n \in 1 .. MaxChunk : AppendData(c, n) \/ AppendIJson(c, n) \/ WriteFile(c, n)
  \/ LoadFails(c)
  \/ CompactFile(c)

Next ==
  \/ \E c \in Clients : Enter(c) \/ Call(c)
  \/ FlushBegins
  \/ FlushCache
  \/ \E c \in Callers : unpinEntryAndTryDelete(c)
  \/ Crash

\* runFlusher loops for as long as the program runs; a call that began ends.
Fairness ==
  /\ WF_vars(FlushBegins)
  /\ WF_vars(FlushCache)
  /\ \A c \in Clients : WF_vars(Call(c))
  /\ \A c \in Callers : WF_vars(unpinEntryAndTryDelete(c))

Spec     == Init /\ [][Next]_vars
FairSpec == Spec /\ Fairness

----------------------------------------------------------------------------
(* Properties                                                              *)

\* Every goroutine that is inside the store works on the entry the cache
\* holds, and the entry counts them all: an entry is never replaced, nor
\* removed, under a caller (getEntryAndPin, unpinEntryAndTryDelete).
OneEntry ==
  /\ \A c \in Callers : call[c] # Outside => call[c].id = current
  /\ current # 0 =>
       entries[current].pins = Cardinality({c \in Callers : call[c] # Outside})

Seen(f, cached) ==
  IF f = NoFile THEN NoFile
  ELSE [kind |-> f.kind, size |-> f.size, data |-> readAll(f, cached)]

\* What a reader sees, and what a restarted program would.
seenFile ==
  IF current # 0 /\ entries[current].file # NoFile
    THEN Seen(entries[current].file, entries[current].parts)
    ELSE Seen(row, NoParts)

storedFile == Seen(row, NoParts)

\* The cached, partitioned file behaves as one that is written in place and
\* saved whole: readers see the last write, and a restart goes back to a whole
\* earlier state of the file.
Promised == INSTANCE StoredFile WITH file <- seenFile, stored <- storedFile
ImplementsStoredFile == Promised!Spec

\* Whatever is written is, in the end, in the database (or given up and gone
\* from the cache as well): the flusher is never starved by the writers.
EventuallySaved == []<>(seenFile = storedFile)

=============================================================================
