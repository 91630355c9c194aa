SPECIFICATION FairSpec
CONSTANTS
  Clients = {c1}
  Flusher = flusher
  PartSize = 2
  MaxParts = 2
  FlushErrorLimit = 1
  MaxChunk = 3
  MaxBytes = 5
  MaxFaults = 2
  Kinds = {"circular", "ijson"}
  BehindWindow = FALSE
INVARIANTS
  OneEntry
PROPERTIES
  ImplementsStoredFile
  EventuallySaved
