SPECIFICATION Spec
CONSTANTS
  Clients = {c1}
  Flusher = flusher
  PartSize = 2
  MaxParts = 2
  FlushErrorLimit = 1
  MaxChunk = 3
  MaxBytes = 7
  MaxFaults = 0
  Kinds = {"circular"}
  BehindWindow = TRUE
PROPERTIES
  ImplementsStoredFile
