SPECIFICATION Spec
CONSTANTS
  WindowSize = 2
  NumChunks = 2
  MaxTries = 2
  SockBuf = 2
  MaxSeq = 4
  MaxFaults = 1
  DataReorder = FALSE
  AckReorder = FALSE
  ReadMayFail = TRUE
  MaxSockets = 2
  NamesDouble = TRUE
INVARIANTS
  CopyIsTheFile
