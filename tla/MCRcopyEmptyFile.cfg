SPECIFICATION Spec
CONSTANTS
  WindowSize = 2
  NumChunks = 0
  MaxTries = 2
  SockBuf = 3
  MaxSeq = 3
  MaxFaults = 1
  DataReorder = FALSE
  AckReorder = FALSE
  Timely = TRUE
  ReadMayFail = FALSE
INVARIANTS
  OnlySentDataIsResent
