SPECIFICATION Spec
CONSTANTS
  WindowSize = 2
  NumChunks = 4
  MaxTries = 2
  SockBuf = 4
  MaxSeq = 6
  MaxFaults = 1
  DataReorder = FALSE
  AckReorder = TRUE
  Timely = FALSE
  ReadMayFail = FALSE
INVARIANTS
  EofMeansComplete
