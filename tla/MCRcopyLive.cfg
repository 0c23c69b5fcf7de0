SPECIFICATION FairSpec
CONSTANTS
  WindowSize = 2
  NumChunks = 3
  MaxTries = 3
  SockBuf = 4
  MaxSeq = 5
  MaxFaults = 2
  DataReorder = FALSE
  AckReorder = FALSE
  Timely = TRUE
  ReadMayFail = FALSE
PROPERTIES
  ChunkGetsThrough
  EofGetsThrough
