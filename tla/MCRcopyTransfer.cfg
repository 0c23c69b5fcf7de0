SPECIFICATION Spec
CONSTANTS
  WindowSize = 3
  NumChunks = 5
  MaxTries = 2
  SockBuf = 4
  MaxSeq = 7
  MaxFaults = 1
  DataReorder = TRUE
  AckReorder = FALSE
  Timely = FALSE
  ReadMayFail = TRUE
INVARIANTS
  TypeOK
  EofMeansComplete
  FreedIsWritten
  WindowHoldsUnacked
  BufferedIsAhead
  NoUnexpectedFlag
  IInv
PROPERTIES
  LowerBoundAdvances
  ImplementsCopy
