SPECIFICATION FairSpec
CONSTANTS
  WindowSize = 2
  NumChunks = 2
  MaxTries = 1
  SockBuf = 2
  MaxSeq = 4
  MaxFaults = 2
  DataReorder = FALSE
  AckReorder = FALSE
  ReadMayFail = TRUE
  MaxSockets = 2
  NamesDouble = FALSE
INVARIANTS
  MainHearsNamesOnly
  OrphansAreDeaf
PROPERTIES
  ImplementsCopy
  OneChildIsAnswered
  ChildrenLeave
  RcopyMovesOn
  ChildrenAreReaped
