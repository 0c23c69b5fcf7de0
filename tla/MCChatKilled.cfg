SPECIFICATION Spec
CONSTANTS
  c1 = c1
  c2 = c2
  c3 = c3
  h1 = h1
  h2 = h2
  NoHandle = NoHandle
  Handles = {h1, h2}
  POLL_SET_SIZE = 1
  Clients = {c1, c2}
  DestLists <- ToBoth
  LeadBytes = {120}
  InBuf = 1
  OutBuf = 1
  MaxLines = 2
  Killable = {c1, c2}
  LongHandles = {}
  StdinMayHangUp = TRUE
SYMMETRY Symmetry
INVARIANTS
  ChatInvariant
PROPERTIES
  ImplementsRoom
CHECK_DEADLOCK FALSE
