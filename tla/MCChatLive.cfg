SPECIFICATION FairSpec
CONSTANTS
  c1 = c1
  c2 = c2
  c3 = c3
  h1 = h1
  h2 = h2
  NoHandle = NoHandle
  Handles = {h1, h2}
  POLL_SET_SIZE = 1
  Clients = {c1, c2}
  DestLists <- ToOne
  LeadBytes = {120, 195}
  InBuf = 2
  OutBuf = 1
  MaxLines = 2
  Killable = {c1}
  LongHandles = {h2}
  StdinMayHangUp = FALSE
PROPERTIES
  LoginAnswered
  ListEnds
  LeaverLeaves
  HandleIsFreed
CHECK_DEADLOCK FALSE
