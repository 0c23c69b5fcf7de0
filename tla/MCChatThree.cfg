SPECIFICATION Spec
CONSTANTS
  c1 = c1
  c2 = c2
  c3 = c3
  h1 = h1
  h2 = h2
  NoHandle = NoHandle
  Handles = {h1, h2}
  POLL_SET_SIZE = 1
  Clients = {c1, c2, c3}
  DestLists <- ToOneOrBoth
  LeadBytes = {33}
  InBuf = 1
  OutBuf = 2
  MaxLines = 1
  Killable = {}
  LongHandles = {}
  StdinMayHangUp = FALSE
SYMMETRY Symmetry
INVARIANTS
  ListMatchesSockets
  PollSetMatchesSockets
  OnlyAddressedReceive
  ListReplyIsWhole
  NobodySharesAHandle
  ServerStaysUp
