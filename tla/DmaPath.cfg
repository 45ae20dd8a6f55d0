SPECIFICATION PathSpec
CONSTANTS
  g1 = g1
  g2 = g2
  h1 = h1
  NoProc = NoProc
  Hole = Hole
  GuestProcs = {g1, g2}
  HostProcs = {h1}
  UserPage <- MCUserPage
  HostPage <- MCHostPage
  Situations <- MCSituations
  PageSize = 4
  DescBlenMax = 5
  RingSize = 4
  AdjBlock = 2
  GuestPages = 6
  EscapeChunks = 3
  AddrAlign = 2
  LenGranularity = 2
  UndelegateChunk = 4
  MaxCalls = 3
CHECK_DEADLOCK FALSE
INVARIANTS DmaTypeOK DmaExact DescriptorsSound PinsBalanced AccessGranted DelegatedExactly
