SPECIFICATION FairSpec
CONSTANTS
  t1 = t1
  t2 = t2
  Threads = {t1, t2}
  NoThread = NoThread
  NoFd = NoFd
  AllOnes = 99
  Ops <- ReturningInstance
  ChunkSizes = {3}
  Directions = {TRUE}
  EscapeSize = 8
  ActionDmaSize = 2
  TransferMax = 2
  Fds = {5}
  MaxStarts = 2
  SignalWhileServing = FALSE
PROPERTIES
  CallReturns
