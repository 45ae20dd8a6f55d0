SPECIFICATION Spec
CONSTANTS
  t1 = t1
  t2 = t2
  Threads = {t1, t2}
  NoThread = NoThread
  NoFd = NoFd
  AllOnes = 99
  Ops <- MixedInstance
  ChunkSizes = {2}
  Directions = {TRUE}
  EscapeSize = 8
  ActionDmaSize = 2
  TransferMax = 1
  Fds = {5, 6}
  MaxStarts = 1
  SignalWhileServing = TRUE
INVARIANTS
  TypeOK
  LockedExclusive
  TransferBounded
CHECK_DEADLOCK FALSE
