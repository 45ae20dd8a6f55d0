SPECIFICATION Spec
CONSTANTS
  t1 = t1
  t2 = t2
  Threads = {t1, t2}
  NoThread = NoThread
  NoFd = NoFd
  AllOnes = 99
  Ops <- LockedInstance
  ChunkSizes = {3}
  Directions = {TRUE, FALSE}
  EscapeSize = 8
  ActionDmaSize = 2
  TransferMax = 2
  Fds = {5, 6}
  MaxStarts = 2
  SignalWhileServing = FALSE
SYMMETRY ThreadSymmetry
INVARIANTS
  DmaIntegrity
  ExactlyOnce
  NoProtocolError
  NoRequestDismissed
  DmaOnOwnFile
