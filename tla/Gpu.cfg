SPECIFICATION GpuWorldSpec
CONSTANTS
  pg1 = pg1
  pg2 = pg2
  pg3 = pg3
  c1 = c1
  c2 = c2
  NoHandle = NoHandle
  HandlesMax = 2
  MaxOpens = 3
  MaxWork = 3
  PageBytes = 2
  GpuPages = {pg1, pg2, pg3}
  KnownPages = {pg1, pg2}
  DevSize = 4
  GpuFaults = {"gdev", "copy", "reboot"}
  GpuCopies <- MCGpuCopies
  Callers = {c1, c2}
  SelfCallers = {c1}
  TargetPages = {1, 2, 3, 4, 5}
  Untouched = {4}
  Loose = {2}
  Requests <- MCRequests
  Threads = 2
  MaxMaps = 2
  FixFaults = {"memory", "source", "remap", "load"}
CHECK_DEADLOCK FALSE
INVARIANTS HandleOwn CopyExact FixupExact
PROPERTIES FixupReturns
