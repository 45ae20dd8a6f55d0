SPECIFICATION LifeSpec
CONSTANTS
  d1 = d1
  d2 = d2
  p1 = p1
  NoDev = NoDev
  Devs = {d1, d2}
  Procs = {p1}
  Loads <- MCLoads
  StubSituations <- MCStubSituations
  MaxProbes = 2
  MaxResets = 2
CHECK_DEADLOCK FALSE
INVARIANTS LifeTypeOK Released MemorySafe NamesUnique Serviceable
