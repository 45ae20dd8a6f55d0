SPECIFICATION Spec
CONSTANTS
  Layout <- TwoFvps
  EscapePages = 2
  EntriesPerPage = 8
  Faults = FALSE
  MaxStarts = 3
INVARIANTS
  MapComplete
CHECK_DEADLOCK FALSE
