SPECIFICATION Spec
CONSTANTS
  Layout <- TwoFvps
  EscapePages = 2
  EntriesPerPage = 4
  Faults = TRUE
  MaxStarts = 3
INVARIANTS
  PageTableCleanedUp
CHECK_DEADLOCK FALSE
