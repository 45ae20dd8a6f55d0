SPECIFICATION FairSpec
CONSTANTS
  Layout <- TwoFvps
  EscapePages = 1
  EntriesPerPage = 3
  Faults = TRUE
  MaxStarts = 3
INVARIANTS
  TypeOK
  MapFaithful
  MapCompleteBelowMax
  Recoverable
PROPERTIES
  StartServes
CHECK_DEADLOCK FALSE
