CONSTANTS
  Base = 3
  Width = 2
  Separator <- MCSeparator
  Spelling <- MCSpelling
  Words <- MCWords
  Values <- MCValues
SPECIFICATION Spec
INVARIANTS
  ContextOwned
  Unambiguous
  KeysDistinct
CHECK_DEADLOCK FALSE
