\* Power cuts anywhere, half written and half erased cells, a clock that may be
\* set back: three pages of two records, three pointers.
SPECIFICATION Spec
CONSTANTS
  PageCnt = 3
  PageRecords = 2
  PtrSlots = 3
  ClearedPages = 2
  Times = {1, 2, 3}
  TornWrites = TRUE
  Healing = 4
  MaxRecords = 10
  MaxCuts = 2
INVARIANTS EraseSparesShown
PROPERTY ImplementsLog
