\* A clear, a few records and a power cut: which records come back?
SPECIFICATION Spec
CONSTANTS
  PageCnt = 3
  PageRecords = 2
  PtrSlots = 3
  ClearedPages = 2
  Times = {1, 2, 3}
  TornWrites = FALSE
  Healing = 4
  MaxRecords = 10
  MaxCuts = 1
INVARIANT ClearedStaysCleared
