\* Two pages of two records, two pointers; three records, three more, one clear.
SPECIFICATION Spec
CONSTANTS
  PageCnt = 2
  PageRecords = 2
  PtrSlots = 2
  ClearedPages = 1
  Held = 3
  MaxRecords = 6
  MaxClears = 1
INVARIANTS TypeOK FlashHasNewest
PROPERTY ImplementsLog
CHECK_DEADLOCK FALSE
