\* One message, two rows of keys, two lines on the screen.
SPECIFICATION Spec
CONSTANTS
  Rows <- MCRows
  MaxDown = 2
  MsgCnt = 1
  Row = 2
  TextLen = 2
  Word = 16
  Low = 1
  High = 12
  Visits <- MCVisits
INVARIANTS TypeOK KeysArePresses
PROPERTIES PressIsTaken RecordedOnce AlarmIsRecorded SentIsMeant
