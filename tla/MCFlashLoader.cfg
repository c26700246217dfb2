\* Two blocks of two subpackets, two packets under way each way, one restart.
SPECIFICATION Spec
CONSTANTS
  NumBlocks = 2
  SubCnt = 2
  RstTicks = 2
  AskTicks = 1
  QueueLimit = 2
  MaxModes = 1
  MaxRestarts = 1
INVARIANTS MenuShowsMode AnsweredIsFlashed
PROPERTY RestartsWhenQuiet
