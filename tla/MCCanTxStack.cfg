\* Three slots, so that both a partly filled and a full ring wrap; four packets
\* overflow it.
SPECIFICATION FairSpec
CONSTANTS
  Tasks = {can, lcd}
  CanTask = can
  can = can
  lcd = lcd
  StackLength = 3
  Mailboxes = 2
  TryLimit = 3
  TxTmrGap = 1
  TxTmrPeriod = 2
  MaxAdded = 4
INVARIANTS TypeOK QueuedInOrder SentInOrder
PROPERTIES PhaseIsKept EventuallyTaken
