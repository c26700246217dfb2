\* Two inputs, two PLC addresses, a silence of two ticks, a report every two cycles.
SPECIFICATION LinkFairSpec
CONSTANTS
  i1 = i1
  i2 = i2
  Inputs = {i1, i2}
  Nodes = {0, 1}
  HbLimit = 2
  DiPeriod = 2
  MaxHeartbeats = 2
  MaxChanges = 1
  MaxRestarts = 1
INVARIANTS LinkTypeOK SilenceIsSeen ReportedUnlessMarked
PROPERTIES LossOnlyAfterSilence LinkIsLost InputsAreReported
