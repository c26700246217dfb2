\* One second; two digits of the hour or of the day, or two stamps, or one of each.
SPECIFICATION Spec
CONSTANTS
  Starts <- MCStarts
  Links <- MCLinks
  Nums = {0, 3}
  MaxTicks = 1
  MaxUses = 2
INVARIANTS StampIsTime
PROPERTY SetIsTyped
