\* Two trends of three points, two sources.
SPECIFICATION TrendSpec
CONSTANTS
  s1 = s1
  s2 = s2
  Size = 3
  MaxCnt = 2
  Sources = {s1, s2}
  NewSource = s2
  MaxPoints = 5
  MaxVisits = 1
INVARIANTS TrendTypeOK PointsAreKept PhaseIsKept
PROPERTIES BootKeepsTrends
