\* A cluster register and a network bit, in frames of up to two, two clusters.
SPECIFICATION Spec
CONSTANTS
  ClustBits = 0
  ClustRegs = 1
  NetBits = 1
  NetRegs = 0
  Clusters = {0, 1}
  Bytes = {0, 1}
  Width = 2
INVARIANTS TypeOK CopiesAgree LostIsCleared WriteIsHeard
