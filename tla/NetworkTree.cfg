SPECIFICATION Spec
CONSTANTS
  Net = {n1, n2, n3}
  Block <- MCBlock
  Addr = {8, 13}
  Writer = {w1}
  None = None
SYMMETRY Symmetry
INVARIANT TypeOK
INVARIANT TreeIsRight
INVARIANT AddressesAreRight
PROPERTY DeletesOnlyItself
CHECK_DEADLOCK FALSE
