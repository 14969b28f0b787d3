SPECIFICATION Spec
CONSTANTS
  h1 = h1
  h2 = h2
  j1 = j1
  j2 = j2
  j3 = j3
  None = None
  Host = {h1, h2}
  Job = {j1, j2, j3}
  Form = {f1}
  HostOf <- MCHostOf
  Actions <- MCActions
  Typed = {1, 3}
  MaxName = 5
  Rank <- MCRank
  Full = 3
  MaxAddress = 2
  MaxId = 3
  FirstRows <- MCRows
  FirstNames <- MCNames
INVARIANT TypeOK
INVARIANT IssuedNamesAreUnique
INVARIANT NextNameIsNew
INVARIANT EntriesStay
CHECK_DEADLOCK FALSE
