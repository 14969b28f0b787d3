SPECIFICATION Spec
CONSTANTS
  e1 = e1
  e2 = e2
  g1 = g1
  d1 = d1
  r1 = r1
  None = None
  Row = {e1, g1}
  Host = {h1}
  Section = {"entries", "networks"}
  Bumps <- RowBumps
  Shows <- RowShows
  Agent = {s1}
  Writer = {d1, r1}
  Writes <- MCWrites
  Deployments = {d1}
  TicksPerSecond = 2
  MaxTime = 2
  MaxFaults = 1
INVARIANT TypeOK
INVARIANT OnlyEscapedIsMissed
PROPERTY ChangesArrive
PROPERTY WaitEnds
