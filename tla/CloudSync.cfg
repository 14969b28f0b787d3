SPECIFICATION Spec
CONSTANTS
  s1 = s1
  s2 = s2
  p1 = p1
  p2 = p2
  f1 = f1
  f2 = f2
  x1 = x1
  None = None
  Server = {s1, s2}
  Project = {p1, p2}
  Flavor = {f1, f2}
  Address = {x1}
  Run = {r1, r2}
  Cron = {r1}
  Start <- MCStart
  MaxEvents = 2
INVARIANT TypeOK
PROPERTY LiveServersStay
PROPERTY OthersKeepTheirs
PROPERTY Converges
CHECK_DEADLOCK FALSE
