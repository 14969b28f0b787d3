SPECIFICATION Spec
CONSTANTS
  a1 = a1
  a2 = a2
  h1 = h1
  e1 = e1
  e2 = e2
  None = None
  Address = {a1, a2}
  Port = {p1, p2}
  Cluster = {c1, c2}
  Asset = {h1}
  Env = {e1, e2}
  Event <- MCEvent
  Delivery = {d1, d2}
  Form = {}
  FirstRows <- MCRows
  MaxId = 3
PROPERTY UpdatesMoveVips
CHECK_DEADLOCK FALSE
