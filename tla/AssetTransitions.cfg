SPECIFICATION Spec
CONSTANTS
  a1 = a1
  a2 = a2
  u1 = u1
  u2 = u2
  pl = pl
  us = us
  l1 = l1
  l2 = l2
  r1 = r1
  r2 = r2
  new = new
  used = used
  sold = sold
  hire = hire
  give_back = give_back
  lend = lend
  rename = rename
  relabel = relabel
  claim = claim
  transfer = transfer
  to_dc = to_dc
  move = move
  to_bo = to_bo
  None = None
  Keep = Keep
  Asset = {a1}
  User = {u1, u2}
  Country = {pl, us}
  Licence = {l1}
  Status = {new, used, sold}
  Request = {r1, r2}
  Transition = {hire, lend, give_back, transfer, rename, to_dc, to_bo, move, relabel, claim}
  Actions <- MCActions
  Source <- MCSource
  Target <- MCTarget
  Model <- MCModel
  Region <- MCRegion
  Statuses <- MCStatuses
  DefaultStatus <- MCDefault
  InitialStatus = new
INVARIANT TypeOK
INVARIANT HostnamesAreSpent
 
INVARIANT ReportsAreTrue
PROPERTY OnlyCommitsShow
CHECK_DEADLOCK FALSE
