SPECIFICATION Spec
CONSTANTS
  o1 = o1
  o2 = o2
  w1 = w1
  w2 = w2
  r1 = r1
  r2 = r2
  new = new
  used = used
  deployment = deployment
  relabel = relabel
  knot = knot
  release = release
  assign = assign
  label = label
  deploy = deploy
  ping = ping
  tie = tie
  untie = untie
  None = None
  Keep = Keep
  Object = {o1, o2}
  Status = {new, used}
  Transition = {deployment, knot, release}
  Action <- MCAction
  Job = {j1, j2}
  Worker = {w1}
  RunRequest = {r1, r2}
  KillRequest = {}
  PingRequest = {p1, p2}
  Actions <- MCActions
  RunAfter <- MCRunAfter
  Source <- MCSource
  Target <- MCTarget
  Async = {deployment, knot}
  Freezing = {deploy}
  Waiting = {assign}
  NoSave = {ping}
  Exceptions = FALSE
  MaxReschedules = 1
  MaxCrashes = 0
SYMMETRY Symmetry
INVARIANT NoActionRepeated
INVARIANT NoSuccessAfterFailure
INVARIANT HistoryIsComplete
CHECK_DEADLOCK FALSE
