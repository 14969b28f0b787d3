SPECIFICATION Spec
CONSTANTS
  o1 = o1
  o2 = o2
  w1 = w1
  w2 = w2
  r1 = r1
  r2 = r2
  new = new
  used = used
  deployment = deployment
  relabel = relabel
  knot = knot
  release = release
  assign = assign
  label = label
  deploy = deploy
  ping = ping
  tie = tie
  untie = untie
  None = None
  Keep = Keep
  Object = {o1}
  Status = {new, used}
  Transition = {deployment}
  Action <- MCAction
  Job = {j1}
  Worker = {w1, w2}
  RunRequest = {r1}
  KillRequest = {k1}
  PingRequest = {p1, p2}
  Actions <- MCActions
  RunAfter <- MCRunAfter
  Source <- MCSource
  Target <- MCTarget
  Async = {deployment}
  Freezing = {deploy}
  Waiting = {assign}
  NoSave = {}
  Exceptions = TRUE
  MaxReschedules = 1
  MaxCrashes = 1
SYMMETRY Symmetry
INVARIANT TypeOK
INVARIANT QueuedJobsAreCommitted
INVARIANT RequirementsFirst
INVARIANT SuccessIsRecorded
INVARIANT ActiveJobsAreHandled
INVARIANT HistoryAfterAllActions
PROPERTY KeepsPromise
PROPERTY StoresAreRecorded
CHECK_DEADLOCK FALSE
