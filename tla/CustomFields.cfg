SPECIFICATION Spec
CONSTANTS
  CloudHost = {1}
  Asset = {2}
  Project = {3}
  Env = {4}
  Class = {5}
  Module = {1}
  ModuleOf <- MCModuleOf
  Field = {f, g}
  Value = {v}
  MaxRows = 2
  MaxMeanwhile = 1
  MaxRequests = 1
  None = None
SYMMETRY MCSymmetry
INVARIANT TypeOK
INVARIANT ReadsAgree
INVARIANT HostsFollowProject
PROPERTY ClearsWhatInherits
CHECK_DEADLOCK FALSE
