SPECIFICATION MCSpec
CONSTANTS
  a1 = a1  a2 = a2  a3 = a3  a4 = a4  p1 = p1  p2 = p2  p3 = p3  q1 = q1  q2 = q2
  None = None
  Submitters = {a1, a2, a3, a4}
  Checks <- MCChecks
  MaxTime = 3
  MaxCrashes = 1
  Schedules = {p1, p2}  Versions = {1, 2}  Broken = {2}  Requests = {q1, q2}
  MaxRevisions = 1  MaxStarts = 2
  Messages = {1}  Passes <- MCPasses  Callbacks = {p1, p2}  MaxActivations = 2
  Records = {p1, p2, p3}  Configs = {1, 2}  Identity <- MCIdentity
  PageLimit = 2  MaxSeen = 2  MaxReloads = 2
  MaxFaults = 1
SYMMETRY Symmetry
INVARIANTS MergesCounted NoLockCycle JobsMatchRows ConnectorKeepsUp PolledOnce
PROPERTIES NoDuplicateCreated
CHECK_DEADLOCK FALSE
