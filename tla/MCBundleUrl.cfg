CONSTANTS
  Commits = {1, 2}
  Urls = {"u", "v"}
  Scopes = {1, 2}
  Files = {"a", "b"}
  None = None
  Pseudo = "p"
  Tree <- MCTree
  InScope <- MCScope
  Logs = {1, 2}
  MaxFaults = 1
  MaxEdits = 1
SPECIFICATION Spec
INVARIANTS SyncedServes
CHECK_DEADLOCK FALSE
