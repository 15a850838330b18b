SPECIFICATION MCSpec
CONSTANTS
  Commits = {1, 2}
  Urls = {"u", "v"}
  Scopes = {1, 2}
  Files = {"a", "b"}
  None = None
  Tree <- MCTree
  InScope <- MCInScope
  Pseudo = "p"
  Logs = {1, 2}
  MaxFaults = 1
  MaxEdits = 1
  Calls = {c1, c2}  Tasks = {t1, t2}  Versions = {1, 2, 3, 4}  VersionsToKeep = 2
  Limit = 1  MaxTasks = 1  MaxSwitches = 1
  Root = root  Page = page  Rules = {strict, lax}  Models = {m1, m2}
  Ordinals = {1, 2}  MaxChanges = 2
  Nodes = {1, 2, 3, 4}  Links <- MCLinks  MaxLinks = 4  Starts = {1}  Ends = {1, 4}
  Depths = {2, 3}  QueryLimits = {1, 5}  Skips = {{}, {1, 3}}
  Chunks = {1, 2, 3}  ContentLength <- MCLength  MaxContent = 3  MaxResponse = 8
  Overhead = 1  Pairs = {{1, 2}, {2, 3}}  LaneLimit = 3  Scale = 238266
  RerankCandidates = 2  ResponseLimits = {1, 3}
  Empty = Empty
INVARIANTS PinnedStays BundleWhole QueriesHonest ResponseHonest SnapshotFaithful
PROPERTIES SuspendedLeaves
CHECK_DEADLOCK FALSE
