SPECIFICATION MCSpec
CONSTANTS
  p1 = p1  p2 = p2  q1 = q1  q2 = q2  t1 = t1  t2 = t2  t3 = t3
  alerts = alerts  reports = reports  main = main  tag = tag
  None = None
  Tasks = {t1, t2, t3}
  Workflows = {alerts, reports}
  Replicas = {p1, p2}
  WorkflowOf <- MCWorkflowOf
  Limit <- MCLimit
  Priority <- MCPriority
  PlatformMax = 2
  MaxWaits = 1
  MaxOps = 1
  Deployments = {p1, p2}
  Clis = {cli}
  Nightlies = {nightly}
  SiteCommits = {1, 2, 3}
  Installed = 1
  Valid = {1, 3}
  Extras = {"x", "y"}
  Wanted <- MCWanted
  Claims = {}
  SetsKept = 1
  MaxDeployFaults = 1
  Syncs = {p1, p2}
  Launches = {l1}
  Bundles = {q1, q2}
  Refs = {main, tag}
  DefaultRef = main
  Tags = {tag}
  Commits = {1, 2}
  Origin <- MCOrigin
  MaxReleaseFaults = 1
  Sessions = {p1, p2, p3}
  Marker = marker
  VersionsKept = 1
  MaxMemoryFaults = 2
SYMMETRY Symmetry
INVARIANTS LimitsHold DeploymentsWhole ReleasesHold MemoryKept
PROPERTIES Refinement
CHECK_DEADLOCK FALSE
