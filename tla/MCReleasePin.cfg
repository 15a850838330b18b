SPECIFICATION Spec
CONSTANTS
  main = main  tag = tag
  Syncs = {sync1}
  Tasks = {t1}
  Workflows = {w1, w2}
  Refs <- MCRefs
  DefaultRef = main
  Tags = {tag}
  Commits = {1, 2}
  Origin <- MCOrigin
  None = None
  MaxFaults = 1
INVARIANTS PinOverrides
CHECK_DEADLOCK FALSE
