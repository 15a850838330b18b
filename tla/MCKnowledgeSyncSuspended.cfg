SPECIFICATION Spec
CONSTANTS
    Worker = {w1}
    Run = {r1, r2}
    Version = {v1, v2}
    Commit = {c1}
    Config = {f1, f2}
    Kinds = {"code_graph"}
    None = None
    Housekeeper = Housekeeper
    MaxCrashes = 0
    SlowWork = FALSE
    Pruning = FALSE
PROPERTIES
    SyncResumes
CHECK_DEADLOCK FALSE
