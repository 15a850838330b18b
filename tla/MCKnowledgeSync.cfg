SPECIFICATION Spec
CONSTANTS
    Worker = {w1, w2}
    Run = {r1, r2}
    Version = {v1, v2}
    Commit = {c1, c2}
    Config = {f1, f2}
    Kinds = {"code_graph", "hybrid_vector"}
    None = None
    Housekeeper = Housekeeper
    MaxCrashes = 1
    SlowWork = FALSE
    Pruning = TRUE
CONSTRAINT GraphKeepsConfig
INVARIANTS
    CurrentServable
    ServedMatchesConfig
SYMMETRY Symmetry
