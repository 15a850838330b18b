CONSTANTS
    t1 = t1  t2 = t2  alerts = alerts  reports = reports
    Requests = {r1, r2}
    Rows = {a1, a2, a3}
    Handlers = {h1, h2}
    None = None
    Parallel = TRUE
    MaxPresses = 3
    MaxFaults = 1
SPECIFICATION MCSpec
INVARIANTS OneOpen AllowedIsGranted
PROPERTIES DecisionStable PromptsAnswered QueueDrains
CHECK_DEADLOCK FALSE
