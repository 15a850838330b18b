CONSTANTS
    MaxLaunches = 2
    MaxAsks = 1
    MaxFaults = 1
SPECIFICATION FairSpec
INVARIANTS SweepsSeeAll
PROPERTIES Settles JobReaped
CHECK_DEADLOCK FALSE
