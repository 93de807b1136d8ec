CONSTANTS
    LogMax = 2
    MaxRuns = 5
    MaxFaults = 1
SPECIFICATION FairSpec
INVARIANTS StaysStopped StopStops
PROPERTIES StatusTruthful StatusSettles
CHECK_DEADLOCK FALSE
