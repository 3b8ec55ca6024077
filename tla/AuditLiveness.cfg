SPECIFICATION FairSpec
CONSTANTS
    Rows = {1, 2}
    Sinks = {k1}
    Matches <- MCAll
    Instances = {i1}
    ReadLag = 1
    Day = 2
    Retention = 9
    BatchSize = 1
    MaxBatches = 1
    MaxFailures = 2
    MaxTime = 2
PROPERTIES EverythingShips
CHECK_DEADLOCK FALSE
