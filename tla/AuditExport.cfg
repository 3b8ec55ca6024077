SPECIFICATION Spec
CONSTANTS
    Rows = {1, 2}
    Sinks = {k1}
    Matches <- MCAll
    Instances = {i1, i2}
    ReadLag = 1
    Day = 2
    Retention = 1
    BatchSize = 1
    MaxBatches = 1
    MaxFailures = 2
    MaxTime = 3
SYMMETRY Symmetry
INVARIANTS TypeOK NothingSkipped OwedIsKept DeletedIsArchived
