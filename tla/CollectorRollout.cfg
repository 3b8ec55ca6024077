SPECIFICATION Spec
CONSTANTS
    Servers = {1, 2}
    Targets = {1}
    Instances = {i1, i2}
    Stale = Stale
    Bucket <- MCBucket
    CanaryPercent = 10
    Grace = 1
    Dwell = 1
    MaxReports = 1
    MaxInactive = 1
SYMMETRY Symmetry
INVARIANTS TypeOK NothingOfferedAfterEnd
PROPERTIES OneStepAtATime EndedIsFinal
