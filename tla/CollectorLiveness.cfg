SPECIFICATION FairSpec
CONSTANTS
    Servers = {1, 2}
    Targets = {1}
    Instances = {i1}
    Stale = Stale
    Bucket <- MCBucket
    CanaryPercent = 50
    Grace = 1
    Dwell = 1
    MaxReports = 1
    MaxInactive = 0
PROPERTIES SilentIsJudged BadRolloutEnds
