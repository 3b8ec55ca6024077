SPECIFICATION FairSpec
CONSTANTS
    Workers = {w1, w2}
    Challenges = {c1}
    Mails = {}
    b1 = b1
    b2 = b2
    b3 = b3
    BackupSets <- MCOneSet
    Threshold = 1
    MaxAttempts = 1
    MaxSends = 0
    ThrottleMax = 2
    NoChallenge = NoChallenge
    NoCode = NoCode
PROPERTY ThrottleEnds
