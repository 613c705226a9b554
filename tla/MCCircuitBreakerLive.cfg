SPECIFICATION FairSpec
CONSTANTS
    r1 = r1
    r2 = r2
    Requests = {r1, r2}
    MaxAttempts = 2
    Threshold = 1
    Cooldown = 1
    ProbeTTL = 1
    CountTTL = 1
    KeyTTL = 3
    None = None
PROPERTY OpenEnds
PROPERTY CallsEnd
PROPERTY Recovers
