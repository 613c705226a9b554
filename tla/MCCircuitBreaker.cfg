SPECIFICATION Spec
CONSTANTS
    r1 = r1
    r2 = r2
    Requests = {r1, r2}
    MaxAttempts = 2
    Threshold = 3
    Cooldown = 1
    ProbeTTL = 1
    CountTTL = 2
    KeyTTL = 4
    None = None
SYMMETRY Symmetry
INVARIANT TypeOK
INVARIANT BlockingKeysExpire
INVARIANT UndisturbedProbeIsAlone
INVARIANT AtMostTwoPerCall
PROPERTY OnlyBrokenCallsForgetCount
