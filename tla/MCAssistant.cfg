SPECIFICATION Spec
CONSTANTS
    r1 = r1
    r2 = r2
    Requests = {r1, r2}
    Limit <- LimitMC
    MaxRetries = 2
SYMMETRY Symmetry
INVARIANTS
    TypeOK
    ProviderIsSpared
    RunsWithinLimit
