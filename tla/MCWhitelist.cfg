SPECIFICATION WhitelistSpec
CONSTANTS
    r1 = r1
    r2 = r2
    r3 = r3
    a1 = a1
    a2 = a2
    Queries = {r1, r2, r3}
    Admins = {a1, a2}
    CopyTTL = 2
INVARIANTS
    WhitelistTypeOK
    ApprovalsHaveACause
PROPERTY WithdrawnApprovalsEnd
