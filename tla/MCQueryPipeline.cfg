CONSTANTS
    r1 = r1
    r2 = r2
    u1 = u1
    admin = admin
    None = None
    Requests = {r1, r2}
    Users = {u1}
    Admins = {admin}
    Costs <- MCCosts
    Kinds <- MCKinds
    Limit = 3
    BlockCost = 2
    MaxDate = 2
SPECIFICATION Spec
SYMMETRY Symmetry
INVARIANTS
    TypeOK
    AnswersAreAudited
PROPERTIES
    DailyLimit
    OnlyBrokenRequestsForgetKeys
