SPECIFICATION Spec
CONSTANTS
    q1 = q1
    q2 = q2
    admin = admin
    readonly = readonly
    Requests <- RequestsMC
    Roles <- RolesMC
    Readonly = readonly
    Life = 2
    Grace = 1
    KeyTTL = 2
    MaxTokens = 2
    Horizon = 1
    None = None
INVARIANTS
    TypeOK
    RightsFade
    KeyCopiesFade
PROPERTIES
    WithdrawnAccessEnds
