SPECIFICATION Spec
CONSTANTS
    l1 = l1
    l2 = l2
    a1 = a1
    a2 = a2
    Logins <- LoginsMC
    Addresses <- AddressesMC
    Account = Account
    None = None
    MaxAttempts = 2
    LockTTL = 2
INVARIANTS
    TypeOK
    LockoutsExpire
    GuessesBounded
PROPERTIES
    LockoutEnds
