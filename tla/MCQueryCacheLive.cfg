SPECIFICATION FairSpec
CONSTANTS
    k1 = k1
    k2 = k2
    a = a
    b = b
    r1 = r1
    r2 = r2
    Keys = {k2}
    Tables = {a,b}
    TablesOf <- MCTablesOf
    WriteSets <- MCWriteSets
    Readers = {r1}
    MaxWrites = 1
    TTL = 2
    TagLimit = 1
    None = None
PROPERTY StaleHeals
