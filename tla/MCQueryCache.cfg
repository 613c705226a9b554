SPECIFICATION Spec
CONSTANTS
    k1 = k1
    k2 = k2
    a = a
    b = b
    r1 = r1
    r2 = r2
    Keys = {k1}
    Tables = {a}
    TablesOf <- MCTablesOf
    WriteSets <- MCWriteSets
    Readers = {r1,r2}
    MaxWrites = 2
    TTL = 1
    TagLimit = 0
    None = None
SYMMETRY Symmetry
INVARIANT TypeOK
INVARIANT EntriesOfThePastAreGone
PROPERTY OnlyDeadFillsLeakTags
