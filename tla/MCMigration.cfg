SPECIFICATION MigrationSpec
CONSTANTS
    a = a
    b = b
    c1 = c1
    Rotators = {a, b}
    Clients = {c1}
    Rows = {x1}
    MaxVersion = 3
    MaxDeks = 4
    x1 = x1
CONSTRAINT NoOverlap
SYMMETRY Symmetry
INVARIANTS
    TypeOK
    KeyHoldersWork
    UnfinishedJobsHaveWorkers
PROPERTIES
    OnlyOvertakenReadsStaySealed
    KeysAreKept
