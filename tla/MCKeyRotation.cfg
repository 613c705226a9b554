SPECIFICATION Spec
CONSTANTS
    a = a
    b = b
    c1 = c1
    Rotators = {a,b}
    Clients = {c1}
    Rows = {x1}
    MaxVersion = 3
    MaxDeks = 3
    x1 = x1
SYMMETRY Symmetry
INVARIANT RowsRecoverable
