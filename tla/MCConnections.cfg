SPECIFICATION Spec
CONSTANTS
    r1 = r1
    r2 = r2
    c1 = c1
    c2 = c2
    Requests <- RequestsMC
    Columns <- ColumnsMC
    SchemaTTL = 2
    None = None
CHECK_DEADLOCK FALSE
INVARIANTS
    TypeOK
    OutdatedHasACause
    NoSettingsWithoutConnection
PROPERTIES
    SettingsAreNotOverwritten
    SchemaHeals
