SPECIFICATION Spec
CONSTANTS
    Setups <- Rough
    Task = {t1, t2}
    Admin = {a1, a2}
    Fetch = {f1}
    MaxSeq = 2
    MaxQueue = 1
    Empty = empty
    Absent = absent
INVARIANT TypeOK
INVARIANT FileCarriesEdits
PROPERTY ImplementsSettingPush
SYMMETRY Symmetry
