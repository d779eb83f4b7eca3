SPECIFICATION Spec
CONSTANTS
    Setups <- Deleting
    Task = {t1, t2}
    Admin = {a1}
    Fetch = {f1}
    MaxSeq = 2
    MaxQueue = 2
    Empty = empty
    Absent = absent
INVARIANT RecordedMeansLoaded
