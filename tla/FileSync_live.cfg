SPECIFICATION FairSpec
CONSTANTS
    Setups <- Lively
    Task = {t1}
    Admin = {a1, a2}
    Fetch = {f1, f2}
    MaxSeq = 2
    MaxQueue = 1
    Empty = empty
    Absent = absent
INVARIANT RecordedAfterLoaded
PROPERTY EventuallyRecorded
