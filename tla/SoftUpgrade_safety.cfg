SPECIFICATION Spec
CONSTANTS
    Setups <- Rough
    Device = {d1, d2, d3}
    Thread = {t1, t2}
    Job = {j1, j2}
    MaxQueue = 1
    NoDevice = nodev
INVARIANT TypeOK
INVARIANT RequestsBounded
INVARIANT EntryCoversDownload
INVARIANT LoadBounded
INVARIANT LockIsReleased
SYMMETRY Symmetry
CHECK_DEADLOCK FALSE
