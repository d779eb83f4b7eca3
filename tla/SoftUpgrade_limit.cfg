SPECIFICATION Spec
CONSTANTS
    Setups <- Limited
    Device = {d1, d2}
    Thread = {t1, t2}
    Job = {j1}
    MaxQueue = 1
    NoDevice = nodev
INVARIANT UpgradesWithinLimit
