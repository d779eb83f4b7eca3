SPECIFICATION FairSpec
CONSTANTS
    Item = {bwlimit}
    Value = {none, slow}
    Unset = none
    Admin = {a1}
    Conn = {1}
    NoConn = 0
    MaxSeq = 2
    MaxQueue = 1
    FaultSets = {{}, {"db"}, {"outage", "torn"}}
INVARIANT UndisturbedMeansInForce
PROPERTY EventuallySynced
