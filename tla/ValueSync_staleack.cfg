SPECIFICATION Spec
CONSTANTS
    Item = {bwlimit}
    Value = {none, slow}
    Unset = none
    Admin = {a1}
    Conn = {1}
    NoConn = 0
    MaxSeq = 2
    MaxQueue = 2
    FaultSets = {{"outage"}}
INVARIANT RecordedMeansInForce
SYMMETRY Symmetry
