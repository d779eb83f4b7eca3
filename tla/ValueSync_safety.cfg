SPECIFICATION Spec
CONSTANTS
    Item = {bwlimit}
    Value = {none, slow}
    Unset = none
    Admin = {a1, a2}
    Conn = {1, 2}
    NoConn = 0
    MaxSeq = 2
    MaxQueue = 1
    FaultSets = {{"outage", "db"}}
INVARIANT TypeOK
INVARIANT VersionsAgree
INVARIANT OpenLinkCarriesNewest
PROPERTY SyncedGoesBackOnlyLate
PROPERTY ImplementsSettingPush
SYMMETRY Symmetry
