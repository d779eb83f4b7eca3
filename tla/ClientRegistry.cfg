SPECIFICATION FairSpec
CONSTANTS
    Setups <- Unsteady
    d1 = d1
    d2 = d2
    Device = {d1, d2}
    None = None
    ThreadNum = 2
    MaxFd = 3
    MaxNode = 3
    MaxFdNum = 2
INVARIANT TypeOK
INVARIANT NothingDangles
INVARIANT HashesAgree
INVARIANT ConnectedIsOnline
PROPERTY KeyIsReleased
PROPERTY ImplementsPresence
PROPERTY PresenceSettles
CHECK_DEADLOCK FALSE
