SPECIFICATION FairSpec
CONSTANTS
    Setups <- Rough
    Fetch = {f1, f2}
    MaxSeq = 2
    MaxQueue = 2
INVARIANT TypeOK
INVARIANT GeneratingIsTrue
INVARIANT GeneratedIsShown
PROPERTY ImplementsSettingPush
PROPERTY PreviewEnds
