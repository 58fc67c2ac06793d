SPECIFICATION FairSpec
CONSTANTS
    Configs <- MCConfigs
    SeqNumbers = 4
INVARIANTS
    LatestShown
    NumberedInTurn
    RouteFollows
PROPERTY
    EveryUpdateSent
CHECK_DEADLOCK FALSE
