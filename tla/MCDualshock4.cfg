SPECIFICATION PadSpec
CONSTANTS
    Configs <- MCConfigs
    Faulty <- MCFaulty
    MaxPads = 2
    MaxRequests = 2
INVARIANTS
    LatestShown
    ForwardedCalibrated
PROPERTY
    PadServed
CHECK_DEADLOCK FALSE
