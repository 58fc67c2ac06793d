SPECIFICATION ReportsSpec
CONSTANTS
    Ids <- MCIds
    InLengths <- MCInLengths
    OutLengths <- MCOutLengths
    Bytes <- MCBytes
    MaxLen = 3
    Calibrations <- MCCalibrations
    Reports <- AllReports
    Gaps = {1, 5, 7}
    StampMod = 8
    MicroMod = 11
    GyroRes = 2
    GyroRange = 8
    AccRes = 5
    AccRange = 20
    S16Max = 3
    MaxTouches = 2
    MaxReports = 3
INVARIANTS
    InputWhole
    OutputWhole
    IsCRC32
    ElapsedTime
    OneGravity
CHECK_DEADLOCK FALSE
