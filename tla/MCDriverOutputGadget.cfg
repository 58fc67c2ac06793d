SPECIFICATION Spec
CONSTANTS
    Configs <- MCBehindGadget
    SeqNumbers = 4
INVARIANT
    LatestShown
CHECK_DEADLOCK FALSE
