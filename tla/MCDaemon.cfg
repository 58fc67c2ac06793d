SPECIFICATION FairSpec
CONSTANTS
    MaxAttempts <- MCMaxAttempts
    Faults      <- MCFaults
INVARIANTS
    JoinedBeforeClose
    NothingSubmittedLate
    UnbindBeforeClose

    
CHECK_DEADLOCK FALSE
