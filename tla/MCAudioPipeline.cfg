SPECIFICATION FairSpec
CONSTANTS
    Depth      <- MCDepth
    MaxRetries <- MCMaxRetries
    MaxBlocks  <- MCMaxBlocks
INVARIANT NoSleepOverWork
PROPERTIES ImplementsLossyFifo BlocksAreTaken EndsUnlessAsleep
CHECK_DEADLOCK FALSE
