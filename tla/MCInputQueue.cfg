SPECIFICATION FairSpec
CONSTANTS
    QueueSize  <- MCQueueSize
    IntMax     <- MCIntMax
    MaxReports <- MCMaxReports
INVARIANTS
    TypeOK
    RingHoldsNewest
    NothingForgotten
PROPERTIES
    ImplementsMailbox
    EventuallyDelivered
CHECK_DEADLOCK FALSE
