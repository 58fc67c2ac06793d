SPECIFICATION FairSpec
CONSTANTS
    SeqLimit <- MCSeqLimit
    MaxSent  <- MCMaxSent
INVARIANTS
    NumberedInTurn
    SourceOrder
    StrayConfined
PROPERTY
    ReportsArrive
CHECK_DEADLOCK FALSE
