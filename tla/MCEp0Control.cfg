SPECIFICATION FairSpec
CONSTANTS
    Requests    <- MCRequests
    MaxRequests <- MCMaxRequests
PROPERTIES
    ImplementsControlPipe
    RequestsEnd
CHECK_DEADLOCK FALSE
