CONSTANTS
    Runs <- MCRuns
    Calls <- MCCalls
    Owner <- MCOwner
    Options = {"allow_once", "allow_always", "reject_always"}
    MaxWork = 2
SPECIFICATION FairSpec
CHECK_DEADLOCK FALSE
INVARIANTS
    AllowedByUser
    RequestOwned
    
    LedgerSettled
PROPERTIES
    CancelledEnds
