CONSTANTS
    MaxSeq = 3
    PendingLimit = 2
    MaxFaults = 4
    MaxReadErrors = 1
    MaxStops = 1
SPECIFICATION FairSpec
CHECK_DEADLOCK FALSE
INVARIANTS
    TypeOK
    AcknowledgedDelivered
    Tended
PROPERTIES
    DeliveredInOrder
    EventuallyDelivered
