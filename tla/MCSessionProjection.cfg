CONSTANTS
    Runs = {r1}
    Steer = steer
    Close = close
    Open = open
    MaxEntries = 2
    MaxContent = 2
    MaxFailures = 2
SPECIFICATION FairProjectionSpec
CHECK_DEADLOCK FALSE
INVARIANTS
    RunEndsOnce
PROPERTIES
    ClosedToDrains
    StopDisarmed
