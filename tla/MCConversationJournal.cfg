CONSTANTS
    MaxSeq = 3
    MaxMutations = 3
    MaxForeign = 1
    MaxClock = 5
    MaxCrashes = 2
    MaxLists = 1
SPECIFICATION Spec
CHECK_DEADLOCK FALSE
INVARIANTS
    TrajectoryComplete
    HeadBehindTrajectory
    NoLocalLoss
PROPERTIES
    
    DeliveredInOrder
