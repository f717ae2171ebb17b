CONSTANTS
    MaxSeq = 3
    MaxMutations = 3
    MaxForeign = 1
    MaxClock = 5
    MaxCrashes = 0
    MaxLists = 0
SPECIFICATION Spec
CHECK_DEADLOCK FALSE
PROPERTIES
    CloudWinsConflict
