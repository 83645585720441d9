SPECIFICATION Spec
CONSTANTS
    Ids = {1, 2, 3, 4}
    Sizes <- MCSizes
    Default = 2
    MaxShards = 2
    MaxSlice = 8
    Since = 0
    MaxRows = 4
    MaxChanges = 2
INVARIANTS TypeOK NothingMissed NoneTwice NeverFails
PROPERTIES ListEnds
CHECK_DEADLOCK FALSE
