SPECIFICATION Spec
CONSTANTS
    Puts = {1, 2, 3, 4, 5, 6, 7}
    Kind <- MCKind
    Provider <- MCProvider
    Hashed = {1, 3, 4, 5, 6}
    Concluded = {3}
    Replies <- MCReplies
    Deliveries <- MCDeliveries
    MaxBatch = 2
    Budget = 8
    MaxDeliveries = 2
INVARIANTS TypeOK RegisteredIsStored AcceptanceUnsplit MessagesFit AnsweredIsRegistered RegisteredIsAttested ResponseIsWhole
CHECK_DEADLOCK FALSE
