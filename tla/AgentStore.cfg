SPECIFICATION FairSpec
CONSTANTS
    Tasks = {1, 2}
    Msgs = {1, 2, 3}
    Invs <- MCInvs
    Rcpts <- MCRcpts
    Writers = {w1, w2}
    Readers = {r1}
    NoMsg = NoMsg
    ServeLimit = 6
    MaxWrites = 3
INVARIANTS TypeOK NoWaitCycle
PROPERTIES WritesEnd IsTaskIndex
CHECK_DEADLOCK FALSE
