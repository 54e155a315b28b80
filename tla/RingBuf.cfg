CONSTANTS
    p = p
    q = q
    m1 = m1
    m2 = m2
    NULL = NULL
    Producer <- Producers
    Msg <- Messages2
    Size = 4
    Width = 8
    Spurious = TRUE
SPECIFICATION FairSpec
INVARIANTS NoLostWakeup CellsInUse
PROPERTIES QueueImplemented WorkerTakes
CHECK_DEADLOCK FALSE
