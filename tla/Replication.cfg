SPECIFICATION Spec
CONSTANTS
    p1 = p1
    b1 = b1
    b2 = b2
    cx1 = cx1
    cx2 = cx2
    NULL = NULL
    Self = p1
    Replica = {b1}
    Initial <- OnlyB
    Thread = {"th1"}
    Context = {cx1, cx2}
    MeidOf <- OwnMeid
    Buckets = 2
    HashCode <- OneBucket
    NumReplicas = 1
    Threshold = 0
    Capacity = 3
    PipeFaults = {"meta"}
    RejoinIndexes = {0, 1}
    Workload <- TwoCommands
    MaxInFlight = 1
    MaxFaults = 1
INVARIANTS Inv BackupPrefix NoRangeExit ReplicasNotFreed
PROPERTIES ShippingEnds
CHECK_DEADLOCK FALSE
