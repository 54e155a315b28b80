SPECIFICATION Spec
CONSTANTS
    Size = 4
    Threshold = 1
    Term <- Terms
    NULL = NULL
    MaxIndex = 7
INVARIANTS Inv GetFinds CompactionFinds SnapshotMeetsLog
PROPERTIES LogImplemented
CHECK_DEADLOCK FALSE
