SPECIFICATION Spec
CONSTANTS
    Tid = {t1, t2}
    Gap = {1, 2}
    Count <- AllCounts
    MaxNow = 4
PROPERTY LockStuck
CHECK_DEADLOCK FALSE
