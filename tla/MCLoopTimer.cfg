SPECIFICATION Spec
CONSTANTS
    Tid = {t1}
    Gap = {1, 2}
    Count <- UnlimitedOnly
    MaxNow = 4
PROPERTY UnlimitedRuns
CHECK_DEADLOCK FALSE
