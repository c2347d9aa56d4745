SPECIFICATION Spec
CONSTANTS
    Null = Null
    Unchanged = Unchanged
    Keys = {k1, k2}
    Values = {a}
    MaxiumItemsToSync = 2
    MaxChanges = 1
    MaxClears = 0
    MaxReleases = 1
    MaxSyncs = 0
    MayFail = FALSE
CHECK_DEADLOCK FALSE
INVARIANTS CloseLosesNothing
