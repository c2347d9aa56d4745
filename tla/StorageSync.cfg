SPECIFICATION FairSpec
CONSTANTS
    Null = Null
    Unchanged = Unchanged
    Keys = {k1, k2}
    Values = {a}
    MaxiumItemsToSync = 1
    MaxChanges = 2
    MaxClears = 1
    MaxReleases = 1
    MaxSyncs = 1
    MayFail = TRUE
CHECK_DEADLOCK FALSE
INVARIANTS TypeOK LayersAddUp SyncedAtRest SuddenTerminationIsSafe
PROPERTIES EventuallyAtRest
