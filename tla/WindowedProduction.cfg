SPECIFICATION Spec
CONSTANTS
    TaskCount = 5
    SelectedRowGroups = 5
    EffectiveThreads = 2
    MaxInFlight = 2
    TaskQueueCapacity = 2
    ResultQueueCapacity = 2
    RowCount <- MCRowCount
    PanicMode = "propagate"
INVARIANTS
    FastPathNeverFull
    BuffersNotShared
PROPERTIES
    ImplementsBatchedVisit
CHECK_DEADLOCK FALSE
