SPECIFICATION Spec
CONSTANTS
    TaskCount = 4
    SelectedRowGroups = 4
    EffectiveThreads = 2
    MaxInFlight = 3
    TaskQueueCapacity = 1
    ResultQueueCapacity = 1
    RowCount <- MCRowCount
    PanicMode = "convert"
INVARIANTS
    InFlightBounded
    BooksBalance
PROPERTIES
    ImplementsSequentialVisit
    Termination
CHECK_DEADLOCK FALSE
