SPECIFICATION Spec
CONSTANTS
    Requests <- MCRequests
    ChannelWorkers = 2
    WaveSize = 2
    Footprint <- MCFootprint
    Budget = 6
INVARIANTS
    ReportsAreTrue
    BudgetHeld
PROPERTIES
    Returned
CHECK_DEADLOCK FALSE
