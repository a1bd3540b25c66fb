SPECIFICATION Spec
CONSTANTS
    Requests <- MCRequests
    ChannelWorkers = 2
    WaveSize = 2
    Footprint <- MCFootprint
    Budget = 6
INVARIANT YieldedReachedVisitor
CHECK_DEADLOCK FALSE
