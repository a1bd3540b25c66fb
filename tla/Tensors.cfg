SPECIFICATION MCSpec
CONSTANTS
    Originals <- MCOriginals
    MaxFaults = 3
    MaxUsize = 16
    MaxEntries = 3
    MaxWidth = 2
INVARIANTS
    ElementsFollowDefinition
    ReductionsCoverTheirSlots
    RoundTrips
    RowFaultsNeverPass
CHECK_DEADLOCK FALSE
