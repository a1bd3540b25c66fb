CONSTANTS
    MaxBytes = 40
    ObjectOverhead = 2
    Limits <- MCLimits
    Columns <- MCColumns
    Files <- MCFiles
    OtherFiles <- MCOtherFiles
    Requests <- MCRequests
    KeyRanges <- MCKeyRanges
    SelectionCaps = {1, 3}
    InFlight = {0, 1, 2}
    Subsets <- MCSubsets
    Null = 50
    NaN = 51
    StoredColumns <- MCStoredColumns
    RowGroups <- MCRowGroups
    Codec <- MCCodec
    Nulls <- MCNulls
    Unchecked <- MCUnchecked
    Cell <- MCCell
    Valid <- MCValid
    FillRequests <- MCFillRequests
    Projections <- MCProjections
    FieldSets <- MCFieldSets
    MaxRows = 2
    MaxDamage = 1
    MaxCalls = 6
SPECIFICATION MCSpec
INVARIANTS
    PruningLosesNoRow
    SubsetFollowsPlan
    AdmittedReadsFit
    ReadsAreFaithful
    ReusedBuffersShowOneGroup
    RefusedFillsLeaveBuffers
CHECK_DEADLOCK FALSE
