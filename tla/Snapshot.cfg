SPECIFICATION MCSpec
CONSTANTS
    MaxWord = 80
    Crc = 99
    BadText = 7
    Altered <- MCAltered
    MaxEdits = 1
    MaxRecords = 2
    MaxReads = 2
    Limit = 40
    Charges <- MCCharges
    FileLength = 4
    MaxEncoded = 2
    MaxDecoded = 2
    Written <- MCWritten
    Alterations <- Edits
    MaxAlterations = 2
    ValidationModes = {"metadata", "full"}
    Width <- MCWidth
    ChunkHeader = 4
    MaxU64 = 40
    MaxObject = 8
    MaxCompressed = 4
    MaxDecompressed = 8
    MaxAuxiliary = 12
    Budgets = {5, 10, 16}
INVARIANTS
    IntactReadsBack
    AcceptedObjectsAreWhole
    BudgetPaysForWhatIsKept
    AcceptedGraphTiles
    WrittenFilesOpen
CHECK_DEADLOCK FALSE
