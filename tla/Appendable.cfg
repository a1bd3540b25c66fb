SPECIFICATION MCSpec
CONSTANTS
    Writers = {w1, w2}
    NoWriter = NoWriter
    MaxBatchRowGroups = 1
    MaxSessions = 3
    MaxBatches <- MCMaxBatches
    SlotCount = 2
    NoRef = "none"
    RootRefs <- MCRootRefs
    Objects <- MCObjects
    Generation <- MCGeneration
    Kind <- MCKind
    Length <- MCLength
    OutOfRange = {"x"}
    Inventory <- MCInventory
    Limits = {2, 3, 4}
SYMMETRY Symmetry
INVARIANTS
    SessionsAreAtomic
    LockFollowsHandle
    OpenFreshUnlessOverrun
    OpensNewestIntact
    FailuresToldApart
CHECK_DEADLOCK FALSE
