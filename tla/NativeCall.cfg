CONSTANTS
    Threads = {t1}
    Operations <- MCOperations
    Needs <- MCNeeds
SPECIFICATION CallSpec
INVARIANTS
    OutputLifetimesKept
    OwnErrorReported
    RefusedCallsHaveNoEffect
