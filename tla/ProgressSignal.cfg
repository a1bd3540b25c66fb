SPECIFICATION SignalSpec
CONSTANTS
    Waiters = {w1, w2}
    Notifiers = {n1, n2}
    MaxGeneration = 3
    NoOne = NoOne
INVARIANTS
    NoLostWakeup
PROPERTIES
    WakesUp
CHECK_DEADLOCK FALSE
