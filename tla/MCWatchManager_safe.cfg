SPECIFICATION LiveSpec
CONSTANTS
    TxIds = {t1}
    UTxOs = {u1}
    Stoppers = {s1, s2}
    MaxWatches = 3
    MaxEvents = 2
INVARIANTS
    TypeOK
    IndexConsistent
    NoCallbackAfterShutdown
PROPERTIES
    StopReturns
    TTLWatchesLeave
CHECK_DEADLOCK FALSE
