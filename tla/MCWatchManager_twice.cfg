SPECIFICATION LiveSpec
CONSTANTS
    TxIds = {t1}
    UTxOs = {u1, u2}
    Stoppers = {s1, s2}
    MaxWatches = 2
    MaxEvents = 2
CHECK_DEADLOCK FALSE
INVARIANT NoCallbackAfterAnyStop
