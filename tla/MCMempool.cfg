SPECIFICATION Spec
CONSTANTS
    x = x
    y = y
    Pools = {p1, p2}
    TxHashes = {t1, t2}
    Feeders = {f1}
    Assets = {x, y}
    Reserves <- MCReserves
    MaxInt64 = 3
    MaxObjects = 3
    MaxAdds = 2
    MaxConfirms = 2
INVARIANTS
    TypeOK
    OrderMatchesPending
    ResultIsFixed
    ServesWhatWasPublished
PROPERTY DeltasNeverWrap
CHECK_DEADLOCK FALSE
