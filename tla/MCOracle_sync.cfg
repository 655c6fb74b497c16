SPECIFICATION Spec
CONSTANTS
    p = p
    q = q
    Pools = {p, q}
    Outputs <- MCOutputs
    Payloads <- MCPayloads
    Window = 1
    DeleteBudget = 1
    MaxUint64 = 1000
    MaxSlot = 4
    MaxBlocks = 4
    MaxReorgs = 1
    MaxFaults = 1
    QueueCap = 2
INVARIANTS
    TypeOK
    NoSwapAboveLatest
    StartNeverRefused
    EventsNeverRejected
    PublishedIsDurable
    CountedIsOnChain
    OnlyStrandedComesBack
PROPERTY DurableSwapsLeaveForAReason
CHECK_DEADLOCK FALSE
