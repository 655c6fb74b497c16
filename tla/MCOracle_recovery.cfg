SPECIFICATION LiveSpec
CONSTANTS
    p = p
    q = q
    Pools = {p, q}
    Outputs <- MCOutputs
    Payloads <- MCPayloads
    Window = 1
    DeleteBudget = 9
    MaxUint64 = 1000
    MaxSlot = 4
    MaxBlocks = 3
    MaxReorgs = 1
    MaxFaults = 1
    QueueCap = 2
INVARIANT RestartKeepsVolume
PROPERTY CatchesUp
CHECK_DEADLOCK FALSE
