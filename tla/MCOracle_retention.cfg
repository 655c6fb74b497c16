SPECIFICATION Spec
CONSTANTS
    p = p
    q = q
    Pools = {p, q}
    Outputs <- MCOutputs
    Payloads <- MCPayloads
    Window = 1
    DeleteBudget = 1
    MaxUint64 = 1000
    MaxSlot = 4
    MaxBlocks = 4
    MaxReorgs = 1
    MaxFaults = 0
    QueueCap = 2
INVARIANT RestartKeepsVolume
CHECK_DEADLOCK FALSE
