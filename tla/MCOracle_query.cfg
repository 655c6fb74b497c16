SPECIFICATION Spec
CONSTANTS
    p = p
    q = q
    Pools = {p, q}
    Outputs <- MCOutputs
    Payloads <- MCPayloadsOrNone
    Window = 1
    DeleteBudget = 9
    MaxUint64 = 1000
    MaxSlot = 4
    MaxBlocks = 3
    MaxReorgs = 1
    MaxFaults = 0
    QueueCap = 2
INVARIANT VolumeQueryAnswers
CHECK_DEADLOCK FALSE
