SPECIFICATION Spec
CONSTANTS
    a1 = a1
    a2 = a2
    a3 = a3
    b2 = b2
    Peers = {p1}
    Observed = p1
    Genesis = Genesis
    None = None
    Blocks <- MCBlocks
    Parent <- MCParent
    Slot <- MCSlot
    TxsOf <- MCTxsOf
    Wallet = "wallet"
    Pools <- MCPools
    Lending = "lending"
    Cdp = "cdp"
    MaxRecent = 1
    BufferSize = 1
    MaxConnects = 1
    MaxBacklog = 1
    MaxTroubles = 2
INVARIANTS
    StoreIsLedger
    TrackedIsOnChain
    CutOffOnlyByDeepRollback
PROPERTY
    ServesChainClient
CHECK_DEADLOCK FALSE
