SPECIFICATION Spec
CONSTANTS
    Peers = {p1, p2}
    Topologies <- MCTopologies
    p1 = p1
    p2 = p2
    Txs = {o1, o2}
    Unparsable = {o2}
    Dividing = {o2}
    ChanCap = 1
    QueueCap = 1
    None = None
    MaxFills <- FillBound
    MaxCloses <- CloseBound
    MaxInbounds <- InboundBound
INVARIANTS
    RelayedOnceInOrder
    AnnouncedHasBody
    
    PeersAreRedialled
PROPERTY
    WaitsOnlyForFullChannel
CHECK_DEADLOCK FALSE
