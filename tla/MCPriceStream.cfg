SPECIFICATION LiveSpec
CONSTANTS
    Clients = {c1}
    Api = api
    Conns = {k1}
    BufferSize = 1
    MaxUpdates = 3
    MaxPings = 1
INVARIANTS
    TypeOK
    NoSendOnClosed
    NewestIsKept
    DropsAreCounted
    NoStaleConns
PROPERTIES
    UpdatesArrive
    BroadcasterEnds
CHECK_DEADLOCK FALSE
