CONSTANTS
    sub = sub
    again = again
    pub = pub
    c1 = c1
    c2 = c2
    f1 = f1
    Link = {sub, again, pub}
    Client = {c1, c2}
    Filter = {f1}
    ClientOf <- MCClientOf
    Clean <- MCClean
    Sends <- MCSends
    MaxPackets <- MCMaxPackets
    Breaks = {sub}
    MaxConnections = 2
    MaxInflight = 1
    BufferCapacity = 3
    ReadCount = 1
    Iterations = 2
    EventBatch = 2
    ConsumeBatch = 1
    ChannelCapacity = 2
    NoLink = NoLink
SPECIFICATION Spec
PROPERTY
    OwnDisconnectOnly
CHECK_DEADLOCK FALSE
