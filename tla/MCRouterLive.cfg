CONSTANTS
    sub = sub
    pub = pub
    late = late
    c1 = c1
    c2 = c2
    c3 = c3
    f1 = f1
    f2 = f2
    Link = {sub, pub, late}
    Client = {c1, c2, c3}
    Filter = {f1, f2}
    ClientOf <- MCClientOf
    Clean = {sub, pub, late}
    Sends <- MCSends
    MaxPackets <- MCMaxPackets
    Breaks = {}
    MaxConnections = 2
    MaxInflight = 1
    BufferCapacity = 3
    ReadCount = 1
    Iterations = 2
    EventBatch = 1
    ConsumeBatch = 3
    ChannelCapacity = 1
    NoLink = NoLink
SPECIFICATION FairSpec
PROPERTIES
    
    ConnectAnswered
CHECK_DEADLOCK FALSE
