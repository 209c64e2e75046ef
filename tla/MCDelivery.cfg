CONSTANTS
    sub = sub
    pub = pub
    Clients = {sub, pub}
    Topics <- MCTopics
    Filters <- MCFilters
    Subscribes <- MCSubscribes
    Unsubscribes <- MCUnsubscribes
    Publishes <- MCPublishes
    Cleans <- MCCleans
    Leaves = {sub}
    TopicAliasMax <- MCTopicAliasMax
    WarmupFilters <- MCWarmupFilters
    MaxConnects <- MCMaxConnects
    ReadCount = 1
    MaxInflight = 2
    MaxOwed = 2
    MaxPublished = 2
SPECIFICATION Spec
INVARIANTS
    TypeOK
    
    LastValue
    AliasKnown
CHECK_DEADLOCK FALSE
