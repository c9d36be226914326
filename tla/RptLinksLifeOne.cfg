CONSTANTS
    Nodes = {n1, n2}
    Clients = {web}
    RemoteBases = {n2}
    LinkIds = {a}
    Calls = {c1}
    NoLink = NoLink
    Other = Other
    MaxRetries = 1
    MaxRetriesPerm = 2
    RetryTime = 1
    DiscTime = 1
    MaxConnect = 1
    RequestFails = TRUE
    RadioFails = TRUE
    LongWraps = FALSE
SPECIFICATION FairSpec
INVARIANTS TypeOK NeverStranded ChannelIsServed NoRetriesLeft
PROPERTIES NoRedialAfterDisconnect LifeCycle
