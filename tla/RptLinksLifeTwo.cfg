\* Two links that the node dials, which cut each other's passes off.
CONSTANTS
    Nodes = {n1}
    Clients = {web}
    RemoteBases = {}
    LinkIds = {a, b}
    Calls = {}
    NoLink = NoLink
    Other = Other
    MaxRetries = 1
    MaxRetriesPerm = 2
    RetryTime = 1
    DiscTime = 1
    MaxConnect = 1
    RequestFails = TRUE
    RadioFails = FALSE
    LongWraps = FALSE
SPECIFICATION FairSpec
PROPERTY LifeCycle
PROPERTY SecondLinkBehindLeaving
