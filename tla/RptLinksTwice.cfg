\* An inbound call and a connect command for the same node.
CONSTANTS
    Nodes = {n1}
    Clients = {}
    RemoteBases = {}
    LinkIds = {a, b}
    Calls = {c1}
    NoLink = NoLink
    Other = Other
    MaxRetries = 1
    MaxRetriesPerm = 2
    RetryTime = 1
    DiscTime = 1
    MaxConnect = 1
    RequestFails = FALSE
    RadioFails = FALSE
    LongWraps = FALSE
SPECIFICATION Spec
INVARIANT OneLinkPerNode
