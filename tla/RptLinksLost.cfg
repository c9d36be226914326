\* A redial whose ast_request returns no channel.
CONSTANTS
    Nodes = {n1}
    Clients = {}
    RemoteBases = {}
    LinkIds = {a, b}
    Calls = {}
    NoLink = NoLink
    Other = Other
    MaxRetries = 1
    MaxRetriesPerm = 2
    RetryTime = 1
    DiscTime = 1
    MaxConnect = 1
    RequestFails = TRUE
    RadioFails = FALSE
    LongWraps = FALSE
SPECIFICATION Spec
INVARIANT NoLinkLost
