\* A removal meets a push that is being handled.
SPECIFICATION Spec
CONSTANTS
    hub = hub
    agent = agent
    ph = ph
    pa = pa
    b1 = b1
    Hosts <- MCHosts
    HubHost = hub
    Watched = {agent}
    Publishers <- MCAgentOnly
    HostOf <- MCAgentHost
    Browsers = {}
    Deletable = {agent}
    Payloads <- MCPayloads
    Skew <- MCSkew
    Capacity = 2
    DiskLogMs = 2
    RetentionMs = 1
    OnlineWindowMs = 1
    StoreMayFail = FALSE
    PruneAt = {}
    MaxNow = 3
    MaxRestarts = 0
INVARIANTS
    DeletedStaysGone
