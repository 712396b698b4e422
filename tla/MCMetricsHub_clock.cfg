\* The agent's clock is ahead of the hub's.
SPECIFICATION Spec
CONSTANTS
    hub = hub
    agent = agent
    ph = ph
    pa = pa
    b1 = b1
    Hosts <- MCHosts
    HubHost = hub
    Watched = {agent}
    Publishers <- MCAgentOnly
    HostOf <- MCAgentHost
    Browsers = {}
    Deletable = {}
    Payloads <- MCPayloads
    Skew <- MCAgentAhead
    Capacity = 2
    DiskLogMs = 2
    RetentionMs = 1
    OnlineWindowMs = 1
    StoreMayFail = TRUE
    PruneAt = {}
    MaxNow = 4
    MaxRestarts = 0
INVARIANTS
    OnlineMeansHeard
