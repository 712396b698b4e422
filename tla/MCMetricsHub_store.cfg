\* One agent pushes while a user removes it, the store is pruned and the hub restarts.
SPECIFICATION Spec
CONSTANTS
    hub = hub
    agent = agent
    ph = ph
    pa = pa
    b1 = b1
    Hosts <- MCHosts
    HubHost = hub
    Watched = {agent}
    Publishers <- MCAgentOnly
    HostOf <- MCAgentHost
    Browsers = {}
    Deletable = {agent}
    Payloads <- MCPayloads
    Skew <- MCSkew
    Capacity = 2
    DiskLogMs = 2
    RetentionMs = 1
    OnlineWindowMs = 1
    StoreMayFail = TRUE
    PruneAt = {2, 3}
    MaxNow = 3
    MaxRestarts = 1
INVARIANTS
    DiskThrottled
    GoneUnlessPushed
PROPERTIES
    StatusNeverRegresses
    PruneKeepsRecent
