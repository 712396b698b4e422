\* One agent pushes to one browser, the stream and the prune timer run.
SPECIFICATION FairSpec
CONSTANTS
    hub = hub
    agent = agent
    ph = ph
    pa = pa
    b1 = b1
    Hosts <- MCHosts
    HubHost = hub
    Watched = {}
    Publishers <- MCAgentOnly
    HostOf <- MCAgentHost
    Browsers = {b1}
    Deletable = {}
    Payloads <- MCFeedPayloads
    Skew <- MCSkew
    Capacity = 1
    DiskLogMs = 2
    RetentionMs = 1
    OnlineWindowMs = 1
    StoreMayFail = FALSE
    PruneAt = {3}
    MaxNow = 3
    MaxRestarts = 0
PROPERTIES
    EventuallyShown
    EventuallyPruned
