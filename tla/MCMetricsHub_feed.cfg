\* Two hosts push at once to one browser that comes and goes.
SPECIFICATION Spec
CONSTANTS
    hub = hub
    agent = agent
    ph = ph
    pa = pa
    b1 = b1
    Hosts <- MCHosts
    HubHost = hub
    Watched = {agent}
    Publishers <- MCPublishers
    HostOf <- MCHostOf
    Browsers = {b1}
    Deletable = {}
    Payloads <- MCFeedPayloads
    Skew <- MCSkew
    Capacity = 2
    DiskLogMs = 2
    RetentionMs = 1
    OnlineWindowMs = 1
    StoreMayFail = FALSE
    PruneAt = {}
    MaxNow = 3
    MaxRestarts = 0
INVARIANTS
    TypeOK
    NoLostUpdate
    QueueOrdered
PROPERTIES
    PromiseKept
