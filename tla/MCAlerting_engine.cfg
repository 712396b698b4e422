CONSTANTS
    h1 = h1
    r1 = r1
    Hosts = {h1}
    Rules = {r1}
    Shapes <- MCShapes
    MaxHold = 1
    PingTTL = 2
    GiveUp = 3
    MaxProbes = 2
    Fit = 2
    InForce = InForce
    MaxCards = 2
SPECIFICATION Spec
INVARIANTS
    TypeOK
    OverlayHasCard
PROPERTIES
    ProbesSpaced
    Sustained
    CriticalsStay
    EventuallyAlerts
    EventuallyClears
