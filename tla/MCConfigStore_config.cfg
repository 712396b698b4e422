\* Two requests at a time, failing saves, a restart and a crash.
SPECIFICATION FairSpec
CONSTANTS
    h1 = h1
    h2 = h2
    main = main
    Handlers <- MCHandlers
    Main = main
    Bodies <- MCBodies
    SaveMayFail = TRUE
    PortOption = 0
    Refused <- MCRefused
    MaxPosts = 2
    MaxCrashes = 1
    MaxTaken = 1
INVARIANTS
    TypeOK
    QuietFileCurrent
PROPERTIES
    RestartKeepsSettings
    PortTakesEffect
    ServesAgain
\* A hub that nobody posts to takes no further step.
CHECK_DEADLOCK FALSE
