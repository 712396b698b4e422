\* Two requests that save at the same time.
SPECIFICATION Spec
CONSTANTS
    h1 = h1
    h2 = h2
    main = main
    Handlers <- MCHandlers
    Main = main
    Bodies <- MCTwoSettings
    SaveMayFail = FALSE
    PortOption = 0
    Refused <- MCRefused
    MaxPosts = 2
    MaxCrashes = 0
    MaxTaken = 0
INVARIANTS
    SettingsPersisted
