CONSTANTS
    Modes <- MCModes
    Timeouts <- MCTimeouts
    MaxQuiet = 2
    PageSize = 2
    MaxCalls = 2
SPECIFICATION Spec
INVARIANTS
    ClosedIsSilent
    ShuffledIsRight
    PanelHasItsButtons
    SaverArmed
    PanelComesBack
PROPERTIES
    SaverNeedsQuiet
    ScreenIsLeased
    IdleScreenSleeps
    NeverStuck
