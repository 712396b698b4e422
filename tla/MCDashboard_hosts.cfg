CONSTANTS
    Hosts <- MCHosts
    MaxRefreshes = 2
    MaxDeletes = 1
SPECIFICATION Spec
INVARIANTS
    SelectedKnown
    LayoutsStayHome
PROPERTIES
    SelectionKept
    TabsCatchUp
    SilentShown
