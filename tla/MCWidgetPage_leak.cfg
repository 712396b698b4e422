CONSTANTS
    a = a
    b = b
    h1 = h1
    h2 = h2
    Hosts = {h1, h2}
    Types = {a, b}
    PageTypes = {a}
    Layouts <- MCLayouts
    NoHost = NoHost
    MaxRequests = 2
    MaxOvertaken = 1
    MaxFetches = 1
SPECIFICATION Spec
INVARIANTS
    NothingLeftBehind
