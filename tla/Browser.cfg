SPECIFICATION Spec
CONSTANTS
    Profiles = {p, q}
    Accounts = {a, b}
    MaxRequests = 2
    MaxDepth = 4
    MaxOpened = 4
    MaxRows = 1
    None = None
SYMMETRY ProfileSymmetry
CHECK_DEADLOCK FALSE
INVARIANTS TypeOK LeftScreensLetGo
PROPERTIES ScreensShowTheirAnswer
