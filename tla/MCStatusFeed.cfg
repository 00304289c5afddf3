SPECIFICATION FairSpec
CONSTANTS
    Agents = {a1, a2}
    Handlers = {h1, h2}
    Browsers = {b1}
    None = None
    Capacity = 2
INVARIANTS WrongOnlyIfMisled
PROPERTIES ConnectedIsShown
CHECK_DEADLOCK FALSE
