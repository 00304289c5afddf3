SPECIFICATION FairSpec
CONSTANTS
    Agents = {a1}
    Handlers = {h1, h2}
    Requests = {r1}
    None = None
    PerAgent = 1
    Total = 1
    MaxRelay = 1
    Deadline = 2
PROPERTIES LostLinkEnds LostRequestIsClosed
CHECK_DEADLOCK FALSE
