SPECIFICATION Spec
CONSTANTS
    Agents = {a1, a2}
    Handlers = {h1, h2}
    Requests = {r1, r2}
    None = None
    PerAgent = 1
    Total = 2
    MaxRelay = 1
    Deadline = 1
SYMMETRY Symmetry
INVARIANTS AtMostOneDone WithinCaps LeftBehindOnlyByRace OnlineIsServed
PROPERTIES NothingForgottenSilently
CHECK_DEADLOCK FALSE
