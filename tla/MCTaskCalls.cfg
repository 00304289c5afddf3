\* One call to an agent that may hold two connections at once.
CONSTANTS
    Agents = {a1}
    Handlers = {h1, h2}
    Calls = {c1}
    None = None
SPECIFICATION FairSpec
INVARIANTS WaitersExact ResultReachesCaller
PROPERTIES ImplementsExchange
CHECK_DEADLOCK FALSE
