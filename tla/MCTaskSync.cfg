SPECIFICATION SyncSpec
CONSTANTS
    Agents = {a1}
    Handlers = {h1, h2}
    Edits = {c1, c2}
    None = None
SYMMETRY Symmetry
CONSTRAINT ThreeAtMost
INVARIANTS SyncTypeOK MirrorFollowsStore EditsTakeHold
CHECK_DEADLOCK FALSE
