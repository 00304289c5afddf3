SPECIFICATION Spec
CONSTANTS
    Agents = {a1}
    Handlers = {h1, h2}
    Edits = {e1}
    Values = {x, y}
    Detected = Detected
    None = None
SYMMETRY Symmetry
INVARIANTS EntryFollowsRow
PROPERTIES OverriddenOnlyByRace
CHECK_DEADLOCK FALSE
