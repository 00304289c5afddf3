\* An agent that may hold two connections at once; a shell that writes two chunks.
CONSTANTS
    Agents = {a1}
    Handlers = {h1, h2}
    Terms = {t1}
    None = None
    MaxOut = 2
SPECIFICATION FairSpec
INVARIANTS ShownInOrder RoutedWhileOpen ShellLeftOnlyByRace
PROPERTIES ExitIsShown ShellIsLetGo
CHECK_DEADLOCK FALSE
