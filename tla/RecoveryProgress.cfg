\* Recovery comes to an end, and an abort releases a robot at rest.
SPECIFICATION FairSpec
CONSTANTS
    poller = poller
    watcher = watcher
    http = http
    NoCommand = NoCommand
    Watched = TRUE
    MaxGen = 0
    MaxMoves = 1
    MaxMarks = 1
    Unhurried = TRUE
    Worker <- MCWorker
    Poller = poller
    Watcher = watcher
    Faults = {"person", "stop", "fleet", "note"}
    Command <- MCCommand
    Opens <- MCCommand
    Consumes = {}
INVARIANTS
    AbortedIsStill
PROPERTIES
    RecoveryEnds
\* A task comes to its end, and then nothing more happens.
CHECK_DEADLOCK FALSE
