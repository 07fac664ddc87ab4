\* Recovery under every fault that Main is to survive.
SPECIFICATION Spec
CONSTANTS
    poller = poller
    watcher = watcher
    http = http
    NoCommand = NoCommand
    Watched = TRUE
    MaxGen = 1
    MaxMoves = 1
    MaxMarks = 1
    Unhurried = TRUE
    Worker <- MCWorker
    Poller = poller
    Watcher = watcher
    Faults = {"loss", "crash", "navcrash", "person", "ai", "stop", "fleet"}
    Command <- MCCommand
    Opens <- MCCommand
    Consumes = {}
INVARIANTS
    HeldTypeOK
    LoadedMoveIsWatched
    OldCommandIsOver
PROPERTIES
    RecoveryEndsInHold
\* A task comes to its end, and then nothing more happens.
CHECK_DEADLOCK FALSE
