\* The AI server restarts while it watches a loaded robot.
SPECIFICATION FairSpec
CONSTANTS
    poller = poller
    watcher = watcher
    http = http
    NoCommand = NoCommand
    Watched = TRUE
    MaxGen = 0
    MaxMoves = 1
    MaxMarks = 1
    Unhurried = TRUE
    Worker <- MCWorker
    Poller = poller
    Watcher = watcher
    Faults = {"ai"}
    Command <- MCCommand
    Opens <- MCCommand
    Consumes = {}
PROPERTIES
    MonitorIsReasserted
\* A task comes to its end, and then nothing more happens.
CHECK_DEADLOCK FALSE
