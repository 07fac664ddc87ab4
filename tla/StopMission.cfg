\* Stops during the whole mission, the return home included.
SPECIFICATION FairSpec
CONSTANTS
    poller = poller
    http = http
    NoCommand = NoCommand
    N = 5
    Kind <- ReturnKind
    MaxGen = 0
    Worker <- MCWorker
    Poller = poller
    Faults = {"stop"}
    Command <- MCCommand
    Opens <- MCOpens
    Consumes <- MCConsumes
INVARIANTS
    DeliveredIsNotFailed
    FreedRobotIsStill
PROPERTIES
    StopResolves
\* A work order comes to its end, and then nothing more happens.
CHECK_DEADLOCK FALSE
