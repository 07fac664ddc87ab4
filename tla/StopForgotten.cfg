\* A stop between the phase read and the claim.
SPECIFICATION Spec
CONSTANTS
    poller = poller
    http = http
    NoCommand = NoCommand
    N = 4
    Kind <- ShortKind
    MaxGen = 0
    Worker <- MCWorker
    Poller = poller
    Faults = {"stop"}
    Command <- MCCommand
    Opens <- MCOpens
    Consumes <- MCConsumes
INVARIANTS
    StopIsNotForgotten
\* A work order comes to its end, and then nothing more happens.
CHECK_DEADLOCK FALSE
