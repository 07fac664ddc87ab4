\* Lost requests and answers, crashes of Main, stops and safety holds together.
SPECIFICATION Spec
CONSTANTS
    poller = poller
    http = http
    NoCommand = NoCommand
    N = 4
    Kind <- ShortKind
    MaxGen = 0
    Worker <- MCWorker
    Poller = poller
    Faults = {"loss", "crash", "stop", "hold"}
    Command <- MCCommand
    Opens <- MCOpens
    Consumes <- MCConsumes
INVARIANTS
    TypeOK
    RunsCurrentStep
    AppliedOnce
    CancelledIsEmpty
PROPERTIES
    AdvanceOnEnd
    ImplementsWorkOrder
\* A work order comes to its end, and then nothing more happens.
CHECK_DEADLOCK FALSE
