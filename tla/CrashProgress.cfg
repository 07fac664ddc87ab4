\* Crashes of Main, and transfers that the evidence gate refuses and a person
\* retries.
SPECIFICATION FairSpec
CONSTANTS
    poller = poller
    http = http
    NoCommand = NoCommand
    N = 4
    Kind <- ShortKind
    MaxGen = 1
    Worker <- MCWorker
    Poller = poller
    Faults = {"crash", "refuse"}
    Command <- MCCommand
    Opens <- MCOpens
    Consumes <- MCConsumes
INVARIANTS
    TransfersInOrder
    BookedIsDelivered
PROPERTIES
    MoveSurvivesCrash
    StepEnds
\* A work order comes to its end, and then nothing more happens.
CHECK_DEADLOCK FALSE
