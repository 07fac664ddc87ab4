\* A day of the order book: requests beside the poller, and what may upset them.
CONSTANTS
    h1 = h1
    h2 = h2
    poller = poller
    Task <- MCTask
    Robot <- MCRobot
    Bin <- MCBin
    Wish <- MCWish
    CapableOf <- MCCapableOf
    Priority <- MCPriority
    InitStock <- MCStock
    InitStaging = 1
    Proc = {h1, h2, poller}
    Days <- MCDays

SPECIFICATION FleetSpec

INVARIANTS
    FleetTypeOK
    RobotAgrees
    ClaimsCovered
    CancelledIsOver

PROPERTIES
    WorkIsTaken

\* The orders of a day come to their end.
CHECK_DEADLOCK FALSE
