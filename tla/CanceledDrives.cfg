\* A cancel in the wait of a step for Nav2.
CONSTANTS
    r1 = r1
    r2 = r2
    move1 = move1
    dock1 = dock1
    move2 = move2
    s1 = s1
    s2 = s2
    h1 = h1
    Robot <- MCRobot
    NavCmd <- MCNavCmd
    RobotOf <- MCRobotOf
    StepsOf <- MCStepsOf
    Docks <- MCDocks
    Segment <- MCSegment
    SegsOf <- MCSegsOf
    Client = {h1}
    NoCmd = NoCmd
    Disturbed <- MCDisturbed
    NavFaults = {}

SPECIFICATION NavServerSpec

INVARIANT CanceledIsStill
