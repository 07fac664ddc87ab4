\* One robot whose insertion is measured by its camera, and nothing goes wrong.
CONSTANTS
    Insert = 250
    Burst = 50
    Creep = 2
    Cycles = 1
    Gap = 50
    Backoff = 40
    Vain = 50
    StopAt = 200
    TooClose = 240
    Extra = 30
    Target = 200
    Grip = 150
    MinReverse = 50
    ReverseExtra = 10
    Fallback = 500
    Room = 500
    NearPark = 70
    Slack = 60
    Ways = {"camera"}
    DockFaults = {}
SPECIFICATION DockingSpec
INVARIANT BacksOutToStart
