CONSTANTS
    Occurrences = {1, 2}
    StartingDeadline = 0
    CatchupLimit = 2
    Watch = {w1, w2}
    NoWatch = NoWatch
    MaxTime = 2
    MaxGeneration = 2
    MaxEvents = 2
    MaxDisturbances = 2
SPECIFICATION Spec
SYMMETRY WatchSymmetry
INVARIANTS TriggersInv
PROPERTIES CursorMovesForward ForbidHolds
