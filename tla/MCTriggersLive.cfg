CONSTANTS
    Occurrences = {1}
    StartingDeadline = 0
    CatchupLimit = 2
    Watch = {w1, w2}
    NoWatch = NoWatch
    MaxTime = 1
    MaxGeneration = 2
    MaxEvents = 1
    MaxDisturbances = 2
SPECIFICATION FairSpec
PROPERTIES DueWorkIsDecided
