CONSTANTS
    Occ = {o1, o2}
    Run = {r1, r2}
    Plan = {p1}
    Client = {c1}
    NoRun = NoRun
    NoPlan = NoPlan
    MaxActiveRuns = 1
    ListLimit = 2
    MaxCommands = 2
    MaxCrashes = 1
    MaxFaults = 1
SPECIFICATION LiveSpec
PROPERTIES IntentsAreServed
