CONSTANTS
    Occ = {o1, o2}
    Run = {r1, r2}
    Plan = {p1}
    Client = {c1}
    NoRun = NoRun
    NoPlan = NoPlan
    MaxActiveRuns = 1
    ListLimit = 2
    MaxCommands = 2
    MaxCrashes = 0
    MaxFaults = 0
SPECIFICATION Spec
INVARIANT AcceptedStartKeepsPlan
