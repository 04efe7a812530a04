CONSTANTS
    Approval = {a1, a2}
    Client = {c1}
    NoApproval = NoApproval
    Timed = {a1}
    MaxIterations = 1
    MaxCrashes = 1
    MaxFaults = 0
SPECIFICATION FairSpec
PROPERTY DecisionIsDelivered
