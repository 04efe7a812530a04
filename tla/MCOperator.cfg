SPECIFICATION MCSpec
CONSTANTS
  Approval = {a1}
  Client = {c1, c2}
  NoApproval = NoApproval
  Timed = {a1}
  MaxIterations = 2
  MaxCrashes = 2
  MaxFaults = 1
  Tunnels <- MCTunnels
  MaxExits = 2
  MaxSlow = 2
  Deliveries = {d1, d2}
  HookKeys = {k1}
  MaxOpens = 2
  MaxOpenFaults = 1
  MaxHookEdits = 2
  Bundled = {p1, p2}
  MaxStepFaults = 2
  MaxDaemonCrashes = 1
  MaxWork = 2
  Jobs = {j1}
  Builds = {v1, v2}
  MaxRestores = 2
CHECK_DEADLOCK FALSE
INVARIANTS AcknowledgedDecisionWins UpgradeInv BackupInv 
PROPERTIES OutcomeIsStable DecisionIsDelivered ContextServes
