SPECIFICATION MCSpec
CONSTANTS
  Node = {n1, n2}
  AgentNode = {n2}
  Worker = {w1, w2}
  NoNode = NoNode
  RetryLimit = 1
  MaxActivities = 1
  MaxAgents = 1
  MaxAttempt = 3
  MaxCrashes = 1
  MaxFaults = 1
  Targets = {t1}
  Nobody = Nobody
  Replay = {2}
  Gates = {1, 2}
  MaxPosted = 2
  MaxTurns = 2
  MaxBreaks = 1
CHECK_DEADLOCK FALSE
INVARIANTS NodesInv EventAdvancesOnce
PROPERTIES NodesSettle EventsAreHeard
