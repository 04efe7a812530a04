SPECIFICATION MCSpec
CONSTANTS
  Calls = {c1}
  Kinds = {"exec", "agent", "http"}
  MaxChunks = 2
  MaxIOFaults = 1
  MaxKills = 1
  Numbers = {1, 2, 3}
  Pulls = {1, 2, 3}
  PageSize = 1
  MaxPages = 2
  Overlap = 1
  MaxSeconds = 2
  MaxReviews = 2
  MaxMishaps = 1
  Askers = {a1, a2}
  Markers = {m1, m2}
  MaxListed = 2
  MaxObjects = 3
  MaxLost = 1
  Required = {r1, r2}
  MaxReports = 4
  MaxPushes = 1
  MaxEdits = 3
  MaxMains = 2
  MaxCuts = 2
CHECK_DEADLOCK FALSE
INVARIANTS  GitHubInv WorkspacesInv
PROPERTIES ProvidersSettle
