SPECIFICATION MCSpec
CONSTANTS
  Keys <- MCKeys
  Specs = {s1, s2}
  Results = {ok}
  Editors = {e1}
  MaxRevision = 4
  PageSize = 1
  MaxBreaks = 1
  Runs <- MCRuns
  RunLimit = 1
  EventLimit = 2
  MaxRunEvents = 4
  MaxRunBreaks = 1
CHECK_DEADLOCK FALSE
INVARIANTS StoreInv ShownHistoryIsGapless
PROPERTIES ImplementsSnapshots ViewSettles
