SPECIFICATION MCSpec
CONSTANTS
  N = 3
  MaxParallel = 2
  MaxLoop = 2
  Ids <- MCIds
  Flows <- MCDocuments
  TypeNames = {"boolean", "integer", "number", "object"}
  Sources <- MCSources
  Targets <- MCTargets
  Secrets = {s1, s2}
  Nothing = Nothing
  MaxEdits = 4
CHECK_DEADLOCK FALSE
INVARIANTS SchedulerInv CompilerInv ContractsInv
PROPERTIES InterpreterTerminates RunSeesPinnedCopies
