SPECIFICATION MCSpec
CONSTANTS
  Versions = {v1, v2}
  Digests = {d1, d2}
  None = None
  Incompatible <- MCIncompatible
  MaxGeneration = 2
  MaxCalls = 3
  MaxFaults = 1
  Callers = {c1}
  Procs <- MCProcs
  MaxCrashes = 1
  MaxEnables = 2
CHECK_DEADLOCK FALSE
INVARIANTS PluginsInv
PROPERTIES ReferencedRowIsKept PluginsConverge
