SPECIFICATION ServingSpec
CONSTANTS
  t1 = t1
  t2 = t2
  t3 = t3
  v1 = v1
  None = None
  ToolsMayFail = TRUE
  Workers = {t1, t2, t3}
  VmIds = {v1}
  MaxRetries = 1
  Kinds = {"exec", "spawn", "list"}
SYMMETRY Symmetry
INVARIANTS
  OwnResult
  PendingIsQueued
  NoEntryLeft
