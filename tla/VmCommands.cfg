SPECIFICATION CommandsSpec
CONSTANTS
  t1 = t1
  t2 = t2
  v1 = v1
  None = None
  ToolsMayFail = FALSE
  Workers = {t1, t2}
  VmIds = {v1}
  MaxRetries = 1
  Kinds = {"exec", "list"}
INVARIANTS
  CommandsTypeOK
  OnlyRivalsAreDisplaced
PROPERTIES
  NoStrandedWorker
