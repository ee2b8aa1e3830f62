SPECIFICATION SideSpec
CONSTANTS
  t1 = t1
  t2 = t2
  v1 = v1
  None = None
  ToolsMayFail = TRUE
  Workers = {t1, t2}
  VmIds = {v1}
  Capacity = 1
  Records <- MCRecords
INVARIANTS
  SideTypeOK
  OneVmEverServes
  HostPrintsRecords
  DrainedLogIsPrinted
PROPERTIES
  LoneVmIsServed
