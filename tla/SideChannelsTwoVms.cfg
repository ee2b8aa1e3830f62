SPECIFICATION SideSpec
CONSTANTS
  t1 = t1
  t2 = t2
  v1 = v1
  v2 = v2
  None = None
  ToolsMayFail = FALSE
  Workers = {t1, t2}
  VmIds = {v1, v2}
  Capacity = 1
  Records <- MCNoRecords
PROPERTIES
  EveryVmServes
