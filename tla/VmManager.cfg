SPECIFICATION Spec
CONSTANTS
  t1 = t1
  t2 = t2
  t3 = t3
  v1 = v1
  v2 = v2
  None = None
  ToolsMayFail = TRUE
  Workers = {t1, t2, t3}
  VmIds = {v1, v2}
SYMMETRY Symmetry
INVARIANTS
  TypeOK
  CidsAreUnique
  NoForgottenProcess
  OnlyLateVmsSurvive
