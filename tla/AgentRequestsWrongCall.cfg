SPECIFICATION Spec
CONSTANTS
  r1 = r1
  r2 = r2
  vmBuilder = vmBuilder
  topHnLinks = topHnLinks
  None = None
  Requests = {r1, r2}
  Agents = {vmBuilder}
  Tools <- MCTools
  ToolName <- MCToolName
SYMMETRY Symmetry
INVARIANTS
  OwnAnswer
