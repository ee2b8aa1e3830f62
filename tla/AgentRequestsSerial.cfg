SPECIFICATION SerialSpec
CONSTANTS
  r1 = r1
  r2 = r2
  r3 = r3
  vmBuilder = vmBuilder
  topHnLinks = topHnLinks
  None = None
  Requests = {r1, r2, r3}
  Agents = {vmBuilder}
  Tools <- MCTools
  ToolName <- MCToolName
INVARIANTS
  OwnAnswer
PROPERTIES
  AnsweredInTime
