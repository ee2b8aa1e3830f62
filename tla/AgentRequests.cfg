SPECIFICATION FairSpec
CONSTANTS
  r1 = r1
  r2 = r2
  vmBuilder = vmBuilder
  topHnLinks = topHnLinks
  None = None
  Requests = {r1, r2}
  Agents = {vmBuilder, topHnLinks}
  Tools <- MCTools
  ToolName <- MCToolName
INVARIANTS
  TypeOK
  AgentIsolation
  MapFollowsAgent
  ActiveRequestIsMapped
  AnsweredLeavesNothing
PROPERTIES
  ShutdownStopsAgents
  OneAnswer
  ServiceSpec
