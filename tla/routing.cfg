SPECIFICATION Spec
CONSTANTS
  Servers <- MCServers
  Requests <- MCRequests
  Refusals = {400, 404}
  Files <- MCFiles
  DefaultRoot <- MCDefaultRoot
  DefaultIndex <- MCDefaultIndex
  DefaultBodySize = 3
  MaxFailures = 2
INVARIANTS ServedInside LimitsKept  PathsLead AccessDecided 
