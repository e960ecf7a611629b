SPECIFICATION MCFairSpec
CONSTANTS
  Clients = {"x", "y", "z"}
  Requests <- MCRequests
  Peers <- MCPeers
  Configured <- MCConfigured
  Scripts <- MCScripts
  Environ <- MCEnviron
CHECK_DEADLOCK FALSE
INVARIANTS AsWritten Served ChildrenTended NewestLives
PROPERTIES Built
