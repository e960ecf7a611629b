SPECIFICATION ServingSpec
CONSTANTS
  a1 = a1
  a2 = a2
  a3 = a3
  Addr = {a1, a2, a3}
  Listens <- MCListens
  Fd <- MCFd
  ServerNo = 2
  LocationNo = 1
  HeaderTimeout <- MCHeaderTimeout
  BodyTimeout <- MCBodyTimeout
  CgiTimeout <- MCCgiTimeout
  ErrorPages = {504}
  MaxTime = 9
  LastEvent = 2
  Requests <- CompleteRequests

CHECK_DEADLOCK FALSE
PROPERTY PageServed
