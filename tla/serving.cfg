SPECIFICATION ServingSpec
CONSTANTS
  a1 = a1
  a2 = a2
  a3 = a3
  Addr = {a1, a2, a3}
  Listens <- MCListens
  Fd <- MCFd
  ServerNo = 2
  LocationNo = 1
  HeaderTimeout <- MCHeaderTimeout
  BodyTimeout <- MCBodyTimeout
  CgiTimeout <- MCCgiTimeout
  ErrorPages = {400, 408, 504}
  MaxTime = 9
  LastEvent = 2
  Requests <- MCRequests

CHECK_DEADLOCK FALSE
INVARIANTS SocketsTended OwnServer
PROPERTIES NeverEarly SetupEnds Settled
