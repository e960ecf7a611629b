SPECIFICATION Spec
CONSTANTS
  c1 = c1
  c2 = c2
  Nobody = Nobody
  Conn = {c1, c2}
  NListen = 1
  Fd <- Fds7
  ErrorPages = {404, 500}
  FileLen = 1
  Requests <- ReqFaults
  Faults = {"hangup", "ignores", "fork", "crash", "shrink", "late", "stop"}

CHECK_DEADLOCK FALSE
INVARIANTS TypeOK FdOwnership
