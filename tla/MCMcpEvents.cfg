CONSTANTS
  a1 = a1  a2 = a2  c1 = c1  c2 = c2  A = A
  Streams = {a1, a2}
  SessionOf <- OneSession
  Calls = {c1, c2}
  Caller <- AndCourier
  NoSession = NoSession
  Steps = 3
  CallersLeave = TRUE
  RunsMayAbort = TRUE
SPECIFICATION FairSpec
CHECK_DEADLOCK FALSE
INVARIANTS Delivered Ordered
PROPERTY TerminalArrives
