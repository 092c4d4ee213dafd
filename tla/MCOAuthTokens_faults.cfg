SPECIFICATION Spec
CONSTANTS
  Clients = {k1}
  TokenIds = {t1, t2, t3}
  Calls = {c1, c2}
  Admins = {a1}
  Faults = {"save", "drop", "restart"}
  None = None
SYMMETRY Symmetric
INVARIANTS AccessHasRefresh RemovalSticks DeliveredSurvives OrphansAccounted
