CONSTANTS
  Watcher = watcher
  Clients = {c1}
  MaxListeners = 3
  MaxConnections = 3
  Faults = {"stream", "memory", "clients", "restart"}
SPECIFICATION FairSpec
CHECK_DEADLOCK FALSE
INVARIANTS ListenersOwned SubscriptionReal RemoteAccounted
PROPERTY StraysStop
