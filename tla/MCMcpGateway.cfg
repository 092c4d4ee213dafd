SPECIFICATION FairSpec
CONSTANTS
  cli = cli  web = web
  Clients = {cli, web}
  Proxied = {cli}
  Peer <- SomePeers
  Asks <- SomeAsks
  Agent = "me"
  DefaultKey = "proj"
  WatchKey = "default"
  MemoryTools = {"memory_recall"}
  None = None
  NoSession = NoSession
  MaxLines = 2
  MaxInbox = 1
  MaxStarts = 2
  Faults = {"memory", "crash", "token"}
CHECK_DEADLOCK FALSE
INVARIANTS OwnTask EventsPrivate EndIsHeard
PROPERTY LinesServed
