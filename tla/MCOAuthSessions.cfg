CONSTANTS
  Ids = {i1, i2}
  c1 = c1
  c2 = c2
  Clients = {c1, c2}
  RedirectUris <- Registered
  Uris = {"there", "elsewhere"}
  Verifiers = {"v", "w"}
  SessionTTL = 3
  PinTTL = 2
  CodeTTL = 2
  MaxPins = 2
  Restarts = TRUE
SPECIFICATION FairSpec
CHECK_DEADLOCK FALSE
INVARIANTS ExchangedOnce CodeIsEarned
PROPERTY Evicted
