CONSTANTS
  Replies <- SomeReplies
  Prefix <- SomePrefixes
  Unprefixed <- SomeNames
  Catalog = {"own"}
  OnPath = {"codex", "gemini"}
  EnvCli = "none"
  TaskWorkspace = "there"
  Budget = 2
  Reserve = 1
  Estimates = {1}
  Costs = {1}
  MaxIterations = 1
  MaxRetries = 0
  PersistAttempts = 1
  MaxRuns = 1
  Faults = {"bootstrap", "memory", "late", "disk"}
  MaxQueries = 1
  QueriesFail = TRUE
SPECIFICATION StatusSpec
CHECK_DEADLOCK FALSE
INVARIANTS SettledAnswer DoneAnswerHasResult
