CONSTANTS
  Replies <- SomeReplies
  Prefix <- SomePrefixes
  Unprefixed <- SomeNames
  Catalog = {"own"}
  OnPath = {"codex", "gemini"}
  EnvCli = "none"
  TaskWorkspace = "there"
  Budget = 3
  Reserve = 1
  Estimates = {1, 2}
  Costs = {0, 2}
  MaxIterations = 2
  MaxRetries = 1
  PersistAttempts = 2
  MaxRuns = 2
  Faults = {"bootstrap", "llm", "memory", "late", "crash"}
SPECIFICATION FairSpec
CHECK_DEADLOCK FALSE
INVARIANTS DoneIsStored OutcomeKept DoneHasDeliverable LimitsKept
PROPERTIES SessionFollowsResult RunEnds
