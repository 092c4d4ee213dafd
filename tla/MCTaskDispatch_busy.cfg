SPECIFICATION FairSpec
CONSTANTS
  t1 = t1  t2 = t2  h1 = h1  k1 = k1  p1 = p1
  main = main  NoTask = NoTask
  Tasks <- TwoTasks
  Agents <- OneAgent
  WatchAgent = main
  HttpCalls <- OneHttp
  CourierCalls <- OneCourier
  PollCalls <- OnePoll
  MaxParallel = 1
  TrackerCapacity = 2
  PollLimit = 2
  Faults <- NoFaults
PROPERTY TasksGetResults
