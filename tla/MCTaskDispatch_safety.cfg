SPECIFICATION Spec
CONSTANTS
  t1 = t1  t2 = t2  h1 = h1  k1 = k1  p1 = p1
  main = main  NoTask = NoTask
  Tasks <- TwoTasks
  Agents <- OneAgent
  WatchAgent = main
  HttpCalls <- OneHttp
  CourierCalls <- OneCourier
  PollCalls <- OnePoll
  MaxParallel = 2
  TrackerCapacity = 1
  PollLimit = 2
  Faults <- AllFaults
SYMMETRY Symmetry
INVARIANTS OneRunPerTask InFlightExact SlotsExact
PROPERTY RunsAreExclusive
