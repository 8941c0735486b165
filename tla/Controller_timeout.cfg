SPECIFICATION FairSpec
CONSTANTS
  b1 = b1
  b2 = b2
  p1 = p1
  s1 = s1
  Broker <- MCBroker
  Publisher <- MCPublisher
  Subscriber <- MCSubscriber
  GenesisBrokers <- MCBroker
  OperatorRollback = FALSE
  Deadlines = TRUE
  MaxTransitions = 1
  MaxCrashes = 0
  MaxFaults = 0
PROPERTY TimeoutRollsBack
CHECK_DEADLOCK FALSE
