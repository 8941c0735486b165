SPECIFICATION FairSpec
CONSTANTS
  b1 = b1
  b2 = b2
  p1 = p1
  s1 = s1
  Broker <- MCBroker
  Publisher <- MCPublisher
  Subscriber <- MCSubscriber
  GenesisBrokers <- MCBroker
  OperatorRollback = FALSE
  Deadlines = FALSE
  MaxTransitions = 2
  MaxCrashes = 1
  MaxFaults = 1
PROPERTY TransitionEnds
CHECK_DEADLOCK FALSE
