SPECIFICATION Spec
CONSTANTS
  b1 = b1
  b2 = b2
  p1 = p1
  s1 = s1
  Broker <- MCBroker
  Publisher <- MCPublisher
  Subscriber <- MCSubscriber
  GenesisBrokers <- MCBroker
  OperatorRollback = TRUE
  Deadlines = FALSE
  MaxTransitions = 1
  MaxCrashes = 2
  MaxFaults = 3
SYMMETRY BrokerSymmetry
INVARIANTS
  
  
  WireIsDurable
CHECK_DEADLOCK FALSE
