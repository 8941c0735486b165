SPECIFICATION Spec
CONSTANTS
  b1 = b1
  b2 = b2
  p1 = p1
  s1 = s1
  Broker <- MCBroker
  Publisher <- MCPublisher
  Subscriber <- MCSubscriber
  GenesisBrokers <- MCBroker
  OperatorRollback = TRUE
  Deadlines = FALSE
  MaxTransitions = 2
  MaxCrashes = 1
  MaxFaults = 1
SYMMETRY BrokerSymmetry
INVARIANTS
  TypeOK
  IInv
  SingleOpenEpoch
  AdvertisedIngressOpen
  PublishedIngressOpen
  CommittedIsDrained
  WireAdvances
  WireIsDurable
  RestartAccepted
  AcknowledgedCommands
PROPERTIES
  CommitIsFinal
  CleanupLosesNothing
CHECK_DEADLOCK FALSE
