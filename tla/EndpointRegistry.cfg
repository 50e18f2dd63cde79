SPECIFICATION Spec
CONSTANTS
  p1 = p1
  p2 = p2
  p3 = p3
  Publishers <- MCPublishers
  NodeOf <- MCNodeOf
  FirstAttempt <- MCFirstAttempt
  MaxConns = 2
  PublishAttempts = 2
  MaxFaults = 1
  MayClose = {1}
CHECK_DEADLOCK FALSE
INVARIANTS
    TieAgreed
    NilOnlyAfterLostTie
PROPERTIES
    PublishedIsHandled
