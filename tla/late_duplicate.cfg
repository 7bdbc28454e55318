SPECIFICATION Spec
CONSTANTS
  Nodes = {0, 1}
  Sender = 0
  Recipient = 1
  AckStrat = "PerFragment"
  NumSends = 2
  NumFrags = 2
  MultNum = 3
  MultDen = 2
  AckAddition = 2
  Routes <- LossyRoutes
  PromptRoutes <- FastRoutes
  SlowIds = 4
  MaxDrops = 2
INVARIANTS
  DeliveredOnce
