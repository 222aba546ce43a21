CONSTANTS
  c1 = c1  c2 = c2
  Levels = {"c", "p", "q", "s", "+"}
  Reserved = {}
  Mixed = {}
  Filters <- ThreeFilters
  Topics <- TwoTopics
  Retained <- NoTopic
  Attributor = TRUE
  DeliverRetained = FALSE
  NumWorkers = 2
  poolIndex <- DefPool
  Callers = {c1, c2}
  MayCall <- DefMayCall
  HandlerCalls = {}
  Refuses = {"start", "rollback", "stop"}
  None = None
  MaxMessages = 2
  MaxPools = 2
  MaxConnections = 1
SPECIFICATION Spec
INVARIANTS TypeOK OneOwner CommandsInOrder StopDrains NoLiveRouteUnlessClosed
PROPERTIES OwnerServed WaitIdleIsABarrier
