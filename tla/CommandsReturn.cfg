CONSTANTS
  c1 = c1  c2 = c2
  Levels = {"c", "p", "q", "s", "+"}
  Reserved = {}
  Mixed = {}
  Filters <- TwoFilters
  Topics <- OneTopic
  Retained <- Pressed
  Attributor = TRUE
  DeliverRetained = FALSE
  NumWorkers = 2
  poolIndex <- DefPool
  Callers = {c1, c2}
  MayCall <- DefMayCall
  HandlerCalls = {}
  Refuses = {"start", "rollback", "stop", "resubscribe", "lostAck"}
  None = None
  MaxMessages = 2
  MaxPools = 1
  MaxConnections = 1
SPECIFICATION FairSpec
PROPERTIES AcceptedRuns CallsReturn
