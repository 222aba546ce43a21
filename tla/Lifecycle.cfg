CONSTANTS
  w1 = w1  w2 = w2  c1 = c1
  Workers = {w1, w2}
  Configs = {c1}
  Callers <- DefCallers
  Topics <- DefTopics
  Empty = Empty
  None = None
  Smart = TRUE
  Supervised = TRUE
  OneAnnouncer = TRUE
  Faults = {"refuse", "reconnect"}
  MaxConnection = 1
  MaxWire = 1
  MaxBoots = 2
  MaxLives = 3
  MaxAsks = 1
  MaxMoves = 1
  MaxInbox = 1
CHECK_DEADLOCK FALSE
SPECIFICATION Spec
INVARIANTS OneWorker LevelShown RestartsWereAsked
PROPERTIES BootReplayed ShutdownEnds
