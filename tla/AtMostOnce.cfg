CONSTANTS
  p1 = p1  p2 = p2  d = d  e1 = e1  e2 = e2  f = f
  x = x  y = y  c = c  old = old
  Callers = {p1, p2}
  Docs = {d}
  Ents = {e1, e2, f}
  Bodies = {x, y, c, old}
  Empty = Empty
  None = None
  DocOf <- DefDocOf
  Legacy <- DefLegacy
  Withheld <- DefWithheld
  Prefixed = {d, e1, e2, f}
  Plans <- DocumentPlans
  Leftovers <- OneFormLeftovers
  QoS = 0
  Generational = TRUE
  SupersedeObserved = FALSE
  LongWindow = TRUE
  Faults = {"idleReconnect", "storeLoss", "crash"}
  MaxConnection = 1
  MaxEpoch = 0
  MaxWire = 2
SPECIFICATION Spec
INVARIANTS GateSound GatedDocsStandAlone
PROPERTIES KeptSurvive
