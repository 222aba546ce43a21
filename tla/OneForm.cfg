CONSTANTS
  p1 = p1  p2 = p2  d = d  e1 = e1  e2 = e2  f = f
  x = x  y = y  c = c  old = old
  Callers = {p1, p2}
  Docs = {d}
  Ents = {e1, e2, f}
  Bodies = {x, y, c, old}
  Empty = Empty
  None = None
  DocOf <- DefDocOf
  Legacy <- DefLegacy
  Withheld <- DefWithheld
  Prefixed = {d, e2, f}
  Plans <- OneFormPlans
  Leftovers <- OneFormLeftovers
  QoS = 1
  Generational = FALSE
  SupersedeObserved = TRUE
  LongWindow = TRUE
  Faults = {"refuse", "lostAck", "crash", "cancel", "reconnect", "storeLoss"}
  MaxConnection = 1
  MaxEpoch = 1
  MaxWire = 0
SPECIFICATION Spec
INVARIANTS IInv NoFormConflict OneWindow
PROPERTIES ImplementsTree
