CONSTANTS
  p1 = p1  p2 = p2  d = d  e1 = e1  e2 = e2  f = f
  x = x  y = y  c = c  old = old
  Callers = {p1, p2}
  Docs = {d}
  Ents = {e1, e2, f}
  Bodies = {x, y, c, old}
  Empty = Empty
  None = None
  DocOf <- DefDocOf
  Legacy <- DefLegacy
  Withheld <- DefWithheld
  Prefixed = {d, e1, e2, f}
  Plans <- LivePlans
  Leftovers <- SequentialLeftovers
  QoS = 1
  Generational = TRUE
  SupersedeObserved = TRUE
  LongWindow = FALSE
  Faults = {"crash", "refuse", "cancel"}
  MaxConnection = 0
  MaxEpoch = 0
  MaxWire = 0
SPECIFICATION FairSpec
PROPERTIES CallsReturn
