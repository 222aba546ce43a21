CONSTANTS
  p1 = p1  p2 = p2
  a = a  b = b
  x = x  v1 = v1  v2 = v2
  Callers = {p1, p2}
  Topics = {a, b}
  Empty = Empty
  None = None
  Old = Old
  Vals = {v1, v2}
  Offers <- DefOffers
  Exts = {None, x}
  Times = {1, 2}
  Under = {a}
  Guarded = {b}
  MayCall <- DefMayCall
  OneWriter = TRUE
  Encodings = {"envelope", "status"}
  Stated = {"unset"}
  Faults = {"refuse", "lostAck", "cancel", "idleReconnect", "storeLoss"}
  MaxConnection = 1
  MaxWire = 1
SPECIFICATION Spec
INVARIANTS IInv AcceptedIsRetained NothingLeftBehind
PROPERTIES LcStandsStill
