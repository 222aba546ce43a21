CONSTANTS
  p1 = p1  p2 = p2
  Callers = {p1, p2}
  Topics <- DefTopics
  Empty <- DefEmpty
  None = None
  NoDevice = NoDevice
  Unsafe = {}
  Wild = {}
  Dollar = {}
  Units = {"sensor", "lamp", "button", "meter"}
  DeviceOf <- DefDeviceOf
  EntityOf <- DefEntityOf
  Settings = {"own", "zones", "smarthome"}
  LayoutOf <- DefLayoutOf
  EncodingOf <- DefEncodingOf
  QoS = 1
  Guarded <- DefGuarded
  Gone <- DefGone
  MayCall <- DefMayCall
  OneWriter = TRUE
  Faults = {"refuse", "lostAck", "cancel", "idleReconnect", "storeLoss"}
  MaxConnection = 1
  MaxWire = 1
  MaxUnheard = 1
SPECIFICATION Spec
INVARIANTS HomeAssistantSees NothingLeftBehind ReportedIsGone
