SPECIFICATION Spec
CONSTANTS
  Devices = {d1}
  Sockets = {c1, c2}
  Prompts = {p1}
  NoDevice = NoDevice
  NoSocket = NoSocket
  MaxStates = 2
INVARIANT KeepsItsWebSocket
CHECK_DEADLOCK FALSE
