SPECIFICATION MCSpec
CONSTANTS
  d1 = d1
  d2 = d2
  c1 = c1
  c2 = c2
  Devices <- MCDevices
  Sockets <- MCSockets
  Prompts = {p1}
  NoDevice = NoDevice
  NoSocket = NoSocket
  MaxStates = 3
INVARIANTS TypeOK LatestRegistrationWins PendingMatchesSenders LosesItToAPredecessorOnly
PROPERTIES PromptsAreDecisions PromptsEnd
CHECK_DEADLOCK FALSE
