SPECIFICATION Spec
CONSTANTS
  Node = {"device", "server"}
  Active = {"device"}
  RekeyTimeout = 1
  RekeyAfterTime = 2
  RejectAfterTime = 3
  Keepalive = 1
  RekeyAfterMessages = 2
  RejectAfterMessages = 3
  MaxKeys = 4
  MaxPackets = 1
  MaxClock = 4
  MaxFaults = 0
CHECK_DEADLOCK FALSE
INVARIANT DeliveredOnce
