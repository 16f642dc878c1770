SPECIFICATION Spec
CONSTANTS
  Node = {"device", "server"}
  Active = {"device"}
  RekeyTimeout = 1
  RekeyAfterTime = 2
  RejectAfterTime = 3
  Keepalive = 1
  RekeyAfterMessages = 1
  RejectAfterMessages = 2
  MaxKeys = 4
  MaxPackets = 2
  MaxClock = 4
  MaxFaults = 1
CHECK_DEADLOCK FALSE
INVARIANT TypeOK NonceUsedOnce KeypairsMatch AnsweredOnce RepeatedOnlyIfConfirming SessionShowsUp CurrNeverStale
PROPERTY RefinesKeyAgreement KeepsTrying
