SPECIFICATION PageSpec
CONSTANTS
  None = None
  Socket = {f1, f2}
  MAX_WS_CLIENTS = 2
  MaxJobs = 2
  MaxConns = 3
  MaxObjects = 2
INVARIANT TypeOK ListedOnce ScreenComplete PageTypeOK KeysGoOut NeverGivesUp OutputOnce
PROPERTY KeepsConnecting
CHECK_DEADLOCK FALSE
