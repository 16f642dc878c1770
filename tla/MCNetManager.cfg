SPECIFICATION Spec
CONSTANTS
  Threads = {"loop", "ntp", "httpd"}
  InvalidKeys = TRUE
  WIFI_MAX_RETRIES = 1
  Budgets <- FaultsOrRequests
INVARIANT TypeOK NoDualRadio BeliefSettles ApExcludesOff LinkHasOneOwner
PROPERTY ServerStarts LeaseLossRestores
CHECK_DEADLOCK FALSE
