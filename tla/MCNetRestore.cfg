SPECIFICATION Spec
CONSTANTS
  Threads = {"loop", "ntp", "httpd"}
  InvalidKeys = FALSE
  WIFI_MAX_RETRIES = 1
  Budgets <- OneFault
PROPERTY LinkLossRestores
CHECK_DEADLOCK FALSE
