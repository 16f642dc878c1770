SPECIFICATION Spec
CONSTANTS
  Threads = {"loop", "ntp", "httpd"}
  InvalidKeys = FALSE
  WIFI_MAX_RETRIES = 1
  Budgets <- OneRequest
INVARIANT NetifNeverNull
CHECK_DEADLOCK FALSE
