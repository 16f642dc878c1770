SPECIFICATION Spec
CONSTANTS
  Threads = {"loop", "ntp", "httpd"}
  InvalidKeys = FALSE
  WIFI_MAX_RETRIES = 1
  Budgets <- Undisturbed
INVARIANT EthernetIsDefault
CHECK_DEADLOCK FALSE
