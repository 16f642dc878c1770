SPECIFICATION Spec
CONSTANTS
  Baud = {9600, 115200}
  MaxPlugs = 2
  MaxRequests = 0
PROPERTY DeviceIsReopened
CHECK_DEADLOCK FALSE
