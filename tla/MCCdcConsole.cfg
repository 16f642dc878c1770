SPECIFICATION Spec
CONSTANTS
  Baud = {9600, 115200}
  MaxPlugs = 2
  MaxRequests = 2
INVARIANT TypeOK HandleIsCurrent BaudIsCurrent
PROPERTY PluggedIsPublished
CHECK_DEADLOCK FALSE
