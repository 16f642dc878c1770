SPECIFICATION Spec
CONSTANTS
  Order <- MCOrder
  Posted <- MCPosted
  Choice = {1, 2, 3}
  Absent = Absent
  MaxSaves = 2
  MaxBoots = 2
  MaxFaults = 2
CHECK_DEADLOCK FALSE
INVARIANT TypeOK SettingsHaveASource RestartChangesNothing BootApOnce
