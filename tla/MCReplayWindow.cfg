\* A window of three offsets and counters that outrun it twice over.
CONSTANTS
  ReplayWindowSize = 3
  DiffMod = 10
  CounterMod = 16
  MaxCounter = 8
SPECIFICATION Spec
INVARIANT TypeOK WindowExact
PROPERTY RefinesAntiReplay
