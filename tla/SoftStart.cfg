\* The ramp arrives, and strays one increment at most.
CONSTANTS
  MaxDuty = 3
  InitDuty = 2
  MaxIncrement = 2
  MaxDecrement = 1
  Runaway = 3
SPECIFICATION RampFairSpec
INVARIANTS
  RampTypeOK
PROPERTIES
  Settles
