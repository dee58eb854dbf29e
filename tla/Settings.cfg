\* Save, restore and power losses at any time.
CONSTANTS
  MaxDuty = 2
  DefaultMax = 1
  InitDuty = 1
  MaxPulse = 2
  DefaultPulse = 1
SPECIFICATION Spec
INVARIANTS
  TypeOK
  RestoredWhole
  SettledRoundTrip
