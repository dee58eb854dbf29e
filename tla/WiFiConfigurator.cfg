\* The device gets on a network in the end.
CONSTANTS
  Networks = {home, office, eal}
  DefaultNetwork = eal
  BadAccessPoints = {office}
  max_reboots = 2
  max_reconnections = 2
  MaxCounter = 4
  MaxPowerLosses = 2
SPECIFICATION FairSpec
INVARIANTS
  TypeOK
  SavedWorkedBefore
PROPERTIES
  GetsUp
