\* Sensor, fan, override and handlers together.
CONSTANTS
  N = 2
  RawSize = 8
  averaged_samples = 2
  Lut <- MCLut
  _in_fsr_bot = 1
  _in_fsr_top = 6
  temp_1_fan_threshold_lo = 0
  temp_1_fan_threshold_hi = 2
SPECIFICATION FairSpec
INVARIANTS
  AuxTypeOK
  FilterIsMean
PROPERTIES
  TemperatureWithinWindow
  NotStoppedWhenHot
  FanFollows
  NoChatter
