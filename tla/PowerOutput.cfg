\* async_tcp and app_task interleave freely, with all commands.
CONSTANTS
  async_tcp = async_tcp
  app_task = app_task
  esp_timer = esp_timer
  power_output_timer = power_output_timer
  oc_reset_timer = oc_reset_timer
  None = None
  Commands = {"set_power_pwm_active", "trigger_oneshot", "clear_shutdown", "set_temp_limit"}
  OneCore = FALSE
SPECIFICATION FairSpec
INVARIANTS
  TypeOK
  OffUntilFirstClear
PROPERTIES
  FaultClearedAfterReset
  OvertempShutsDown
  PulseEnds
  ResetLineReleased
