\* start() from two tasks racing the expiring timer, the whole interface.
CONSTANTS
  Callers = {async_tcp, loopTask}
  EspTimer = esp_timer
  NoTask = NoTask
  Requested = 3
SPECIFICATION FairSpec
INVARIANTS
  TypeOK
  MutualExclusion
  RoundNeverAbandoned
PROPERTIES
  ImplementsRepeatCycle
  ImplementsCountedTimer
