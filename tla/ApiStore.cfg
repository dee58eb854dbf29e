\* Commands, events, watchdog and reconnection together.
CONSTANTS
  MaxRequests = 3
  MaxTimers = 2
SPECIFICATION FairSpec
INVARIANTS
  StoreTypeOK
PROPERTIES
  LatestIsSent
  SentOnceInOrder
  EndsConnected
  StaleDataDisables
  ImplementsRemoteControl

