\* From the setters to the client's display.
CONSTANTS
  Writers = {async_tcp, esp_timer}
  Fields = {f1, f2}
  MaxChanges = 1
  MaxQueue = 2
SPECIFICATION FairSpec
INVARIANTS
  TypeOK
  AnnouncedIsPushed
PROPERTIES
  ClientCatchesUp
  NeverBackwards
