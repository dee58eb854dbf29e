\* The application of one client with the device and another client.
CONSTANTS
  MaxRequests = 3
  MaxValue = 3
  Sessions <- MCSessions
  Ssids = {"esp_ajax_lab", "home", "long"}
  TooLong = {"long"}
  DefaultSsid = "esp_ajax_lab"
  MaxSubmits = 1
SPECIFICATION FairSpec
INVARIANTS
  LabTypeOK
  DeadTimesFit
  NoAccidentalApSsid
PROPERTIES
  ControlsShowDevice
  OperatedControlFollows
