\* The toggle switches against the state of the device.
CONSTANTS
  MaxRequests = 3
  MaxValue = 3
  Sessions <- MCSessions
  Ssids = {"esp_ajax_lab", "home", "long"}
  TooLong = {"long"}
  DefaultSsid = "esp_ajax_lab"
  MaxSubmits = 1
SPECIFICATION FairSpec
PROPERTIES
  TogglesShowDevice
