SPECIFICATION Spec
CONSTANTS
  Advertiser = Advertiser
  Discoverer = Discoverer
  FirstMedium = Bluetooth
  Bluetooth = Bluetooth
  WifiLan = WifiLan
  WifiHotspot = WifiHotspot
  WifiDirect = WifiDirect
  None = None
  UpgradeMediums <- OneMedium
  MaxAttempts = 1
  MaxFaults = 0
  FaultKinds <- FailedOrLeft
  FilterUnconfirmed = TRUE
  InitiallyConnected <- Both
  MaxPayloads <- OneFromDiscoverer
  MaxKeepAlives <- OneFromAdvertiser
  Requesters <- JustAdvertiser
  MaxRequests = 1
  EncryptUpgraded = TRUE
  IntroductionAck = FALSE
CHECK_DEADLOCK FALSE
INVARIANT TypeOK
INVARIANT WireOrder
INVARIANT DesyncOnlyAfterLateWrite
PROPERTY StreamSpec
