SPECIFICATION Spec
CONSTANTS
  Advertiser = Advertiser
  Discoverer = Discoverer
  FirstMedium = Bluetooth
  Bluetooth = Bluetooth
  WifiLan = WifiLan
  WifiHotspot = WifiHotspot
  WifiDirect = WifiDirect
  None = None
  UpgradeMediums <- OneMedium
  MaxAttempts = 1
  MaxFaults = 0
  FaultKinds <- FailedOrLeft
  FilterUnconfirmed = TRUE
  InitiallyConnected <- Both
  MaxPayloads <- OneFromAdvertiser
  MaxKeepAlives <- NoneEach
  Requesters <- JustAdvertiser
  MaxRequests = 1
  EncryptUpgraded = TRUE
  IntroductionAck = TRUE
INVARIANT NoDataLossRegardless
CHECK_DEADLOCK FALSE
