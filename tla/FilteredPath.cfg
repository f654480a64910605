SPECIFICATION FairSpec
CONSTANTS
  Advertiser = Advertiser
  Discoverer = Discoverer
  FirstMedium = Bluetooth
  Bluetooth = Bluetooth
  WifiLan = WifiLan
  WifiHotspot = WifiHotspot
  WifiDirect = WifiDirect
  None = None
  UpgradeMediums <- OneMedium
  MaxAttempts = 1
  MaxFaults = 0
  FaultKinds <- FailedOrLeft
  FilterUnconfirmed = TRUE
  InitiallyConnected <- JustAdvertiser
  MaxPayloads <- NoneEach
  MaxKeepAlives <- NoneEach
  Requesters <- JustAdvertiser
  MaxRequests = 1
  EncryptUpgraded = TRUE
  IntroductionAck = TRUE
PROPERTY PathAnswered
CHECK_DEADLOCK FALSE
