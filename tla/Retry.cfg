SPECIFICATION Spec
CONSTANTS
  Advertiser = Advertiser
  Discoverer = Discoverer
  FirstMedium = Bluetooth
  Bluetooth = Bluetooth
  WifiLan = WifiLan
  WifiHotspot = WifiHotspot
  WifiDirect = WifiDirect
  None = None
  UpgradeMediums <- TwoMediums
  MaxAttempts = 2
  MaxFaults = 1
  FaultKinds <- FailedOrSilent
  FilterUnconfirmed = TRUE
  InitiallyConnected <- Both
  MaxPayloads <- NoneEach
  MaxKeepAlives <- NoneEach
  Requesters <- Both
  MaxRequests = 1
  EncryptUpgraded = FALSE
  IntroductionAck = TRUE
INVARIANT NotifiedImpliesPeerSwitched
INVARIANT NothingLeft
CHECK_DEADLOCK FALSE
