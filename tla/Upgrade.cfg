SPECIFICATION FairSpec
CONSTANTS
  Advertiser = Advertiser
  Discoverer = Discoverer
  FirstMedium = Bluetooth
  Bluetooth = Bluetooth
  WifiLan = WifiLan
  WifiHotspot = WifiHotspot
  WifiDirect = WifiDirect
  None = None
  UpgradeMediums <- TwoMediums
  MaxAttempts = 2
  MaxFaults = 0
  FaultKinds <- FailedOrLeft
  FilterUnconfirmed = FALSE
  InitiallyConnected <- JustAdvertiser
  MaxPayloads <- OneFromAdvertiser
  MaxKeepAlives <- NoneEach
  Requesters <- JustAdvertiser
  MaxRequests = 1
  EncryptUpgraded = TRUE
  IntroductionAck = TRUE
CHECK_DEADLOCK FALSE
INVARIANT NoDataLoss
INVARIANT SettledAgreement
PROPERTY UpgradeEnds
PROPERTY PauseEnds
PROPERTY ThreadReturns
PROPERTY DataArrives
PROPERTY StreamSpec
