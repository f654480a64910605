------------------------- MODULE MCBandwidthUpgrade -------------------------
(* Bounded instances of BandwidthUpgrade for TLC. *)
EXTENDS UpgradeStream, TLC

CONSTANTS WifiDirect, Bluetooth

OneMedium == <<WifiLan>>
TwoMediums == <<WifiLan, WifiHotspot>>

FailedAttempt == {"initialise", "connect", "read alarm"}
BrokenLink == {"link"}
SilentPeer == {"keep-alive"}
FailedOrSilent == FailedAttempt \cup SilentPeer
LeavingClient == {"barrier", "leave"}
\* A silent peer and a leaving client both end in RemoveEndpoint: one of them here.
FailedOrLeft == FailedAttempt \cup BrokenLink \cup LeavingClient

JustAdvertiser == {Advertiser}
Both == {Advertiser, Discoverer}

Each(a, d) == (Advertiser :> a) @@ (Discoverer :> d)
NoneEach == Each(0, 0)
OneFromAdvertiser == Each(1, 0)
OneFromDiscoverer == Each(0, 1)

=============================================================================
