--------------------------- MODULE MCChannelLocks ---------------------------
(* Instances of ChannelLocks for TLC. *)
EXTENDS ChannelLocks, TLC

CONSTANTS Payload, KeepAlive

Both == {Payload, KeepAlive}

\* The two writers behave alike, and no property tells them apart.
Alike == Permutations(Both)
=============================================================================
