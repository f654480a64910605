-------------------------- MODULE MCPayloadManager --------------------------
(* Small instances of PayloadManager for TLC. *)
EXTENDS PayloadManager

CONSTANTS PhoneA, PhoneB

OnePhone == {PhoneA}
TwoPhones == {PhoneA, PhoneB}

Anything == {"link", "leave", "barrier", "cancel outgoing", "skip", "read", "attach", "create",
             "cancel incoming", "stop"}
\* Without the broken links and leaving clients: two phones and two sends are
\* too many states with them.
OneTransfer == {"cancel outgoing", "skip", "read", "create", "cancel incoming", "stop"}

=============================================================================
