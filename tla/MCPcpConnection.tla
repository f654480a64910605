-------------------------- MODULE MCPcpConnection --------------------------
(* Instances of PcpConnection for TLC. *)
EXTENDS PcpConnection

CONSTANTS Alice, Bob

Both == {Alice, Bob}
Each == <<Alice, Bob>>
\* The two nonces are equal or the second is larger.  A tie needs both requests before
\* either is served, so that the first's being larger is the mirror image.
EqualOrLarger == <<{1}, {1, 2}>>
OneOrder == <<{2}, {1}>>
Rejecting == {"reject"}
Anything == {"connect", "break", "timeout", "late", "leave", "reject"}
=============================================================================
