---------------------------- MODULE UpgradeStream ----------------------------
(***************************************************************************)
(* BandwidthUpgrade implements PayloadStream: moving a connection from     *)
(* channel to channel keeps the order of the payload frames, and loses     *)
(* none unless a transport fails, an endpoint is removed, or a worker      *)
(* writes on a prior channel after SAFE_TO_CLOSE_PRIOR_CHANNEL.            *)
(***************************************************************************)
EXTENDS BandwidthUpgrade

\* The reader goes from channel to channel and never back: what is left on the
\* channels before the one it holds will not be read any more.
StillUnderWay(p) ==
    UNION {{net[p][c][i].arg : i \in {i \in DOMAIN net[p][c] : net[p][c][i].kind = "DATA"}} :
           c \in {c \in Channels : reader[Other(p)].chan <= c}}

Stream == INSTANCE PayloadStream WITH
    MaxFrames <- MaxPayloads,
    written <- [p \in Peers |-> writer[p].count],
    accepted <- [p \in Peers |-> hist[p].intime],
    pending <- [p \in Peers |-> StillUnderWay(p)],
    got <- [p \in Peers |-> hist[Other(p)].got],
    excused <- SomeoneLate \/ ~AllLinksUp \/ \E p \in Peers : ~Registered(p)

\* The stream of payload frames a client sees is a PayloadStream.
StreamSpec == Stream!Spec

=============================================================================
