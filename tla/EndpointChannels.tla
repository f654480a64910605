-------------------------- MODULE EndpointChannels --------------------------
(***************************************************************************)
(* The EndpointChannels that connect two endpoints, as the threads of the  *)
(* two devices see them (connections/implementation/base_endpoint_channel).*)
(*                                                                         *)
(* Channel 0 is the one the connection was established on; channel n > 0   *)
(* is the one the n-th bandwidth upgrade attempt offers.  Each device has  *)
(* its own object for a channel; all objects of one device share that      *)
(* device's UKEY2 context, whose sequence numbers are what keeps writes on *)
(* two channels apart.                                                     *)
(***************************************************************************)
EXTENDS Naturals, Sequences, FiniteSets

CONSTANTS
    Advertiser,      \* the device that accepted the incoming connection
    Discoverer,      \* the device that requested it
    FirstMedium,     \* medium of channel 0
    UpgradeMediums,  \* the shared upgrade mediums, best first
    MaxAttempts,     \* bound: upgrade channels ever offered
    MaxFaults,       \* bound: adverse events
    FaultKinds,      \* the kinds of them that may happen
    None             \* no channel, no medium

Peers == {Advertiser, Discoverer}
Other(p) == IF p = Advertiser THEN Discoverer ELSE Advertiser
Channels == 0..MaxAttempts
Mediums == {FirstMedium} \cup {UpgradeMediums[i] : i \in DOMAIN UpgradeMediums}

ASSUME PeersDistinct == Advertiser # Discoverer
ASSUME MediumsTyped ==
    /\ UpgradeMediums \in Seq({UpgradeMediums[i] : i \in DOMAIN UpgradeMediums})
    /\ None \notin Mediums
ASSUME BoundsTyped == MaxAttempts \in Nat /\ MaxFaults \in Nat
ASSUME NoneIsNoChannel == None \notin Channels

\* OfflineFrames, told apart as far as the threads do.
Negotiation == {"PATH", "FAIL", "LAST", "SAFE"}
FrameKinds == Negotiation \cup {"INTRO", "ACK", "DISC", "DATA", "KEEP", "KEEPACK"}
\* seq = 0: written in clear.  arg: the channel a PATH or FAIL is about, the
\* number of a DATA frame, else 0.
Frames ==
    [kind : FrameKinds \ {"DATA"}, seq : Nat, arg : Channels]
    \cup [kind : {"DATA"}, seq : Nat, arg : Nat]

VARIABLES
    chan,   \* chan[p][c]: p's object for c - is_paused_, is_closed_, crypto_context_
    net,    \* net[p][c]: frames p has written on c that the peer has not read
    seq,    \* seq[p]: sequence numbers of p's UKEY2 context, one per direction
    link,   \* link[c]: the medium of c, whether its transport has failed, and
            \* whether it is connected but not accepted yet
    faults  \* adverse events so far: failures, timeouts, the client leaving

channelVars == <<chan, net, seq>>

ChannelStates == [paused : BOOLEAN, closed : BOOLEAN, crypt : BOOLEAN]

Links == [medium : Mediums \cup {None}, broken : BOOLEAN, dialled : BOOLEAN]

ChannelsTypeOK ==
    /\ chan \in [Peers -> [Channels -> ChannelStates]]
    /\ net \in [Peers -> [Channels -> Seq(Frames)]]
    /\ seq \in [Peers -> [sent : Nat, received : Nat]]
    /\ link \in [Channels -> Links]
    /\ faults \in 0..MaxFaults

\* The connection is established, and encrypted, on channel 0.
ChannelsInit ==
    /\ chan = [p \in Peers |-> [c \in Channels |->
                 [paused |-> FALSE, closed |-> FALSE, crypt |-> c = 0]]]
    /\ net = [p \in Peers |-> [c \in Channels |-> << >>]]
    /\ seq = [p \in Peers |-> [sent |-> 0, received |-> 0]]
    /\ link = [c \in Channels |->
                 [medium |-> IF c = 0 THEN FirstMedium ELSE None,
                  broken |-> FALSE, dialled |-> FALSE]]
    /\ faults = 0

-----------------------------------------------------------------------------
(* Write *)

\* The other end, or the transport, is gone: reads and writes may fail.
Down(p, c) == link[c].broken \/ chan[Other(p)][c].closed

Stamp(p, c) == IF chan[p][c].crypt THEN seq[p].sent + 1 ELSE 0

\* EncodeMessageToPeer takes the next number, whatever becomes of the frame.
Encode(p, c) ==
    seq' = IF chan[p][c].crypt THEN [seq EXCEPT ![p].sent = @ + 1] ELSE seq

\* Encoding and sending are one step: writer_mutex_ is held over both.
Sent(p, c, kind, arg) ==
    /\ Encode(p, c)
    /\ net' = [net EXCEPT ![p][c] =
                  Append(@, [kind |-> kind, seq |-> Stamp(p, c), arg |-> arg])]

NotSent(p, c) == Encode(p, c) /\ UNCHANGED net

\* Write returns success.  On a paused channel it waits (BlockUntilUnpaused).
Written(p, c, kind, arg) ==
    /\ ~chan[p][c].paused
    /\ ~chan[p][c].closed
    /\ Sent(p, c, kind, arg)

\* Write returns kIo; the frame was encoded before the writer failed.
WriteFailed(p, c) ==
    /\ ~chan[p][c].paused
    /\ chan[p][c].closed \/ Down(p, c)
    /\ NotSent(p, c)

-----------------------------------------------------------------------------
(* Read *)

Incoming(p, c) == net[Other(p)][c]

CanRead(p, c) == ~chan[p][c].closed /\ Incoming(p, c) # << >>

\* What was queued when the other end closed may or may not still be read.
ReadFails(p, c) == chan[p][c].closed \/ Down(p, c)

\* net once p has read a frame from c
Popped(p, c) == [net EXCEPT ![Other(p)][c] = Tail(@)]

\* What Read makes of frame f.  The context decodes only the next number; a
\* KEEP_ALIVE in clear is let through.  Without a context ciphertext reaches
\* the parser, which rejects it ("garbage").
Decoding(p, c, f) ==
    IF chan[p][c].crypt
    THEN IF f.seq = seq[p].received + 1 THEN "decoded"
         ELSE IF f.seq = 0 /\ f.kind \in {"KEEP", "KEEPACK"} THEN "clear"
         ELSE "invalid"
    ELSE IF f.seq = 0 THEN "clear" ELSE "garbage"

-----------------------------------------------------------------------------
(* Close, Pause, Resume, Enable/DisableEncryption: chan afterwards *)

Closed(p, c) ==
    [chan EXCEPT ![p][c] = [@ EXCEPT !.closed = TRUE, !.paused = FALSE]]

\* (Mutants: Resume and DisableEncryption without effect.)
ResumedNothing(p, c) == chan
UnencryptedNothing(p, c) == chan

Resumed(p, c) == [chan EXCEPT ![p][c].paused = FALSE]

Unencrypted(p, c) == [chan EXCEPT ![p][c].crypt = FALSE]

-----------------------------------------------------------------------------
(* What may go wrong outside the two programs *)

Fault == faults < MaxFaults /\ faults' = faults + 1

Adverse(kind) == kind \in FaultKinds /\ Fault

\* A transport fails, for both ends.
Break(c) ==
    /\ Adverse("link")
    /\ link[c].medium # None
    /\ ~link[c].broken
    /\ link' = [link EXCEPT ![c].broken = TRUE]
    /\ UNCHANGED channelVars

=============================================================================
