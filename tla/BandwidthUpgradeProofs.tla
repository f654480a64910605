----------------------- MODULE BandwidthUpgradeProofs -----------------------
(***************************************************************************)
(* Three theorems of BandwidthUpgrade, for every value of its constants:   *)
(* TypeCorrect, NothingLeftBehind and UpgradedAfterPrior.  Each rests on   *)
(* one lemma per action or kind of action, and those on lemmas about the   *)
(* operators the actions are built from.                                   *)
(***************************************************************************)
EXTENDS BandwidthUpgrade, SequenceTheorems, TLAPS

USE DEF Peers

\* What the assumptions say of the constants.
LEMMA ConstantsTyped ==
    /\ Channels \subseteq Nat /\ 0 \in Channels /\ None \notin Channels
    /\ FirstMedium \in Mediums
    /\ AllUpgradeMediums \subseteq Mediums
    /\ Advertiser \in Peers /\ Discoverer \in Peers
    /\ \A p \in Peers : Other(p) \in Peers
BY BoundsTyped, NoneIsNoChannel DEF Channels, Mediums, AllUpgradeMediums, Other

\* The connection starts well formed.
LEMMA InitTyped == Init => TypeOK
<1> SUFFICES ASSUME Init PROVE TypeOK
  OBVIOUS
<1> USE ConstantsTyped
<1>1. ChannelsTypeOK
  BY BoundsTyped DEF Init, ChannelsInit, ChannelsTypeOK, ChannelStates, Links, Frames
<1>2. WorkersTypeOK
  BY DEF Init, WorkersInit, WorkersTypeOK, Connections, Loops, StartedLoop, Tasks, Histories
<1>3. /\ mgr \in [Peers -> Managers] /\ bwu \in [Peers -> Threads]
      /\ \A p \in Peers : bwu[p].pc = "safe" => mgr[p].previous # None
  BY DEF Init, Managers, Threads
<1>4. opened \in 0..MaxAttempts /\ requests \in [Peers -> 0..MaxRequests]
  BY BoundsTyped, UpgradeTyped DEF Init
<1> QED
  BY <1>1, <1>2, <1>3, <1>4 DEF TypeOK

-----------------------------------------------------------------------------
(* What the operators of the channels and the workers return *)

NetTyped == net \in [Peers -> [Channels -> Seq(Frames)]]
SeqTyped == seq \in [Peers -> [sent : Nat, received : Nat]]
ChanTyped == chan \in [Peers -> [Channels -> ChannelStates]]

\* Encoding a frame leaves the sequence numbers natural numbers.
LEMMA EncodeTyped ==
  ASSUME ChannelsTypeOK, NEW p \in Peers, NEW c, Encode(p, c)
  PROVE  SeqTyped'
<1>1. SeqTyped
  BY DEF ChannelsTypeOK, SeqTyped
<1>2. [seq[p] EXCEPT !.sent = @ + 1] \in [sent : Nat, received : Nat]
  BY <1>1 DEF SeqTyped
<1> QED
  BY <1>1, <1>2 DEF Encode, SeqTyped

\* A frame that is sent is numbered and queued as a frame.
LEMMA SentTyped ==
  ASSUME ChannelsTypeOK, NEW p \in Peers, NEW c \in Channels, NEW kind, NEW arg,
         [kind |-> kind, seq |-> 0, arg |-> arg] \in Frames, Sent(p, c, kind, arg)
  PROVE  NetTyped' /\ SeqTyped'
<1> DEFINE f == [kind |-> kind, seq |-> Stamp(p, c), arg |-> arg]
<1>1. SeqTyped'
  BY EncodeTyped DEF Sent
<1>2. f \in Frames
  BY DEF Frames, Stamp, ChannelsTypeOK
<1>3. NetTyped'
  BY <1>2 DEF NetTyped, Sent, ChannelsTypeOK
<1> QED
  BY <1>1, <1>3

\* Only DATA frames carry an argument that is no channel.
LEMMA PlainFrameTyped ==
  ASSUME NEW kind \in FrameKinds \ {"DATA"}, NEW arg \in Channels
  PROVE  [kind |-> kind, seq |-> 0, arg |-> arg] \in Frames
BY DEF Frames

\* A write, successful or not, keeps the channels' sorts.
LEMMA WriteTyped ==
  ASSUME ChannelsTypeOK, NEW p \in Peers, NEW c \in Channels,
         NEW kind \in FrameKinds \ {"DATA"}, NEW arg \in Channels,
         Written(p, c, kind, arg) \/ WriteFailed(p, c)
  PROVE  NetTyped' /\ SeqTyped'
BY SentTyped, EncodeTyped, PlainFrameTyped
   DEF Written, WriteFailed, NotSent, NetTyped, ChannelsTypeOK

\* A read takes a frame and leaves a queue of frames.
LEMMA PoppedTyped ==
  ASSUME NetTyped, NEW p \in Peers, NEW c \in Channels, CanRead(p, c)
  PROVE  /\ Popped(p, c) \in [Peers -> [Channels -> Seq(Frames)]]
         /\ Head(Incoming(p, c)) \in Frames
BY ConstantsTyped DEF NetTyped, Popped, CanRead, Incoming

\* Pause, Resume, Close and DisableEncryption give channel states.
LEMMA ChannelStateTyped ==
  ASSUME NEW r \in ChannelStates
  PROVE  /\ [r EXCEPT !.paused = FALSE] \in ChannelStates
         /\ [r EXCEPT !.crypt = FALSE] \in ChannelStates
         /\ [r EXCEPT !.closed = TRUE, !.paused = FALSE] \in ChannelStates
         /\ \A b \in BOOLEAN : [r EXCEPT !.paused = TRUE, !.crypt = b] \in ChannelStates
BY DEF ChannelStates

\* The same for the map of all channels.
LEMMA ClosedTyped ==
  ASSUME ChanTyped, NEW p \in Peers, NEW c \in Channels
  PROVE  /\ Closed(p, c) \in [Peers -> [Channels -> ChannelStates]]
         /\ Resumed(p, c) \in [Peers -> [Channels -> ChannelStates]]
         /\ Unencrypted(p, c) \in [Peers -> [Channels -> ChannelStates]]
<1>1. chan[p][c] \in ChannelStates
  BY DEF ChanTyped
<1>2. /\ [chan[p][c] EXCEPT !.paused = FALSE] \in ChannelStates
      /\ [chan[p][c] EXCEPT !.crypt = FALSE] \in ChannelStates
      /\ [chan[p][c] EXCEPT !.closed = TRUE, !.paused = FALSE] \in ChannelStates
  BY <1>1, ChannelStateTyped
<1>3. Closed(p, c) \in [Peers -> [Channels -> ChannelStates]]
  BY <1>2 DEF Closed, ChanTyped
<1>4. Resumed(p, c) \in [Peers -> [Channels -> ChannelStates]]
  BY <1>2 DEF Resumed, ChanTyped
<1>5. Unencrypted(p, c) \in [Peers -> [Channels -> ChannelStates]]
  BY <1>2 DEF Unencrypted, ChanTyped
<1> QED
  BY <1>3, <1>4, <1>5

\* A worker that fetches a channel, or fails on one, stays a worker.
LEMMA LoopTyped ==
  ASSUME ChannelsTypeOK, WorkersTypeOK, NEW p \in Peers, NEW loop \in Loops
  PROVE  LoopFetch(p, loop) \in Loops /\ LoopFailed(loop) \in Loops
<1>1. conn[p].active \in Channels \cup {None}
  BY DEF WorkersTypeOK, Connections
<1>2. loop.chan \in Channels /\ link[loop.chan].medium \in Mediums \cup {None}
  BY DEF Loops, ChannelsTypeOK, Links
<1> QED
  BY <1>1, <1>2 DEF LoopFetch, LoopFailed, Loops

\* Posting to BwuManager's executor gives a queue of tasks.
LEMMA PostTyped ==
  ASSUME WorkersTypeOK, NEW p \in Peers, NEW kind, NEW arg,
         [kind |-> kind, arg |-> arg] \in Tasks
  PROVE  Post(p, kind, arg) \in Seq(Tasks)
BY DEF WorkersTypeOK, Post

LoopPoints == {"fetch", "idle", "read", "ack", "done"}

\* Moving a worker to its next step keeps it a worker.
LEMMA LoopAtTyped ==
  ASSUME NEW loop \in Loops
  PROVE  /\ \A pc \in LoopPoints : [loop EXCEPT !.pc = pc] \in Loops
         /\ \A n \in Nat : [loop EXCEPT !.count = n] \in Loops
         /\ \A n \in Nat : [loop EXCEPT !.pc = "fetch", !.count = n] \in Loops
         /\ \A c \in Channels : [loop EXCEPT !.pc = "idle", !.chan = c] \in Loops
BY DEF Loops, LoopPoints

\* Every update of the history gives a history.
LEMMA HistoryTyped ==
  ASSUME NEW h \in Histories, NEW b \in BOOLEAN, NEW n \in Nat, NEW c \in Channels
  PROVE  /\ [h EXCEPT !.late = b] \in Histories
         /\ [h EXCEPT !.desync = b] \in Histories
         /\ [h EXCEPT !.got = Append(@, n)] \in Histories
         /\ [h EXCEPT !.intime = @ \cup {n}] \in Histories
         /\ [h EXCEPT !.overdue = @ \cup {n}, !.late = TRUE] \in Histories
         /\ [h EXCEPT !.safe = @ \cup {c}] \in Histories
         /\ [h EXCEPT !.notified = @ \cup {c}] \in Histories
<1>1. [h EXCEPT !.late = b] \in Histories
  BY DEF Histories
<1>2. [h EXCEPT !.desync = b] \in Histories
  BY DEF Histories
<1>3. [h EXCEPT !.got = Append(@, n)] \in Histories
  <2>1. Append(h.got, n) \in Seq(Nat)
    BY DEF Histories
  <2> QED
    BY <2>1 DEF Histories
<1>4. [h EXCEPT !.intime = @ \cup {n}] \in Histories
  BY DEF Histories
<1>5. [h EXCEPT !.overdue = @ \cup {n}, !.late = TRUE] \in Histories
  BY DEF Histories
<1>6. [h EXCEPT !.safe = @ \cup {c}] \in Histories
  BY DEF Histories
<1>7. [h EXCEPT !.notified = @ \cup {c}] \in Histories
  BY DEF Histories
<1> QED
  BY <1>1, <1>2, <1>3, <1>4, <1>5, <1>6, <1>7

\* TypeOK, taken apart for one device.
LEMMA PeerTyped ==
  ASSUME TypeOK, NEW p \in Peers
  PROVE  /\ ChannelsTypeOK /\ WorkersTypeOK
         /\ NetTyped /\ ChanTyped /\ SeqTyped
         /\ conn[p] \in Connections /\ hist[p] \in Histories
         /\ reader[p] \in Loops /\ keeper[p] \in Loops /\ writer[p] \in Loops
         /\ reader[p].chan \in Channels /\ keeper[p].chan \in Channels
         /\ writer[p].chan \in Channels
         /\ keeper[p].count \in Nat /\ writer[p].count \in Nat
BY DEF TypeOK, ChannelsTypeOK, WorkersTypeOK, NetTyped, ChanTyped, SeqTyped, Loops

-----------------------------------------------------------------------------
(* The workers *)

ManagerUnchanged == UNCHANGED <<mgr, bwu, opened, requests>>

\* One lemma per step of a worker: it keeps TypeOK.
LEMMA ReaderFetchTyped ==
  ASSUME TypeOK, NEW p \in Peers, ReaderFetch(p), ManagerUnchanged
  PROVE  TypeOK'
<1>1. LoopFetch(p, reader[p]) \in Loops
  BY PeerTyped, LoopTyped
<1> QED
  BY <1>1 DEF ReaderFetch, ManagerUnchanged, channelVars, TypeOK, ChannelsTypeOK,
              WorkersTypeOK

LEMMA ReaderReadTyped ==
  ASSUME TypeOK, NEW p \in Peers, ReaderRead(p), ManagerUnchanged
  PROVE  TypeOK'
<1>1. [reader[p] EXCEPT !.pc = "read"] \in Loops
  BY PeerTyped, LoopAtTyped DEF LoopPoints
<1> QED
  BY <1>1 DEF ReaderRead, ManagerUnchanged, channelVars, TypeOK, ChannelsTypeOK,
              WorkersTypeOK

LEMMA ReaderFailTyped ==
  ASSUME TypeOK, NEW p \in Peers, ReaderFail(p), ManagerUnchanged
  PROVE  TypeOK'
<1>1. LoopFailed(reader[p]) \in Loops
  BY PeerTyped, LoopTyped
<1> QED
  BY <1>1 DEF ReaderFail, ManagerUnchanged, channelVars, TypeOK, ChannelsTypeOK,
              WorkersTypeOK

\* Noting a late write gives a history.
LEMMA NotedTyped ==
  ASSUME TypeOK, NEW p \in Peers, NEW c \in Channels
  PROVE  Noted(p, c) \in [Peers -> Histories]
<1>1. [hist[p] EXCEPT !.late = TRUE] \in Histories
  BY PeerTyped, HistoryTyped, ConstantsTyped
<1>2. hist[p].late \in BOOLEAN
  BY PeerTyped DEF Histories
<1>3. CASE c \in hist[p].safe
  BY <1>1, <1>3 DEF Noted, TypeOK, WorkersTypeOK
<1>4. CASE c \notin hist[p].safe
  BY <1>2, <1>4, PeerTyped DEF Noted, TypeOK, WorkersTypeOK, Histories
<1> QED
  BY <1>3, <1>4

LEMMA ReaderAckTyped ==
  ASSUME TypeOK, NEW p \in Peers, ReaderAck(p), ManagerUnchanged
  PROVE  TypeOK'
<1> DEFINE c == reader[p].chan
<1>1. c \in Channels
  BY PeerTyped
<1>2. NetTyped' /\ SeqTyped'
  <2>1. Written(p, c, "KEEPACK", 0) \/ WriteFailed(p, c)
    BY DEF ReaderAck
  <2>2. "KEEPACK" \in FrameKinds \ {"DATA"} /\ 0 \in Channels
    BY ConstantsTyped DEF FrameKinds
  <2>3. ChannelsTypeOK
    BY PeerTyped
  <2> QED
    BY <1>1, <2>1, <2>2, <2>3, WriteTyped
<1>3. reader' \in [Peers -> Loops]
  <2>1. LoopFailed(reader[p]) \in Loops /\ [reader[p] EXCEPT !.pc = "idle"] \in Loops
    BY PeerTyped, LoopTyped, LoopAtTyped DEF LoopPoints
  <2> QED
    BY <2>1 DEF ReaderAck, TypeOK, WorkersTypeOK
<1>4. hist' \in [Peers -> Histories]
  BY <1>1, NotedTyped DEF ReaderAck, TypeOK, WorkersTypeOK
<1> QED
  BY <1>2, <1>3, <1>4 DEF ReaderAck, ManagerUnchanged, TypeOK, ChannelsTypeOK,
                          WorkersTypeOK, NetTyped, SeqTyped

\* Handing a decoded frame to its processor keeps the sorts.
LEMMA RouteTyped ==
  ASSUME TypeOK, NEW p \in Peers, NEW f \in Frames, Route(p, reader[p].chan, f)
  PROVE  /\ ChanTyped' /\ hist' \in [Peers -> Histories]
         /\ reader' \in [Peers -> Loops] /\ tasks' \in [Peers -> Seq(Tasks)]
<1> DEFINE c == reader[p].chan
<1>1. /\ [reader[p] EXCEPT !.pc = "idle"] \in Loops
      /\ [reader[p] EXCEPT !.pc = "ack"] \in Loops
  BY PeerTyped, LoopAtTyped DEF LoopPoints
<1>2. reader' \in [Peers -> Loops]
  BY <1>1 DEF Route, TypeOK, WorkersTypeOK
<1>3. ChanTyped'
  <2>1. c \in Channels /\ ChanTyped
    BY PeerTyped
  <2>2. Closed(p, c) \in [Peers -> [Channels -> ChannelStates]]
    BY <2>1, ClosedTyped
  <2> QED
    BY <2>1, <2>2 DEF Route, ChanTyped
<1>4. hist' \in [Peers -> Histories]
  <2>1. CASE f.kind = "DATA"
    <3>1. f.arg \in Nat
      BY ConstantsTyped DEF Frames
    <3>2. [hist[p] EXCEPT !.got = Append(@, f.arg)] \in Histories
      BY <3>1, PeerTyped, HistoryTyped, ConstantsTyped
    <3> QED
      BY <2>1, <3>2 DEF Route, Negotiation, TypeOK, WorkersTypeOK
  <2>2. CASE f.kind # "DATA"
    BY <2>2 DEF Route, TypeOK, WorkersTypeOK
  <2> QED
    BY <2>1, <2>2
<1>5. tasks' \in [Peers -> Seq(Tasks)]
  <2>1. CASE f.kind \in Negotiation
    <3>1. f.arg \in Channels
      BY <2>1 DEF Frames, Negotiation
    <3>2. Post(p, f.kind, f.arg) \in Seq(Tasks)
      BY <2>1, <3>1, PeerTyped, PostTyped DEF Tasks
    <3> QED
      BY <3>2 DEF Route, TypeOK, WorkersTypeOK
  <2>2. CASE f.kind \notin Negotiation
    BY <2>2 DEF Route, TypeOK, WorkersTypeOK
  <2> QED
    BY <2>1, <2>2
<1> QED
  BY <1>2, <1>3, <1>4, <1>5

LEMMA ReaderFrameTyped ==
  ASSUME TypeOK, NEW p \in Peers, ReaderFrame(p), ManagerUnchanged
  PROVE  TypeOK'
<1> DEFINE c == reader[p].chan
           f == Head(Incoming(p, c))
           d == Decoding(p, c, f)
<1>1. c \in Channels /\ NetTyped /\ SeqTyped
  BY PeerTyped
<1>2. NetTyped' /\ f \in Frames
  <2>1. CanRead(p, c) /\ net' = Popped(p, c)
    BY DEF ReaderFrame
  <2> QED
    BY <1>1, <2>1, PoppedTyped DEF NetTyped
<1>3. SeqTyped'
  BY <1>1 DEF ReaderFrame, SeqTyped
<1>4. UNCHANGED <<link, faults, conn, keeper, writer>>
  BY DEF ReaderFrame
<1>5. /\ ChanTyped' /\ hist' \in [Peers -> Histories]
      /\ reader' \in [Peers -> Loops] /\ tasks' \in [Peers -> Seq(Tasks)]
  <2>1. CASE Route(p, c, f)
    BY <1>2, <2>1, RouteTyped
  <2>2. CASE /\ reader' = [reader EXCEPT ![p] = LoopFailed(@)]
             /\ hist' = [hist EXCEPT ![p].desync = @ \/ f.seq # 0]
             /\ UNCHANGED <<chan, tasks>>
    <3>1. LoopFailed(reader[p]) \in Loops
      BY PeerTyped, LoopTyped
    <3>2. (hist[p].desync \/ f.seq # 0) \in BOOLEAN
      OBVIOUS
    <3>3. [hist[p] EXCEPT !.desync = (hist[p].desync \/ f.seq # 0)] \in Histories
      BY <3>2, PeerTyped, HistoryTyped, ConstantsTyped
    <3> QED
      BY <2>2, <3>1, <3>3 DEF ChanTyped, TypeOK, ChannelsTypeOK, WorkersTypeOK
  <2>3. CASE /\ reader' = [reader EXCEPT ![p].pc = "idle"]
             /\ UNCHANGED <<chan, tasks, hist>>
    <3>1. [reader[p] EXCEPT !.pc = "idle"] \in Loops
      BY PeerTyped, LoopAtTyped DEF LoopPoints
    <3> QED
      BY <2>3, <3>1 DEF ChanTyped, TypeOK, ChannelsTypeOK, WorkersTypeOK
  <2> QED
    BY <2>1, <2>2, <2>3 DEF ReaderFrame
<1> QED
  BY <1>2, <1>3, <1>4, <1>5
  DEF ManagerUnchanged, TypeOK, ChannelsTypeOK, WorkersTypeOK, NetTyped, SeqTyped, ChanTyped

LEMMA KeeperTyped ==
  ASSUME TypeOK, NEW p \in Peers, KeeperStep(p) \/ KeeperTimeout(p), ManagerUnchanged
  PROVE  TypeOK'
<1> DEFINE c == keeper[p].chan
<1>0. keeper[p] \in Loops /\ ChannelsTypeOK /\ WorkersTypeOK
  BY PeerTyped
<1>1. /\ LoopFetch(p, keeper[p]) \in Loops /\ LoopFailed(keeper[p]) \in Loops
      /\ [keeper[p] EXCEPT !.pc = "done"] \in Loops
      /\ [keeper[p] EXCEPT !.count = @ + 1] \in Loops
  <2>1. keeper[p].count + 1 \in Nat
    BY PeerTyped
  <2>2. LoopFetch(p, keeper[p]) \in Loops /\ LoopFailed(keeper[p]) \in Loops
    BY <1>0, LoopTyped
  <2> QED
    BY <1>0, <2>1, <2>2, LoopAtTyped DEF LoopPoints
<1>2. CASE KeeperFetch(p)
  BY <1>1, <1>2 DEF KeeperFetch, ManagerUnchanged, channelVars, TypeOK, ChannelsTypeOK,
                    WorkersTypeOK
<1>3. CASE KeeperTimeout(p)
  <2>1. faults' \in 0..MaxFaults
    BY <1>3, BoundsTyped DEF KeeperTimeout, Adverse, Fault, TypeOK, ChannelsTypeOK
  <2> QED
    BY <1>1, <1>3, <2>1 DEF KeeperTimeout, ManagerUnchanged, channelVars, TypeOK,
                            ChannelsTypeOK, WorkersTypeOK
<1>4. CASE KeeperWrite(p)
  <2>1. c \in Channels /\ ChannelsTypeOK
    BY PeerTyped
  <2>2. "KEEP" \in FrameKinds \ {"DATA"} /\ 0 \in Channels
    BY ConstantsTyped DEF FrameKinds
  <2>3. Written(p, c, "KEEP", 0) \/ WriteFailed(p, c)
    BY <1>4 DEF KeeperWrite
  <2>4. NetTyped' /\ SeqTyped'
    BY <2>1, <2>2, <2>3, WriteTyped
  <2>5. hist' \in [Peers -> Histories]
    BY <1>4, <2>1, NotedTyped DEF KeeperWrite, TypeOK, WorkersTypeOK
  <2>6. keeper' \in [Peers -> Loops]
    BY <1>1, <1>4 DEF KeeperWrite, TypeOK, WorkersTypeOK
  <2> QED
    BY <1>4, <2>4, <2>5, <2>6 DEF KeeperWrite, ManagerUnchanged, TypeOK, ChannelsTypeOK,
                            WorkersTypeOK, NetTyped, SeqTyped
<1> QED
  BY <1>2, <1>3, <1>4 DEF KeeperStep

LEMMA WriterTyped ==
  ASSUME TypeOK, NEW p \in Peers, WriterStep(p), ManagerUnchanged
  PROVE  TypeOK'
<1> DEFINE c == writer[p].chan
           n == writer[p].count + 1
<1>1. c \in Channels /\ n \in Nat /\ ChannelsTypeOK /\ hist[p] \in Histories
  BY PeerTyped
<1>2. CASE WriterFetch(p)
  <2>1. conn[p].active \in Channels
    BY <1>2, PeerTyped DEF WriterFetch, Connections
  <2>2. [writer[p] EXCEPT !.pc = "idle", !.chan = conn[p].active] \in Loops
    BY <2>1, PeerTyped, LoopAtTyped
  <2> QED
    BY <1>2, <2>2 DEF WriterFetch, ManagerUnchanged, channelVars, TypeOK, ChannelsTypeOK,
                      WorkersTypeOK
<1>3. CASE WriterWrite(p)
  <2>1. [writer[p] EXCEPT !.pc = "fetch", !.count = n] \in Loops
    BY <1>1, PeerTyped, LoopAtTyped
  <2>2. [kind |-> "DATA", seq |-> 0, arg |-> n] \in Frames
    BY <1>1 DEF Frames
  <2>3. NetTyped' /\ SeqTyped'
    <3>1. CASE Written(p, c, "DATA", n)
      BY <1>1, <2>2, <3>1, SentTyped DEF Written
    <3>2. CASE WriteFailed(p, c)
      BY <1>1, <3>2, EncodeTyped DEF WriteFailed, NotSent, NetTyped, ChannelsTypeOK
    <3> QED
      BY <1>3, <3>1, <3>2 DEF WriterWrite
  <2>4. hist' \in [Peers -> Histories]
    <3>1. /\ [hist[p] EXCEPT !.intime = @ \cup {n}] \in Histories
          /\ [hist[p] EXCEPT !.overdue = @ \cup {n}, !.late = TRUE] \in Histories
      BY <1>1, HistoryTyped, ConstantsTyped
    <3> QED
      BY <1>3, <3>1 DEF WriterWrite, TypeOK, WorkersTypeOK
  <2> QED
    BY <1>3, <2>1, <2>3, <2>4 DEF WriterWrite, ManagerUnchanged, TypeOK, ChannelsTypeOK,
                            WorkersTypeOK, NetTyped, SeqTyped
<1> QED
  BY <1>2, <1>3 DEF WriterStep

LEMMA RemovalTyped ==
  ASSUME TypeOK, NEW p \in Peers, ManagerUnchanged,
         BeginRemoval(p) \/ RemoveEndpoint(p) \/ Disconnected(p) \/ Leave(p)
         \/ OnConnectionAccepted(p)
  PROVE  TypeOK'
<1>1. CASE RemoveEndpoint(p)
  <2> DEFINE c == conn[p].active
  <2>1. c \in Channels /\ ChannelsTypeOK /\ WorkersTypeOK /\ ChanTyped
    BY <1>1, PeerTyped DEF RemoveEndpoint, Connections
  <2>2. NetTyped' /\ SeqTyped' /\ ChanTyped'
    <3>1. CASE UNCHANGED channelVars
      BY <2>1, <3>1, PeerTyped DEF channelVars, NetTyped, SeqTyped, ChanTyped
    <3>2. CASE (Written(p, c, "DISC", 0) \/ WriteFailed(p, c)) /\ chan' = Closed(p, c)
      <4>1. "DISC" \in FrameKinds \ {"DATA"} /\ 0 \in Channels
        BY ConstantsTyped DEF FrameKinds
      <4>2. NetTyped' /\ SeqTyped'
        BY <2>1, <3>2, <4>1, WriteTyped
      <4> QED
        BY <2>1, <3>2, <4>2, ClosedTyped DEF ChanTyped
    <3> QED
      BY <1>1, <3>1, <3>2 DEF RemoveEndpoint
  <2>3. tasks' \in [Peers -> Seq(Tasks)]
    <3>1. [kind |-> "OVER", arg |-> c] \in Tasks
      BY <2>1 DEF Tasks
    <3>2. Post(p, "OVER", c) \in Seq(Tasks)
      BY <2>1, <3>1, PostTyped
    <3> QED
      BY <1>1, <3>2 DEF RemoveEndpoint, TypeOK, WorkersTypeOK
  <2>4. conn' \in [Peers -> Connections]
    <3>1. [conn[p] EXCEPT !.active = None, !.em = "removing"] \in Connections
      BY PeerTyped DEF Connections
    <3> QED
      BY <1>1, <3>1 DEF RemoveEndpoint, TypeOK, WorkersTypeOK
  <2> QED
    BY <1>1, <2>2, <2>3, <2>4
    DEF RemoveEndpoint, ManagerUnchanged, workerVars, TypeOK, ChannelsTypeOK,
        WorkersTypeOK, NetTyped, SeqTyped, ChanTyped
<1>2. CASE Disconnected(p) \/ Leave(p) \/ OnConnectionAccepted(p)
  <2>1. faults' \in 0..MaxFaults
    BY <1>2, BoundsTyped
    DEF Disconnected, Leave, OnConnectionAccepted, Adverse, Fault, TypeOK, ChannelsTypeOK
  <2>2. conn' \in [Peers -> Connections]
    <3>1. CASE Disconnected(p)
      <4>1. [conn[p] EXCEPT !.em = "gone", !.connected = FALSE] \in Connections
        BY <3>1, PeerTyped DEF Disconnected, Connections
      <4> QED
        BY <3>1, <4>1 DEF Disconnected, TypeOK, WorkersTypeOK
    <3>2. CASE Leave(p)
      <4>1. [conn[p] EXCEPT !.leaving = TRUE] \in Connections
        BY PeerTyped DEF Connections
      <4> QED
        BY <3>2, <4>1 DEF Leave, TypeOK, WorkersTypeOK
    <3>3. CASE OnConnectionAccepted(p)
      <4>1. [conn[p] EXCEPT !.connected = TRUE] \in Connections
        BY PeerTyped DEF Connections
      <4> QED
        BY <3>3, <4>1 DEF OnConnectionAccepted, TypeOK, WorkersTypeOK
    <3> QED
      BY <1>2, <3>1, <3>2, <3>3
  <2> QED
    BY <1>2, <2>1, <2>2
    DEF Disconnected, Leave, OnConnectionAccepted, ManagerUnchanged, channelVars,
        workerVars, TypeOK, ChannelsTypeOK, WorkersTypeOK
<1>3. CASE BeginRemoval(p)
  <2>1. conn[p].active \in Channels /\ ChanTyped
    BY <1>3, PeerTyped DEF BeginRemoval, Connections
  <2>2. ChanTyped'
    BY <1>3, <2>1, ClosedTyped DEF BeginRemoval, ChanTyped
  <2>3. [conn[p] EXCEPT !.em = "closing"] \in Connections
    BY <1>3, PeerTyped DEF BeginRemoval, Connections
  <2> QED
    BY <1>3, <2>2, <2>3
    DEF BeginRemoval, ManagerUnchanged, workerVars, TypeOK, ChannelsTypeOK, WorkersTypeOK,
        ChanTyped
<1> QED
  BY <1>1, <1>2, <1>3

\* A transport that fails stays a link.
LEMMA BreakLinkTyped ==
  ASSUME TypeOK, NEW c \in Channels, BreakLink(c), ManagerUnchanged
  PROVE  TypeOK'
<1>1. faults' \in 0..MaxFaults
  BY BoundsTyped DEF BreakLink, Break, Adverse, Fault, TypeOK, ChannelsTypeOK
<1>2. link' \in [Channels -> Links]
  <2>1. [link[c] EXCEPT !.broken = TRUE] \in Links
    BY DEF TypeOK, ChannelsTypeOK, Links
  <2> QED
    BY <2>1 DEF BreakLink, Break, TypeOK, ChannelsTypeOK
<1> QED
  BY <1>1, <1>2 DEF BreakLink, Break, ManagerUnchanged, channelVars, workerVars, TypeOK,
                    ChannelsTypeOK, WorkersTypeOK

\* Together: a step of a worker keeps TypeOK.
LEMMA WorkersNextTyped ==
  ASSUME TypeOK, WorkersNext, ManagerUnchanged
  PROVE  TypeOK'
BY ReaderFetchTyped, ReaderReadTyped, ReaderFailTyped, ReaderFrameTyped, ReaderAckTyped,
   KeeperTyped, WriterTyped, RemovalTyped, BreakLinkTyped
DEF WorkersNext, ReaderStep

-----------------------------------------------------------------------------
(* The BwuManager thread *)

\* The task at hand, and the queue without it, are well formed.
LEMMA TaskTyped ==
  ASSUME TypeOK, NEW p \in Peers, NEW kind, Task(p, kind)
  PROVE  /\ Tail(tasks[p]) \in Seq(Tasks)
         /\ kind \in {"INIT", "RETRY"} => Arg(p) \in Mediums \cup {None}
         /\ kind \notin {"INIT", "RETRY"} => Arg(p) \in Channels
<1>1. tasks[p] \in Seq(Tasks) /\ tasks[p] # << >>
  BY DEF TypeOK, WorkersTypeOK, Task
<1>2. Head(tasks[p]) \in Tasks /\ Tail(tasks[p]) \in Seq(Tasks)
  BY <1>1
<1>3. Head(tasks[p]).kind = kind /\ Head(tasks[p]).arg = Arg(p)
  BY DEF Task, Arg
<1> QED
  BY <1>2, <1>3 DEF Tasks, Negotiation

\* Updates of BwuManager's maps give such maps.
LEMMA ManagerTyped ==
  ASSUME NEW m \in Managers, NEW b \in BOOLEAN, NEW c \in Channels \cup {None},
         NEW medium \in Mediums \cup {None}, NEW S \in SUBSET Channels
  PROVE  /\ [m EXCEPT !.inProgress = b] \in Managers
         /\ [m EXCEPT !.previous = c] \in Managers
         /\ [m EXCEPT !.upgraded = b] \in Managers
         /\ [m EXCEPT !.retry = b] \in Managers
         /\ [m EXCEPT !.medium = medium] \in Managers
         /\ [m EXCEPT !.listening = S] \in Managers
BY DEF Managers

\* RevertBwuMediumForEndpoint gives such maps.
LEMMA RevertedTyped ==
  ASSUME NEW m \in Managers
  PROVE  Reverted(m) \in Managers
<1> DEFINE L == {c \in m.listening : link[c].medium # m.medium}
<1>1. L \in SUBSET Channels /\ None \in Mediums \cup {None}
  BY DEF Managers
<1> HIDE DEF L
<1>2. [m EXCEPT !.medium = None, !.listening = L] \in Managers
  BY <1>1 DEF Managers
<1> QED
  BY <1>2 DEF Reverted, L

\* So does the revert for one channel's service id.
LEMMA RevertedForTyped ==
  ASSUME NEW m \in Managers, NEW p, NEW c
  PROVE  RevertedFor(p, c, m) \in Managers
<1>1. [m EXCEPT !.medium = None] \in Managers
  BY DEF Managers
<1> QED
  BY <1>1, RevertedTyped DEF RevertedFor

\* The active channel's medium is a medium, or None.
LEMMA MediumOfTyped ==
  ASSUME TypeOK, NEW p \in Peers
  PROVE  MediumOf(p) \in Mediums \cup {None}
BY PeerTyped DEF MediumOf, Connections, TypeOK, ChannelsTypeOK, Links

\* The mediums left after a failure are upgrade mediums.
LEMMA UntriedTyped ==
  ASSUME NEW medium
  PROVE  Untried(medium) \subseteq AllUpgradeMediums
BY DEF Untried, AllUpgradeMediums

ManagerAndTasksTyped == mgr \in [Peers -> Managers] /\ tasks \in [Peers -> Seq(Tasks)]

\* TryNextBestUpgradeMediums keeps the maps and the queue well formed.
LEMMA TryNextBestTyped ==
  ASSUME TypeOK, NEW p \in Peers, NEW m \in Managers,
         NEW S \in SUBSET AllUpgradeMediums, NEW q \in Seq(Tasks), TryNextBest(p, m, S, q)
  PROVE  ManagerAndTasksTyped' /\ \A r \in Peers \ {p} : mgr'[r] = mgr[r]
<1>1. PICK next \in Choices(m.medium, S) :
        \/ mgr' = [mgr EXCEPT ![p] = [m EXCEPT !.retry = TRUE]]
           /\ tasks' = [tasks EXCEPT ![p] = q]
        \/ mgr' = [mgr EXCEPT ![p] = m] /\ tasks' = [tasks EXCEPT ![p] = q]
        \/ mgr' = [mgr EXCEPT ![p] = [m EXCEPT !.medium = next]]
           /\ tasks' = [tasks EXCEPT ![p] = Append(q, [kind |-> "INIT", arg |-> next])]
  BY DEF TryNextBest, ManagerOf
<1>2. next \in Mediums \cup {None}
  BY ConstantsTyped DEF Choices, Managers
<1>3. [m EXCEPT !.retry = TRUE] \in Managers /\ [m EXCEPT !.medium = next] \in Managers
  BY <1>2 DEF Managers
<1>4. Append(q, [kind |-> "INIT", arg |-> next]) \in Seq(Tasks)
  <2>1. [kind |-> "INIT", arg |-> next] \in Tasks
    BY <1>2 DEF Tasks
  <2> QED
    BY <2>1
<1>5. ManagerAndTasksTyped'
  <2>1. mgr \in [Peers -> Managers] /\ tasks \in [Peers -> Seq(Tasks)]
    BY DEF TypeOK, WorkersTypeOK
  <2>2. mgr' \in [Peers -> Managers]
    BY <1>1, <1>3, <2>1
  <2>3. tasks' \in [Peers -> Seq(Tasks)]
    BY <1>1, <1>4, <2>1
  <2> QED
    BY <2>2, <2>3 DEF ManagerAndTasksTyped
<1>6. \A r \in Peers \ {p} : mgr'[r] = mgr[r]
  BY <1>1 DEF TypeOK
<1> QED
  BY <1>5, <1>6

\* So does ProcessUpgradeFailureEvent.
LEMMA UpgradeFailureTyped ==
  ASSUME TypeOK, NEW p \in Peers, NEW m \in Managers, NEW medium, NEW q \in Seq(Tasks),
         UpgradeFailure(p, m, medium, q)
  PROVE  ManagerAndTasksTyped' /\ \A r \in Peers \ {p} : mgr'[r] = mgr[r]
<1> DEFINE cleared == [m EXCEPT !.inProgress = FALSE]
           reverted == IF m.medium = None THEN cleared ELSE Reverted(cleared)
<1>1. cleared \in Managers
  BY DEF Managers
<1>2. reverted \in Managers
  BY <1>1, RevertedTyped
<1>3. TryNextBest(p, reverted, Untried(medium), q)
  BY DEF UpgradeFailure
<1>4. Untried(medium) \in SUBSET AllUpgradeMediums
  BY UntriedTyped
<1> HIDE DEF reverted
<1> QED
  BY <1>2, <1>3, <1>4, TryNextBestTyped

BwuTyped ==
    /\ bwu \in [Peers -> Threads]
    /\ \A p \in Peers : bwu[p].pc = "safe" => mgr[p].previous # None

\* Moving a BwuManager thread to a step it has the channels for.
LEMMA AtTyped ==
  ASSUME TypeOK, NEW p \in Peers, NEW pc, NEW c, NEW old, At(p, pc, c, old),
         [pc |-> pc, chan |-> c, old |-> old] \in Threads,
         pc = "safe" => mgr'[p].previous # None,
         \A r \in Peers \ {p} : mgr'[r] = mgr[r]
  PROVE  BwuTyped'
BY DEF At, BwuTyped, TypeOK

\* Moving it back to idle.
LEMMA IdleTyped ==
  ASSUME TypeOK, NEW p \in Peers, Idle(p), \A r \in Peers \ {p} : mgr'[r] = mgr[r]
  PROVE  BwuTyped'
BY DEF Idle, At, Threads, BwuTyped, TypeOK

\* Leaving it idle.
LEMMA StayTyped ==
  ASSUME TypeOK, NEW p \in Peers, bwu[p].pc # "safe", UNCHANGED bwu,
         \A r \in Peers \ {p} : mgr'[r] = mgr[r]
  PROVE  BwuTyped'
BY DEF BwuTyped, TypeOK

\* Replacing one device's maps.
LEMMA ManagerOfTyped ==
  ASSUME TypeOK, NEW p \in Peers, NEW m \in Managers, ManagerOf(p, m)
  PROVE  mgr' \in [Peers -> Managers] /\ mgr'[p] = m /\ \A r \in Peers \ {p} : mgr'[r] = mgr[r]
BY DEF ManagerOf, TypeOK

\* Taking a task leaves a queue of tasks.
LEMMA TakeTaskTyped ==
  ASSUME TypeOK, NEW p \in Peers, NEW kind, Task(p, kind), TakeTask(p)
  PROVE  tasks' \in [Peers -> Seq(Tasks)] /\ bwu[p].pc = "idle"
BY TaskTyped DEF TakeTask, Task, TypeOK, WorkersTypeOK

\* The count of adverse events keeps its bound.
LEMMA AdverseTyped ==
  ASSUME TypeOK, UNCHANGED faults \/ Fault
  PROVE  faults' \in 0..MaxFaults
BY BoundsTyped DEF Fault, TypeOK, ChannelsTypeOK

\* One lemma per action of the BwuManager thread and its callers: it keeps TypeOK.
LEMMA RequestUpgradeTyped ==
  ASSUME TypeOK, NEW p \in Peers, RequestUpgrade(p)
  PROVE  TypeOK'
<1>1. requests' \in [Peers -> 0..MaxRequests]
  BY UpgradeTyped DEF RequestUpgrade, TypeOK
<1>2. tasks' \in [Peers -> Seq(Tasks)]
  <2>1. PICK m \in Choices(mgr[p].medium, AllUpgradeMediums) :
          tasks' = [tasks EXCEPT ![p] = Post(p, "INIT", m)]
    BY DEF RequestUpgrade
  <2>2. m \in Mediums \cup {None}
    BY ConstantsTyped DEF Choices
  <2>3. [kind |-> "INIT", arg |-> m] \in Tasks
    BY <2>2 DEF Tasks
  <2>4. Post(p, "INIT", m) \in Seq(Tasks)
    BY <2>3, PeerTyped, PostTyped
  <2> QED
    BY <2>1, <2>4 DEF TypeOK, WorkersTypeOK
<1> QED
  BY <1>1, <1>2 DEF RequestUpgrade, channelVars, workerVars, TypeOK, ChannelsTypeOK,
                    WorkersTypeOK

LEMMA InitiateUpgradeTyped ==
  ASSUME TypeOK, NEW p \in Peers, InitiateUpgrade(p)
  PROVE  TypeOK'
<1> DEFINE medium == Arg(p)
           set == [mgr[p] EXCEPT !.medium = medium]
           started == [set EXCEPT !.retry = FALSE]
           c == opened + 1
           offered == [started EXCEPT !.listening = @ \cup {c}]
<1>1. medium \in Mediums \cup {None} /\ Task(p, "INIT") /\ bwu[p].pc = "idle"
  BY TaskTyped DEF InitiateUpgrade, Task
<1>2. set \in Managers /\ started \in Managers
  BY <1>1, ManagerTyped DEF TypeOK
<1>3. c \in Nat /\ (c <= MaxAttempts => c \in Channels /\ offered \in Managers)
  <2>1. c \in Nat /\ (c <= MaxAttempts => c \in Channels)
    BY BoundsTyped DEF TypeOK, Channels
  <2>2. ASSUME c \in Channels
        PROVE  offered \in Managers
    <3>1. started.listening \cup {c} \in SUBSET Channels
      BY <1>2, <2>2 DEF Managers
    <3> HIDE DEF c
    <3> QED
      BY <1>2, <3>1 DEF Managers
  <2> QED
    BY <2>1, <2>2
<1>4. requests' \in [Peers -> 0..MaxRequests] /\ UNCHANGED <<channelVars, conn, workerVars, hist>>
  BY DEF InitiateUpgrade, TypeOK
<1>5. ASSUME UNCHANGED <<bwu, link, opened, faults>>, TakeTask(p),
             mgr' = mgr \/ ManagerOf(p, set) \/ ManagerOf(p, started)
      PROVE  TypeOK'
  <2>1. mgr' \in [Peers -> Managers] /\ \A r \in Peers \ {p} : mgr'[r] = mgr[r]
    BY <1>2, <1>5, ManagerOfTyped DEF TypeOK
  <2>2. tasks' \in [Peers -> Seq(Tasks)]
    BY <1>1, <1>5, TakeTaskTyped
  <2>3. BwuTyped'
    BY <1>1, <1>5, <2>1, StayTyped
  <2> QED
    BY <1>4, <1>5, <2>1, <2>2, <2>3
    DEF channelVars, workerVars, BwuTyped, TypeOK, ChannelsTypeOK, WorkersTypeOK
<1>6. ASSUME c <= MaxAttempts, ManagerOf(p, offered), opened' = c,
             link' = [link EXCEPT ![c].medium = medium],
             conn[p].active # None, At(p, "path", c, conn[p].active),
             TakeTask(p), UNCHANGED faults
      PROVE  TypeOK'
  <2>1. c \in Channels /\ offered \in Managers /\ conn[p].active \in Channels
    BY <1>3, <1>6, PeerTyped DEF Connections
  <2>2. mgr' \in [Peers -> Managers] /\ \A r \in Peers \ {p} : mgr'[r] = mgr[r]
    BY <1>6, <2>1, ManagerOfTyped
  <2>3. [pc |-> "path", chan |-> c, old |-> conn[p].active] \in Threads
    BY <2>1 DEF Threads
  <2>4. BwuTyped'
    BY <1>6, <2>2, <2>3, AtTyped
  <2>5. tasks' \in [Peers -> Seq(Tasks)]
    BY <1>1, <1>6, TakeTaskTyped
  <2>6. opened' \in 0..MaxAttempts
    BY <1>6, <2>1 DEF Channels
  <2>7. link' \in [Channels -> Links]
    <3>1. link \in [Channels -> Links] /\ link[c] \in Links
      BY <2>1 DEF TypeOK, ChannelsTypeOK
    <3>2. [link[c] EXCEPT !.medium = medium] \in Links
      BY <1>1, <3>1 DEF Links
    <3> HIDE DEF c, medium
    <3> QED
      BY <1>6, <3>1, <3>2
  <2> QED
    BY <1>4, <1>6, <2>2, <2>4, <2>5, <2>6, <2>7
    DEF channelVars, workerVars, BwuTyped, TypeOK, ChannelsTypeOK, WorkersTypeOK
<1>7. ASSUME UpgradeFailure(p, started, medium, Tail(tasks[p])),
             UNCHANGED faults \/ Fault, UNCHANGED <<bwu, link, opened>>
      PROVE  TypeOK'
  <2>1. Tail(tasks[p]) \in Seq(Tasks)
    BY <1>1, TaskTyped
  <2>2. ManagerAndTasksTyped' /\ \A r \in Peers \ {p} : mgr'[r] = mgr[r]
    BY <1>2, <1>7, <2>1, UpgradeFailureTyped
  <2>3. BwuTyped'
    BY <1>1, <1>7, <2>2, StayTyped
  <2>4. faults' \in 0..MaxFaults
    BY <1>7, AdverseTyped
  <2> QED
    BY <1>4, <1>7, <2>2, <2>3, <2>4
    DEF channelVars, workerVars, BwuTyped, ManagerAndTasksTyped, TypeOK, ChannelsTypeOK,
        WorkersTypeOK
<1> QED
  BY <1>5, <1>6, <1>7 DEF InitiateUpgrade, Adverse

LEMMA WritePathTyped ==
  ASSUME TypeOK, NEW p \in Peers, WritePath(p)
  PROVE  TypeOK'
<1> DEFINE c == bwu[p].chan
           old == bwu[p].old
<1>1. /\ c \in Channels /\ old \in Channels /\ ChannelsTypeOK
      /\ mgr[p] \in Managers /\ tasks[p] \in Seq(Tasks)
  BY DEF WritePath, TypeOK, WorkersTypeOK, Threads
<1>2. Written(p, old, "PATH", c) \/ WriteFailed(p, old)
  BY DEF WritePath
<1>3. NetTyped' /\ SeqTyped'
  <2>1. "PATH" \in FrameKinds \ {"DATA"}
    BY DEF FrameKinds, Negotiation
  <2> QED
    BY <1>1, <1>2, <2>1, WriteTyped
<1>4. ManagerAndTasksTyped' /\ \A r \in Peers \ {p} : mgr'[r] = mgr[r]
  <2>1. CASE UpgradeFailure(p, mgr[p], link[c].medium, tasks[p])
    BY <1>1, <2>1, UpgradeFailureTyped
  <2>2. CASE ManagerOf(p, [mgr[p] EXCEPT !.inProgress = TRUE]) /\ UNCHANGED tasks
    <3>1. [mgr[p] EXCEPT !.inProgress = TRUE] \in Managers
      BY <1>1 DEF Managers
    <3> QED
      BY <2>2, <3>1, ManagerOfTyped DEF ManagerAndTasksTyped, TypeOK, WorkersTypeOK
  <2> QED
    BY <2>1, <2>2 DEF WritePath
<1>5. BwuTyped'
  BY <1>4, IdleTyped DEF WritePath
<1> QED
  BY <1>3, <1>4, <1>5
  DEF WritePath, workerVars, BwuTyped, ManagerAndTasksTyped, NetTyped, SeqTyped, TypeOK,
      ChannelsTypeOK, WorkersTypeOK

LEMMA ProcessUpgradeFailureTyped ==
  ASSUME TypeOK, NEW p \in Peers, ProcessUpgradeFailure(p)
  PROVE  TypeOK'
<1>1. Task(p, "FAIL") /\ bwu[p].pc = "idle" /\ Tail(tasks[p]) \in Seq(Tasks)
  BY TaskTyped DEF ProcessUpgradeFailure, Task
<1>2. mgr[p] \in Managers
  BY DEF TypeOK
<1>3. UpgradeFailure(p, mgr[p], link[Arg(p)].medium, Tail(tasks[p])) /\ UNCHANGED bwu
  BY DEF ProcessUpgradeFailure
<1>4. ManagerAndTasksTyped' /\ \A r \in Peers \ {p} : mgr'[r] = mgr[r]
  BY <1>1, <1>2, <1>3, UpgradeFailureTyped
<1>5. BwuTyped'
  BY <1>1, <1>3, <1>4, StayTyped
<1> QED
  BY <1>4, <1>5
  DEF ProcessUpgradeFailure, channelVars, workerVars, BwuTyped, ManagerAndTasksTyped,
      TypeOK, ChannelsTypeOK, WorkersTypeOK

LEMMA RetryAlarmTyped ==
  ASSUME TypeOK, NEW p \in Peers, RetryAlarm(p)
  PROVE  TypeOK'
<1>1. mgr' = [mgr EXCEPT ![p].retry = FALSE] /\ UNCHANGED bwu
  BY DEF RetryAlarm
<1>2. mgr' \in [Peers -> Managers]
  <2>1. [mgr[p] EXCEPT !.retry = FALSE] \in Managers
    BY DEF TypeOK, Managers
  <2> QED
    BY <1>1, <2>1 DEF TypeOK
<1>3. BwuTyped'
  BY <1>1 DEF BwuTyped, TypeOK, Managers
<1>4. tasks' \in [Peers -> Seq(Tasks)]
  <2>1. [kind |-> "RETRY", arg |-> None] \in Tasks
    BY DEF Tasks
  <2>2. Post(p, "RETRY", None) \in Seq(Tasks)
    BY <2>1, PeerTyped, PostTyped
  <2> QED
    BY <2>2 DEF RetryAlarm, TypeOK, WorkersTypeOK
<1> QED
  BY <1>2, <1>3, <1>4
  DEF RetryAlarm, channelVars, workerVars, BwuTyped, TypeOK, ChannelsTypeOK, WorkersTypeOK

LEMMA RetryUpgradeTyped ==
  ASSUME TypeOK, NEW p \in Peers, RetryUpgrade(p)
  PROVE  TypeOK'
<1>1. /\ Task(p, "RETRY") /\ bwu[p].pc = "idle" /\ Tail(tasks[p]) \in Seq(Tasks)
      /\ mgr[p] \in Managers /\ UNCHANGED bwu
  BY TaskTyped DEF RetryUpgrade, Task, TypeOK
<1>2. ManagerAndTasksTyped' /\ \A r \in Peers \ {p} : mgr'[r] = mgr[r]
  <2>1. CASE TakeTask(p) /\ UNCHANGED mgr
    BY <1>1, <2>1, TakeTaskTyped DEF ManagerAndTasksTyped, TypeOK
  <2>2. CASE TryNextBest(p, mgr[p], AllUpgradeMediums, Tail(tasks[p]))
    BY <1>1, <2>2, TryNextBestTyped
  <2> QED
    BY <2>1, <2>2 DEF RetryUpgrade
<1>3. BwuTyped'
  BY <1>1, <1>2, StayTyped
<1> QED
  BY <1>2, <1>3
  DEF RetryUpgrade, channelVars, workerVars, BwuTyped, ManagerAndTasksTyped,
      TypeOK, ChannelsTypeOK, WorkersTypeOK

\* Connecting and accepting a socket keep the links well formed.
LEMMA DialledTyped ==
  ASSUME ChannelsTypeOK, NEW c \in Channels, NEW b \in BOOLEAN
  PROVE  [link EXCEPT ![c].dialled = b] \in [Channels -> Links]
<1>1. [link[c] EXCEPT !.dialled = b] \in Links
  BY DEF ChannelsTypeOK, Links
<1> QED
  BY <1>1 DEF ChannelsTypeOK

LEMMA ProcessPathTyped ==
  ASSUME TypeOK, NEW p \in Peers, ProcessPath(p)
  PROVE  TypeOK'
<1> DEFINE c == Arg(p)
           q == Other(p)
           medium == link[c].medium
           mine == IF mgr[p].medium = None THEN [mgr[p] EXCEPT !.medium = medium]
                   ELSE mgr[p]
           closed == [chan EXCEPT ![p] = [x \in Channels |->
                         IF x \in {mgr[p].previous, conn[p].active}
                         THEN [@[x] EXCEPT !.closed = TRUE, !.paused = FALSE]
                         ELSE @[x]]]
<1>1. /\ Task(p, "PATH") /\ c \in Channels /\ q \in Peers
      /\ bwu[p].pc = "idle" /\ Tail(tasks[p]) \in Seq(Tasks)
      /\ ChannelsTypeOK /\ WorkersTypeOK /\ ChanTyped
  BY TaskTyped, PeerTyped, ConstantsTyped DEF ProcessPath, Task
<1>2. mine \in Managers /\ mgr[p] \in Managers
  BY <1>1 DEF TypeOK, ChannelsTypeOK, Links, Managers
<1>3. UNCHANGED <<conn, workerVars, hist, opened, requests>>
  BY DEF ProcessPath
<1>4. \A pc \in {"fail", "ack", "replace"} : [pc |-> pc, chan |-> c, old |-> None] \in Threads
  BY <1>1 DEF Threads
<1>5. ASSUME UNCHANGED <<channelVars, link>>, TakeTask(p), faults' = faults \/ Fault,
             \/ UNCHANGED mgr
             \/ ManagerOf(p, mine),
             \/ UNCHANGED bwu
             \/ At(p, "fail", c, None)
      PROVE  TypeOK'
  <2>1. mgr' \in [Peers -> Managers] /\ \A r \in Peers \ {p} : mgr'[r] = mgr[r]
    BY <1>2, <1>5, ManagerOfTyped DEF TypeOK
  <2>2. BwuTyped'
    BY <1>1, <1>4, <1>5, <2>1, StayTyped, AtTyped
  <2>3. faults' \in 0..MaxFaults
    BY <1>5, AdverseTyped
  <2>4. tasks' \in [Peers -> Seq(Tasks)]
    BY <1>1, <1>5, TakeTaskTyped
  <2> QED
    BY <1>3, <1>5, <2>1, <2>2, <2>3, <2>4
    DEF channelVars, workerVars, BwuTyped, TypeOK, ChannelsTypeOK, WorkersTypeOK
<1>6. ASSUME chan' = closed, mgr' = [mgr EXCEPT ![p].previous = None], TakeTask(p),
             UNCHANGED <<bwu, net, seq, link, faults>>
      PROVE  TypeOK'
  <2>1. ChanTyped'
    <3>1. chan[p] \in [Channels -> ChannelStates]
      BY <1>1 DEF ChanTyped
    <3>2. \A x \in Channels :
             [chan[p][x] EXCEPT !.closed = TRUE, !.paused = FALSE] \in ChannelStates
      BY <3>1, ChannelStateTyped
    <3>3. chan'[p] \in [Channels -> ChannelStates]
      BY <1>1, <1>6, <3>1, <3>2 DEF ChanTyped
    <3> QED
      BY <1>1, <1>6, <3>3 DEF ChanTyped
  <2>2. mgr' \in [Peers -> Managers] /\ \A r \in Peers \ {p} : mgr'[r] = mgr[r]
    <3>1. [mgr[p] EXCEPT !.previous = None] \in Managers
      BY <1>2 DEF Managers
    <3> QED
      BY <1>6, <3>1 DEF TypeOK
  <2>3. BwuTyped'
    BY <1>1, <1>6, <2>2, StayTyped
  <2>4. tasks' \in [Peers -> Seq(Tasks)]
    BY <1>1, <1>6, TakeTaskTyped
  <2> QED
    BY <1>3, <1>6, <2>1, <2>2, <2>3, <2>4
    DEF workerVars, ChanTyped, BwuTyped, TypeOK, ChannelsTypeOK, WorkersTypeOK
<1>7. ASSUME NEW m \in Managers, NEW pc \in {"ack", "replace"},
             ManagerOf(p, m), Sent(p, c, "INTRO", 0), At(p, pc, c, None),
             link' = [link EXCEPT ![c].dialled = TRUE], TakeTask(p),
             UNCHANGED <<chan, faults>>
      PROVE  TypeOK'
  <2>1. mgr' \in [Peers -> Managers] /\ \A r \in Peers \ {p} : mgr'[r] = mgr[r]
    BY <1>7, ManagerOfTyped
  <2>2. NetTyped' /\ SeqTyped'
    <3>1. [kind |-> "INTRO", seq |-> 0, arg |-> 0] \in Frames
      BY ConstantsTyped DEF Frames, FrameKinds
    <3> QED
      BY <1>1, <1>7, <3>1, SentTyped
  <2>3. BwuTyped'
    BY <1>4, <1>7, <2>1, AtTyped
  <2>4. tasks' \in [Peers -> Seq(Tasks)]
    BY <1>1, <1>7, TakeTaskTyped
  <2>5. link' \in [Channels -> Links]
    BY <1>1, <1>7, DialledTyped
  <2> QED
    BY <1>3, <1>7, <2>1, <2>2, <2>3, <2>4, <2>5
    DEF workerVars, NetTyped, SeqTyped, BwuTyped, TypeOK, ChannelsTypeOK, WorkersTypeOK
<1>8. ASSUME Join(p, c, mine)
      PROVE  TypeOK'
  <2>1. [mine EXCEPT !.inProgress = TRUE] \in Managers
    BY <1>2 DEF Managers
  <2> QED
    BY <1>2, <1>7, <1>8, <2>1 DEF Join
<1> QED
  BY <1>5, <1>6, <1>8 DEF ProcessPath, JoinFails, CanJoin, CloseAllChannels, Adverse

LEMMA AcceptTyped ==
  ASSUME TypeOK, NEW c \in Channels, Accept(c)
  PROVE  TypeOK'
<1> DEFINE p == Advertiser
<1>1. p \in Peers /\ ChannelsTypeOK /\ WorkersTypeOK /\ ChanTyped
  BY ConstantsTyped, PeerTyped
<1>2. link' \in [Channels -> Links]
  BY <1>1, DialledTyped DEF Accept
<1>3. tasks' \in [Peers -> Seq(Tasks)]
  <2>1. [kind |-> "INCOMING", arg |-> c] \in Tasks
    BY DEF Tasks
  <2>2. Post(p, "INCOMING", c) \in Seq(Tasks)
    BY <1>1, <2>1, PostTyped
  <2> QED
    BY <1>1, <2>2 DEF Accept, WorkersTypeOK
<1>4. ChanTyped'
  BY <1>1, ClosedTyped DEF Accept, ChanTyped
<1> QED
  BY <1>2, <1>3, <1>4
  DEF Accept, workerVars, ChanTyped, TypeOK, ChannelsTypeOK, WorkersTypeOK

LEMMA AwaitAckTyped ==
  ASSUME TypeOK, NEW p \in Peers, AwaitAck(p)
  PROVE  TypeOK'
<1> DEFINE c == bwu[p].chan
<1>1. c \in Channels /\ NetTyped /\ ChanTyped /\ mgr[p] \in Managers
  BY PeerTyped DEF AwaitAck, TypeOK, Threads
<1>2. [pc |-> "replace", chan |-> c, old |-> None] \in Threads
      /\ [pc |-> "fail", chan |-> c, old |-> None] \in Threads
  BY <1>1 DEF Threads
<1>3. NetTyped' /\ ChanTyped'
  <2>1. ASSUME CanRead(p, c), net' = Popped(p, c), UNCHANGED chan
        PROVE  NetTyped' /\ ChanTyped'
    BY <1>1, <2>1, PoppedTyped DEF NetTyped, ChanTyped
  <2>2. ASSUME chan' = Closed(p, c), UNCHANGED net
        PROVE  NetTyped' /\ ChanTyped'
    BY <1>1, <2>2, ClosedTyped DEF NetTyped, ChanTyped
  <2> QED
    BY <2>1, <2>2 DEF AwaitAck
<1>5. mgr' \in [Peers -> Managers] /\ \A r \in Peers \ {p} : mgr'[r] = mgr[r]
  <2>1. [mgr[p] EXCEPT !.inProgress = TRUE] \in Managers
    BY <1>1 DEF Managers
  <2> QED
    BY <2>1 DEF AwaitAck, TypeOK
<1>6. BwuTyped'
  BY <1>2, <1>5, AtTyped DEF AwaitAck
<1>7. faults' \in 0..MaxFaults
  BY AdverseTyped DEF AwaitAck, Adverse
<1> QED
  BY <1>3, <1>5, <1>6, <1>7
  DEF AwaitAck, workerVars, NetTyped, ChanTyped, BwuTyped, TypeOK, ChannelsTypeOK,
      WorkersTypeOK

LEMMA WriteFailureTyped ==
  ASSUME TypeOK, NEW p \in Peers, WriteFailure(p)
  PROVE  TypeOK'
<1> DEFINE a == conn[p].active
           c == bwu[p].chan
<1>1. /\ c \in Channels /\ a \in Channels \cup {None}
      /\ ChannelsTypeOK /\ NetTyped /\ SeqTyped /\ ChanTyped /\ mgr[p] \in Managers
  BY PeerTyped DEF WriteFailure, TypeOK, Threads, Connections
<1>2. NetTyped' /\ SeqTyped' /\ ChanTyped'
  <2>1. CASE UNCHANGED <<channelVars, mgr>>
    BY <1>1, <2>1 DEF channelVars, NetTyped, SeqTyped, ChanTyped
  <2>2. ASSUME a # None, Written(p, a, "FAIL", c) \/ WriteFailed(p, a),
               chan' = chan \/ chan' = Closed(p, a)
        PROVE  NetTyped' /\ SeqTyped' /\ ChanTyped'
    <3>1. "FAIL" \in FrameKinds \ {"DATA"} /\ a \in Channels
      BY <1>1, <2>2 DEF FrameKinds, Negotiation
    <3>2. NetTyped' /\ SeqTyped'
      BY <1>1, <2>2, <3>1, WriteTyped
    <3>3. Closed(p, a) \in [Peers -> [Channels -> ChannelStates]]
      BY <1>1, <3>1, ClosedTyped
    <3> QED
      BY <1>1, <2>2, <3>2, <3>3 DEF ChanTyped
  <2> QED
    BY <2>1, <2>2 DEF WriteFailure
<1>3. mgr' \in [Peers -> Managers] /\ \A r \in Peers \ {p} : mgr'[r] = mgr[r]
  <2>1. RevertedFor(p, a, mgr[p]) \in Managers
    BY <1>1, RevertedForTyped
  <2>2. [RevertedFor(p, a, mgr[p]) EXCEPT !.inProgress = FALSE] \in Managers
    BY <2>1 DEF Managers
  <2> QED
    BY <2>2, ManagerOfTyped DEF WriteFailure, TypeOK
<1>4. BwuTyped'
  BY <1>3, IdleTyped DEF WriteFailure
<1> QED
  BY <1>2, <1>3, <1>4
  DEF WriteFailure, workerVars, NetTyped, SeqTyped, ChanTyped, BwuTyped, TypeOK,
      ChannelsTypeOK, WorkersTypeOK

LEMMA IncomingConnectionTyped ==
  ASSUME TypeOK, NEW p \in Peers, IncomingConnection(p)
  PROVE  TypeOK'
<1> DEFINE c == Arg(p)
           q == Other(p)
<1>1. /\ Task(p, "INCOMING") /\ TakeTask(p) /\ c \in Channels /\ q \in Peers
      /\ bwu[p].pc = "idle" /\ tasks' \in [Peers -> Seq(Tasks)]
  BY TaskTyped, TakeTaskTyped, ConstantsTyped DEF IncomingConnection, Task
<1>2. NetTyped /\ ChanTyped
  BY PeerTyped
<1>3. NetTyped'
  <2>1. CASE /\ CanRead(p, c)
             /\ net' = [net EXCEPT ![q][c] = Tail(@), ![p][c] = @ \o IntroductionAnswer]
    <3>1. IntroductionAnswer \in Seq(Frames)
      <4>1. [kind |-> "ACK", seq |-> 0, arg |-> 0] \in Frames
        BY ConstantsTyped DEF Frames, FrameKinds
      <4> QED
        BY <4>1 DEF IntroductionAnswer
    <3>2. Tail(net[q][c]) \in Seq(Frames)
      BY <1>1, <1>2, <2>1 DEF NetTyped, CanRead, Incoming
    <3>3. net[p][c] \o IntroductionAnswer \in Seq(Frames)
      BY <1>1, <1>2, <3>1 DEF NetTyped
    <3>4. p # q
      BY PeersDistinct DEF Other
    <3> QED
      BY <1>1, <1>2, <2>1, <3>2, <3>3, <3>4 DEF NetTyped
  <2>2. CASE UNCHANGED net
    BY <1>2, <2>2 DEF NetTyped
  <2> QED
    BY <2>1, <2>2 DEF IncomingConnection
<1>4. ChanTyped'
  <2>1. Closed(p, c) \in [Peers -> [Channels -> ChannelStates]]
    BY <1>1, <1>2, ClosedTyped
  <2> QED
    BY <1>2, <2>1 DEF IncomingConnection, ChanTyped
<1>5. mgr' \in [Peers -> Managers] /\ \A r \in Peers \ {p} : mgr'[r] = mgr[r]
  <2>1. [mgr[p] EXCEPT !.retry = FALSE] \in Managers
    BY DEF TypeOK, Managers
  <2>2. mgr' = mgr \/ mgr' = [mgr EXCEPT ![p] = [mgr[p] EXCEPT !.retry = FALSE]]
    BY DEF IncomingConnection
  <2>3. mgr \in [Peers -> Managers]
    BY DEF TypeOK
  <2> QED
    BY <2>1, <2>2, <2>3
<1>6. BwuTyped'
  <2>1. CASE At(p, "replace", c, None)
    <3>1. [pc |-> "replace", chan |-> c, old |-> None] \in Threads
      BY <1>1 DEF Threads
    <3> QED
      BY <1>5, <2>1, <3>1, AtTyped
  <2>2. CASE UNCHANGED bwu
    BY <1>1, <1>5, <2>2, StayTyped
  <2> QED
    BY <2>1, <2>2 DEF IncomingConnection
<1>7. faults' \in 0..MaxFaults
  BY AdverseTyped DEF IncomingConnection, Adverse
<1> QED
  BY <1>1, <1>3, <1>4, <1>5, <1>6, <1>7
  DEF IncomingConnection, workerVars, NetTyped, ChanTyped, BwuTyped, TypeOK,
      ChannelsTypeOK, WorkersTypeOK

LEMMA ReplaceChannelTyped ==
  ASSUME TypeOK, NEW p \in Peers, ReplaceChannel(p)
  PROVE  TypeOK'
<1> DEFINE c == bwu[p].chan
           old == conn[p].active
<1>1. c \in Channels /\ ChanTyped /\ conn[p] \in Connections
  BY PeerTyped DEF ReplaceChannel, TypeOK, Threads
<1>2. ChanTyped'
  <2>1. Closed(p, c) \in [Peers -> [Channels -> ChannelStates]]
    BY <1>1, ClosedTyped
  <2>2. [chan[p][c] EXCEPT !.paused = TRUE, !.crypt = EncryptUpgraded] \in ChannelStates
    BY <1>1, ChannelStateTyped, UpgradeTyped DEF ChanTyped
  <2> QED
    BY <1>1, <2>1, <2>2 DEF ReplaceChannel, Prepared, ChanTyped
<1>3. conn' \in [Peers -> Connections]
  <2>1. old # None => [conn[p] EXCEPT !.active = c] \in Connections
    BY <1>1 DEF Connections
  <2> QED
    BY <2>1 DEF ReplaceChannel, TypeOK, WorkersTypeOK
<1>4. BwuTyped'
  <2>1. \A r \in Peers \ {p} : mgr'[r] = mgr[r]
    BY DEF ReplaceChannel
  <2>2. CASE Idle(p)
    BY <2>1, <2>2, IdleTyped
  <2>3. CASE old # None /\ At(p, "last", c, old)
    <3>1. [pc |-> "last", chan |-> c, old |-> old] \in Threads
      BY <1>1, <2>3 DEF Threads, Connections
    <3> QED
      BY <2>1, <2>3, <3>1, AtTyped
  <2> QED
    BY <2>2, <2>3 DEF ReplaceChannel
<1> QED
  BY <1>2, <1>3, <1>4
  DEF ReplaceChannel, workerVars, ChanTyped, BwuTyped, TypeOK, ChannelsTypeOK, WorkersTypeOK

LEMMA WriteLastTyped ==
  ASSUME TypeOK, NEW p \in Peers, WriteLast(p)
  PROVE  TypeOK'
<1> DEFINE old == bwu[p].old
           m == [mgr[p] EXCEPT !.previous = IF @ = None THEN old ELSE @,
                               !.upgraded = FALSE]
<1>1. old \in Channels /\ old # None /\ ChannelsTypeOK
  BY ConstantsTyped DEF WriteLast, TypeOK, Threads
<1>2. NetTyped' /\ SeqTyped'
  <2>1. "LAST" \in FrameKinds \ {"DATA"} /\ 0 \in Channels
    BY ConstantsTyped DEF FrameKinds, Negotiation
  <2>2. Written(p, old, "LAST", 0) \/ WriteFailed(p, old)
    BY DEF WriteLast
  <2> QED
    BY <1>1, <2>1, <2>2, WriteTyped
<1>3. m \in Managers /\ m.previous # None
  BY <1>1 DEF TypeOK, Managers
<1> HIDE DEF m
<1>4. /\ mgr' \in [Peers -> Managers] /\ \A r \in Peers \ {p} : mgr'[r] = mgr[r]
      /\ BwuTyped'
  <2>1. ASSUME ManagerOf(p, m), At(p, "safe", None, None) \/ Idle(p)
        PROVE  /\ mgr' \in [Peers -> Managers] /\ \A r \in Peers \ {p} : mgr'[r] = mgr[r]
               /\ BwuTyped'
    <3>1. mgr' \in [Peers -> Managers] /\ \A r \in Peers \ {p} : mgr'[r] = mgr[r]
      BY <1>3, <2>1, ManagerOfTyped
    <3>2. mgr'[p].previous # None
      BY <1>3, <2>1, ManagerOfTyped
    <3>3. [pc |-> "safe", chan |-> None, old |-> None] \in Threads
      BY DEF Threads
    <3> QED
      BY <2>1, <3>1, <3>2, <3>3, AtTyped, IdleTyped
  <2>2. ASSUME UNCHANGED mgr, Idle(p)
        PROVE  /\ mgr' \in [Peers -> Managers] /\ \A r \in Peers \ {p} : mgr'[r] = mgr[r]
               /\ BwuTyped'
    BY <2>2, IdleTyped DEF TypeOK
  <2> QED
    BY <2>1, <2>2 DEF WriteLast, WithPrior, AfterLast, m
<1> QED
  BY <1>2, <1>4
  DEF WriteLast, workerVars, NetTyped, SeqTyped, BwuTyped, TypeOK, ChannelsTypeOK,
      WorkersTypeOK

LEMMA DropFrameTyped ==
  ASSUME TypeOK, NEW p \in Peers, DropFrame(p)
  PROVE  TypeOK'
<1>1. tasks' \in [Peers -> Seq(Tasks)]
  BY TakeTaskTyped DEF DropFrame
<1> QED
  BY <1>1 DEF DropFrame, channelVars, workerVars, TypeOK, ChannelsTypeOK, WorkersTypeOK

LEMMA ProcessLastTyped ==
  ASSUME TypeOK, NEW p \in Peers, ProcessLast(p)
  PROVE  TypeOK'
<1>1. tasks' \in [Peers -> Seq(Tasks)] /\ bwu[p].pc = "idle"
  BY TakeTaskTyped DEF ProcessLast
<1>2. mgr' \in [Peers -> Managers] /\ \A r \in Peers \ {p} : mgr'[r] = mgr[r]
  <2>1. [mgr[p] EXCEPT !.upgraded = TRUE] \in Managers
    BY DEF TypeOK, Managers
  <2> QED
    BY <2>1 DEF ProcessLast, TypeOK
<1>3. BwuTyped'
  <2>1. CASE mgr[p].previous = None
    BY <1>1, <1>2, <2>1, StayTyped DEF ProcessLast
  <2>2. CASE mgr[p].previous # None
    <3>1. [pc |-> "safe", chan |-> None, old |-> None] \in Threads
      BY DEF Threads
    <3>2. At(p, "safe", None, None) /\ UNCHANGED mgr
      BY <2>2 DEF ProcessLast
    <3> QED
      BY <1>2, <2>2, <3>1, <3>2, AtTyped
  <2> QED
    BY <2>1, <2>2
<1> QED
  BY <1>1, <1>2, <1>3
  DEF ProcessLast, channelVars, workerVars, BwuTyped, TypeOK, ChannelsTypeOK, WorkersTypeOK

LEMMA WriteSafeTyped ==
  ASSUME TypeOK, NEW p \in Peers, WriteSafe(p)
  PROVE  TypeOK'
<1> DEFINE old == mgr[p].previous
<1>1. old \in Channels /\ ChannelsTypeOK /\ NetTyped /\ ChanTyped
  BY PeerTyped DEF WriteSafe, TypeOK, Managers
<1>2. NetTyped' /\ SeqTyped'
  <2>1. "SAFE" \in FrameKinds \ {"DATA"} /\ 0 \in Channels
    BY ConstantsTyped DEF FrameKinds, Negotiation
  <2>2. Written(p, old, "SAFE", 0) \/ WriteFailed(p, old)
    BY DEF WriteSafe
  <2> QED
    BY <1>1, <2>1, <2>2, WriteTyped
<1>3. ChanTyped'
  <2>1. Closed(p, old) \in [Peers -> [Channels -> ChannelStates]]
    BY <1>1, ClosedTyped
  <2> QED
    BY <1>1, <2>1 DEF WriteSafe, ChanTyped
<1>4. hist' \in [Peers -> Histories]
  <2>1. [hist[p] EXCEPT !.safe = @ \cup {old}] \in Histories
    BY <1>1, PeerTyped, HistoryTyped
  <2> QED
    BY <2>1 DEF WriteSafe, TypeOK, WorkersTypeOK
<1>5. mgr' \in [Peers -> Managers] /\ \A r \in Peers \ {p} : mgr'[r] = mgr[r]
  <2>1. [mgr[p] EXCEPT !.previous = None] \in Managers
    BY DEF TypeOK, Managers
  <2> QED
    BY <2>1 DEF WriteSafe, TypeOK
<1>6. BwuTyped'
  BY <1>5, IdleTyped DEF WriteSafe
<1> QED
  BY <1>2, <1>3, <1>4, <1>5, <1>6
  DEF WriteSafe, workerVars, NetTyped, SeqTyped, ChanTyped, BwuTyped, TypeOK,
      ChannelsTypeOK, WorkersTypeOK

LEMMA ProcessSafeTyped ==
  ASSUME TypeOK, NEW p \in Peers, ProcessSafe(p)
  PROVE  TypeOK'
<1> DEFINE old == mgr[p].previous
<1>1. /\ tasks' \in [Peers -> Seq(Tasks)] /\ bwu[p].pc = "idle"
      /\ old \in Channels \cup {None} /\ ChanTyped
  BY TakeTaskTyped, PeerTyped DEF ProcessSafe, TypeOK, Managers
<1>2. CASE old = None
  BY <1>1, <1>2 DEF ProcessSafe, workerVars, TypeOK, ChannelsTypeOK, WorkersTypeOK
<1>3. CASE old # None
  <2>1. ChanTyped'
    <3>1. old \in Channels /\ chan' = Unencrypted(p, old)
      BY <1>1, <1>3 DEF ProcessSafe
    <3> QED
      BY <1>1, <3>1, ClosedTyped DEF ChanTyped
  <2>2. mgr' \in [Peers -> Managers] /\ \A r \in Peers \ {p} : mgr'[r] = mgr[r]
    <3>1. [mgr[p] EXCEPT !.previous = None] \in Managers
      BY DEF TypeOK, Managers
    <3> QED
      BY <1>3, <3>1 DEF ProcessSafe, TypeOK
  <2>3. BwuTyped'
    <3>1. [pc |-> "disconnect", chan |-> None, old |-> old] \in Threads
      BY <1>1, <1>3 DEF Threads
    <3>2. At(p, "disconnect", None, old)
      BY <1>3 DEF ProcessSafe
    <3> QED
      BY <2>2, <3>1, <3>2, AtTyped
  <2> QED
    BY <1>1, <2>1, <2>2, <2>3
    DEF ProcessSafe, workerVars, ChanTyped, BwuTyped, TypeOK, ChannelsTypeOK, WorkersTypeOK
<1> QED
  BY <1>2, <1>3

LEMMA WriteDisconnectionTyped ==
  ASSUME TypeOK, NEW p \in Peers, WriteDisconnection(p)
  PROVE  TypeOK'
<1> DEFINE old == bwu[p].old
<1>1. old \in Channels /\ ChannelsTypeOK
  BY DEF WriteDisconnection, TypeOK, Threads
<1>2. NetTyped' /\ SeqTyped'
  <2>1. "DISC" \in FrameKinds \ {"DATA"} /\ 0 \in Channels
    BY ConstantsTyped DEF FrameKinds
  <2>2. Written(p, old, "DISC", 0) \/ WriteFailed(p, old)
    BY DEF WriteDisconnection
  <2> QED
    BY <1>1, <2>1, <2>2, WriteTyped
<1>3. BwuTyped'
  <2>1. [pc |-> "drain", chan |-> None, old |-> old] \in Threads
    BY <1>1 DEF Threads
  <2>2. At(p, "drain", None, old) /\ UNCHANGED mgr
    BY DEF WriteDisconnection
  <2> QED
    BY <2>1, <2>2, AtTyped DEF TypeOK
<1> QED
  BY <1>2, <1>3
  DEF WriteDisconnection, workerVars, NetTyped, SeqTyped, BwuTyped, TypeOK,
      ChannelsTypeOK, WorkersTypeOK

LEMMA DrainPriorTyped ==
  ASSUME TypeOK, NEW p \in Peers, DrainPrior(p)
  PROVE  TypeOK'
<1> DEFINE old == bwu[p].old
<1>1. old \in Channels /\ NetTyped /\ ChanTyped
  BY PeerTyped DEF DrainPrior, TypeOK, Threads
<1>2. NetTyped'
  <2>1. CASE CanRead(p, old) /\ net' = Popped(p, old)
    BY <1>1, <2>1, PoppedTyped DEF NetTyped
  <2>2. CASE UNCHANGED net
    BY <1>1, <2>2 DEF NetTyped
  <2> QED
    BY <2>1, <2>2 DEF DrainPrior
<1>3. ChanTyped'
  <2>1. chan' = Closed(p, old)
    BY DEF DrainPrior
  <2> QED
    BY <1>1, <2>1, ClosedTyped DEF ChanTyped
<1>4. BwuTyped'
  <2>1. [pc |-> "finish", chan |-> None, old |-> None] \in Threads
    BY DEF Threads
  <2>2. At(p, "finish", None, None) /\ UNCHANGED mgr
    BY DEF DrainPrior
  <2> QED
    BY <2>1, <2>2, AtTyped DEF TypeOK
<1> QED
  BY <1>2, <1>3, <1>4
  DEF DrainPrior, workerVars, NetTyped, ChanTyped, BwuTyped, TypeOK, ChannelsTypeOK,
      WorkersTypeOK

LEMMA ResumeUpgradedTyped ==
  ASSUME TypeOK, NEW p \in Peers, ResumeUpgraded(p)
  PROVE  TypeOK'
<1> DEFINE c == conn[p].active
<1>1. c \in Channels \cup {None} /\ ChanTyped /\ hist[p] \in Histories /\ mgr[p] \in Managers
  BY PeerTyped DEF TypeOK, Connections
<1>2. CASE c = None
  <2>1. BwuTyped'
    BY <1>2, IdleTyped DEF ResumeUpgraded
  <2> QED
    BY <1>2, <2>1
    DEF ResumeUpgraded, workerVars, BwuTyped, TypeOK, ChannelsTypeOK, WorkersTypeOK
<1>3. CASE c # None
  <2>1. c \in Channels /\ chan' = Resumed(p, c)
    BY <1>1, <1>3 DEF ResumeUpgraded
  <2>2. ChanTyped'
    BY <1>1, <2>1, ClosedTyped DEF ChanTyped
  <2>3. mgr' \in [Peers -> Managers] /\ \A r \in Peers \ {p} : mgr'[r] = mgr[r]
    <3>1. [mgr[p] EXCEPT !.inProgress = FALSE] \in Managers
      BY <1>1 DEF Managers
    <3> QED
      BY <1>3, <3>1 DEF ResumeUpgraded, TypeOK
  <2>4. hist' \in [Peers -> Histories]
    <3>1. [hist[p] EXCEPT !.notified = @ \cup {c}] \in Histories
      BY <1>1, <2>1, HistoryTyped
    <3> QED
      BY <1>3, <3>1 DEF ResumeUpgraded, TypeOK, WorkersTypeOK
  <2>5. BwuTyped'
    BY <2>3, IdleTyped DEF ResumeUpgraded
  <2> QED
    BY <2>2, <2>3, <2>4, <2>5
    DEF ResumeUpgraded, workerVars, ChanTyped, BwuTyped, TypeOK, ChannelsTypeOK,
        WorkersTypeOK
<1> QED
  BY <1>2, <1>3

LEMMA EndpointDisconnectedTyped ==
  ASSUME TypeOK, NEW p \in Peers, EndpointDisconnected(p)
  PROVE  TypeOK'
<1> DEFINE old == mgr[p].previous
           reverted == RevertedFor(p, Arg(p), mgr[p])
           over == [reverted EXCEPT !.medium = None, !.inProgress = FALSE,
                           !.previous = None, !.upgraded = FALSE, !.retry = FALSE]
<1>1. /\ tasks' \in [Peers -> Seq(Tasks)] /\ bwu[p].pc = "idle" /\ mgr[p] \in Managers
      /\ old \in Channels \cup {None} /\ ChanTyped /\ conn[p] \in Connections
  BY TakeTaskTyped, PeerTyped DEF EndpointDisconnected, TypeOK, Managers
<1>2. ChanTyped'
  BY <1>1, ClosedTyped DEF EndpointDisconnected, ChanTyped
<1>3. mgr' \in [Peers -> Managers] /\ \A r \in Peers \ {p} : mgr'[r] = mgr[r]
  <2>1. reverted \in Managers
    BY <1>1, RevertedForTyped
  <2> HIDE DEF reverted
  <2>2. over \in Managers
    BY <2>1 DEF Managers
  <2>3. ManagerOf(p, over)
    BY DEF EndpointDisconnected, Forgotten, reverted
  <2> HIDE DEF over
  <2> QED
    BY <2>2, <2>3, ManagerOfTyped
<1>4. BwuTyped'
  BY <1>1, <1>3, StayTyped DEF EndpointDisconnected
<1>5. conn' \in [Peers -> Connections]
  <2>1. conn[p].em = "removing" => [conn[p] EXCEPT !.em = "cleaned"] \in Connections
    BY <1>1 DEF Connections
  <2>2. [conn[p] EXCEPT !.em = IF @ = "removing" THEN "cleaned" ELSE @] \in Connections
    BY <1>1, <2>1 DEF Connections
  <2> QED
    BY <2>2 DEF EndpointDisconnected, TypeOK, WorkersTypeOK
<1> QED
  BY <1>1, <1>2, <1>3, <1>4, <1>5
  DEF EndpointDisconnected, workerVars, ChanTyped, BwuTyped, TypeOK, ChannelsTypeOK,
      WorkersTypeOK

-----------------------------------------------------------------------------
(* Type correctness *)

\* TypeOK is inductive.
LEMMA NextTyped ==
  ASSUME TypeOK, [Next]_vars
  PROVE  TypeOK'
<1>1. CASE \E p \in Peers : ThreadStep(p)
  BY <1>1, InitiateUpgradeTyped, WritePathTyped, ProcessUpgradeFailureTyped,
     RetryUpgradeTyped, ProcessPathTyped, AwaitAckTyped, WriteFailureTyped,
     IncomingConnectionTyped, ReplaceChannelTyped, WriteLastTyped, DropFrameTyped,
     ProcessLastTyped, WriteSafeTyped, ProcessSafeTyped, WriteDisconnectionTyped,
     DrainPriorTyped, ResumeUpgradedTyped, EndpointDisconnectedTyped
  DEF ThreadStep
<1>2. CASE \E p \in Peers : RequestUpgrade(p) \/ RetryAlarm(p)
  BY <1>2, RequestUpgradeTyped, RetryAlarmTyped
<1>3. CASE \E c \in Channels : Accept(c)
  BY <1>3, AcceptTyped
<1>4. CASE WorkersNext /\ UNCHANGED <<mgr, bwu, opened, requests>>
  BY <1>4, WorkersNextTyped DEF ManagerUnchanged
<1>5. CASE UNCHANGED vars
  BY <1>5 DEF vars, channelVars, workerVars, TypeOK, ChannelsTypeOK, WorkersTypeOK
<1> QED
  BY <1>1, <1>2, <1>3, <1>4, <1>5 DEF Next

\* Every reachable state is well formed, for any number of attempts, faults,
\* payloads and mediums.  Beyond the sorts this says that the endpoint's entry
\* in EndpointChannelManager is there exactly while EndpointManager has not
\* removed it, that a handler of BwuManager holds the channels its next step
\* dereferences, and that SAFE_TO_CLOSE_PRIOR_CHANNEL is only written when
\* previous_endpoint_channels_ has the channel (bwu_manager.cc:1288).
THEOREM TypeCorrect == Spec => []TypeOK
<1>1. Init => TypeOK
  BY InitTyped
<1>2. TypeOK /\ [Next]_vars => TypeOK'
  BY NextTyped
<1> QED
  BY <1>1, <1>2, PTL DEF Spec

-----------------------------------------------------------------------------
(* NothingLeft *)

\* NothingLeft, and the BwuManager thread is not half way through an attempt that
\* would fill the maps again.
OverInv ==
    \A p \in Peers :
        Gone(p) /\ ~OverIn(tasks[p]) => Clean(p) /\ bwu[p].pc \in {"idle", "fail"}

\* No OVER is lost from r's queue.
Kept(r) == OverIn(tasks[r]) => OverIn(tasks'[r])

\* A task appended to a queue leaves an OVER in it, and may be one.
LEMMA AppendOver ==
  ASSUME NEW q \in Seq(Tasks), NEW t, OverIn(q) \/ t.kind = "OVER"
  PROVE  OverIn(Append(q, t))
<1>1. CASE OverIn(q)
  <2>1. PICK i \in DOMAIN q : q[i].kind = "OVER"
    BY <1>1 DEF OverIn
  <2>2. i \in DOMAIN Append(q, t) /\ Append(q, t)[i] = q[i]
    OBVIOUS
  <2> QED
    BY <2>1, <2>2 DEF OverIn
<1>2. CASE t.kind = "OVER"
  <2>1. Len(q) + 1 \in DOMAIN Append(q, t) /\ Append(q, t)[Len(q) + 1] = t
    OBVIOUS
  <2> QED
    BY <1>2, <2>1 DEF OverIn
<1> QED
  BY <1>1, <1>2

\* Taking a task other than OVER leaves an OVER in the queue.
LEMMA TailOver ==
  ASSUME NEW q \in Seq(Tasks), q # << >>, Head(q).kind # "OVER", OverIn(q)
  PROVE  OverIn(Tail(q))
<1>1. PICK i \in DOMAIN q : q[i].kind = "OVER"
  BY DEF OverIn
<1>2. i # 1 /\ i \in 1..Len(q)
  BY <1>1
<1>3. i - 1 \in DOMAIN Tail(q) /\ Tail(q)[i - 1] = q[i]
  BY <1>2
<1> QED
  BY <1>1, <1>3 DEF OverIn

\* Posting a task loses no OVER.
LEMMA PostKept ==
  ASSUME TypeOK, NEW p \in Peers, NEW kind, NEW arg,
         tasks' = [tasks EXCEPT ![p] = Post(p, kind, arg)]
  PROVE  /\ \A r \in Peers : Kept(r)
         /\ kind = "OVER" => OverIn(tasks'[p])
BY AppendOver DEF Kept, Post, TypeOK, WorkersTypeOK

\* Nor does a handler of another kind of task.
LEMMA TakeTaskKept ==
  ASSUME TypeOK, NEW p \in Peers, NEW kind, Task(p, kind), kind # "OVER"
  PROVE  /\ OverIn(tasks[p]) => OverIn(Tail(tasks[p]))
         /\ TakeTask(p) => \A r \in Peers : Kept(r)
<1>1. tasks \in [Peers -> Seq(Tasks)]
  BY DEF TypeOK, WorkersTypeOK
<1>2. tasks[p] \in Seq(Tasks) /\ tasks[p] # << >> /\ Head(tasks[p]).kind # "OVER"
  BY <1>1 DEF Task
<1>3. OverIn(tasks[p]) => OverIn(Tail(tasks[p]))
  BY <1>2, TailOver
<1>4. ASSUME TakeTask(p), NEW r \in Peers
      PROVE  tasks'[r] = IF r = p THEN Tail(tasks[p]) ELSE tasks[r]
  BY <1>1, <1>4 DEF TakeTask
<1> QED
  BY <1>3, <1>4 DEF Kept

\* Nor does a step that leaves the queues alone.
LEMMA UnchangedKept ==
  ASSUME UNCHANGED tasks
  PROVE  \A r \in Peers : Kept(r)
BY DEF Kept

\* TryNextBestUpgradeMediums loses no OVER and marks no upgrade.
LEMMA TryNextBestKept ==
  ASSUME TypeOK, NEW p \in Peers, NEW m \in Managers, NEW S, NEW q \in Seq(Tasks),
         OverIn(tasks[p]) => OverIn(q), TryNextBest(p, m, S, q)
  PROVE  /\ \A r \in Peers : Kept(r)
         /\ \A r \in Peers \ {p} : mgr'[r] = mgr[r]
         /\ mgr'[p].inProgress = m.inProgress
         /\ mgr'[p].previous = m.previous
         /\ mgr'[p].upgraded = m.upgraded
<1>1. PICK next \in Choices(m.medium, S) :
        \/ mgr' = [mgr EXCEPT ![p] = [m EXCEPT !.retry = TRUE]]
           /\ tasks' = [tasks EXCEPT ![p] = q]
        \/ mgr' = [mgr EXCEPT ![p] = m] /\ tasks' = [tasks EXCEPT ![p] = q]
        \/ mgr' = [mgr EXCEPT ![p] = [m EXCEPT !.medium = next]]
           /\ tasks' = [tasks EXCEPT ![p] = Append(q, [kind |-> "INIT", arg |-> next])]
  BY DEF TryNextBest, ManagerOf
<1>2. /\ \A r \in Peers \ {p} : mgr'[r] = mgr[r]
      /\ mgr'[p].inProgress = m.inProgress
      /\ mgr'[p].previous = m.previous
      /\ mgr'[p].upgraded = m.upgraded
  BY <1>1 DEF TypeOK, Managers
<1>3. \A r \in Peers \ {p} : tasks'[r] = tasks[r]
  BY <1>1 DEF TypeOK, WorkersTypeOK
<1>4. tasks'[p] = q \/ tasks'[p] = Append(q, [kind |-> "INIT", arg |-> next])
  BY <1>1 DEF TypeOK, WorkersTypeOK
<1>5. OverIn(q) => OverIn(tasks'[p])
  BY <1>4, AppendOver
<1> QED
  BY <1>2, <1>3, <1>5 DEF Kept

\* ProcessUpgradeFailureEvent loses no OVER and clears in_progress_upgrades_.
LEMMA UpgradeFailureKept ==
  ASSUME TypeOK, NEW p \in Peers, NEW m \in Managers, NEW medium, NEW q \in Seq(Tasks),
         OverIn(tasks[p]) => OverIn(q), UpgradeFailure(p, m, medium, q)
  PROVE  /\ \A r \in Peers : Kept(r)
         /\ \A r \in Peers \ {p} : mgr'[r] = mgr[r]
         /\ mgr'[p].inProgress = FALSE
         /\ mgr'[p].previous = m.previous
         /\ mgr'[p].upgraded = m.upgraded
<1> DEFINE cleared == [m EXCEPT !.inProgress = FALSE]
           reverted == IF m.medium = None THEN cleared ELSE Reverted(cleared)
<1>1. cleared \in Managers /\ cleared.inProgress = FALSE
      /\ cleared.previous = m.previous /\ cleared.upgraded = m.upgraded
  BY DEF Managers
<1>2. reverted \in Managers
  BY <1>1, RevertedTyped
<1>3. /\ reverted.inProgress = FALSE
      /\ reverted.previous = m.previous /\ reverted.upgraded = m.upgraded
  BY <1>1 DEF Reverted, Managers
<1>4. TryNextBest(p, reverted, Untried(medium), q)
  BY DEF UpgradeFailure
<1> HIDE DEF reverted
<1> QED
  BY <1>2, <1>3, <1>4, TryNextBestKept

\* OverInv survives a step that loses no OVER and leaves a device at rest at rest.
LEMMA OverInvKept ==
  ASSUME TypeOK, OverInv, NEW p \in Peers,
         \A r \in Peers : Kept(r),
         \A r \in Peers : Gone(r)' <=> Gone(r),
         \A r \in Peers \ {p} : mgr'[r] = mgr[r] /\ bwu'[r] = bwu[r],
         Gone(p) /\ Clean(p) /\ bwu[p].pc \in {"idle", "fail"} =>
            Clean(p)' /\ bwu'[p].pc \in {"idle", "fail"}
  PROVE  OverInv'
BY DEF OverInv, Kept, Clean

\* Routing a frame loses no OVER.
LEMMA RouteKept ==
  ASSUME TypeOK, NEW p \in Peers, NEW c, NEW f, Route(p, c, f)
  PROVE  \A r \in Peers : Kept(r)
BY PostKept, UnchangedKept DEF Route

\* The workers keep OverInv: whoever unregisters the channel has posted OVER.
LEMMA WorkersOver ==
  ASSUME TypeOK, OverInv, WorkersNext, ManagerUnchanged
  PROVE  OverInv'
<1>1. ASSUME NEW p \in Peers,
             ReaderStep(p) \/ KeeperStep(p) \/ WriterStep(p) \/ KeeperTimeout(p)
             \/ Disconnected(p) \/ OnConnectionAccepted(p) \/ Leave(p) \/ BeginRemoval(p)
      PROVE  OverInv'
  <2>1. \A r \in Peers : Kept(r)
    BY <1>1, RouteKept, UnchangedKept
    DEF ReaderStep, ReaderFetch, ReaderRead, ReaderFail, ReaderFrame, ReaderAck, KeeperStep,
        KeeperFetch, KeeperWrite, KeeperTimeout, WriterStep, WriterFetch, WriterWrite,
        Disconnected, OnConnectionAccepted, Leave, BeginRemoval
  <2>2. conn \in [Peers -> Connections] /\ conn[p] \in Connections
    BY DEF TypeOK, WorkersTypeOK
  <2>3. \A r \in Peers : conn'[r].active = conn[r].active
    <3>1. CASE UNCHANGED conn
      BY <3>1
    <3>2. CASE Disconnected(p)
      BY <2>2, <3>2 DEF Disconnected, Connections
    <3>3. CASE OnConnectionAccepted(p)
      BY <2>2, <3>3 DEF OnConnectionAccepted, Connections
    <3>4. CASE Leave(p)
      BY <2>2, <3>4 DEF Leave, Connections
    <3>5. CASE BeginRemoval(p)
      BY <2>2, <3>5 DEF BeginRemoval, Connections
    <3> QED
      BY <1>1, <3>1, <3>2, <3>3, <3>4, <3>5
      DEF ReaderStep, ReaderFetch, ReaderRead, ReaderFail, ReaderFrame, ReaderAck,
          KeeperStep, KeeperFetch, KeeperWrite, KeeperTimeout, WriterStep, WriterFetch,
          WriterWrite
  <2> QED
    BY <2>1, <2>3, OverInvKept DEF ManagerUnchanged, Clean, Gone
<1>2. ASSUME NEW p \in Peers, RemoveEndpoint(p)
      PROVE  OverInv'
  <2>1. (\A r \in Peers : Kept(r)) /\ OverIn(tasks'[p])
    BY <1>2, PostKept DEF RemoveEndpoint
  <2>2. \A r \in Peers \ {p} : Gone(r)' <=> Gone(r)
    BY <1>2 DEF RemoveEndpoint, Gone, TypeOK, WorkersTypeOK
  <2> QED
    BY <2>1, <2>2 DEF OverInv, Kept, Clean, ManagerUnchanged
<1>3. ASSUME NEW c \in Channels, BreakLink(c)
      PROVE  OverInv'
  BY <1>3 DEF BreakLink, ManagerUnchanged, OverInv, Gone, Clean
<1> QED
  BY <1>1, <1>2, <1>3 DEF WorkersNext


\* A step of p's thread that keeps every OVER queued, and touches no other device.
Framed(p) ==
    /\ \A r \in Peers : Kept(r)
    /\ \A r \in Peers : Gone(r)' <=> Gone(r)
    /\ \A r \in Peers \ {p} : mgr'[r] = mgr[r] /\ bwu'[r] = bwu[r]

\* The thread of a removed endpoint, after its OVER.
AtRest(p) == Clean(p) /\ bwu[p].pc \in {"idle", "fail"}

\* A step of p's thread keeps OverInv if p stays at rest once it is.
LEMMA FramedKeeps ==
  ASSUME TypeOK, OverInv, NEW p \in Peers, Framed(p),
         Gone(p) /\ AtRest(p) => AtRest(p)'
  PROVE  OverInv'
BY OverInvKept DEF Framed, AtRest

\* The updates of one device leave the other one alone.
LEMMA ManagerOfOthers ==
  ASSUME TypeOK, NEW p \in Peers, NEW m, ManagerOf(p, m)
  PROVE  mgr'[p] = m /\ \A r \in Peers \ {p} : mgr'[r] = mgr[r]
BY DEF ManagerOf, TypeOK

LEMMA AtOthers ==
  ASSUME TypeOK, NEW p \in Peers, NEW pc, NEW c, NEW old, At(p, pc, c, old)
  PROVE  bwu'[p].pc = pc /\ \A r \in Peers \ {p} : bwu'[r] = bwu[r]
BY DEF At, TypeOK

LEMMA IdleOthers ==
  ASSUME TypeOK, NEW p \in Peers, Idle(p)
  PROVE  bwu'[p].pc = "idle" /\ \A r \in Peers \ {p} : bwu'[r] = bwu[r]
BY AtOthers DEF Idle

\* Without a change of the active channels no endpoint comes or goes.
LEMMA GoneSame ==
  ASSUME UNCHANGED conn
  PROVE  \A r \in Peers : Gone(r)' <=> Gone(r)
BY DEF Gone

\* Handlers that only answer with a task of their own.
LEMMA PostingOver ==
  ASSUME TypeOK, OverInv, NEW p \in Peers, RequestUpgrade(p) \/ RetryAlarm(p)
  PROVE  OverInv'
<1>1. \A r \in Peers : Kept(r)
  BY PostKept DEF RequestUpgrade, RetryAlarm
<1>2. UNCHANGED <<conn, bwu>>
  BY DEF RequestUpgrade, RetryAlarm
<1>3. \A r \in Peers : /\ mgr'[r].inProgress = mgr[r].inProgress
                       /\ mgr'[r].previous = mgr[r].previous
                       /\ mgr'[r].upgraded = mgr[r].upgraded
  BY DEF RequestUpgrade, RetryAlarm, TypeOK, Managers
<1> QED
  BY <1>1, <1>2, <1>3 DEF OverInv, Gone, Kept, Clean

\* What UpgradeFailure needs of its arguments, and gives.
LEMMA FailureOver ==
  ASSUME TypeOK, OverInv, NEW p \in Peers, NEW m \in Managers, NEW medium,
         NEW q \in Seq(Tasks), OverIn(tasks[p]) => OverIn(q),
         m.previous = mgr[p].previous, m.upgraded = mgr[p].upgraded,
         UpgradeFailure(p, m, medium, q),
         UNCHANGED conn, bwu'[p].pc = "idle",
         \A r \in Peers \ {p} : bwu'[r] = bwu[r]
  PROVE  OverInv'
<1>1. Framed(p)
  BY UpgradeFailureKept, GoneSame DEF Framed
<1>2. AtRest(p) => AtRest(p)'
  BY UpgradeFailureKept DEF AtRest, Clean
<1> QED
  BY <1>1, <1>2, FramedKeeps

\* The queue and the maps of one device.
LEMMA QueueTyped ==
  ASSUME TypeOK, NEW p \in Peers
  PROVE  /\ tasks[p] \in Seq(Tasks)
         /\ mgr[p] \in Managers
         /\ tasks[p] # << >> => Tail(tasks[p]) \in Seq(Tasks)
BY DEF TypeOK, WorkersTypeOK

\* Without an active channel InitiateBwuForEndpoint starts nothing.
LEMMA InitiateUpgradeOver ==
  ASSUME TypeOK, OverInv, NEW p \in Peers, InitiateUpgrade(p)
  PROVE  OverInv'
<1> DEFINE set == [mgr[p] EXCEPT !.medium = Arg(p)]
           started == [set EXCEPT !.retry = FALSE]
           useless == conn[p].active = None \/ Arg(p) = MediumOf(p)
<1>1. Task(p, "INIT") /\ UNCHANGED conn /\ bwu[p].pc = "idle"
  BY DEF InitiateUpgrade, Task
<1>2. /\ OverIn(tasks[p]) => OverIn(Tail(tasks[p]))
      /\ TakeTask(p) => \A r \in Peers : Kept(r)
  BY <1>1, TakeTaskKept
<1>3. /\ set.inProgress = mgr[p].inProgress /\ started.inProgress = mgr[p].inProgress
      /\ set.previous = mgr[p].previous /\ started.previous = mgr[p].previous
      /\ set.upgraded = mgr[p].upgraded /\ started.upgraded = mgr[p].upgraded
      /\ set \in Managers \/ Arg(p) \notin Mediums \cup {None}
  BY QueueTyped DEF Managers
<1>4. CASE TakeTask(p) /\ UNCHANGED bwu
           /\ (UNCHANGED mgr \/ ManagerOf(p, set) \/ ManagerOf(p, started))
  <2>1. Framed(p)
    BY <1>1, <1>2, <1>4, GoneSame, ManagerOfOthers DEF Framed
  <2>2. AtRest(p) => AtRest(p)'
    BY <1>3, <1>4, ManagerOfOthers DEF AtRest, Clean
  <2> QED
    BY <2>1, <2>2, FramedKeeps
<1>5. CASE /\ ~useless
           /\ ManagerOf(p, [started EXCEPT !.listening = @ \cup {opened + 1}])
           /\ At(p, "path", opened + 1, conn[p].active)
           /\ TakeTask(p)
  <2>1. Framed(p)
    BY <1>1, <1>2, <1>5, GoneSame, ManagerOfOthers, AtOthers DEF Framed
  <2>2. ~Gone(p)
    BY <1>5 DEF Gone
  <2> QED
    BY <2>1, <2>2, FramedKeeps
<1>6. CASE UpgradeFailure(p, started, Arg(p), Tail(tasks[p])) /\ UNCHANGED bwu
  <2>1. Arg(p) \in Mediums \cup {None}
    BY <1>1, TaskTyped
  <2>2. started \in Managers
    BY <2>1, QueueTyped DEF Managers
  <2>3. Tail(tasks[p]) \in Seq(Tasks)
    BY <1>1, QueueTyped DEF Task
  <2> QED
    BY <1>1, <1>2, <1>3, <1>6, <2>2, <2>3, FailureOver
<1> QED
  BY <1>4, <1>5, <1>6 DEF InitiateUpgrade

\* A failed write, and UPGRADE_FAILURE, mark no upgrade of a removed endpoint.
LEMMA FailingOver ==
  ASSUME TypeOK, OverInv, NEW p \in Peers, WritePath(p) \/ ProcessUpgradeFailure(p)
  PROVE  OverInv'
<1>1. CASE WritePath(p)
  <2>1. bwu[p].pc = "path" /\ UNCHANGED conn /\ Idle(p)
    BY <1>1 DEF WritePath
  <2>2. CASE ManagerOf(p, [mgr[p] EXCEPT !.inProgress = TRUE]) /\ UNCHANGED tasks
    <3>1. Framed(p)
      BY <2>1, <2>2, UnchangedKept, GoneSame, ManagerOfOthers, IdleOthers DEF Framed
    <3>2. ~AtRest(p)
      BY <2>1 DEF AtRest
    <3> QED
      BY <3>1, <3>2, FramedKeeps
  <2>3. CASE UpgradeFailure(p, mgr[p], link[bwu[p].chan].medium, tasks[p])
    BY <2>1, <2>3, QueueTyped, IdleOthers, FailureOver
  <2> QED
    BY <1>1, <2>2, <2>3 DEF WritePath
<1>2. CASE ProcessUpgradeFailure(p)
  <2>1. /\ Task(p, "FAIL") /\ UNCHANGED <<conn, bwu>> /\ bwu[p].pc = "idle"
        /\ UpgradeFailure(p, mgr[p], link[Arg(p)].medium, Tail(tasks[p]))
        /\ tasks[p] # << >>
    BY <1>2 DEF ProcessUpgradeFailure, Task
  <2>2. OverIn(tasks[p]) => OverIn(Tail(tasks[p]))
    BY <2>1, TakeTaskKept
  <2> QED
    BY <2>1, <2>2, QueueTyped, FailureOver
<1> QED
  BY <1>1, <1>2

\* The retry alarm's task marks none.
LEMMA RetryUpgradeOver ==
  ASSUME TypeOK, OverInv, NEW p \in Peers, RetryUpgrade(p)
  PROVE  OverInv'
<1>1. /\ Task(p, "RETRY") /\ UNCHANGED <<conn, bwu>> /\ tasks[p] # << >>
  BY DEF RetryUpgrade, Task
<1>2. /\ OverIn(tasks[p]) => OverIn(Tail(tasks[p]))
      /\ TakeTask(p) => \A r \in Peers : Kept(r)
  BY <1>1, TakeTaskKept
<1>3. CASE TakeTask(p) /\ UNCHANGED mgr
  BY <1>1, <1>2, <1>3, GoneSame, FramedKeeps DEF Framed, AtRest, Clean
<1>4. CASE TryNextBest(p, mgr[p], AllUpgradeMediums, Tail(tasks[p]))
  <2>1. /\ \A r \in Peers : Kept(r)
        /\ \A r \in Peers \ {p} : mgr'[r] = mgr[r]
        /\ mgr'[p].inProgress = mgr[p].inProgress
        /\ mgr'[p].previous = mgr[p].previous
        /\ mgr'[p].upgraded = mgr[p].upgraded
    BY <1>1, <1>2, <1>4, QueueTyped, TryNextBestKept
  <2> QED
    BY <1>1, <2>1, GoneSame, FramedKeeps DEF Framed, AtRest, Clean
<1> QED
  BY <1>3, <1>4 DEF RetryUpgrade


\* The later steps of a handler leave the queue alone and never start from rest.
LEMMA LaterStepOver ==
  ASSUME TypeOK, OverInv, NEW p \in Peers,
         AwaitAck(p) \/ ReplaceChannel(p) \/ WriteLast(p) \/ WriteSafe(p)
         \/ WriteDisconnection(p) \/ DrainPrior(p) \/ ResumeUpgraded(p)
  PROVE  OverInv'
<1>1. UNCHANGED tasks /\ ~AtRest(p)
  BY DEF AwaitAck, ReplaceChannel, WriteLast, WriteSafe, WriteDisconnection, DrainPrior,
         ResumeUpgraded, AtRest
<1>2. \A r \in Peers : Gone(r)' <=> Gone(r)
  <2>1. CASE UNCHANGED conn
    BY <2>1, GoneSame
  <2>2. CASE ReplaceChannel(p) /\ conn' = [conn EXCEPT ![p].active = bwu[p].chan]
              /\ conn[p].active # None
    <3>1. conn \in [Peers -> Connections] /\ conn[p] \in Connections
      BY DEF TypeOK, WorkersTypeOK
    <3>2. conn'[p].active = bwu[p].chan /\ \A r \in Peers \ {p} : conn'[r] = conn[r]
      BY <2>2, <3>1 DEF Connections
    <3>3. bwu[p].chan \in Channels
      BY <2>2 DEF ReplaceChannel, TypeOK, Threads
    <3> QED
      BY <2>2, <3>2, <3>3, ConstantsTyped DEF Gone
  <2> QED
    BY <2>1, <2>2 DEF AwaitAck, ReplaceChannel, WriteLast, WriteSafe, WriteDisconnection,
                      DrainPrior, ResumeUpgraded
<1>3. \A r \in Peers \ {p} : mgr'[r] = mgr[r]
  BY DEF AwaitAck, ReplaceChannel, WriteLast, WriteSafe, WriteDisconnection, DrainPrior,
         ResumeUpgraded, ManagerOf, TypeOK
<1>4. \A r \in Peers \ {p} : bwu'[r] = bwu[r]
  BY DEF AwaitAck, ReplaceChannel, WriteLast, WriteSafe, WriteDisconnection, DrainPrior,
         ResumeUpgraded, AfterLast, Idle, At, TypeOK
<1> QED
  BY <1>1, <1>2, <1>3, <1>4, UnchangedKept, FramedKeeps DEF Framed

\* RunUpgradeFailedProtocol leaves the maps alone without an active channel.
LEMMA WriteFailureOver ==
  ASSUME TypeOK, OverInv, NEW p \in Peers, WriteFailure(p)
  PROVE  OverInv'
<1>1. UNCHANGED <<tasks, conn>> /\ Idle(p)
  BY DEF WriteFailure
<1>2. \A r \in Peers \ {p} : mgr'[r] = mgr[r]
  BY DEF WriteFailure, ManagerOf, TypeOK
<1>3. Framed(p)
  BY <1>1, <1>2, UnchangedKept, GoneSame, IdleOthers DEF Framed
<1>4. Gone(p) => UNCHANGED mgr
  BY DEF WriteFailure, Gone
<1>5. Gone(p) /\ AtRest(p) => AtRest(p)'
  BY <1>1, <1>4, IdleOthers DEF AtRest, Clean
<1> QED
  BY <1>3, <1>5, FramedKeeps

\* Handlers that take a frame's task: without an upgrade in progress they drop it.
LEMMA FrameOver ==
  ASSUME TypeOK, OverInv, NEW p \in Peers, DropFrame(p) \/ ProcessLast(p) \/ ProcessSafe(p)
  PROVE  OverInv'
<1>1. UNCHANGED conn /\ TakeTask(p) /\ (Task(p, "LAST") \/ Task(p, "SAFE") \/ Task(p, "FAIL"))
  BY DEF DropFrame, ProcessLast, ProcessSafe
<1>2. \A r \in Peers : Kept(r)
  BY <1>1, TakeTaskKept
<1>3. \A r \in Peers \ {p} : mgr'[r] = mgr[r] /\ bwu'[r] = bwu[r]
  BY DEF DropFrame, ProcessLast, ProcessSafe, At, TypeOK
<1>4. AtRest(p) => UNCHANGED <<mgr, bwu>>
  BY DEF DropFrame, ProcessLast, ProcessSafe, Expected, AtRest, Clean
<1>5. AtRest(p) => AtRest(p)'
  BY <1>4 DEF AtRest, Clean
<1> QED
  BY <1>1, <1>2, <1>3, <1>5, GoneSame, FramedKeeps DEF Framed

\* A socket accepted for an endpoint that is gone finds no upgrade in progress.
LEMMA IncomingConnectionOver ==
  ASSUME TypeOK, OverInv, NEW p \in Peers, IncomingConnection(p)
  PROVE  OverInv'
<1>1. UNCHANGED conn /\ TakeTask(p) /\ Task(p, "INCOMING")
  BY DEF IncomingConnection
<1>2. \A r \in Peers : Kept(r)
  BY <1>1, TakeTaskKept
<1>3. \A r \in Peers \ {p} : mgr'[r] = mgr[r] /\ bwu'[r] = bwu[r]
  BY DEF IncomingConnection, At, TypeOK
<1>4. AtRest(p) => UNCHANGED <<mgr, bwu>>
  BY DEF IncomingConnection, AtRest, Clean
<1>5. AtRest(p) => AtRest(p)'
  BY <1>4 DEF AtRest, Clean
<1> QED
  BY <1>1, <1>2, <1>3, <1>5, GoneSame, FramedKeeps DEF Framed

\* An offer joins nothing without an active channel.
LEMMA ProcessPathOver ==
  ASSUME TypeOK, OverInv, NEW p \in Peers, ProcessPath(p)
  PROVE  OverInv'
<1> DEFINE q == Other(p)
           mine == IF mgr[p].medium = None
                   THEN [mgr[p] EXCEPT !.medium = link[Arg(p)].medium] ELSE mgr[p]
<1>1. UNCHANGED conn /\ Task(p, "PATH") /\ q \in Peers /\ q # p
  <2>1. UNCHANGED conn /\ Task(p, "PATH")
    BY DEF ProcessPath
  <2>2. q \in Peers /\ q # p
    BY PeersDistinct DEF Other
  <2> QED
    BY <2>1, <2>2
<1>2. TakeTask(p) => \A r \in Peers : Kept(r)
  BY <1>1, TakeTaskKept
<1>3. /\ mine.inProgress = mgr[p].inProgress
      /\ mine.previous = mgr[p].previous
      /\ mine.upgraded = mgr[p].upgraded
  BY QueueTyped DEF Managers
<1>4. CASE TakeTask(p) /\ (UNCHANGED mgr \/ ManagerOf(p, mine))
           /\ (UNCHANGED bwu \/ At(p, "fail", Arg(p), None))
  <2>1. Framed(p)
    BY <1>1, <1>2, <1>4, GoneSame, ManagerOfOthers, AtOthers DEF Framed
  <2>2. Clean(p) => Clean(p)'
    BY <1>3, <1>4, ManagerOfOthers DEF Clean
  <2>3. bwu'[p].pc \in {bwu[p].pc, "fail"}
    BY <1>4, AtOthers
  <2>4. AtRest(p) => AtRest(p)'
    BY <2>2, <2>3 DEF AtRest
  <2> QED
    BY <2>1, <2>4, FramedKeeps
<1>5. CASE /\ mgr[p].inProgress
           /\ mgr' = [mgr EXCEPT ![p].previous = None]
           /\ TakeTask(p) /\ UNCHANGED bwu
  <2>1. Framed(p)
    BY <1>1, <1>2, <1>5, GoneSame DEF Framed, TypeOK
  <2>2. ~AtRest(p)
    BY <1>5 DEF AtRest, Clean
  <2> QED
    BY <2>1, <2>2, FramedKeeps
<1>6. ASSUME NEW m, NEW pc, ManagerOf(p, m), At(p, pc, Arg(p), None),
             conn[p].active # None, TakeTask(p)
      PROVE  OverInv'
  <2>1. Framed(p)
    BY <1>1, <1>2, <1>6, GoneSame, ManagerOfOthers, AtOthers DEF Framed
  <2>2. ~Gone(p)
    BY <1>6 DEF Gone
  <2> QED
    BY <2>1, <2>2, FramedKeeps
<1>7. CASE Join(p, Arg(p), mine)
  BY <1>6, <1>7 DEF Join, CanJoin
<1> QED
  BY <1>4, <1>5, <1>7 DEF ProcessPath, JoinFails, CloseAllChannels

\* The accept loop only posts a task.
LEMMA AcceptOver ==
  ASSUME TypeOK, OverInv, NEW c \in Channels, Accept(c)
  PROVE  OverInv'
<1>1. Advertiser \in Peers
  BY ConstantsTyped
<1>2. \A r \in Peers : Kept(r)
  BY <1>1, PostKept, UnchangedKept DEF Accept
<1> QED
  BY <1>2 DEF Accept, OverInv, Gone, Kept, Clean

\* OnEndpointDisconnect clears every map but the listening handlers.
LEMMA EndpointDisconnectedOver ==
  ASSUME TypeOK, OverInv, NEW p \in Peers, EndpointDisconnected(p)
  PROVE  OverInv'
<1> DEFINE reverted == RevertedFor(p, Arg(p), mgr[p])
           m == [reverted EXCEPT !.medium = None, !.inProgress = FALSE,
                                 !.previous = None, !.upgraded = FALSE, !.retry = FALSE]
<1>1. /\ Task(p, "OVER") /\ TakeTask(p) /\ UNCHANGED bwu
      /\ mgr' = [mgr EXCEPT ![p] = m]
      /\ conn' = [conn EXCEPT ![p].em = IF @ = "removing" THEN "cleaned" ELSE @]
  BY DEF EndpointDisconnected, Forgotten, ManagerOf
<1>2. reverted \in Managers
  BY QueueTyped, RevertedForTyped
<1>3. m.inProgress = FALSE /\ m.previous = None /\ m.upgraded = FALSE
  BY <1>2 DEF Managers
<1>4. mgr'[p] = m /\ \A r \in Peers \ {p} : mgr'[r] = mgr[r]
  BY <1>1 DEF TypeOK
<1>5. Clean(p)'
  <2> HIDE DEF m
  <2> QED
    BY <1>3, <1>4 DEF Clean
<1>6. bwu'[p].pc = "idle"
  BY <1>1 DEF Task
<1>7. \A r \in Peers \ {p} : tasks'[r] = tasks[r] /\ (Gone(r)' <=> Gone(r))
  BY <1>1 DEF TakeTask, Gone, TypeOK, WorkersTypeOK
<1>8. \A r \in Peers \ {p} : Clean(r)' <=> Clean(r)
  BY <1>4 DEF Clean
<1> HIDE DEF m, reverted
<1> QED
  BY <1>1, <1>5, <1>6, <1>7, <1>8 DEF OverInv

\* OverInv is inductive, given TypeOK.
LEMMA NextOver ==
  ASSUME TypeOK, OverInv, [Next]_vars
  PROVE  OverInv'
<1>1. CASE Next
  <2>1. ASSUME NEW p \in Peers, ThreadStep(p) \/ RequestUpgrade(p) \/ RetryAlarm(p)
        PROVE  OverInv'
    BY <2>1, PostingOver, InitiateUpgradeOver, FailingOver, RetryUpgradeOver, LaterStepOver,
       WriteFailureOver, FrameOver, IncomingConnectionOver, ProcessPathOver,
       EndpointDisconnectedOver
    DEF ThreadStep
  <2>2. ASSUME NEW c \in Channels, Accept(c)
        PROVE  OverInv'
    BY <2>2, AcceptOver
  <2>3. ASSUME WorkersNext, UNCHANGED <<mgr, bwu, opened, requests>>
        PROVE  OverInv'
    BY <2>3, WorkersOver DEF ManagerUnchanged
  <2> QED
    BY <1>1, <2>1, <2>2, <2>3 DEF Next
<1>2. CASE UNCHANGED vars
  BY <1>2 DEF vars, OverInv, Gone, Clean
<1> QED
  BY <1>1, <1>2

\* Once OnEndpointDisconnect has run for a removed endpoint, no later frame, alarm
\* or request starts an upgrade of it again.
THEOREM NothingLeftBehind == Spec => []NothingLeft
<1>1. Init => OverInv
  BY ConstantsTyped DEF Init, WorkersInit, OverInv, Gone
<1>2. TypeOK /\ OverInv /\ [Next]_vars => OverInv'
  BY NextOver
<1>3. OverInv => NothingLeft
  BY DEF OverInv, NothingLeft
<1> QED
  BY <1>1, <1>2, <1>3, TypeCorrect, PTL DEF Spec

-----------------------------------------------------------------------------
(* WireOrder: encrypted frames are numbered in the order in which the peer can take
   them off one channel after the other, whatever the number of upgrades attempted. *)

HIDE DEF Peers

(* Writing: one channel of a device can be written on with encryption, and it is
   numbered last. *)

Writable(p, c) == chan[p][c].crypt /\ ~chan[p][c].paused /\ ~chan[p][c].closed
Halted(p, c) == chan[p][c].paused \/ chan[p][c].closed

\* The numbers in flight were taken from the device's context.
Counted(p) == \A c \in Channels : \A n \in Numbers(net[p][c]) : n <= seq[p].sent

\* WireOrder, for one device.
Ordered(p) ==
  /\ \A c \in Channels : Increasing(net[p][c])
  /\ \A c \in Channels \ {conn[p].active} :
        Before(Numbers(net[p][c]), Numbers(net[p][conn[p].active]))
  /\ \A c, d \in Channels :
        c # d => \/ Before(Numbers(net[p][c]), Numbers(net[p][d]))
                 \/ Before(Numbers(net[p][d]), Numbers(net[p][c]))

\* Only one channel can be written on with encryption, and the last frames are on it.
OneWritable(p) ==
  \A c, d \in Channels : Writable(p, c) /\ c # d =>
     ~Writable(p, d) /\ Before(Numbers(net[p][d]), Numbers(net[p][c]))

\* While a prior channel is, the active one has not been written on and waits.
NewHalted(p) ==
  \A c \in Channels \ {conn[p].active} : Writable(p, c) =>
     Numbers(net[p][conn[p].active]) = {} /\ Halted(p, conn[p].active)

Stopped(p, c) == \A d \in Channels \ {c} : ~Writable(p, d)
Stopping == {"disconnect", "drain", "finish"}

\* What the BwuManager thread may rely on: the prior channel it has in hand, or
\* keeps in previous_endpoint_channels_, is the only one that can be written on,
\* and from SAFE_TO_CLOSE_PRIOR_CHANNEL to the resumption none is.
ThreadKnows(p) ==
  /\ bwu[p].pc = "last" => Halted(p, bwu[p].old) \/ Stopped(p, bwu[p].old)
  /\ mgr[p].previous # None => Stopped(p, mgr[p].previous)
  /\ bwu[p].pc \in Stopping => mgr[p].previous = None /\ Stopped(p, None)

DeviceInv(p) ==
  /\ Counted(p)
  /\ Registered(p) => Ordered(p) /\ OneWritable(p) /\ NewHalted(p) /\ ThreadKnows(p)

(* Offers: a channel is registered at most once, because its offer is in one place. *)

\* Neither encrypted nor written on with encryption.
Unprepared(p, c) == ~chan[p][c].crypt /\ Numbers(net[p][c]) = {}

\* In the queue there is a frame, or a task, of this kind about channel c; only one.
Has(q, kind, c) == \E i \in DOMAIN q : q[i].kind = kind /\ q[i].arg = c
Once(q, kind, c) ==
  \A i, j \in DOMAIN q : /\ q[i].kind = kind /\ q[i].arg = c
                         /\ q[j].kind = kind /\ q[j].arg = c
                         => i = j

\* The offer is about to be written, on its way, or received; ...
PathAt(c) == bwu[Advertiser].pc = "path" /\ bwu[Advertiser].chan = c
PathSent(c) == \E d \in Channels : Has(net[Advertiser][d], "PATH", c)
PathGot(c) == Has(tasks[Discoverer], "PATH", c)
Offered(c) == PathAt(c) \/ PathSent(c) \/ PathGot(c)

\* ... accepted, and the socket on its way to the other device's thread.
Switching(p, c) == bwu[p].pc \in {"ack", "replace"} /\ bwu[p].chan = c
Accepted(c) == Has(tasks[Advertiser], "INCOMING", c)
Arriving(c) == link[c].dialled \/ Accepted(c) \/ Switching(Advertiser, c)

OfferedOnce(c) ==
  /\ PathAt(c) => ~PathSent(c) /\ ~PathGot(c)
  /\ PathSent(c) => ~PathGot(c)
  /\ \A d, e \in Channels :
        Has(net[Advertiser][d], "PATH", c) /\ Has(net[Advertiser][e], "PATH", c) => d = e
  /\ \A d \in Channels : Once(net[Advertiser][d], "PATH", c)
  /\ Once(tasks[Discoverer], "PATH", c)

ArrivesOnce(c) ==
  /\ link[c].dialled => ~Accepted(c) /\ ~Switching(Advertiser, c)
  /\ Accepted(c) => ~Switching(Advertiser, c)
  /\ ~Has(tasks[Discoverer], "INCOMING", c)
  /\ Once(tasks[Advertiser], "INCOMING", c)

\* Until a device registers a channel, it has not touched it.
Untouched(c) ==
  /\ c > opened \/ Offered(c) =>
       /\ ~Switching(Discoverer, c) /\ ~Arriving(c)
       /\ Unprepared(Discoverer, c) /\ Unprepared(Advertiser, c)
  /\ c > opened => ~Offered(c)
  /\ Switching(Discoverer, c) => Unprepared(Discoverer, c)
  /\ Arriving(c) => Unprepared(Advertiser, c)

OfferInv(c) == OfferedOnce(c) /\ ArrivesOnce(c) /\ Untouched(c)
OffersInv == \A c \in Channels : OfferInv(c)

\* The inductive invariant, with TypeOK.
WireInv == OffersInv /\ \A p \in Peers : DeviceInv(p)

-----------------------------------------------------------------------------
(* Queues *)

\* q has lost frames of r at its head, or gained frames in clear, or neither.
Shorter(q, r) == Numbers(q) \subseteq Numbers(r) /\ (Increasing(r) => Increasing(q))

\* A frame numbered n may have been appended.
Longer(q, r, n) ==
  /\ Numbers(q) \subseteq Numbers(r) \cup {n}
  /\ Increasing(r) /\ (\A m \in Numbers(r) : m < n) => Increasing(q)

\* A read takes the head.
LEMMA TailShorter ==
  ASSUME NEW q \in Seq(Frames), q # << >>
  PROVE  Shorter(Tail(q), q)
<1>1. \A i \in DOMAIN Tail(q) : i + 1 \in DOMAIN q /\ Tail(q)[i] = q[i + 1] /\ i \in Nat
  OBVIOUS
<1>2. Numbers(Tail(q)) \subseteq Numbers(q)
  BY <1>1 DEF Numbers
<1>3. ASSUME Increasing(q) PROVE Increasing(Tail(q))
  <2>1. ASSUME NEW i \in DOMAIN Tail(q), NEW j \in DOMAIN Tail(q),
               i < j, Tail(q)[i].seq # 0, Tail(q)[j].seq # 0
        PROVE  Tail(q)[i].seq < Tail(q)[j].seq
    <3>1. /\ i + 1 \in DOMAIN q /\ Tail(q)[i] = q[i + 1] /\ i \in Nat
          /\ j + 1 \in DOMAIN q /\ Tail(q)[j] = q[j + 1] /\ j \in Nat
      BY <1>1
    <3>2. i + 1 < j + 1
      BY <2>1, <3>1
    <3> QED
      BY <1>3, <2>1, <3>1, <3>2 DEF Increasing
  <2> QED
    BY <2>1 DEF Increasing
<1> QED
  BY <1>2, <1>3 DEF Shorter

\* A write appends, with a number or in clear.
LEMMA AppendLonger ==
  ASSUME NEW q \in Seq(Frames), NEW f \in Frames
  PROVE  /\ Longer(Append(q, f), q, f.seq)
         /\ f.seq = 0 => Shorter(Append(q, f), q)
<1> DEFINE s == Append(q, f)
           n == Len(q)
<1>1. /\ n \in Nat /\ DOMAIN q = 1..n /\ DOMAIN s = 1..(n + 1)
      /\ \A i \in 1..n : s[i] = q[i]
      /\ s[n + 1] = f
  OBVIOUS
<1> HIDE DEF s, n
<1>2. Numbers(s) \subseteq Numbers(q) \cup ({f.seq} \ {0})
  <2>1. ASSUME NEW i \in DOMAIN s, s[i].seq # 0
        PROVE  s[i].seq \in Numbers(q) \cup ({f.seq} \ {0})
    <3>1. CASE i = n + 1
      BY <1>1, <2>1, <3>1
    <3>2. CASE i # n + 1
      <4>1. i \in DOMAIN q /\ s[i] = q[i]
        BY <1>1, <2>1, <3>2
      <4> QED
        BY <2>1, <4>1 DEF Numbers
    <3> QED
      BY <3>1, <3>2
  <2> QED
    BY <2>1 DEF Numbers
<1>3. ASSUME Increasing(q), f.seq = 0 \/ \A m \in Numbers(q) : m < f.seq
      PROVE  Increasing(s)
  <2>1. ASSUME NEW i \in DOMAIN s, NEW j \in DOMAIN s, i < j, s[i].seq # 0, s[j].seq # 0
        PROVE  s[i].seq < s[j].seq
    <3>1. i \in DOMAIN q /\ s[i] = q[i]
      BY <1>1, <2>1
    <3>2. CASE j = n + 1
      <4>1. s[i].seq \in Numbers(q)
        BY <2>1, <3>1 DEF Numbers
      <4> QED
        BY <1>1, <1>3, <2>1, <3>2, <4>1
    <3>3. CASE j # n + 1
      <4>1. j \in DOMAIN q /\ s[j] = q[j]
        BY <1>1, <2>1, <3>3
      <4> QED
        BY <1>3, <2>1, <3>1, <4>1 DEF Increasing
    <3> QED
      BY <3>2, <3>3
  <2> QED
    BY <2>1 DEF Increasing
<1>4. Longer(s, q, f.seq)
  BY <1>2, <1>3 DEF Longer
<1>5. f.seq = 0 => Shorter(s, q)
  BY <1>2, <1>3 DEF Shorter
<1> QED
  BY <1>4, <1>5 DEF s

\* A queue left alone.
LEMMA SameShorter ==
  ASSUME NEW q
  PROVE  Shorter(q, q)
BY DEF Shorter

-----------------------------------------------------------------------------
(* What a step does to the frames in flight *)

\* r's frames: some were read, or frames in clear were written, or one frame was
\* written, with the next number, on a channel that can be written on.
Wrote(r) ==
  \/ /\ seq'[r].sent >= seq[r].sent
     /\ \A c \in Channels : Shorter(net'[r][c], net[r][c])
  \/ \E c \in Channels :
       /\ Writable(r, c)
       /\ seq'[r].sent = seq[r].sent + 1
       /\ Longer(net'[r][c], net[r][c], seq[r].sent + 1)
       /\ \A d \in Channels \ {c} : net'[r][d] = net[r][d]

\* The types the following lemmas need.
LEMMA SidesTyped ==
  ASSUME TypeOK, NEW p \in Peers
  PROVE  /\ seq[p].sent \in Nat /\ seq[p].received \in Nat
         /\ \A c \in Channels : net[p][c] \in Seq(Frames) /\ chan[p][c] \in ChannelStates
         /\ conn[p] \in Connections /\ conn[p].active \in Channels \cup {None}
         /\ mgr[p] \in Managers /\ bwu[p] \in Threads /\ tasks[p] \in Seq(Tasks)
         /\ Other(p) \in Peers /\ Other(p) # p /\ \A r \in Peers : r # p => r = Other(p)
<1>1. seq[p] \in [sent : Nat, received : Nat]
      /\ net[p] \in [Channels -> Seq(Frames)] /\ chan[p] \in [Channels -> ChannelStates]
  BY DEF TypeOK, ChannelsTypeOK
<1>2. conn[p] \in Connections /\ tasks[p] \in Seq(Tasks)
  BY DEF TypeOK, WorkersTypeOK
<1>3. mgr[p] \in Managers /\ bwu[p] \in Threads
  BY DEF TypeOK
<1>4. conn[p].active \in Channels \cup {None}
  BY <1>2 DEF Connections
<1>5. Other(p) \in Peers /\ Other(p) # p /\ \A r \in Peers : r # p => r = Other(p)
  BY PeersDistinct DEF Other, Peers
<1> QED
  BY <1>1, <1>2, <1>3, <1>4, <1>5

\* A step that neither writes nor reads.
LEMMA UnchangedWrote ==
  ASSUME TypeOK, UNCHANGED <<net, seq>>, NEW r \in Peers
  PROVE  Wrote(r)
BY SidesTyped, SameShorter DEF Wrote

\* A frame sent is numbered if the channel is encrypted.
LEMMA SentWrote ==
  ASSUME TypeOK, NEW p \in Peers, NEW c \in Channels, NEW kind, NEW arg,
         [kind |-> kind, seq |-> 0, arg |-> arg] \in Frames, Sent(p, c, kind, arg),
         chan[p][c].crypt => Writable(p, c), NEW r \in Peers
  PROVE  Wrote(r)
<1> DEFINE f == [kind |-> kind, seq |-> Stamp(p, c), arg |-> arg]
<1>1. f \in Frames /\ f.seq = Stamp(p, c)
  BY SidesTyped DEF Frames, Stamp
<1>2. net' = [net EXCEPT ![p][c] = Append(@, f)]
  BY DEF Sent
<1>3. seq' = IF chan[p][c].crypt THEN [seq EXCEPT ![p].sent = @ + 1] ELSE seq
  BY DEF Sent, Encode
<1>4. net'[p][c] = Append(net[p][c], f)
      /\ \A s \in Peers, d \in Channels : s # p \/ d # c => net'[s][d] = net[s][d]
  <2> HIDE DEF f
  <2> QED
    BY <1>2 DEF TypeOK, ChannelsTypeOK
<1>5. Longer(net'[p][c], net[p][c], f.seq) /\ (f.seq = 0 => Shorter(net'[p][c], net[p][c]))
  <2> HIDE DEF f
  <2> QED
    BY <1>1, <1>4, AppendLonger, SidesTyped
<1>6. CASE r # p
  <2>1. seq'[r].sent = seq[r].sent
    BY <1>3, <1>6 DEF TypeOK, ChannelsTypeOK
  <2>2. \A d \in Channels : net'[r][d] = net[r][d]
    BY <1>4, <1>6
  <2> QED
    BY <2>1, <2>2, SidesTyped, SameShorter DEF Wrote
<1>7. CASE r = p /\ chan[p][c].crypt
  <2>1. seq'[p].sent = seq[p].sent + 1
    BY <1>3, <1>7 DEF TypeOK, ChannelsTypeOK
  <2>2. f.seq = seq[p].sent + 1
    BY <1>1, <1>7 DEF Stamp
  <2>3. Writable(p, c)
    BY <1>7
  <2>4. \A d \in Channels \ {c} : net'[p][d] = net[p][d]
    BY <1>4
  <2> HIDE DEF f
  <2> QED
    BY <1>5, <1>7, <2>1, <2>2, <2>3, <2>4 DEF Wrote
<1>8. CASE r = p /\ ~chan[p][c].crypt
  <2>1. seq'[p].sent = seq[p].sent
    BY <1>3, <1>8
  <2>2. f.seq = 0
    BY <1>1, <1>8 DEF Stamp
  <2>3. \A d \in Channels : Shorter(net'[p][d], net[p][d])
    <3> HIDE DEF f
    <3> QED
      BY <1>4, <1>5, <2>2, SameShorter
  <2> QED
    BY <1>8, <2>1, <2>3, SidesTyped DEF Wrote
<1> QED
  BY <1>6, <1>7, <1>8

\* A write, successful or not.
LEMMA WriteWrote ==
  ASSUME TypeOK, NEW p \in Peers, NEW c \in Channels, NEW kind, NEW arg,
         [kind |-> kind, seq |-> 0, arg |-> arg] \in Frames,
         Written(p, c, kind, arg) \/ WriteFailed(p, c), NEW r \in Peers
  PROVE  Wrote(r)
<1>1. CASE Written(p, c, kind, arg)
  BY <1>1, SentWrote DEF Written, Writable
<1>2. CASE WriteFailed(p, c)
  <2>1. seq' = (IF chan[p][c].crypt THEN [seq EXCEPT ![p].sent = @ + 1] ELSE seq) /\ net' = net
    BY <1>2 DEF WriteFailed, NotSent, Encode
  <2>2. seq'[r].sent >= seq[r].sent
    BY <2>1, SidesTyped DEF TypeOK, ChannelsTypeOK
  <2> QED
    BY <2>1, <2>2, SameShorter DEF Wrote
<1> QED
  BY <1>1, <1>2

\* A read.
LEMMA PoppedWrote ==
  ASSUME TypeOK, NEW p \in Peers, NEW c \in Channels, CanRead(p, c), net' = Popped(p, c),
         NEW r \in Peers, seq'[r].sent = seq[r].sent
  PROVE  Wrote(r)
<1>1. \A d \in Channels : net'[r][d] = IF r = Other(p) /\ d = c THEN Tail(net[r][d]) ELSE net[r][d]
  BY SidesTyped DEF Popped, TypeOK, ChannelsTypeOK
<1>2. net[Other(p)][c] # << >> /\ net[Other(p)][c] \in Seq(Frames)
  BY SidesTyped DEF CanRead, Incoming
<1>3. \A d \in Channels : Shorter(net'[r][d], net[r][d])
  BY <1>1, <1>2, TailShorter, SameShorter
<1> QED
  BY <1>3, SidesTyped DEF Wrote

\* The workers' steps.
LEMMA WorkersWrote ==
  ASSUME TypeOK, NEW p \in Peers, NEW r \in Peers,
         \/ ReaderStep(p) \/ KeeperStep(p) \/ WriterStep(p)
         \/ BeginRemoval(p) \/ RemoveEndpoint(p) \/ Disconnected(p) \/ OnConnectionAccepted(p)
         \/ KeeperTimeout(p) \/ Leave(p)
  PROVE  Wrote(r)
<1>1. /\ reader[p].chan \in Channels /\ keeper[p].chan \in Channels
      /\ writer[p].chan \in Channels /\ writer[p].count + 1 \in Nat
  BY DEF TypeOK, WorkersTypeOK, Loops
<1>2. \A n \in Nat : [kind |-> "DATA", seq |-> 0, arg |-> n] \in Frames
  BY DEF Frames
<1>3. \A kind \in {"KEEP", "KEEPACK", "DISC"} : [kind |-> kind, seq |-> 0, arg |-> 0] \in Frames
  BY ConstantsTyped DEF Frames, FrameKinds
<1>4. CASE ReaderStep(p)
  <2>1. CASE UNCHANGED <<net, seq>>
    BY <2>1, UnchangedWrote
  <2>2. CASE ReaderFrame(p)
    <3>1. CanRead(p, reader[p].chan) /\ net' = Popped(p, reader[p].chan)
          /\ (seq' = [seq EXCEPT ![p].received = @ + 1] \/ seq' = seq)
      BY <2>2 DEF ReaderFrame
    <3>2. seq' = [seq EXCEPT ![p].received = @ + 1] => seq'[r].sent = seq[r].sent
      BY DEF TypeOK, ChannelsTypeOK
    <3>3. seq'[r].sent = seq[r].sent
      BY <3>1, <3>2
    <3> QED
      BY <1>1, <3>1, <3>3, PoppedWrote
  <2>3. CASE ReaderAck(p)
    <3>1. Written(p, reader[p].chan, "KEEPACK", 0) \/ WriteFailed(p, reader[p].chan)
      BY <2>3 DEF ReaderAck
    <3> QED
      BY <1>1, <1>3, <3>1, WriteWrote
  <2> QED
    BY <1>4, <2>1, <2>2, <2>3
    DEF ReaderStep, ReaderFetch, ReaderRead, ReaderFail, channelVars
<1>5. CASE KeeperStep(p)
  <2>1. CASE UNCHANGED <<net, seq>>
    BY <2>1, UnchangedWrote
  <2>2. CASE KeeperWrite(p)
    <3>1. Written(p, keeper[p].chan, "KEEP", 0) \/ WriteFailed(p, keeper[p].chan)
      BY <2>2 DEF KeeperWrite
    <3> QED
      BY <1>1, <1>3, <3>1, WriteWrote
  <2> QED
    BY <1>5, <2>1, <2>2 DEF KeeperStep, KeeperFetch, channelVars
<1>6. CASE WriterStep(p)
  <2>1. CASE UNCHANGED <<net, seq>>
    BY <2>1, UnchangedWrote
  <2>2. CASE WriterWrite(p)
    <3>1. Written(p, writer[p].chan, "DATA", writer[p].count + 1)
          \/ WriteFailed(p, writer[p].chan)
      BY <2>2 DEF WriterWrite
    <3> QED
      BY <1>1, <1>2, <3>1, WriteWrote
  <2> QED
    BY <1>6, <2>1, <2>2 DEF WriterStep, WriterFetch, channelVars
<1>7. CASE RemoveEndpoint(p)
  <2>1. CASE UNCHANGED <<net, seq>>
    BY <2>1, UnchangedWrote
  <2>2. CASE conn[p].em = "closing"
             /\ (Written(p, conn[p].active, "DISC", 0) \/ WriteFailed(p, conn[p].active))
    <3>1. conn[p].active \in Channels
      BY <2>2, SidesTyped DEF Connections
    <3> QED
      BY <1>3, <2>2, <3>1, WriteWrote
  <2> QED
    BY <1>7, <2>1, <2>2 DEF RemoveEndpoint, channelVars
<1>8. CASE BeginRemoval(p) \/ Disconnected(p) \/ OnConnectionAccepted(p)
           \/ KeeperTimeout(p) \/ Leave(p)
  BY <1>8, UnchangedWrote
  DEF BeginRemoval, Disconnected, OnConnectionAccepted, KeeperTimeout, Leave, channelVars
<1> QED
  BY <1>4, <1>5, <1>6, <1>7, <1>8

\* The steps of BwuManager's thread that write or read a channel in use.
LEMMA ThreadWrote ==
  ASSUME TypeOK, NEW p \in Peers, NEW r \in Peers,
         \/ WritePath(p) \/ WriteFailure(p) \/ WriteLast(p) \/ WriteSafe(p)
         \/ WriteDisconnection(p) \/ AwaitAck(p) \/ DrainPrior(p)
  PROVE  Wrote(r)
<1>1. /\ bwu[p].pc \in {"path", "last"} => bwu[p].chan \in Channels /\ bwu[p].old \in Channels
      /\ bwu[p].pc \in {"fail", "ack"} => bwu[p].chan \in Channels
      /\ bwu[p].pc \in {"disconnect", "drain"} => bwu[p].old \in Channels
  BY SidesTyped DEF Threads
<1>2. bwu[p].pc = "safe" => mgr[p].previous \in Channels
  BY SidesTyped DEF TypeOK, Managers
<1>3. \A kind \in {"PATH", "FAIL", "LAST", "SAFE", "DISC"}, arg \in Channels :
        [kind |-> kind, seq |-> 0, arg |-> arg] \in Frames
  BY DEF Frames, FrameKinds, Negotiation
<1>4. CASE WritePath(p)
  <2>1. bwu[p].pc = "path" /\ \/ Written(p, bwu[p].old, "PATH", bwu[p].chan)
                              \/ WriteFailed(p, bwu[p].old)
    BY <1>4 DEF WritePath
  <2> QED
    BY <1>1, <1>3, <2>1, WriteWrote
<1>5. CASE WriteFailure(p)
  <2>1. CASE UNCHANGED <<net, seq>>
    BY <2>1, UnchangedWrote
  <2>2. CASE /\ conn[p].active # None /\ bwu[p].pc = "fail"
             /\ \/ Written(p, conn[p].active, "FAIL", bwu[p].chan)
                \/ WriteFailed(p, conn[p].active)
    <3>1. conn[p].active \in Channels
      BY <2>2, SidesTyped
    <3> QED
      BY <1>1, <1>3, <2>2, <3>1, WriteWrote
  <2> QED
    BY <1>5, <2>1, <2>2 DEF WriteFailure, channelVars
<1>6. CASE WriteLast(p)
  <2>1. bwu[p].pc = "last" /\ (Written(p, bwu[p].old, "LAST", 0) \/ WriteFailed(p, bwu[p].old))
    BY <1>6 DEF WriteLast
  <2> QED
    BY <1>1, <1>3, <2>1, WriteWrote, ConstantsTyped
<1>7. CASE WriteSafe(p)
  <2>1. bwu[p].pc = "safe" /\ \/ Written(p, mgr[p].previous, "SAFE", 0)
                              \/ WriteFailed(p, mgr[p].previous)
    BY <1>7 DEF WriteSafe
  <2> QED
    BY <1>2, <1>3, <2>1, WriteWrote, ConstantsTyped
<1>8. CASE WriteDisconnection(p)
  <2>1. bwu[p].pc = "disconnect"
        /\ (Written(p, bwu[p].old, "DISC", 0) \/ WriteFailed(p, bwu[p].old))
    BY <1>8 DEF WriteDisconnection
  <2> QED
    BY <1>1, <1>3, <2>1, WriteWrote, ConstantsTyped
<1>9. CASE AwaitAck(p)
  <2>1. bwu[p].pc = "ack" /\ UNCHANGED seq
        /\ (UNCHANGED net \/ (CanRead(p, bwu[p].chan) /\ net' = Popped(p, bwu[p].chan)))
    BY <1>9 DEF AwaitAck
  <2> QED
    BY <1>1, <2>1, UnchangedWrote, PoppedWrote
<1>10. CASE DrainPrior(p)
  <2>1. bwu[p].pc = "drain" /\ UNCHANGED seq
        /\ (UNCHANGED net \/ (CanRead(p, bwu[p].old) /\ net' = Popped(p, bwu[p].old)))
    BY <1>10 DEF DrainPrior
  <2> QED
    BY <1>1, <2>1, UnchangedWrote, PoppedWrote
<1> QED
  BY <1>4, <1>5, <1>6, <1>7, <1>8, <1>9, <1>10

\* CLIENT_INTRODUCTION is read, and acknowledged in clear.
LEMMA IncomingWrote ==
  ASSUME TypeOK, NEW p \in Peers, NEW r \in Peers, IncomingConnection(p)
  PROVE  Wrote(r)
<1> DEFINE c == Arg(p)
           q == Other(p)
<1>1. UNCHANGED seq /\ Task(p, "INCOMING")
  BY DEF IncomingConnection
<1>2. c \in Channels
  BY <1>1, TaskTyped
<1>3. CASE UNCHANGED net
  BY <1>1, <1>3, UnchangedWrote
<1>4. CASE /\ CanRead(p, c)
           /\ net' = [net EXCEPT ![q][c] = Tail(@), ![p][c] = @ \o IntroductionAnswer]
  <2>1. q # p /\ q \in Peers /\ net[q][c] # << >> /\ net[q][c] \in Seq(Frames)
        /\ net[p][c] \in Seq(Frames)
    BY <1>2, <1>4, SidesTyped DEF CanRead, Incoming
  <2>2. /\ net'[q][c] = Tail(net[q][c])
        /\ net'[p][c] = net[p][c] \o IntroductionAnswer
        /\ \A s \in Peers, d \in Channels : d # c => net'[s][d] = net[s][d]
    BY <1>2, <1>4, <2>1 DEF TypeOK, ChannelsTypeOK
  <2>3. Shorter(net'[q][c], net[q][c])
    BY <2>1, <2>2, TailShorter
  <2>4. Shorter(net'[p][c], net[p][c])
    <3> DEFINE f == [kind |-> "ACK", seq |-> 0, arg |-> 0]
    <3>1. f \in Frames /\ f.seq = 0
      BY ConstantsTyped DEF Frames, FrameKinds
    <3>2. IntroductionAnswer = <<f>> \/ IntroductionAnswer = << >>
      BY DEF IntroductionAnswer
    <3> HIDE DEF f
    <3>3. net[p][c] \o <<f>> = Append(net[p][c], f) /\ net[p][c] \o << >> = net[p][c]
      BY <2>1, <3>1, AppendIsConcat
    <3>4. net'[p][c] = net[p][c] \/ net'[p][c] = Append(net[p][c], f)
      BY <2>2, <3>2, <3>3
    <3> QED
      BY <2>1, <3>1, <3>4, AppendLonger, SameShorter
  <2>5. \A d \in Channels : Shorter(net'[r][d], net[r][d])
    <3>1. r = p \/ r = q
      BY SidesTyped
    <3> QED
      BY <2>2, <2>3, <2>4, <3>1, SameShorter
  <2> QED
    BY <1>1, <2>5, SidesTyped DEF Wrote
<1> QED
  BY <1>3, <1>4 DEF IncomingConnection

\* CLIENT_INTRODUCTION is written in clear: the channel offered is untouched.
LEMMA ProcessPathWrote ==
  ASSUME TypeOK, OffersInv, NEW p \in Peers, NEW r \in Peers, ProcessPath(p)
  PROVE  Wrote(r)
<1>1. CASE UNCHANGED <<net, seq>>
  BY <1>1, UnchangedWrote
<1>2. ASSUME NEW m, Join(p, Arg(p), m), p = Discoverer
      PROVE  Wrote(r)
  <2>1. Task(p, "PATH") /\ Sent(p, Arg(p), "INTRO", 0)
    BY <1>2 DEF ProcessPath, Join
  <2>2. Arg(p) \in Channels
    BY <2>1, TaskTyped
  <2>3. [kind |-> "INTRO", seq |-> 0, arg |-> 0] \in Frames
    BY ConstantsTyped DEF Frames, FrameKinds
  <2>4. Has(tasks[p], "PATH", Arg(p))
    BY <2>1, SidesTyped DEF Task, Arg, Has
  <2>5. ~chan[p][Arg(p)].crypt
    BY <1>2, <2>2, <2>4 DEF OffersInv, OfferInv, Untouched, Offered, PathGot, Unprepared
  <2> QED
    BY <2>1, <2>2, <2>3, <2>5, SentWrote
<1> QED
  BY <1>1, <1>2 DEF ProcessPath, JoinFails, CloseAllChannels, channelVars

\* Every step writes, or reads, this way.
LEMMA NextWrote ==
  ASSUME TypeOK, OffersInv, NEW r \in Peers, Next
  PROVE  Wrote(r)
<1>1. ASSUME NEW p \in Peers, ThreadStep(p)
      PROVE  Wrote(r)
  <2>1. CASE UNCHANGED <<net, seq>>
    BY <2>1, UnchangedWrote
  <2> QED
    BY <1>1, <2>1, ThreadWrote, IncomingWrote, ProcessPathWrote
    DEF ThreadStep, InitiateUpgrade, ProcessUpgradeFailure, RetryUpgrade, ReplaceChannel,
        DropFrame, ProcessLast, ProcessSafe, ResumeUpgraded, EndpointDisconnected, channelVars
<1>2. CASE UNCHANGED <<net, seq>>
  BY <1>2, UnchangedWrote
<1>3. ASSUME WorkersNext
      PROVE  Wrote(r)
  BY <1>2, <1>3, WorkersWrote DEF WorkersNext, BreakLink, Break, channelVars
<1> QED
  BY <1>1, <1>2, <1>3 DEF Next, RequestUpgrade, RetryAlarm, Accept, channelVars

-----------------------------------------------------------------------------
(* One device *)

\* The numbers grow with the counter.
LEMMA CountedKept ==
  ASSUME TypeOK, NEW r \in Peers, Counted(r), Wrote(r), TypeOK'
  PROVE  Counted(r)'
<1> SUFFICES ASSUME NEW c \in Channels, NEW n \in Numbers(net'[r][c])
             PROVE  n <= seq'[r].sent
  BY DEF Counted
<1>1. seq[r].sent \in Nat /\ net[r][c] \in Seq(Frames)
  BY SidesTyped
<1>2. \A m \in Numbers(net[r][c]) : m \in Nat /\ m <= seq[r].sent
  BY <1>1 DEF Counted, Numbers, Frames
<1>3. CASE /\ seq'[r].sent >= seq[r].sent
           /\ \A d \in Channels : Shorter(net'[r][d], net[r][d])
  <2>1. n \in Numbers(net[r][c])
    BY <1>3 DEF Shorter
  <2>2. seq'[r].sent \in Nat
    BY DEF TypeOK, ChannelsTypeOK
  <2> QED
    BY <1>1, <1>2, <1>3, <2>1, <2>2
<1>4. ASSUME NEW d \in Channels, seq'[r].sent = seq[r].sent + 1,
             Longer(net'[r][d], net[r][d], seq[r].sent + 1),
             \A e \in Channels \ {d} : net'[r][e] = net[r][e]
      PROVE  n <= seq'[r].sent
  <2>1. n \in Numbers(net[r][c]) \/ n = seq[r].sent + 1
    BY <1>4 DEF Longer
  <2> QED
    BY <1>1, <1>2, <1>4, <2>1
<1> QED
  BY <1>3, <1>4 DEF Wrote

\* Nothing of r became writable, or was resumed; its active channel is the same.
Calm(r) ==
  /\ conn'[r].active = conn[r].active
  /\ \A c \in Channels : /\ Writable(r, c)' => Writable(r, c)
                         /\ Halted(r, c) => Halted(r, c)'

Flow(r) == Ordered(r) /\ OneWritable(r) /\ NewHalted(r)

\* What is written then is written on the channel whose frames come last.
LEMMA FlowKept ==
  ASSUME TypeOK, NEW r \in Peers, conn[r].active \in Channels, Counted(r), Flow(r),
         Wrote(r), Calm(r)
  PROVE  Flow(r)'
<1> DEFINE N(c) == Numbers(net[r][c])
           M(c) == Numbers(net'[r][c])
           a == conn[r].active
<1>1. \A c, d \in Channels : Before(N(c), N(d)) /\ M(c) \subseteq N(c) /\ M(d) \subseteq N(d)
                             => Before(M(c), M(d))
  BY DEF Before
<1>2. CASE \A c \in Channels : Shorter(net'[r][c], net[r][c])
  <2>1. \A c \in Channels : M(c) \subseteq N(c) /\ (Increasing(net[r][c]) => Increasing(net'[r][c]))
    BY <1>2 DEF Shorter
  <2>2. Ordered(r)'
    <3>1. \A c \in Channels : Increasing(net'[r][c])
      BY <2>1 DEF Flow, Ordered
    <3>2. \A c \in Channels \ {a} : Before(M(c), M(a))
      BY <1>1, <2>1 DEF Flow, Ordered
    <3>3. \A c, d \in Channels : c # d => Before(M(c), M(d)) \/ Before(M(d), M(c))
      BY <1>1, <2>1 DEF Flow, Ordered
    <3> QED
      BY <3>1, <3>2, <3>3 DEF Ordered, Calm
  <2>3. OneWritable(r)'
    <3> SUFFICES ASSUME NEW c \in Channels, NEW d \in Channels, Writable(r, c)', c # d
                 PROVE  ~Writable(r, d)' /\ Before(M(d), M(c))
      BY DEF OneWritable
    <3>1. Writable(r, c) /\ ~Writable(r, d) /\ Before(N(d), N(c))
      BY DEF Calm, Flow, OneWritable
    <3> QED
      BY <1>1, <2>1, <3>1 DEF Calm
  <2>4. NewHalted(r)'
    <3> SUFFICES ASSUME NEW c \in Channels \ {a}, Writable(r, c)'
                 PROVE  M(a) = {} /\ Halted(r, a)'
      BY DEF NewHalted, Calm
    <3>1. Writable(r, c)
      BY DEF Calm
    <3>2. N(a) = {} /\ Halted(r, a)
      BY <3>1 DEF Flow, NewHalted
    <3> QED
      BY <2>1, <3>2 DEF Calm
  <2> QED
    BY <2>2, <2>3, <2>4 DEF Flow
<1>3. ASSUME NEW w \in Channels, Writable(r, w),
             Longer(net'[r][w], net[r][w], seq[r].sent + 1),
             \A d \in Channels \ {w} : net'[r][d] = net[r][d]
      PROVE  Flow(r)'
  <2> DEFINE n == seq[r].sent + 1
  <2>1. \A c \in Channels : \A m \in N(c) : m < n
    <3>1. \A c \in Channels : net[r][c] \in Seq(Frames)
      BY SidesTyped
    <3>2. \A c \in Channels : \A m \in N(c) : m \in Nat /\ m <= seq[r].sent
      BY <3>1 DEF Counted, Numbers, Frames
    <3>3. seq[r].sent \in Nat
      BY SidesTyped
    <3> HIDE DEF N
    <3> QED
      BY <3>2, <3>3
  <2>2. M(w) \subseteq N(w) \cup {n} /\ \A c \in Channels \ {w} : M(c) = N(c)
    BY <1>3 DEF Longer
  <2>3. \A c \in Channels : Increasing(net'[r][c])
    BY <1>3, <2>1 DEF Longer, Flow, Ordered
  <2>4. \A d \in Channels \ {w} : ~Writable(r, d) /\ Before(N(d), N(w))
    BY <1>3 DEF Flow, OneWritable
  <2>5. \A d \in Channels \ {w} : Before(M(d), M(w))
    BY <2>1, <2>2, <2>4 DEF Before
  <2>6. CASE w = a
    <3>1. Ordered(r)'
      <4>1. \A c \in Channels \ {a} : Before(M(c), M(a))
        BY <2>5, <2>6
      <4>2. \A c, d \in Channels : c # d => Before(M(c), M(d)) \/ Before(M(d), M(c))
        <5> SUFFICES ASSUME NEW c \in Channels, NEW d \in Channels, c # d
                     PROVE  Before(M(c), M(d)) \/ Before(M(d), M(c))
          OBVIOUS
        <5>1. CASE c = w \/ d = w
          BY <2>5, <5>1
        <5>2. CASE c # w /\ d # w
          <6>1. Before(N(c), N(d)) \/ Before(N(d), N(c))
            BY DEF Flow, Ordered
          <6> QED
            BY <2>2, <5>2, <6>1
        <5> QED
          BY <5>1, <5>2
      <4> QED
        BY <2>3, <4>1, <4>2 DEF Ordered, Calm
    <3>2. \A c \in Channels \ {w} : ~Writable(r, c)'
      BY <2>4 DEF Calm
    <3>3. OneWritable(r)'
      BY <2>5, <3>2 DEF OneWritable
    <3>4. NewHalted(r)'
      BY <2>6, <3>2 DEF NewHalted, Calm
    <3> QED
      BY <3>1, <3>3, <3>4 DEF Flow
  <2>7. CASE w # a
    <3>1. N(a) = {} /\ Halted(r, a) /\ M(a) = {}
      BY <1>3, <2>2, <2>7 DEF Flow, NewHalted
    <3>2. Ordered(r)'
      <4>1. \A c \in Channels \ {a} : Before(M(c), M(a))
        BY <3>1 DEF Before
      <4>2. \A c, d \in Channels : c # d => Before(M(c), M(d)) \/ Before(M(d), M(c))
        <5> SUFFICES ASSUME NEW c \in Channels, NEW d \in Channels, c # d
                     PROVE  Before(M(c), M(d)) \/ Before(M(d), M(c))
          OBVIOUS
        <5>1. CASE c = w \/ d = w
          BY <2>5, <5>1
        <5>2. CASE c # w /\ d # w
          <6>1. Before(N(c), N(d)) \/ Before(N(d), N(c))
            BY DEF Flow, Ordered
          <6> QED
            BY <2>2, <5>2, <6>1
        <5> QED
          BY <5>1, <5>2
      <4> QED
        BY <2>3, <4>1, <4>2 DEF Ordered, Calm
    <3>3. \A c \in Channels \ {w} : ~Writable(r, c)'
      BY <2>4 DEF Calm
    <3>4. OneWritable(r)'
      BY <2>5, <3>3 DEF OneWritable
    <3>5. NewHalted(r)'
      BY <3>1 DEF NewHalted, Calm
    <3> QED
      BY <3>2, <3>4, <3>5 DEF Flow
  <2> QED
    BY <2>6, <2>7
<1> QED
  BY <1>2, <1>3 DEF Wrote

\* r's thread took no step that needs to know which channels can be written on.
Aside(r) ==
  /\ bwu'[r].pc = "last" => bwu[r].pc = "last" /\ bwu'[r].old = bwu[r].old
  /\ bwu'[r].pc \in Stopping => bwu[r].pc \in Stopping
  /\ mgr'[r].previous \in {None, mgr[r].previous}

\* What the thread relies on still holds if it did not need to know more.
LEMMA ThreadKept ==
  ASSUME TypeOK, NEW r \in Peers, ThreadKnows(r), Calm(r), Aside(r)
  PROVE  ThreadKnows(r)'
<1>1. \A c : Stopped(r, c) => Stopped(r, c)'
  BY DEF Stopped, Calm
<1>2. bwu[r].pc = "last" => bwu[r].old \in Channels
  BY SidesTyped DEF Threads
<1>3. bwu'[r].pc = "last" =>
        Halted(r, bwu[r].old)' \/ Stopped(r, bwu[r].old)'
  BY <1>1, <1>2 DEF Calm, Aside, ThreadKnows
<1>4. mgr'[r].previous # None => Stopped(r, mgr[r].previous)' /\ mgr'[r].previous = mgr[r].previous
  BY <1>1 DEF Aside, ThreadKnows
<1>5. bwu'[r].pc \in Stopping => mgr'[r].previous = None /\ Stopped(r, None)'
  BY <1>1 DEF Aside, ThreadKnows
<1>6. bwu'[r].pc = "last" => bwu'[r].old = bwu[r].old
  BY DEF Aside
<1> QED
  BY <1>3, <1>4, <1>5, <1>6 DEF ThreadKnows, Halted, Stopped, Writable

\* A step of this kind keeps the device's part of the invariant.
Steady(r) == Registered(r)' => Registered(r) /\ Calm(r) /\ Aside(r)

\* A steady step keeps the device's part of the invariant.
LEMMA SteadyKept ==
  ASSUME TypeOK, TypeOK', NEW r \in Peers, DeviceInv(r), Wrote(r), Steady(r)
  PROVE  DeviceInv(r)'
<1>1. Counted(r)'
  BY CountedKept DEF DeviceInv
<1>2. ASSUME Registered(r)'
      PROVE  Ordered(r)' /\ OneWritable(r)' /\ NewHalted(r)' /\ ThreadKnows(r)'
  <2>1. Registered(r) /\ Calm(r) /\ Aside(r) /\ Flow(r) /\ Counted(r) /\ ThreadKnows(r)
    BY <1>2 DEF Steady, DeviceInv, Flow
  <2>2. conn[r].active \in Channels
    BY <2>1, SidesTyped DEF Connections, Registered
  <2>3. Flow(r)'
    BY <2>1, <2>2, FlowKept
  <2>4. ThreadKnows(r)'
    BY <2>1, ThreadKept
  <2> QED
    BY <2>3, <2>4 DEF Flow
<1> QED
  BY <1>1, <1>2 DEF DeviceInv

-----------------------------------------------------------------------------
(* Which steps are steady *)

\* Channels were closed, or stopped encrypting, or neither.
Tame ==
  \/ UNCHANGED chan
  \/ \E p \in Peers, c \in Channels : chan' = Closed(p, c) \/ chan' = Unencrypted(p, c)

\* Closing a channel, or disabling its encryption, makes none writable.
LEMMA TameCalm ==
  ASSUME TypeOK, NEW r \in Peers, Tame, conn'[r].active = conn[r].active
  PROVE  Calm(r)
<1>1. CASE UNCHANGED chan
  BY <1>1 DEF Calm, Writable, Halted
<1>2. ASSUME NEW p \in Peers, NEW c \in Channels,
             chan' = Closed(p, c) \/ chan' = Unencrypted(p, c)
      PROVE  Calm(r)
  <2> SUFFICES ASSUME NEW d \in Channels
               PROVE  /\ Writable(r, d)' => Writable(r, d)
                      /\ Halted(r, d) => Halted(r, d)'
    BY DEF Calm
  <2>1. chan[r][d] \in ChannelStates /\ chan \in [Peers -> [Channels -> ChannelStates]]
    BY SidesTyped DEF TypeOK, ChannelsTypeOK
  <2>2. CASE r # p \/ d # c
    <3>1. chan'[r][d] = chan[r][d]
      BY <1>2, <2>2 DEF Closed, Unencrypted, TypeOK, ChannelsTypeOK
    <3> QED
      BY <3>1 DEF Writable, Halted
  <2>3. CASE r = p /\ d = c
    <3>1. \/ chan'[r][d] = [chan[r][d] EXCEPT !.closed = TRUE, !.paused = FALSE]
          \/ chan'[r][d] = [chan[r][d] EXCEPT !.crypt = FALSE]
      <4>1. CASE chan' = Closed(p, c)
        BY <2>1, <2>3, <4>1 DEF Closed
      <4>2. CASE chan' = Unencrypted(p, c)
        BY <2>1, <2>3, <4>2 DEF Unencrypted
      <4> QED
        BY <1>2, <4>1, <4>2
    <3> QED
      BY <2>1, <3>1 DEF Writable, Halted, ChannelStates
  <2> QED
    BY <2>2, <2>3
<1> QED
  BY <1>1, <1>2 DEF Tame

\* The workers, the removal and the transport.
LEMMA WorkersSteady ==
  ASSUME TypeOK, NEW r \in Peers, WorkersNext, ManagerUnchanged
  PROVE  Steady(r)
<1>1. Aside(r)
  BY DEF ManagerUnchanged, Aside
<1>2. conn \in [Peers -> Connections] /\ conn[r] \in Connections
  BY DEF TypeOK, WorkersTypeOK
<1>3. ASSUME UNCHANGED conn, Tame
      PROVE  Steady(r)
  BY <1>1, <1>3, TameCalm DEF Steady, Registered
<1>4. ASSUME NEW p \in Peers, ReaderStep(p)
      PROVE  Steady(r)
  <2>1. reader[p].chan \in Channels
    BY DEF TypeOK, WorkersTypeOK, Loops
  <2>2. UNCHANGED conn /\ (UNCHANGED chan \/ chan' = Closed(p, reader[p].chan))
    BY <1>4 DEF ReaderStep, ReaderFetch, ReaderRead, ReaderFail, ReaderFrame, ReaderAck, Route,
                channelVars
  <2> QED
    BY <1>3, <2>1, <2>2 DEF Tame
<1>5. ASSUME NEW p \in Peers, KeeperStep(p) \/ WriterStep(p) \/ KeeperTimeout(p)
      PROVE  Steady(r)
  BY <1>3, <1>5 DEF KeeperStep, KeeperFetch, KeeperWrite, WriterStep, WriterFetch, WriterWrite,
                    KeeperTimeout, channelVars, Tame
<1>6. ASSUME NEW p \in Peers, BeginRemoval(p) \/ RemoveEndpoint(p)
      PROVE  Steady(r)
  <2>1. CASE r = p
    <3>1. conn'[p].em \in {"closing", "removing"}
      <4>1. CASE BeginRemoval(p)
        BY <1>2, <2>1, <4>1 DEF BeginRemoval, Connections
      <4>2. CASE RemoveEndpoint(p)
        BY <1>2, <2>1, <4>2 DEF RemoveEndpoint, Connections
      <4> QED
        BY <1>6, <4>1, <4>2
    <3> QED
      BY <2>1, <3>1 DEF Steady, Registered
  <2>2. CASE r # p
    <3>1. conn'[r] = conn[r] /\ chan'[r] = chan[r]
      BY <1>6, <2>2 DEF BeginRemoval, RemoveEndpoint, Resumed, Closed, channelVars, TypeOK,
                        ChannelsTypeOK, WorkersTypeOK
    <3> QED
      BY <1>1, <3>1 DEF Steady, Registered, Calm, Writable, Halted
  <2> QED
    BY <2>1, <2>2
<1>7. ASSUME NEW p \in Peers, Disconnected(p) \/ OnConnectionAccepted(p) \/ Leave(p)
      PROVE  Steady(r)
  <2>1. UNCHANGED chan /\ conn'[r].active = conn[r].active
        /\ (Registered(r)' => Registered(r))
    <3>1. CASE Disconnected(p)
      BY <1>2, <3>1 DEF Disconnected, channelVars, Connections, Registered
    <3>2. CASE OnConnectionAccepted(p)
      BY <1>2, <3>2 DEF OnConnectionAccepted, channelVars, Connections, Registered
    <3>3. CASE Leave(p)
      BY <1>2, <3>3 DEF Leave, channelVars, Connections, Registered
    <3> QED
      BY <1>7, <3>1, <3>2, <3>3
  <2> QED
    BY <1>1, <2>1, TameCalm DEF Steady, Tame
<1>8. ASSUME NEW c \in Channels, BreakLink(c)
      PROVE  Steady(r)
  BY <1>3, <1>8 DEF BreakLink, Break, channelVars, Tame
<1> QED
  BY <1>4, <1>5, <1>6, <1>7, <1>8 DEF WorkersNext

\* What TryNextBestUpgradeMediums and ProcessUpgradeFailureEvent leave in the maps
\* and the queue.
AddsInit(p, q) ==
  /\ \A r \in Peers \ {p} : tasks'[r] = tasks[r]
  /\ \/ tasks'[p] = q
     \/ \E medium : tasks'[p] = Append(q, [kind |-> "INIT", arg |-> medium])

\* Trying the next medium adds at most one InitiateBwuForEndpoint.
LEMMA TryNextBestShape ==
  ASSUME TypeOK, NEW p \in Peers, NEW m \in Managers, NEW S, NEW q, TryNextBest(p, m, S, q)
  PROVE  /\ mgr'[p].previous = m.previous
         /\ \A r \in Peers \ {p} : mgr'[r] = mgr[r]
         /\ AddsInit(p, q)
<1>1. PICK next \in Choices(m.medium, S) :
        \/ mgr' = [mgr EXCEPT ![p] = [m EXCEPT !.retry = TRUE]]
           /\ tasks' = [tasks EXCEPT ![p] = q]
        \/ mgr' = [mgr EXCEPT ![p] = m] /\ tasks' = [tasks EXCEPT ![p] = q]
        \/ mgr' = [mgr EXCEPT ![p] = [m EXCEPT !.medium = next]]
           /\ tasks' = [tasks EXCEPT ![p] = Append(q, [kind |-> "INIT", arg |-> next])]
  BY DEF TryNextBest, ManagerOf
<1>2. mgr'[p].previous = m.previous /\ \A r \in Peers \ {p} : mgr'[r] = mgr[r]
  BY <1>1 DEF TypeOK, Managers
<1>3. tasks' = [tasks EXCEPT ![p] = q]
      \/ tasks' = [tasks EXCEPT ![p] = Append(q, [kind |-> "INIT", arg |-> next])]
  BY <1>1
<1>4. AddsInit(p, q)
  BY <1>3 DEF AddsInit, TypeOK, WorkersTypeOK
<1> QED
  BY <1>2, <1>4

\* So does ProcessUpgradeFailureEvent.
LEMMA UpgradeFailureShape ==
  ASSUME TypeOK, NEW p \in Peers, NEW m \in Managers, NEW medium, NEW q,
         UpgradeFailure(p, m, medium, q)
  PROVE  /\ mgr'[p].previous = m.previous
         /\ \A r \in Peers \ {p} : mgr'[r] = mgr[r]
         /\ AddsInit(p, q)
<1> DEFINE cleared == [m EXCEPT !.inProgress = FALSE]
           reverted == IF m.medium = None THEN cleared ELSE Reverted(cleared)
<1>1. cleared \in Managers /\ cleared.previous = m.previous
  BY DEF Managers
<1>2. reverted \in Managers
  BY <1>1, RevertedTyped
<1>3. reverted.previous = m.previous
  BY <1>1 DEF Reverted, Managers
<1>4. TryNextBest(p, reverted, Untried(medium), q)
  BY DEF UpgradeFailure
<1> HIDE DEF reverted
<1> QED
  BY <1>2, <1>3, <1>4, TryNextBestShape

\* A device's thread touches nothing of the other device but frames to it.
Apart(r) ==
  /\ chan'[r] = chan[r] /\ conn'[r] = conn[r]
  /\ bwu'[r] = bwu[r] /\ mgr'[r] = mgr[r]

\* A step apart from a device is steady for it.
LEMMA ApartSteady ==
  ASSUME TypeOK, NEW r \in Peers, Apart(r)
  PROVE  Steady(r)
BY DEF Apart, Steady, Registered, Calm, Writable, Halted, Aside

\* A step of one device's thread is apart from the other device.
LEMMA ThreadApart ==
  ASSUME TypeOK, NEW p \in Peers, NEW r \in Peers \ {p}, ThreadStep(p)
  PROVE  Apart(r)
<1>1. /\ chan \in [Peers -> [Channels -> ChannelStates]] /\ conn \in [Peers -> Connections]
      /\ bwu \in [Peers -> Threads] /\ mgr \in [Peers -> Managers]
  BY DEF TypeOK, ChannelsTypeOK, WorkersTypeOK
<1>2. conn'[r] = conn[r]
  BY <1>1 DEF ThreadStep, InitiateUpgrade, WritePath, ProcessUpgradeFailure, RetryUpgrade,
     ProcessPath, AwaitAck, WriteFailure, IncomingConnection, ReplaceChannel, WriteLast,
     DropFrame, ProcessLast, WriteSafe, ProcessSafe, WriteDisconnection, DrainPrior,
     ResumeUpgraded, EndpointDisconnected
<1>3. bwu'[r] = bwu[r]
  <2>1. CASE UNCHANGED bwu
    BY <2>1
  <2>2. ASSUME NEW pc, NEW c, NEW old, At(p, pc, c, old)
        PROVE  bwu'[r] = bwu[r]
    BY <1>1, <2>2 DEF At
  <2>3. CASE Idle(p)
    BY <2>2, <2>3 DEF Idle
  <2>4. CASE InitiateUpgrade(p)
    BY <2>1, <2>2, <2>4 DEF InitiateUpgrade
  <2>5. CASE ProcessPath(p)
    BY <2>1, <2>2, <2>5 DEF ProcessPath, Join, JoinFails, CloseAllChannels
  <2>6. CASE AwaitAck(p) \/ IncomingConnection(p) \/ ReplaceChannel(p)
    BY <2>1, <2>2, <2>3, <2>6 DEF AwaitAck, IncomingConnection, ReplaceChannel
  <2>7. CASE WriteLast(p) \/ ProcessLast(p) \/ ProcessSafe(p)
    BY <2>1, <2>2, <2>3, <2>7 DEF WriteLast, AfterLast, ProcessLast, ProcessSafe
  <2> QED
    BY <2>1, <2>2, <2>3, <2>4, <2>5, <2>6, <2>7
    DEF ThreadStep, WritePath, ProcessUpgradeFailure, RetryUpgrade, WriteFailure, DropFrame,
        WriteSafe, WriteDisconnection, DrainPrior, ResumeUpgraded, EndpointDisconnected
<1>4. mgr'[r] = mgr[r]
  <2>1. CASE UNCHANGED mgr
    BY <2>1
  <2>2. ASSUME NEW m, ManagerOf(p, m)
        PROVE  mgr'[r] = mgr[r]
    BY <1>1, <2>2 DEF ManagerOf
  <2>3. ASSUME NEW m, NEW S, NEW q, TryNextBest(p, m, S, q)
        PROVE  mgr'[r] = mgr[r]
    BY <2>2, <2>3 DEF TryNextBest
  <2>4. ASSUME NEW m, NEW medium, NEW q, UpgradeFailure(p, m, medium, q)
        PROVE  mgr'[r] = mgr[r]
    BY <2>3, <2>4 DEF UpgradeFailure
  <2>5. CASE InitiateUpgrade(p) \/ WritePath(p) \/ ProcessUpgradeFailure(p)
    BY <2>1, <2>2, <2>4, <2>5 DEF InitiateUpgrade, WritePath, ProcessUpgradeFailure
  <2>6. CASE RetryUpgrade(p)
    BY <2>1, <2>3, <2>6 DEF RetryUpgrade
  <2>7. CASE ProcessPath(p)
    <3>1. CASE CloseAllChannels(p)
      BY <1>1, <3>1 DEF CloseAllChannels
    <3> QED
      BY <2>1, <2>2, <2>7, <3>1 DEF ProcessPath, Join, JoinFails
  <2>8. CASE AwaitAck(p) \/ WriteFailure(p) \/ IncomingConnection(p) \/ WriteLast(p)
             \/ ProcessLast(p) \/ WriteSafe(p) \/ ProcessSafe(p) \/ ResumeUpgraded(p)
    BY <1>1, <2>1, <2>2, <2>8
    DEF AwaitAck, WriteFailure, IncomingConnection, WriteLast, ProcessLast, WriteSafe,
        ProcessSafe, ResumeUpgraded
  <2>9. CASE EndpointDisconnected(p)
    BY <2>2, <2>9 DEF EndpointDisconnected
  <2> QED
    BY <2>1, <2>5, <2>6, <2>7, <2>8, <2>9
    DEF ThreadStep, ReplaceChannel, DropFrame, WriteDisconnection, DrainPrior
<1>5. chan'[r] = chan[r]
  <2>1. CASE UNCHANGED chan
    BY <2>1
  <2>2. ASSUME NEW c, \/ chan' = Closed(p, c) \/ chan' = Unencrypted(p, c)
                      \/ chan' = Resumed(p, c) \/ chan' = Prepared(p, c)
        PROVE  chan'[r] = chan[r]
    BY <1>1, <2>2 DEF Closed, Unencrypted, Resumed, Prepared
  <2>3. CASE ProcessPath(p)
    <3>1. CASE CloseAllChannels(p)
      BY <1>1, <3>1 DEF CloseAllChannels
    <3> QED
      BY <2>1, <2>3, <3>1 DEF ProcessPath, Join, JoinFails, channelVars
  <2>4. CASE AwaitAck(p) \/ IncomingConnection(p) \/ ReplaceChannel(p) \/ WriteSafe(p)
             \/ ProcessSafe(p) \/ DrainPrior(p) \/ ResumeUpgraded(p) \/ EndpointDisconnected(p)
    BY <2>1, <2>2, <2>4
    DEF AwaitAck, IncomingConnection, ReplaceChannel, WriteSafe, ProcessSafe, DrainPrior,
        ResumeUpgraded, EndpointDisconnected
  <2>5. CASE WriteFailure(p)
    BY <2>1, <2>2, <2>5 DEF WriteFailure, channelVars
  <2> QED
    BY <2>1, <2>3, <2>4, <2>5
    DEF ThreadStep, InitiateUpgrade, WritePath, ProcessUpgradeFailure, RetryUpgrade, WriteLast,
        DropFrame, ProcessLast, WriteDisconnection, channelVars
<1> QED
  BY <1>2, <1>3, <1>4, <1>5 DEF Apart

\* At r, the thread leaves its handler for a state that claims nothing.
LEMMA SteadyAt ==
  ASSUME TypeOK, NEW p \in Peers, Tame,
         conn'[p].active = conn[p].active, Registered(p)' => Registered(p),
         mgr'[p].previous \in {None, mgr[p].previous},
         \/ bwu'[p] = bwu[p]
         \/ bwu'[p].pc \notin Stopping \cup {"last"}
         \/ bwu'[p].pc \in Stopping /\ bwu[p].pc \in Stopping
  PROVE  Steady(p)
<1>1. Calm(p)
  BY TameCalm
<1>2. Aside(p)
  BY DEF Aside, Stopping
<1> QED
  BY <1>1, <1>2 DEF Steady

\* The steps that only ask for an upgrade, or fail one.
LEMMA AskingSteady ==
  ASSUME TypeOK, NEW p \in Peers,
         \/ InitiateUpgrade(p) \/ WritePath(p) \/ ProcessUpgradeFailure(p)
         \/ RetryUpgrade(p) \/ DropFrame(p) \/ WriteFailure(p) \/ ProcessLast(p)
  PROVE  Steady(p)
<1>1. UNCHANGED conn
  BY DEF InitiateUpgrade, WritePath, ProcessUpgradeFailure, RetryUpgrade, DropFrame,
         WriteFailure, ProcessLast
<1>2. Tame
  <2>1. CASE WriteFailure(p)
    BY <2>1, SidesTyped DEF WriteFailure, channelVars, Tame
  <2> QED
    BY <2>1 DEF InitiateUpgrade, WritePath, ProcessUpgradeFailure, RetryUpgrade, DropFrame,
         ProcessLast, channelVars, Tame
<1>3. \/ bwu'[p] = bwu[p]
      \/ bwu'[p].pc \notin Stopping \cup {"last"}
  BY AtOthers, IdleOthers DEF InitiateUpgrade, WritePath, ProcessUpgradeFailure, RetryUpgrade,
         DropFrame, WriteFailure, ProcessLast, Stopping
<1>4. mgr'[p].previous = mgr[p].previous
  <2>1. mgr[p] \in Managers
    BY SidesTyped
  <2>2. CASE InitiateUpgrade(p)
    <3> DEFINE set == [mgr[p] EXCEPT !.medium = Arg(p)]
               started == [set EXCEPT !.retry = FALSE]
    <3>1. set.previous = mgr[p].previous /\ started.previous = mgr[p].previous
      BY <2>1 DEF Managers
    <3>2. Arg(p) \in Mediums \cup {None}
      BY <2>2, TaskTyped DEF InitiateUpgrade
    <3>3. started \in Managers
      BY <2>1, <3>2 DEF Managers
    <3>4. [started EXCEPT !.listening = @ \cup {opened + 1}].previous = started.previous
      BY <3>3 DEF Managers
    <3>5. ASSUME NEW m, m.previous = mgr[p].previous, ManagerOf(p, m)
          PROVE  mgr'[p].previous = mgr[p].previous
      BY <3>5, ManagerOfOthers
    <3>6. CASE UpgradeFailure(p, started, Arg(p), Tail(tasks[p]))
      BY <3>1, <3>3, <3>6, UpgradeFailureShape
    <3>7. \/ UNCHANGED mgr \/ ManagerOf(p, set) \/ ManagerOf(p, started)
          \/ ManagerOf(p, [started EXCEPT !.listening = @ \cup {opened + 1}])
          \/ UpgradeFailure(p, started, Arg(p), Tail(tasks[p]))
      BY <2>2 DEF InitiateUpgrade
    <3> HIDE DEF set, started
    <3> QED
      BY <3>1, <3>4, <3>5, <3>6, <3>7
  <2>3. CASE WritePath(p) \/ ProcessUpgradeFailure(p)
    <3>1. CASE ManagerOf(p, [mgr[p] EXCEPT !.inProgress = TRUE])
      BY <2>1, <3>1, ManagerOfOthers DEF Managers
    <3>2. ASSUME NEW medium, NEW q, UpgradeFailure(p, mgr[p], medium, q)
          PROVE  mgr'[p].previous = mgr[p].previous
      BY <2>1, <3>2, UpgradeFailureShape
    <3> QED
      BY <2>3, <3>1, <3>2 DEF WritePath, ProcessUpgradeFailure
  <2>4. CASE RetryUpgrade(p)
    <3>1. CASE TryNextBest(p, mgr[p], AllUpgradeMediums, Tail(tasks[p]))
      BY <2>1, <3>1, TryNextBestShape
    <3> QED
      BY <2>4, <3>1 DEF RetryUpgrade
  <2>5. CASE WriteFailure(p)
    <3> DEFINE m == RevertedFor(p, conn[p].active, mgr[p])
    <3>1. m.previous = mgr[p].previous /\ m \in Managers
      BY <2>1, RevertedForTyped DEF RevertedFor, Reverted, Managers
    <3> HIDE DEF m
    <3>2. [m EXCEPT !.inProgress = FALSE].previous = m.previous
      BY <3>1 DEF Managers
    <3> QED
      BY <2>5, <3>1, <3>2, ManagerOfOthers DEF WriteFailure, m
  <2>6. CASE ProcessLast(p)
    BY <2>1, <2>6 DEF ProcessLast, TypeOK, Managers
  <2> QED
    BY <2>2, <2>3, <2>4, <2>5, <2>6 DEF DropFrame
<1>5. conn'[p].active = conn[p].active /\ (Registered(p)' => Registered(p))
  BY <1>1 DEF Registered
<1>6. mgr'[p].previous \in {None, mgr[p].previous}
  BY <1>4
<1> QED
  BY <1>2, <1>3, <1>5, <1>6, SteadyAt

\* An offer is declined, joined, or closes both channels.
LEMMA ProcessPathSteady ==
  ASSUME TypeOK, NEW p \in Peers, ProcessPath(p)
  PROVE  Steady(p)
<1> DEFINE mine == IF mgr[p].medium = None
                   THEN [mgr[p] EXCEPT !.medium = link[Arg(p)].medium] ELSE mgr[p]
<1>1. UNCHANGED conn /\ mgr[p] \in Managers
  BY SidesTyped DEF ProcessPath
<1>2. mine.previous = mgr[p].previous
  BY <1>1 DEF Managers
<1>3. CASE CloseAllChannels(p)
  <2>1. mgr'[p].previous = None /\ bwu'[p] = bwu[p]
    BY <1>1, <1>3 DEF CloseAllChannels, TypeOK, Managers
  <2>2. Calm(p)
    <3> SUFFICES ASSUME NEW d \in Channels
                 PROVE  /\ Writable(p, d)' => Writable(p, d)
                        /\ Halted(p, d) => Halted(p, d)'
      BY <1>1 DEF Calm
    <3>1. chan[p][d] \in ChannelStates
      BY SidesTyped
    <3>2. chan'[p][d] = [chan[p][d] EXCEPT !.closed = TRUE, !.paused = FALSE]
          \/ chan'[p][d] = chan[p][d]
      BY <1>3 DEF CloseAllChannels, TypeOK, ChannelsTypeOK
    <3> QED
      BY <3>1, <3>2 DEF Writable, Halted, ChannelStates
  <2> QED
    BY <1>1, <2>1, <2>2 DEF Steady, Aside, Registered
<1>4. CASE /\ UNCHANGED chan
           /\ UNCHANGED mgr \/ ManagerOf(p, mine)
           /\ UNCHANGED bwu \/ At(p, "fail", Arg(p), None) \/ At(p, "ack", Arg(p), None)
  <2>1. mgr'[p].previous = mgr[p].previous
    BY <1>2, <1>4, ManagerOfOthers
  <2>2. bwu'[p] = bwu[p] \/ bwu'[p].pc \notin Stopping \cup {"last"}
    BY <1>4, AtOthers DEF Stopping
  <2> QED
    BY <1>1, <1>4, <2>1, <2>2, SteadyAt DEF Tame, Registered
<1>5. CASE /\ UNCHANGED chan
           /\ ManagerOf(p, [mine EXCEPT !.inProgress = TRUE]) /\ At(p, "replace", Arg(p), None)
  <2>1. mine \in Managers \/ link[Arg(p)].medium \notin Mediums \cup {None}
    BY <1>1 DEF Managers
  <2>2. [mine EXCEPT !.inProgress = TRUE].previous = mine.previous
    BY <1>1 DEF Managers
  <2>3. mgr'[p].previous = mgr[p].previous
    <3> HIDE DEF mine
    <3> QED
      BY <1>2, <1>5, <2>2, ManagerOfOthers
  <2>4. bwu'[p].pc \notin Stopping \cup {"last"}
    BY <1>5, AtOthers DEF Stopping
  <2> QED
    BY <1>1, <1>5, <2>3, <2>4, SteadyAt DEF Tame, Registered
<1> QED
  BY <1>3, <1>4, <1>5 DEF ProcessPath, Join, JoinFails, channelVars

\* The other steps of a handler before the switch, or on the prior channel.
LEMMA LaterSteady ==
  ASSUME TypeOK, NEW p \in Peers,
         \/ AwaitAck(p) \/ IncomingConnection(p) \/ WriteSafe(p) \/ WriteDisconnection(p)
         \/ DrainPrior(p) \/ EndpointDisconnected(p)
  PROVE  Steady(p)
<1>1. conn'[p].active = conn[p].active /\ (Registered(p)' => Registered(p))
  <2>1. CASE EndpointDisconnected(p)
    <3>1. conn' = [conn EXCEPT ![p].em = IF @ = "removing" THEN "cleaned" ELSE @]
      BY <2>1 DEF EndpointDisconnected
    <3>2. conn[p] \in Connections /\ conn \in [Peers -> Connections]
      BY DEF TypeOK, WorkersTypeOK
    <3> QED
      BY <3>1, <3>2 DEF Registered, Connections
  <2> QED
    BY <2>1 DEF AwaitAck, IncomingConnection, WriteSafe, WriteDisconnection, DrainPrior,
                Registered
<1>2. Tame
  <2>1. IncomingConnection(p) => Arg(p) \in Channels
    <3>1. IncomingConnection(p) => Task(p, "INCOMING")
      BY DEF IncomingConnection
    <3> QED
      BY <3>1, TaskTyped
  <2>2. bwu[p].pc = "ack" => bwu[p].chan \in Channels
    BY SidesTyped DEF Threads
  <2>3. bwu[p].pc = "drain" => bwu[p].old \in Channels
    BY SidesTyped DEF Threads
  <2>4. mgr[p].previous # None => mgr[p].previous \in Channels
    BY SidesTyped DEF Managers
  <2>5. bwu[p].pc = "safe" => mgr[p].previous # None
    BY DEF TypeOK
  <2> QED
    BY <2>1, <2>2, <2>3, <2>4, <2>5
    DEF AwaitAck, IncomingConnection, WriteSafe, WriteDisconnection, DrainPrior,
        EndpointDisconnected, Tame
<1>3. mgr'[p].previous \in {None, mgr[p].previous}
  <2>1. mgr[p] \in Managers /\ mgr \in [Peers -> Managers]
    BY DEF TypeOK
  <2>2. CASE EndpointDisconnected(p)
    <3> DEFINE m == RevertedFor(p, Arg(p), mgr[p])
    <3>1. m \in Managers
      BY <2>1, RevertedForTyped
    <3> HIDE DEF m
    <3>2. Forgotten(m).previous = None
      BY <3>1 DEF Forgotten, Managers
    <3>3. ManagerOf(p, Forgotten(m))
      BY <2>2 DEF EndpointDisconnected, m
    <3> QED
      BY <3>2, <3>3, ManagerOfOthers
  <2>3. CASE AwaitAck(p) \/ IncomingConnection(p) \/ WriteSafe(p)
    BY <2>1, <2>3 DEF AwaitAck, IncomingConnection, WriteSafe, Managers
  <2> QED
    BY <2>2, <2>3 DEF WriteDisconnection, DrainPrior
<1>4. \/ bwu'[p] = bwu[p]
      \/ bwu'[p].pc \notin Stopping \cup {"last"}
      \/ bwu'[p].pc \in Stopping /\ bwu[p].pc \in Stopping
  <2>1. CASE AwaitAck(p) \/ IncomingConnection(p)
    <3>1. UNCHANGED bwu \/ \E pc \in {"replace", "fail"}, c \in {bwu[p].chan, Arg(p)} :
                              At(p, pc, c, None)
      BY <2>1 DEF AwaitAck, IncomingConnection
    <3> QED
      BY <3>1, AtOthers DEF Stopping
  <2>2. CASE WriteSafe(p)
    BY <2>2, IdleOthers DEF WriteSafe, Stopping
  <2>3. CASE WriteDisconnection(p) \/ DrainPrior(p)
    BY <2>3, AtOthers DEF WriteDisconnection, DrainPrior, Stopping
  <2>4. CASE EndpointDisconnected(p)
    BY <2>4 DEF EndpointDisconnected
  <2> QED
    BY <2>1, <2>2, <2>3, <2>4
<1> QED
  BY <1>1, <1>2, <1>3, <1>4, SteadyAt

\* The prior channel becomes the one the thread shuts down.
LEMMA WriteLastKept ==
  ASSUME TypeOK, TypeOK', NEW p \in Peers, DeviceInv(p), Wrote(p), WriteLast(p)
  PROVE  DeviceInv(p)'
<1> DEFINE old == bwu[p].old
<1>1. UNCHANGED <<chan, conn>> /\ bwu[p].pc = "last" /\ old \in Channels
  <2>1. UNCHANGED <<chan, conn>> /\ bwu[p].pc = "last"
    BY DEF WriteLast
  <2> QED
    BY <2>1, SidesTyped DEF Threads
<1>2. bwu'[p].pc \in {"idle", "safe"}
  BY AtOthers, IdleOthers DEF WriteLast, AfterLast
<1>3. CASE UNCHANGED mgr
  <2>1. Steady(p)
    BY <1>1, <1>2, <1>3, SteadyAt DEF Tame, Registered, Stopping
  <2> QED
    BY <2>1, SteadyKept
<1>4. CASE Written(p, old, "LAST", 0) /\ ManagerOf(p, WithPrior(mgr[p], old))
  <2>1. Counted(p)'
    BY CountedKept DEF DeviceInv
  <2>2. mgr'[p].previous = IF mgr[p].previous = None THEN old ELSE mgr[p].previous
    <3> DEFINE m == WithPrior(mgr[p], old)
    <3>1. mgr[p] \in Managers
      BY SidesTyped
    <3>2. m.previous = IF mgr[p].previous = None THEN old ELSE mgr[p].previous
      BY <3>1 DEF WithPrior, Managers
    <3> HIDE DEF m
    <3>3. mgr'[p] = m
      BY <1>4, ManagerOfOthers DEF m
    <3> QED
      BY <3>2, <3>3
  <2>3. ASSUME Registered(p)
        PROVE  Flow(p)' /\ ThreadKnows(p)'
    <3>1. Calm(p)
      BY <1>1, TameCalm DEF Tame
    <3>2. Flow(p) /\ Counted(p) /\ ThreadKnows(p)
      BY <2>3 DEF DeviceInv, Flow
    <3>3. conn[p].active \in Channels
      BY <2>3, SidesTyped DEF Connections, Registered
    <3>4. Flow(p)'
      BY <3>1, <3>2, <3>3, FlowKept
    <3>5. Stopped(p, old)
      BY <1>1, <1>4, <3>2 DEF ThreadKnows, Written, Halted
    <3>6. Stopped(p, mgr'[p].previous)
      BY <2>2, <3>2, <3>5 DEF ThreadKnows
    <3>7. ThreadKnows(p)'
      BY <1>1, <1>2, <3>6 DEF ThreadKnows, Stopped, Writable, Stopping
    <3> QED
      BY <3>4, <3>7
  <2>4. Registered(p)' => Registered(p)
    BY <1>1 DEF Registered
  <2> QED
    BY <2>1, <2>3, <2>4 DEF DeviceInv, Flow
<1> QED
  BY <1>3, <1>4 DEF WriteLast

\* From SAFE_TO_CLOSE_PRIOR_CHANNEL on no channel can be written on.
LEMMA ProcessSafeKept ==
  ASSUME TypeOK, TypeOK', NEW p \in Peers, DeviceInv(p), Wrote(p), ProcessSafe(p)
  PROVE  DeviceInv(p)'
<1> PICK old : old = mgr[p].previous
  OBVIOUS
<1>1. UNCHANGED conn
  BY DEF ProcessSafe
<1>2. CASE old = None
  <2>1. UNCHANGED <<chan, mgr, bwu>>
    BY <1>2 DEF ProcessSafe
  <2>2. Steady(p)
    BY <1>1, <2>1, SteadyAt DEF Tame, Registered
  <2> QED
    BY <2>2, SteadyKept
<1>3. CASE old # None
  <2>1. /\ mgr' = [mgr EXCEPT ![p].previous = None] /\ chan' = Unencrypted(p, old)
        /\ At(p, "disconnect", None, old)
    BY <1>3 DEF ProcessSafe
  <2>2. old \in Channels
    BY <1>3, SidesTyped DEF Managers
  <2>3. Calm(p)
    BY <1>1, <2>1, <2>2, TameCalm DEF Tame
  <2>4. mgr'[p].previous = None /\ bwu'[p].pc = "disconnect"
    BY <2>1, AtOthers DEF TypeOK, Managers
  <2>5. ~Writable(p, old)'
    <3>1. chan \in [Peers -> [Channels -> ChannelStates]] /\ chan[p][old] \in ChannelStates
      BY <2>2, SidesTyped DEF TypeOK, ChannelsTypeOK
    <3>2. chan'[p][old] = [chan[p][old] EXCEPT !.crypt = FALSE]
      BY <2>1, <2>2, <3>1 DEF Unencrypted
    <3>3. chan'[p][old].crypt = FALSE
      BY <3>1, <3>2 DEF ChannelStates
    <3> QED
      BY <3>3 DEF Writable
  <2>6. Counted(p)'
    BY CountedKept DEF DeviceInv
  <2>7. ASSUME Registered(p)
        PROVE  Flow(p)' /\ ThreadKnows(p)'
    <3>1. Flow(p) /\ Counted(p) /\ ThreadKnows(p)
      BY <2>7 DEF DeviceInv, Flow
    <3>2. conn[p].active \in Channels
      BY <2>7, SidesTyped DEF Connections, Registered
    <3>3. Flow(p)'
      BY <2>3, <3>1, <3>2, FlowKept
    <3>4. \A c \in Channels : ~Writable(p, c)'
      <4>1. \A c \in Channels \ {old} : ~Writable(p, c)
        BY <1>3, <3>1 DEF ThreadKnows, Stopped
      <4> QED
        BY <2>3, <2>5, <4>1 DEF Calm
    <3>5. Stopped(p, None)'
      BY <3>4 DEF Stopped
    <3>6. ThreadKnows(p)'
      BY <2>4, <3>5 DEF ThreadKnows
    <3> QED
      BY <3>3, <3>6
  <2>8. Registered(p)' => Registered(p)
    BY <1>1 DEF Registered
  <2> QED
    BY <2>6, <2>7, <2>8 DEF DeviceInv, Flow
<1> QED
  BY <1>2, <1>3

\* The new channel is paused, and nothing was written on it.
LEMMA ReplaceChannelKept ==
  ASSUME TypeOK, TypeOK', OffersInv, NEW p \in Peers, DeviceInv(p), Wrote(p), ReplaceChannel(p)
  PROVE  DeviceInv(p)'
<1> PICK c, old : c = bwu[p].chan /\ old = conn[p].active
  OBVIOUS
<1>1. UNCHANGED <<net, seq, mgr>> /\ bwu[p].pc = "replace" /\ c \in Channels
  <2>1. UNCHANGED <<net, seq, mgr>> /\ bwu[p].pc = "replace"
    BY DEF ReplaceChannel
  <2> QED
    BY <2>1, SidesTyped DEF Threads
<1>2. CASE old = None
  <2>1. chan' = Closed(p, c) /\ Idle(p) /\ UNCHANGED conn
    BY <1>2 DEF ReplaceChannel
  <2>2. Steady(p)
    BY <1>1, <2>1, IdleOthers, SteadyAt DEF Tame, Registered, Stopping
  <2> QED
    BY <2>2, SteadyKept
<1>3. CASE old # None
  <2>1. /\ chan' = Prepared(p, c) /\ conn' = [conn EXCEPT ![p].active = c]
        /\ At(p, "last", c, old)
    BY <1>3 DEF ReplaceChannel
  <2>2. Numbers(net[p][c]) = {}
    <3>1. Switching(p, c)
      BY <1>1 DEF Switching
    <3>2. p = Advertiser => Arriving(c)
      BY <3>1 DEF Arriving
    <3> QED
      BY <1>1, <3>1, <3>2 DEF OffersInv, OfferInv, Untouched, Unprepared, Peers
  <2>3. old \in Channels
    BY <1>3, SidesTyped
  <2>4. bwu'[p] = [pc |-> "last", chan |-> c, old |-> old]
    BY <2>1 DEF At, TypeOK
  <2>5. conn'[p].active = c /\ conn'[p].em = conn[p].em
    <3>1. conn \in [Peers -> Connections] /\ conn[p] \in Connections
      BY DEF TypeOK, WorkersTypeOK
    <3> QED
      BY <2>1, <3>1 DEF Connections
  <2>6. /\ chan'[p][c].paused = TRUE
        /\ \A d \in Channels \ {c} : chan'[p][d] = chan[p][d]
    <3>1. chan \in [Peers -> [Channels -> ChannelStates]] /\ chan[p][c] \in ChannelStates
      BY <1>1, SidesTyped DEF TypeOK, ChannelsTypeOK
    <3>2. chan'[p][c] = [chan[p][c] EXCEPT !.paused = TRUE, !.crypt = EncryptUpgraded]
      BY <1>1, <2>1, <3>1 DEF Prepared
    <3>3. chan'[p][c].paused = TRUE
      BY <3>1, <3>2 DEF ChannelStates
    <3>4. \A d \in Channels \ {c} : chan'[p][d] = chan[p][d]
      BY <1>1, <2>1, <3>1 DEF Prepared
    <3> QED
      BY <3>3, <3>4
  <2>7. ~Writable(p, c)' /\ Halted(p, c)'
    BY <2>6 DEF Writable, Halted
  <2>8. \A d \in Channels \ {c} : /\ Writable(p, d)' <=> Writable(p, d)
                                  /\ Halted(p, d)' <=> Halted(p, d)
    BY <2>6 DEF Writable, Halted
  <2>9. Counted(p)'
    BY CountedKept DEF DeviceInv
  <2>10. ASSUME Registered(p)
         PROVE  Flow(p)' /\ ThreadKnows(p)'
    <3>1. Flow(p) /\ ThreadKnows(p)
      BY <2>10 DEF DeviceInv, Flow
    <3>2. Ordered(p)'
      <4>1. \A d \in Channels : Before(Numbers(net[p][d]), Numbers(net[p][c]))
        BY <2>2 DEF Before
      <4> QED
        BY <1>1, <2>5, <3>1, <4>1 DEF Flow, Ordered
    <3>3. OneWritable(p)'
      <4> SUFFICES ASSUME NEW d \in Channels, NEW e \in Channels, Writable(p, d)', d # e
                   PROVE  ~Writable(p, e)' /\ Before(Numbers(net[p][e]), Numbers(net[p][d]))
        BY <1>1 DEF OneWritable
      <4>1. Writable(p, d)
        BY <2>7, <2>8
      <4>2. ~Writable(p, e) /\ Before(Numbers(net[p][e]), Numbers(net[p][d]))
        BY <3>1, <4>1 DEF Flow, OneWritable
      <4> QED
        BY <2>7, <2>8, <4>2
    <3>4. NewHalted(p)'
      BY <1>1, <2>2, <2>5, <2>7 DEF NewHalted
    <3>5. Halted(p, old)' \/ Stopped(p, old)'
      <4>1. CASE Halted(p, old) \/ old = c
        BY <2>3, <2>7, <2>8, <4>1
      <4>2. CASE ~Halted(p, old)
        <5>1. \A d \in Channels \ {old} : ~Writable(p, d)
          BY <3>1, <4>2 DEF Flow, NewHalted
        <5>2. \A d \in Channels \ {old} : ~Writable(p, d)'
          BY <2>7, <2>8, <5>1
        <5> QED
          BY <5>2 DEF Stopped
      <4> QED
        BY <4>1, <4>2
    <3>6. mgr[p].previous # None => Stopped(p, mgr[p].previous)'
      BY <1>1, <2>7, <2>8, <3>1 DEF ThreadKnows, Stopped
    <3>7. ThreadKnows(p)'
      <4>1. bwu'[p].pc = "last" /\ bwu'[p].old = old
        BY <2>4
      <4>2. mgr'[p].previous = mgr[p].previous
        BY <1>1
      <4> QED
        BY <3>5, <3>6, <4>1, <4>2 DEF ThreadKnows, Stopped, Halted, Writable, Stopping
    <3> QED
      BY <3>2, <3>3, <3>4, <3>7 DEF Flow
  <2>11. Registered(p)' => Registered(p)
    BY <2>5 DEF Registered
  <2> QED
    BY <2>9, <2>10, <2>11 DEF DeviceInv, Flow
<1> QED
  BY <1>2, <1>3

\* The channel that is resumed is the only one, and its frames come last.
LEMMA ResumeUpgradedKept ==
  ASSUME TypeOK, TypeOK', NEW p \in Peers, DeviceInv(p), Wrote(p), ResumeUpgraded(p)
  PROVE  DeviceInv(p)'
<1> PICK c : c = conn[p].active
  OBVIOUS
<1>1. UNCHANGED <<net, seq, conn>> /\ bwu[p].pc = "finish" /\ Idle(p)
  BY DEF ResumeUpgraded
<1>2. mgr'[p].previous = mgr[p].previous
  BY DEF ResumeUpgraded, TypeOK, Managers
<1>3. CASE c = None
  <2>1. UNCHANGED chan
    BY <1>3 DEF ResumeUpgraded
  <2>2. Steady(p)
    BY <1>1, <1>2, <2>1, IdleOthers, SteadyAt DEF Tame, Registered, Stopping
  <2> QED
    BY <2>2, SteadyKept
<1>4. CASE c # None
  <2>1. chan' = Resumed(p, c)
    BY <1>4 DEF ResumeUpgraded
  <2>2. c \in Channels
    BY <1>4, SidesTyped
  <2>3. \A d \in Channels \ {c} : chan'[p][d] = chan[p][d]
    BY <2>1, <2>2 DEF Resumed, TypeOK, ChannelsTypeOK
  <2>4. Counted(p)'
    BY CountedKept DEF DeviceInv
  <2>5. bwu'[p].pc = "idle"
    BY <1>1, IdleOthers
  <2>6. ASSUME Registered(p)
        PROVE  Flow(p)' /\ ThreadKnows(p)'
    <3>1. Flow(p) /\ ThreadKnows(p)
      BY <2>6 DEF DeviceInv, Flow
    <3>2. mgr[p].previous = None /\ \A d \in Channels : ~Writable(p, d)
      BY <1>1, <3>1, ConstantsTyped DEF ThreadKnows, Stopping, Stopped
    <3>3. \A d \in Channels \ {c} : ~Writable(p, d)'
      BY <2>3, <3>2 DEF Writable
    <3>4. Ordered(p)'
      BY <1>1, <3>1 DEF Flow, Ordered
    <3>5. \A d \in Channels \ {c} : Before(Numbers(net[p][d]), Numbers(net[p][c]))
      BY <3>1 DEF Flow, Ordered
    <3>6. OneWritable(p)'
      BY <1>1, <2>2, <3>3, <3>5 DEF OneWritable
    <3>7. NewHalted(p)'
      BY <1>1, <3>3 DEF NewHalted
    <3>8. ThreadKnows(p)'
      BY <1>2, <2>5, <3>2 DEF ThreadKnows, Stopping
    <3> QED
      BY <3>4, <3>6, <3>7, <3>8 DEF Flow
  <2>7. Registered(p)' => Registered(p)
    BY <1>1 DEF Registered
  <2> QED
    BY <2>4, <2>6, <2>7 DEF DeviceInv, Flow
<1> QED
  BY <1>3, <1>4

\* Every step keeps what is known of each device.
LEMMA NextDevice ==
  ASSUME TypeOK, TypeOK', OffersInv, NEW r \in Peers, DeviceInv(r), Next
  PROVE  DeviceInv(r)'
<1>1. Wrote(r)
  BY NextWrote
<1>2. CASE Steady(r)
  BY <1>1, <1>2, SteadyKept
<1>3. ASSUME NEW p \in Peers, ThreadStep(p)
      PROVE  DeviceInv(r)'
  <2>1. CASE r # p
    BY <1>2, <1>3, <2>1, ThreadApart, ApartSteady
  <2>2. CASE r = p
    BY <1>1, <1>2, <1>3, <2>2, AskingSteady, ProcessPathSteady, LaterSteady, WriteLastKept,
       ProcessSafeKept, ReplaceChannelKept, ResumeUpgradedKept
    DEF ThreadStep
  <2> QED
    BY <2>1, <2>2
<1>4. ASSUME NEW p \in Peers, RequestUpgrade(p) \/ RetryAlarm(p)
      PROVE  DeviceInv(r)'
  <2>1. /\ UNCHANGED <<chan, conn, bwu>>
        /\ mgr'[r].previous = mgr[r].previous
    BY <1>4 DEF RequestUpgrade, RetryAlarm, channelVars, TypeOK, Managers
  <2> QED
    BY <1>2, <2>1, SteadyAt DEF Tame, Registered
<1>5. ASSUME NEW c \in Channels, Accept(c)
      PROVE  DeviceInv(r)'
  <2>1. UNCHANGED <<conn, bwu, mgr>> /\ (UNCHANGED chan \/ chan' = Closed(Advertiser, c))
    BY <1>5 DEF Accept
  <2> QED
    BY <1>2, <2>1, SteadyAt, ConstantsTyped DEF Tame, Registered
<1>6. ASSUME WorkersNext, UNCHANGED <<mgr, bwu, opened, requests>>
      PROVE  DeviceInv(r)'
  BY <1>2, <1>6, WorkersSteady DEF ManagerUnchanged
<1> QED
  BY <1>3, <1>4, <1>5, <1>6 DEF Next

-----------------------------------------------------------------------------
(* Queues of frames and tasks *)

\* Nothing of this kind about channel c was added to the queue.
Fewer(q, r, kind, c) ==
  /\ Has(q, kind, c) => Has(r, kind, c)
  /\ Once(r, kind, c) => Once(q, kind, c)

\* A queue that did not change has no more of anything.
LEMMA SameFewer ==
  ASSUME NEW q, NEW kind, NEW c
  PROVE  Fewer(q, q, kind, c)
BY DEF Fewer

\* A queue without its head has no more, and none of what the head was the only one.
LEMMA TailFewer ==
  ASSUME NEW S, NEW q \in Seq(S), q # << >>, NEW kind, NEW c
  PROVE  /\ Fewer(Tail(q), q, kind, c)
         /\ Once(q, kind, c) /\ Head(q).kind = kind /\ Head(q).arg = c => ~Has(Tail(q), kind, c)
         /\ Head(q).kind = kind /\ Head(q).arg = c => Has(q, kind, c)
<1> DEFINE t == Tail(q)
<1>1. /\ \A i \in DOMAIN t : i + 1 \in DOMAIN q /\ t[i] = q[i + 1] /\ i \in 1..Len(q)
      /\ 1 \in DOMAIN q /\ Head(q) = q[1]
  OBVIOUS
<1> HIDE DEF t
<1>2. Has(t, kind, c) => Has(q, kind, c)
  BY <1>1 DEF Has
<1>3. ASSUME Once(q, kind, c)
      PROVE  Once(t, kind, c)
  <2> SUFFICES ASSUME NEW i \in DOMAIN t, NEW j \in DOMAIN t, t[i].kind = kind, t[i].arg = c,
                      t[j].kind = kind, t[j].arg = c
               PROVE  i = j
    BY DEF Once
  <2>1. i + 1 = j + 1
    BY <1>1, <1>3 DEF Once
  <2> QED
    BY <1>1, <2>1
<1>4. ASSUME Once(q, kind, c), Head(q).kind = kind, Head(q).arg = c, Has(t, kind, c)
      PROVE  FALSE
  <2>1. PICK i \in DOMAIN t : t[i].kind = kind /\ t[i].arg = c
    BY <1>4 DEF Has
  <2>2. i + 1 = 1
    BY <1>1, <1>4, <2>1 DEF Once
  <2> QED
    BY <1>1, <2>1, <2>2
<1>5. Head(q).kind = kind /\ Head(q).arg = c => Has(q, kind, c)
  BY <1>1 DEF Has
<1> QED
  BY <1>2, <1>3, <1>4, <1>5 DEF Fewer, t

\* A queue with one more element has that one more, and no other.
LEMMA AppendFewer ==
  ASSUME NEW S, NEW q \in Seq(S), NEW f, NEW kind, NEW c
  PROVE  /\ f.kind # kind \/ f.arg # c => Fewer(Append(q, f), q, kind, c)
         /\ f.kind = kind /\ f.arg = c => Has(Append(q, f), kind, c)
         /\ Once(q, kind, c) /\ ~Has(q, kind, c) => Once(Append(q, f), kind, c)
<1> DEFINE s == Append(q, f)
           n == Len(q)
<1>1. /\ n \in Nat /\ DOMAIN q = 1..n /\ DOMAIN s = 1..(n + 1)
      /\ \A i \in 1..n : s[i] = q[i]
      /\ s[n + 1] = f
  OBVIOUS
<1> HIDE DEF s, n
<1>2. f.kind = kind /\ f.arg = c => Has(s, kind, c)
  BY <1>1 DEF Has
<1>3. ASSUME f.kind # kind \/ f.arg # c
      PROVE  Fewer(s, q, kind, c)
  <2>1. \A i \in DOMAIN s : s[i].kind = kind /\ s[i].arg = c => i \in DOMAIN q /\ s[i] = q[i]
    BY <1>1, <1>3
  <2>2. Has(s, kind, c) => Has(q, kind, c)
    BY <2>1 DEF Has
  <2>3. Once(q, kind, c) => Once(s, kind, c)
    BY <2>1 DEF Once
  <2> QED
    BY <2>2, <2>3 DEF Fewer
<1>4. ASSUME Once(q, kind, c), ~Has(q, kind, c)
      PROVE  Once(s, kind, c)
  <2>1. \A i \in DOMAIN s : s[i].kind = kind /\ s[i].arg = c => i = n + 1
    BY <1>1, <1>4 DEF Has
  <2> QED
    BY <2>1 DEF Once
<1> QED
  BY <1>2, <1>3, <1>4 DEF s

\* Two such changes make one.
LEMMA FewerTrans ==
  ASSUME NEW q, NEW r, NEW s, NEW kind, NEW c, Fewer(q, r, kind, c), Fewer(r, s, kind, c)
  PROVE  Fewer(q, s, kind, c)
BY DEF Fewer

-----------------------------------------------------------------------------
(* Where the offer of one channel is *)

\* The step neither moves the offer of channel c, nor prepares the channel.
FramesFewer(c) ==
  \A d \in Channels : Fewer(net'[Advertiser][d], net[Advertiser][d], "PATH", c)
TasksFewer(c) ==
  /\ Fewer(tasks'[Discoverer], tasks[Discoverer], "PATH", c)
  /\ Fewer(tasks'[Discoverer], tasks[Discoverer], "INCOMING", c)
  /\ Fewer(tasks'[Advertiser], tasks[Advertiser], "INCOMING", c)
Stays(c) ==
  /\ PathAt(c)' => PathAt(c)
  /\ \A p \in Peers : Switching(p, c)' => Switching(p, c)
Fresh(c) == \A p \in Peers : Unprepared(p, c) => Unprepared(p, c)'
Elsewhere(c) ==
  /\ opened' >= opened
  /\ FramesFewer(c) /\ TasksFewer(c) /\ Stays(c) /\ Fresh(c)
  /\ link'[c].dialled => link[c].dialled

\* A step elsewhere keeps what is known of the channel's offer.
LEMMA ElsewhereKept ==
  ASSUME TypeOK, TypeOK', NEW c \in Channels, OfferInv(c), Elsewhere(c)
  PROVE  OfferInv(c)'
<1> USE DEF Elsewhere
<1>1. /\ PathSent(c)' => PathSent(c)
      /\ PathGot(c)' => PathGot(c)
      /\ PathAt(c)' => PathAt(c)
      /\ Offered(c)' => Offered(c)
  BY DEF FramesFewer, TasksFewer, Stays, Fewer, PathSent, PathGot, Offered
<1>2. /\ Accepted(c)' => Accepted(c)
      /\ Arriving(c)' => Arriving(c)
      /\ Switching(Advertiser, c)' => Switching(Advertiser, c)
      /\ Switching(Discoverer, c)' => Switching(Discoverer, c)
  BY ConstantsTyped DEF TasksFewer, Stays, Fewer, Accepted, Arriving
<1>3. c > opened' => c > opened
  BY BoundsTyped DEF TypeOK, Channels
<1>4. OfferedOnce(c)'
  BY <1>1 DEF OfferInv, OfferedOnce, FramesFewer, TasksFewer, Fewer
<1>5. ArrivesOnce(c)'
  BY <1>2 DEF OfferInv, ArrivesOnce, TasksFewer, Fewer, Accepted
<1>6. Untouched(c)'
  <2>1. Unprepared(Advertiser, c) => Unprepared(Advertiser, c)'
    BY ConstantsTyped DEF Fresh
  <2>2. Unprepared(Discoverer, c) => Unprepared(Discoverer, c)'
    BY ConstantsTyped DEF Fresh
  <2> QED
    BY <1>1, <1>2, <1>3, <2>1, <2>2 DEF OfferInv, Untouched
<1> QED
  BY <1>4, <1>5, <1>6 DEF OfferInv

\* Frames: only WritePath writes an offer.
LEMMA FramesSame ==
  ASSUME UNCHANGED net, NEW c
  PROVE  FramesFewer(c)
BY SameFewer DEF FramesFewer

\* Sending any other frame adds no offer of the channel.
LEMMA SentFewer ==
  ASSUME TypeOK, NEW p \in Peers, NEW d \in Channels, NEW kind, NEW arg,
         Sent(p, d, kind, arg), NEW c, p # Advertiser \/ kind # "PATH" \/ arg # c
  PROVE  FramesFewer(c)
<1> DEFINE f == [kind |-> kind, seq |-> Stamp(p, d), arg |-> arg]
<1>1. net' = [net EXCEPT ![p][d] = Append(@, f)] /\ f.kind = kind /\ f.arg = arg
  BY DEF Sent
<1> HIDE DEF f
<1>2. \A e \in Channels : \/ net'[Advertiser][e] = net[Advertiser][e]
                          \/ p = Advertiser /\ net'[Advertiser][e] = Append(net[Advertiser][e], f)
  BY <1>1, ConstantsTyped DEF TypeOK, ChannelsTypeOK
<1>3. \A e \in Channels : net[Advertiser][e] \in Seq(Frames)
  BY SidesTyped, ConstantsTyped
<1> QED
  BY <1>1, <1>2, <1>3, SameFewer, AppendFewer DEF FramesFewer

\* The same of a write, successful or not.
LEMMA WriteFewer ==
  ASSUME TypeOK, NEW p \in Peers, NEW d \in Channels, NEW kind, NEW arg,
         Written(p, d, kind, arg) \/ WriteFailed(p, d), NEW c,
         p # Advertiser \/ kind # "PATH" \/ arg # c
  PROVE  FramesFewer(c)
BY SentFewer, FramesSame DEF Written, WriteFailed, NotSent

\* Reading a frame adds none.
LEMMA PoppedFewer ==
  ASSUME TypeOK, NEW p \in Peers, NEW d \in Channels, CanRead(p, d), net' = Popped(p, d), NEW c
  PROVE  FramesFewer(c)
<1>1. Other(p) \in Peers /\ net[Other(p)][d] # << >>
  BY SidesTyped DEF CanRead, Incoming
<1>2. \A e \in Channels : \/ net'[Advertiser][e] = net[Advertiser][e]
                          \/ /\ net[Advertiser][e] # << >>
                             /\ net'[Advertiser][e] = Tail(net[Advertiser][e])
  BY <1>1, ConstantsTyped DEF Popped, TypeOK, ChannelsTypeOK
<1>3. \A e \in Channels : net[Advertiser][e] \in Seq(Frames)
  BY SidesTyped, ConstantsTyped
<1>4. ASSUME NEW e \in Channels
      PROVE  Fewer(net'[Advertiser][e], net[Advertiser][e], "PATH", c)
  BY <1>2, <1>3, SameFewer, TailFewer
<1> QED
  BY <1>4 DEF FramesFewer

\* Tasks: only the reader posts an offer, only the accept loop a socket.
LEMMA TasksSame ==
  ASSUME UNCHANGED tasks, NEW c
  PROVE  TasksFewer(c)
BY SameFewer DEF TasksFewer

\* It is enough that each queue is the same, or a tail of it, with another task.
LEMMA TasksShape ==
  ASSUME TypeOK, NEW p \in Peers, NEW t, NEW c,
         (t.kind # "INCOMING" /\ (t.kind = "PATH" => p = Advertiser)) \/ t.arg # c,
         \A r \in Peers \ {p} : tasks'[r] = tasks[r],
         \/ tasks'[p] \in {tasks[p], Append(tasks[p], t)}
         \/ tasks[p] # << >> /\ tasks'[p] \in {Tail(tasks[p]), Append(Tail(tasks[p]), t)}
  PROVE  TasksFewer(c)
<1>1. ASSUME NEW r \in Peers, NEW kind \in {"PATH", "INCOMING"}, kind = "PATH" => r = Discoverer
      PROVE  Fewer(tasks'[r], tasks[r], kind, c)
  <2>1. tasks[r] \in Seq(Tasks)
    BY SidesTyped
  <2>2. CASE r # p
    BY <2>2, SameFewer
  <2>3. CASE r = p
    <3>1. t.kind # kind \/ t.arg # c
      BY <1>1, <2>3, PeersDistinct
    <3>2. CASE tasks'[p] \in {tasks[p], Append(tasks[p], t)}
      BY <2>1, <2>3, <3>1, <3>2, SameFewer, AppendFewer
    <3>3. CASE tasks[p] # << >> /\ tasks'[p] \in {Tail(tasks[p]), Append(Tail(tasks[p]), t)}
      <4>1. Tail(tasks[p]) \in Seq(Tasks) /\ Fewer(Tail(tasks[p]), tasks[p], kind, c)
        BY <2>1, <2>3, <3>3, TailFewer
      <4>2. Fewer(Append(Tail(tasks[p]), t), Tail(tasks[p]), kind, c)
        BY <3>1, <4>1, AppendFewer
      <4>3. Fewer(Append(Tail(tasks[p]), t), tasks[p], kind, c)
        BY <4>1, <4>2, FewerTrans
      <4> QED
        BY <2>3, <3>3, <4>1, <4>3
    <3> QED
      BY <3>2, <3>3
  <2> QED
    BY <2>2, <2>3
<1> QED
  BY <1>1, ConstantsTyped DEF TasksFewer

\* Taking a task adds none.
LEMMA TakeTaskFewer ==
  ASSUME TypeOK, NEW p \in Peers, NEW kind, Task(p, kind), TakeTask(p), NEW c
  PROVE  TasksFewer(c)
<1> DEFINE t == [kind |-> "OVER", arg |-> None]
<1>1. /\ \A r \in Peers \ {p} : tasks'[r] = tasks[r]
      /\ tasks[p] # << >> /\ tasks'[p] = Tail(tasks[p])
  BY DEF TakeTask, Task, TypeOK, WorkersTypeOK
<1>2. t.kind = "OVER"
  OBVIOUS
<1> HIDE DEF t
<1> QED
  BY <1>1, <1>2, TasksShape

\* Posting any other task adds no offer of the channel, and no socket for it.
LEMMA PostFewer ==
  ASSUME TypeOK, NEW p \in Peers, NEW kind, NEW arg,
         tasks' = [tasks EXCEPT ![p] = Post(p, kind, arg)], NEW c,
         (kind # "INCOMING" /\ (kind = "PATH" => p = Advertiser)) \/ arg # c
  PROVE  TasksFewer(c)
<1> DEFINE t == [kind |-> kind, arg |-> arg]
<1>1. t.kind = kind /\ t.arg = arg /\ Post(p, kind, arg) = Append(tasks[p], t)
  BY DEF Post
<1> HIDE DEF t
<1>2. (\A r \in Peers \ {p} : tasks'[r] = tasks[r]) /\ tasks'[p] = Append(tasks[p], t)
  BY <1>1 DEF TypeOK, WorkersTypeOK
<1> QED
  BY <1>1, <1>2, TasksShape

\* An InitiateBwuForEndpoint is such a task.
LEMMA AddsInitFewer ==
  ASSUME TypeOK, NEW p \in Peers, NEW q, AddsInit(p, q), NEW c,
         q = tasks[p] \/ (tasks[p] # << >> /\ q = Tail(tasks[p]))
  PROVE  TasksFewer(c)
<1>1. PICK medium : tasks'[p] \in {q, Append(q, [kind |-> "INIT", arg |-> medium])}
  BY DEF AddsInit
<1> DEFINE t == [kind |-> "INIT", arg |-> medium]
<1>2. t.kind = "INIT" /\ tasks'[p] \in {q, Append(q, t)}
  BY <1>1
<1> HIDE DEF t
<1>3. \A r \in Peers \ {p} : tasks'[r] = tasks[r]
  BY DEF AddsInit
<1> QED
  BY <1>2, <1>3, TasksShape

\* The thread: it keeps, or drops, the channel it is to switch to.
LEMMA StaysSame ==
  ASSUME UNCHANGED bwu, NEW c
  PROVE  Stays(c)
BY DEF Stays, PathAt, Switching

\* The thread does not take the channel in hand, unless it had it.
LEMMA StaysAway ==
  ASSUME TypeOK, NEW p \in Peers, NEW c, \A r \in Peers \ {p} : bwu'[r] = bwu[r],
         bwu'[p].pc \in {"ack", "replace"} /\ bwu'[p].chan = c => Switching(p, c),
         p = Advertiser /\ bwu'[p].pc = "path" => bwu'[p].chan # c
  PROVE  Stays(c)
<1>1. PathAt(c)' => PathAt(c)
  BY ConstantsTyped DEF PathAt
<1>2. ASSUME NEW r \in Peers, Switching(r, c)'
      PROVE  Switching(r, c)
  BY <1>2 DEF Switching
<1> QED
  BY <1>1, <1>2 DEF Stays

\* The parts of Elsewhere that are decided action by action.
Passive(c) ==
  /\ opened' >= opened
  /\ FramesFewer(c) /\ TasksFewer(c) /\ Stays(c)
  /\ link'[c].dialled => link[c].dialled

\* The count of channels offered is a number.
LEMMA OpenedTyped ==
  ASSUME TypeOK
  PROVE  opened \in Nat /\ opened >= opened
BY BoundsTyped DEF TypeOK

\* A step that leaves the maps of the links, the thread and the queues alone.
LEMMA StillPassive ==
  ASSUME TypeOK, NEW c, UNCHANGED <<bwu, opened>>, TasksFewer(c), FramesFewer(c),
         link'[c].dialled = link[c].dialled
  PROVE  Passive(c)
BY StaysSame, OpenedTyped DEF Passive

\* The frame the reader takes.
HeadFor(p) == Head(Incoming(p, reader[p].chan))

\* A frame the reader takes, unless it is the offer of the channel.
LEMMA ReaderFramePassive ==
  ASSUME TypeOK, NEW p \in Peers, NEW c, ReaderFrame(p), ManagerUnchanged,
         \/ UNCHANGED tasks
         \/ p = Advertiser \/ HeadFor(p).kind # "PATH" \/ HeadFor(p).arg # c
  PROVE  Passive(c)
<1>1. reader[p].chan \in Channels
  BY DEF TypeOK, WorkersTypeOK, Loops
<1>2. FramesFewer(c)
  BY <1>1, PoppedFewer DEF ReaderFrame
<1>3. TasksFewer(c)
  <2>1. CASE UNCHANGED tasks
    BY <2>1, TasksSame
  <2>2. CASE p = Advertiser \/ HeadFor(p).kind # "PATH" \/ HeadFor(p).arg # c
    <3>1. \/ UNCHANGED tasks
          \/ /\ HeadFor(p).kind \in Negotiation
             /\ tasks' = [tasks EXCEPT ![p] = Post(p, HeadFor(p).kind, HeadFor(p).arg)]
      BY DEF ReaderFrame, Route, HeadFor
    <3> QED
      BY <2>1, <2>2, <3>1, PostFewer DEF Negotiation
  <2> QED
    BY <2>1, <2>2
<1> QED
  BY <1>2, <1>3, StillPassive DEF ReaderFrame, ManagerUnchanged

\* The workers' other steps, the removal and the transport.
LEMMA WorkersPassive ==
  ASSUME TypeOK, NEW c \in Channels, WorkersNext, ManagerUnchanged,
         \A p \in Peers : ~ReaderFrame(p)
  PROVE  Passive(c)
<1>1. UNCHANGED <<bwu, opened>>
  BY DEF ManagerUnchanged
<1>2. CASE UNCHANGED <<net, tasks, link>>
  BY <1>1, <1>2, FramesSame, TasksSame, StillPassive
<1>3. ASSUME NEW p \in Peers, ReaderStep(p)
      PROVE  Passive(c)
  <2>1. CASE ReaderAck(p)
    <3>1. reader[p].chan \in Channels
      BY DEF TypeOK, WorkersTypeOK, Loops
    <3>2. FramesFewer(c)
      BY <2>1, <3>1, WriteFewer DEF ReaderAck
    <3> QED
      BY <1>1, <2>1, <3>2, TasksSame, StillPassive DEF ReaderAck
  <2> QED
    BY <1>2, <1>3, <2>1 DEF ReaderStep, ReaderFetch, ReaderRead, ReaderFail, channelVars
<1>4. ASSUME NEW p \in Peers, KeeperStep(p)
      PROVE  Passive(c)
  <2>1. CASE KeeperWrite(p)
    <3>1. keeper[p].chan \in Channels
      BY DEF TypeOK, WorkersTypeOK, Loops
    <3>2. FramesFewer(c)
      BY <2>1, <3>1, WriteFewer DEF KeeperWrite
    <3> QED
      BY <1>1, <2>1, <3>2, TasksSame, StillPassive DEF KeeperWrite
  <2> QED
    BY <1>2, <1>4, <2>1 DEF KeeperStep, KeeperFetch, channelVars
<1>5. ASSUME NEW p \in Peers, WriterStep(p)
      PROVE  Passive(c)
  <2>1. CASE WriterWrite(p)
    <3>1. writer[p].chan \in Channels
      BY DEF TypeOK, WorkersTypeOK, Loops
    <3>2. FramesFewer(c)
      BY <2>1, <3>1, WriteFewer DEF WriterWrite
    <3> QED
      BY <1>1, <2>1, <3>2, TasksSame, StillPassive DEF WriterWrite
  <2> QED
    BY <1>2, <1>5, <2>1 DEF WriterStep, WriterFetch, channelVars
<1>6. ASSUME NEW p \in Peers, RemoveEndpoint(p)
      PROVE  Passive(c)
  <2>1. TasksFewer(c)
    <3>1. tasks' = [tasks EXCEPT ![p] = Post(p, "OVER", conn[p].active)]
      BY <1>6 DEF RemoveEndpoint
    <3>2. "OVER" # "INCOMING" /\ "OVER" # "PATH"
      OBVIOUS
    <3> QED
      BY <3>1, <3>2, PostFewer, Zenon
  <2>2. CASE UNCHANGED net
    <3>1. FramesFewer(c) /\ UNCHANGED link
      BY <1>6, <2>2, FramesSame DEF RemoveEndpoint
    <3> QED
      BY <1>1, <2>1, <3>1, StillPassive
  <2>3. CASE conn[p].em = "closing"
             /\ (Written(p, conn[p].active, "DISC", 0) \/ WriteFailed(p, conn[p].active))
    <3>1. conn[p].active \in Channels
      BY <2>3, SidesTyped DEF Connections
    <3>2. FramesFewer(c)
      BY <2>3, <3>1, WriteFewer
    <3> QED
      BY <1>1, <1>6, <2>1, <3>2, StillPassive DEF RemoveEndpoint
  <2> QED
    BY <1>6, <2>2, <2>3 DEF RemoveEndpoint, channelVars
<1>7. ASSUME NEW p \in Peers,
             \/ BeginRemoval(p) \/ Disconnected(p) \/ OnConnectionAccepted(p)
             \/ KeeperTimeout(p) \/ Leave(p)
      PROVE  Passive(c)
  BY <1>2, <1>7
  DEF BeginRemoval, Disconnected, OnConnectionAccepted, KeeperTimeout, Leave, channelVars
<1>8. ASSUME NEW d \in Channels, BreakLink(d)
      PROVE  Passive(c)
  <2>1. link' = [link EXCEPT ![d].broken = TRUE] /\ UNCHANGED <<net, tasks>>
    BY <1>8 DEF BreakLink, Break, channelVars
  <2>2. link'[c].dialled = link[c].dialled
    BY <2>1 DEF TypeOK, ChannelsTypeOK, Links
  <2> QED
    BY <1>1, <2>1, <2>2, FramesSame, TasksSame, StillPassive
<1> QED
  BY <1>3, <1>4, <1>5, <1>6, <1>7, <1>8 DEF WorkersNext

\* A step of p's thread.
LEMMA ThreadPassive ==
  ASSUME TypeOK, NEW p \in Peers, NEW c, ThreadStep(p), TasksFewer(c), FramesFewer(c),
         bwu'[p].pc \in {"ack", "replace"} /\ bwu'[p].chan = c => Switching(p, c),
         p = Advertiser /\ bwu'[p].pc = "path" => bwu'[p].chan # c,
         opened' >= opened, link'[c].dialled => link[c].dialled
  PROVE  Passive(c)
<1>1. \A r \in Peers \ {p} : bwu'[r] = bwu[r]
  BY ThreadApart DEF Apart
<1> QED
  BY <1>1, StaysAway DEF Passive

\* Asking for an upgrade of another channel, failing one, and shutting a channel down.
LEMMA AskingPassive ==
  ASSUME TypeOK, NEW p \in Peers, NEW c \in Channels, ThreadStep(p),
         \/ InitiateUpgrade(p) /\ (p = Discoverer \/ c # opened + 1 \/ opened' = opened)
         \/ ProcessUpgradeFailure(p) \/ RetryUpgrade(p) \/ DropFrame(p)
         \/ ProcessLast(p) \/ ProcessSafe(p) \/ ResumeUpgraded(p) \/ EndpointDisconnected(p)
  PROVE  Passive(c)
<1>1. UNCHANGED net
  BY DEF InitiateUpgrade, ProcessUpgradeFailure, RetryUpgrade, DropFrame, ProcessLast,
         ProcessSafe, ResumeUpgraded, EndpointDisconnected, channelVars
<1>2. FramesFewer(c)
  BY <1>1, FramesSame
<1>3. TasksFewer(c)
  <2>1. ASSUME NEW kind, Task(p, kind), TakeTask(p)
        PROVE  TasksFewer(c)
    BY <2>1, TakeTaskFewer
  <2>2. ASSUME AddsInit(p, Tail(tasks[p])), tasks[p] # << >>
        PROVE  TasksFewer(c)
    BY <2>2, AddsInitFewer
  <2>3. CASE InitiateUpgrade(p)
    <3> DEFINE started == [[mgr[p] EXCEPT !.medium = Arg(p)] EXCEPT !.retry = FALSE]
    <3>1. Task(p, "INIT") /\ tasks[p] # << >>
      BY <2>3 DEF InitiateUpgrade, Task
    <3>2. started \in Managers
      <4>1. Task(p, "INIT")
        BY <3>1
      <4>2. Arg(p) \in Mediums \cup {None} /\ mgr[p] \in Managers
        BY <4>1, TaskTyped, SidesTyped
      <4> QED
        BY <4>2 DEF Managers
    <3>3. CASE UpgradeFailure(p, started, Arg(p), Tail(tasks[p]))
      <4> HIDE DEF started
      <4> QED
        BY <2>2, <3>1, <3>2, <3>3, UpgradeFailureShape
    <3> QED
      BY <2>1, <2>3, <3>1, <3>3 DEF InitiateUpgrade
  <2>4. CASE ProcessUpgradeFailure(p)
    <3>1. tasks[p] # << >> /\ mgr[p] \in Managers
          /\ UpgradeFailure(p, mgr[p], link[Arg(p)].medium, Tail(tasks[p]))
      BY <2>4, SidesTyped DEF ProcessUpgradeFailure, Task
    <3> QED
      BY <2>2, <3>1, UpgradeFailureShape
  <2>5. CASE RetryUpgrade(p)
    <3>1. tasks[p] # << >> /\ mgr[p] \in Managers /\ Task(p, "RETRY")
      BY <2>5, SidesTyped DEF RetryUpgrade, Task
    <3>2. CASE TryNextBest(p, mgr[p], AllUpgradeMediums, Tail(tasks[p]))
      BY <2>2, <3>1, <3>2, TryNextBestShape
    <3> QED
      BY <2>1, <2>5, <3>1, <3>2 DEF RetryUpgrade
  <2>6. CASE UNCHANGED tasks
    BY <2>6, TasksSame
  <2> QED
    BY <2>1, <2>3, <2>4, <2>5, <2>6
    DEF DropFrame, ProcessLast, ProcessSafe, ResumeUpgraded, EndpointDisconnected
<1>4. /\ bwu'[p].pc \in {"ack", "replace"} /\ bwu'[p].chan = c => Switching(p, c)
      /\ p = Advertiser /\ bwu'[p].pc = "path" => bwu'[p].chan # c
      /\ opened' >= opened
  <2>1. CASE UNCHANGED bwu
    <3>1. Task(p, "INIT") \/ opened' = opened
      BY DEF InitiateUpgrade, ProcessUpgradeFailure, RetryUpgrade, DropFrame, ProcessLast,
         ProcessSafe, ResumeUpgraded, EndpointDisconnected
    <3> QED
      BY <2>1, OpenedTyped DEF Switching, Task, InitiateUpgrade, ProcessUpgradeFailure,
         RetryUpgrade, DropFrame, ProcessLast, ProcessSafe, ResumeUpgraded, EndpointDisconnected
  <2>2. CASE InitiateUpgrade(p) /\ ~UNCHANGED bwu
    <3>1. opened' = opened + 1 /\ At(p, "path", opened + 1, conn[p].active)
      BY <2>2 DEF InitiateUpgrade
    <3>2. bwu'[p] = [pc |-> "path", chan |-> opened + 1, old |-> conn[p].active]
      BY <3>1 DEF At, TypeOK
    <3> QED
      BY <2>2, <3>1, <3>2, OpenedTyped, PeersDistinct
      DEF ProcessUpgradeFailure, RetryUpgrade, DropFrame, ProcessLast, ProcessSafe, ResumeUpgraded,
          EndpointDisconnected, Task
  <2>3. CASE ProcessLast(p) \/ ProcessSafe(p) \/ ResumeUpgraded(p)
    <3>1. UNCHANGED bwu \/ bwu'[p].pc \in {"safe", "disconnect", "idle"}
      BY <2>3, AtOthers, IdleOthers DEF ProcessLast, ProcessSafe, ResumeUpgraded
    <3>2. UNCHANGED opened
      BY <2>3 DEF ProcessLast, ProcessSafe, ResumeUpgraded
    <3> QED
      BY <2>1, <3>1, <3>2, OpenedTyped
  <2> QED
    BY <2>1, <2>2, <2>3 DEF ProcessUpgradeFailure, RetryUpgrade, DropFrame, EndpointDisconnected
<1>5. link'[c].dialled => link[c].dialled
  <2>1. CASE UNCHANGED link
    BY <2>1
  <2>2. CASE InitiateUpgrade(p) /\ link' = [link EXCEPT ![opened + 1].medium = Arg(p)]
    BY <2>2 DEF TypeOK, ChannelsTypeOK, Links
  <2> QED
    BY <2>1, <2>2 DEF InitiateUpgrade, ProcessUpgradeFailure, RetryUpgrade, DropFrame, ProcessLast,
         ProcessSafe, ResumeUpgraded, EndpointDisconnected
<1> QED
  BY <1>2, <1>3, <1>4, <1>5, ThreadPassive

\* Frames of other kinds, written by the thread.
LEMMA AnswersPassive ==
  ASSUME TypeOK, NEW p \in Peers, NEW c \in Channels, ThreadStep(p),
         WriteFailure(p) \/ WriteLast(p) \/ WriteSafe(p) \/ WriteDisconnection(p)
  PROVE  Passive(c)
<1>1. /\ bwu[p].pc \in {"last", "disconnect"} => bwu[p].old \in Channels
      /\ bwu[p].pc = "safe" => mgr[p].previous \in Channels
      /\ conn[p].active = None \/ conn[p].active \in Channels
  <2>1. bwu[p].pc \in {"last", "disconnect"} => bwu[p].old \in Channels
    BY SidesTyped DEF Threads
  <2>2. bwu[p].pc = "safe" => mgr[p].previous # None
    BY DEF TypeOK
  <2>3. mgr[p].previous # None => mgr[p].previous \in Channels
    BY SidesTyped DEF Managers
  <2> QED
    BY <2>1, <2>2, <2>3, SidesTyped
<1>2. UNCHANGED <<tasks, opened, link>>
  BY DEF WriteFailure, WriteLast, WriteSafe, WriteDisconnection
<1>3. FramesFewer(c)
  <2>1. ASSUME NEW d \in Channels, NEW kind \in {"FAIL", "LAST", "SAFE", "DISC"}, NEW arg,
               Written(p, d, kind, arg) \/ WriteFailed(p, d)
        PROVE  FramesFewer(c)
    BY <2>1, WriteFewer
  <2>2. CASE UNCHANGED net
    BY <2>2, FramesSame
  <2>3. CASE WriteFailure(p)
    <3>1. \/ UNCHANGED net
          \/ conn[p].active # None /\ \/ Written(p, conn[p].active, "FAIL", bwu[p].chan)
                                      \/ WriteFailed(p, conn[p].active)
      BY <2>3 DEF WriteFailure, channelVars
    <3> QED
      BY <1>1, <2>1, <2>2, <3>1
  <2>4. CASE WriteLast(p)
    <3>1. bwu[p].pc = "last" /\ (Written(p, bwu[p].old, "LAST", 0) \/ WriteFailed(p, bwu[p].old))
      BY <2>4 DEF WriteLast
    <3> QED
      BY <1>1, <2>1, <3>1
  <2>5. CASE WriteSafe(p)
    <3>1. bwu[p].pc = "safe" /\ \/ Written(p, mgr[p].previous, "SAFE", 0)
                                \/ WriteFailed(p, mgr[p].previous)
      BY <2>5 DEF WriteSafe
    <3> QED
      BY <1>1, <2>1, <3>1
  <2>6. CASE WriteDisconnection(p)
    <3>1. bwu[p].pc = "disconnect"
          /\ (Written(p, bwu[p].old, "DISC", 0) \/ WriteFailed(p, bwu[p].old))
      BY <2>6 DEF WriteDisconnection
    <3> QED
      BY <1>1, <2>1, <3>1
  <2> QED
    BY <2>3, <2>4, <2>5, <2>6
<1>4. bwu'[p].pc \in {"idle", "safe", "drain"}
  BY AtOthers, IdleOthers DEF WriteFailure, WriteLast, AfterLast, WriteSafe, WriteDisconnection
<1> QED
  BY <1>2, <1>3, <1>4, TasksSame, OpenedTyped, ThreadPassive

\* Frames read by the thread, and the switch.
LEMMA SwitchPassive ==
  ASSUME TypeOK, NEW p \in Peers, NEW c \in Channels, ThreadStep(p),
         AwaitAck(p) \/ DrainPrior(p) \/ ReplaceChannel(p)
  PROVE  Passive(c)
<1>1. UNCHANGED <<tasks, opened, link>>
  BY DEF AwaitAck, DrainPrior, ReplaceChannel
<1>2. FramesFewer(c)
  <2>1. /\ bwu[p].pc = "ack" => bwu[p].chan \in Channels
        /\ bwu[p].pc = "drain" => bwu[p].old \in Channels
    BY SidesTyped DEF Threads
  <2>2. \/ UNCHANGED net
        \/ \E d \in Channels : CanRead(p, d) /\ net' = Popped(p, d)
    BY <2>1 DEF AwaitAck, DrainPrior, ReplaceChannel
  <2> QED
    BY <2>2, FramesSame, PoppedFewer
<1>3. bwu'[p].pc \in {"ack", "replace"} /\ bwu'[p].chan = c => Switching(p, c)
  <2>1. CASE AwaitAck(p)
    <3> PICK d : d = bwu[p].chan
      OBVIOUS
    <3>1. bwu[p].pc = "ack" /\ (At(p, "replace", d, None) \/ At(p, "fail", d, None))
      BY <2>1 DEF AwaitAck
    <3>2. bwu'[p].chan = d
      BY <3>1 DEF At, TypeOK
    <3> QED
      BY <3>1, <3>2 DEF Switching
  <2>2. CASE DrainPrior(p) \/ ReplaceChannel(p)
    <3>1. \/ At(p, "finish", None, None) \/ Idle(p)
          \/ At(p, "last", bwu[p].chan, conn[p].active)
      BY <2>2 DEF DrainPrior, ReplaceChannel
    <3> QED
      BY <3>1, AtOthers, IdleOthers
  <2> QED
    BY <2>1, <2>2
<1>4. bwu'[p].pc # "path"
  <2>1. \E pc \in {"replace", "fail", "finish", "idle", "last"} :
           \E d : \E old : At(p, pc, d, old)
    BY DEF AwaitAck, DrainPrior, ReplaceChannel, Idle
  <2> QED
    BY <2>1, AtOthers
<1> QED
  BY <1>1, <1>2, <1>3, <1>4, TasksSame, OpenedTyped, ThreadPassive

\* The write of an offer is about one channel.
LEMMA WritePathPassive ==
  ASSUME TypeOK, NEW p \in Peers, NEW c \in Channels, ThreadStep(p), WritePath(p),
         p # Advertiser \/ bwu[p].chan # c \/ WriteFailed(p, bwu[p].old)
  PROVE  Passive(c)
<1>1. /\ bwu[p].pc = "path" /\ Idle(p) /\ UNCHANGED <<opened, link>>
      /\ \/ Written(p, bwu[p].old, "PATH", bwu[p].chan) /\ UNCHANGED tasks
         \/ /\ WriteFailed(p, bwu[p].old)
            /\ UpgradeFailure(p, mgr[p], link[bwu[p].chan].medium, tasks[p])
  BY DEF WritePath
<1>2. bwu[p].old \in Channels
  BY <1>1, SidesTyped DEF Threads
<1>3. FramesFewer(c)
  <2>1. CASE WriteFailed(p, bwu[p].old)
    BY <2>1, FramesSame DEF WriteFailed, NotSent
  <2>2. CASE Written(p, bwu[p].old, "PATH", bwu[p].chan)
             /\ (p # Advertiser \/ bwu[p].chan # c)
    BY <1>2, <2>2, WriteFewer
  <2> QED
    BY <1>1, <2>1, <2>2
<1>4. TasksFewer(c)
  <2>1. CASE UNCHANGED tasks
    BY <2>1, TasksSame
  <2>2. CASE UpgradeFailure(p, mgr[p], link[bwu[p].chan].medium, tasks[p])
    <3>1. AddsInit(p, tasks[p])
      BY <2>2, SidesTyped, UpgradeFailureShape
    <3> QED
      BY <3>1, AddsInitFewer
  <2> QED
    BY <1>1, <2>1, <2>2
<1> QED
  BY <1>1, <1>3, <1>4, IdleOthers, OpenedTyped, ThreadPassive

\* So is joining a channel, ...
LEMMA ProcessPathPassive ==
  ASSUME TypeOK, NEW p \in Peers, NEW c \in Channels, ThreadStep(p), ProcessPath(p),
         Arg(p) # c \/ ~\E m : Join(p, Arg(p), m)
  PROVE  Passive(c)
<1> PICK d : d = Arg(p)
  OBVIOUS
<1>1. Task(p, "PATH") /\ UNCHANGED opened
  BY DEF ProcessPath
<1>2. d \in Channels /\ bwu[p].pc = "idle"
  BY <1>1, TaskTyped DEF Task
<1>3. TasksFewer(c)
  <2>1. TakeTask(p)
    BY DEF ProcessPath, Join, JoinFails, CloseAllChannels
  <2> QED
    BY <1>1, <2>1, TakeTaskFewer
<1>4. CASE UNCHANGED <<net, link, bwu>>
  <2>1. bwu'[p].pc = "idle"
    BY <1>2, <1>4
  <2> QED
    BY <1>1, <1>3, <1>4, <2>1, FramesSame, OpenedTyped, ThreadPassive
<1>5. CASE UNCHANGED <<net, link>> /\ At(p, "fail", d, None)
  BY <1>1, <1>3, <1>5, FramesSame, OpenedTyped, AtOthers, ThreadPassive
<1>6. ASSUME Sent(p, d, "INTRO", 0), link' = [link EXCEPT ![d].dialled = TRUE], d # c,
             At(p, "ack", d, None) \/ At(p, "replace", d, None)
      PROVE  Passive(c)
  <2>1. FramesFewer(c)
    <3>1. "INTRO" # "PATH"
      OBVIOUS
    <3> QED
      BY <1>2, <1>6, <3>1, SentFewer, Zenon
  <2>2. link'[c].dialled = link[c].dialled
    BY <1>6 DEF TypeOK, ChannelsTypeOK
  <2>3. bwu'[p].chan # c /\ bwu'[p].pc # "path"
    BY <1>6 DEF At, TypeOK
  <2> QED
    BY <1>1, <1>3, <2>1, <2>2, <2>3, OpenedTyped, ThreadPassive
<1>7. ASSUME NEW m, Join(p, Arg(p), m)
      PROVE  Passive(c)
  <2>1. /\ Sent(p, d, "INTRO", 0) /\ link' = [link EXCEPT ![d].dialled = TRUE]
        /\ At(p, "ack", d, None) \/ At(p, "replace", d, None)
    BY <1>7 DEF Join
  <2>2. d # c
    BY <1>7
  <2> QED
    BY <1>6, <2>1, <2>2
<1> QED
  BY <1>4, <1>5, <1>7 DEF ProcessPath, JoinFails, CloseAllChannels, channelVars

\* ... and taking the socket of one that was joined.
LEMMA IncomingPassive ==
  ASSUME TypeOK, NEW p \in Peers, NEW c \in Channels, ThreadStep(p), IncomingConnection(p)
  PROVE  /\ FramesFewer(c) /\ TasksFewer(c)
         /\ Arg(p) # c => Passive(c)
<1> PICK d, q : d = Arg(p) /\ q = Other(p)
  OBVIOUS
<1>1. /\ Task(p, "INCOMING") /\ TakeTask(p) /\ UNCHANGED <<opened, link>>
      /\ UNCHANGED bwu \/ At(p, "replace", d, None)
  BY DEF IncomingConnection
<1>2. d \in Channels /\ bwu[p].pc = "idle"
  BY <1>1, TaskTyped DEF Task
<1>3. TasksFewer(c)
  BY <1>1, TakeTaskFewer
<1>4. FramesFewer(c)
  <2>1. CASE UNCHANGED net
    BY <2>1, FramesSame
  <2>2. CASE /\ CanRead(p, d)
             /\ net' = [net EXCEPT ![q][d] = Tail(@), ![p][d] = @ \o IntroductionAnswer]
    <3>1. q # p /\ q \in Peers /\ net[q][d] # << >> /\ net[q][d] \in Seq(Frames)
          /\ net[p][d] \in Seq(Frames)
      BY <1>2, <2>2, SidesTyped DEF CanRead, Incoming
    <3>2. /\ net'[q][d] = Tail(net[q][d])
          /\ net'[p][d] = net[p][d] \o IntroductionAnswer
          /\ \A s \in Peers, e \in Channels : e # d => net'[s][e] = net[s][e]
      BY <1>2, <2>2, <3>1 DEF TypeOK, ChannelsTypeOK
    <3>3. Fewer(net'[q][d], net[q][d], "PATH", c)
      BY <3>1, <3>2, TailFewer
    <3>4. Fewer(net'[p][d], net[p][d], "PATH", c)
      <4> DEFINE f == [kind |-> "ACK", seq |-> 0, arg |-> 0]
      <4>1. f \in Frames /\ f.kind = "ACK"
        BY ConstantsTyped DEF Frames, FrameKinds
      <4>2. IntroductionAnswer = <<f>> \/ IntroductionAnswer = << >>
        BY DEF IntroductionAnswer
      <4> HIDE DEF f
      <4>3. net[p][d] \o <<f>> = Append(net[p][d], f) /\ net[p][d] \o << >> = net[p][d]
        BY <3>1, <4>1, AppendIsConcat
      <4>4. net'[p][d] = net[p][d] \/ net'[p][d] = Append(net[p][d], f)
        BY <3>2, <4>2, <4>3
      <4>5. Fewer(Append(net[p][d], f), net[p][d], "PATH", c)
        BY <3>1, <4>1, AppendFewer
      <4> QED
        BY <4>4, <4>5, SameFewer
    <3>5. ASSUME NEW e \in Channels
          PROVE  Fewer(net'[Advertiser][e], net[Advertiser][e], "PATH", c)
      <4>1. Advertiser \in Peers /\ (Advertiser = p \/ Advertiser = q)
        BY SidesTyped, ConstantsTyped
      <4> QED
        BY <3>2, <3>3, <3>4, <4>1, SameFewer
    <3> QED
      BY <3>5 DEF FramesFewer
  <2> QED
    BY <2>1, <2>2 DEF IncomingConnection
<1>5. ASSUME d # c
      PROVE  Passive(c)
  <2>1. CASE UNCHANGED bwu
    BY <1>1, <1>2, <1>3, <1>4, <2>1, OpenedTyped, ThreadPassive
  <2>2. CASE At(p, "replace", d, None)
    <3>1. bwu'[p].chan = d
      BY <2>2 DEF At, TypeOK
    <3> QED
      BY <1>1, <1>3, <1>4, <1>5, <3>1, OpenedTyped, ThreadPassive
  <2> QED
    BY <1>1, <2>1, <2>2
<1> QED
  BY <1>3, <1>4, <1>5

\* The other callers of BwuManager.
LEMMA CallersPassive ==
  ASSUME TypeOK, NEW c \in Channels
  PROVE  /\ \A p \in Peers : RequestUpgrade(p) \/ RetryAlarm(p) => Passive(c)
         /\ \A d \in Channels : Accept(d) /\ (d # c \/ UNCHANGED tasks) => Passive(c)
<1>1. ASSUME NEW p \in Peers, RequestUpgrade(p) \/ RetryAlarm(p)
      PROVE  Passive(c)
  <2>1. UNCHANGED <<net, link, bwu, opened>>
    BY <1>1 DEF RequestUpgrade, RetryAlarm, channelVars
  <2>2. TasksFewer(c)
    <3>1. \E kind \in {"INIT", "RETRY"} : \E arg :
             tasks' = [tasks EXCEPT ![p] = Post(p, kind, arg)]
      BY <1>1 DEF RequestUpgrade, RetryAlarm
    <3> QED
      BY <3>1, PostFewer
  <2> QED
    BY <2>1, <2>2, FramesSame, StillPassive
<1>2. ASSUME NEW d \in Channels, Accept(d), d # c \/ UNCHANGED tasks
      PROVE  Passive(c)
  <2>1. UNCHANGED <<net, bwu, opened>> /\ link' = [link EXCEPT ![d].dialled = FALSE]
    BY <1>2 DEF Accept
  <2>2. link'[c].dialled => link[c].dialled
    BY <2>1 DEF TypeOK, ChannelsTypeOK, Links
  <2>3. TasksFewer(c)
    <3>1. UNCHANGED tasks
          \/ tasks' = [tasks EXCEPT ![Advertiser] = Post(Advertiser, "INCOMING", d)]
      BY <1>2 DEF Accept
    <3>2. Advertiser \in Peers
      BY ConstantsTyped
    <3> QED
      BY <1>2, <3>1, <3>2, TasksSame, PostFewer
  <2>4. FramesFewer(c) /\ Stays(c)
    BY <2>1, FramesSame, StaysSame
  <2> QED
    BY <2>1, <2>2, <2>3, <2>4, OpenedTyped DEF Passive
<1> QED
  BY <1>1, <1>2

-----------------------------------------------------------------------------
(* A channel is prepared only by its registration *)

\* Close, Resume and DisableEncryption encrypt nothing.
LEMMA CloseCrypt ==
  ASSUME TypeOK, NEW p, NEW d, NEW r \in Peers, NEW c \in Channels,
         \/ UNCHANGED chan \/ chan' = Closed(p, d)
         \/ chan' = Unencrypted(p, d) \/ chan' = Resumed(p, d)
  PROVE  chan'[r][c].crypt => chan[r][c].crypt
<1>1. chan \in [Peers -> [Channels -> ChannelStates]] /\ chan[r][c] \in ChannelStates
  BY SidesTyped DEF TypeOK, ChannelsTypeOK
<1>2. \/ chan'[r][c] = chan[r][c]
      \/ chan'[r][c] = [chan[r][c] EXCEPT !.closed = TRUE, !.paused = FALSE]
      \/ chan'[r][c] = [chan[r][c] EXCEPT !.crypt = FALSE]
      \/ chan'[r][c] = [chan[r][c] EXCEPT !.paused = FALSE]
  <2>1. CASE chan' = Closed(p, d)
    BY <1>1, <2>1 DEF Closed
  <2>2. CASE chan' = Unencrypted(p, d)
    BY <1>1, <2>2 DEF Unencrypted
  <2>3. CASE chan' = Resumed(p, d)
    BY <1>1, <2>3 DEF Resumed
  <2> QED
    BY <2>1, <2>2, <2>3
<1> QED
  BY <1>1, <1>2 DEF ChannelStates

\* Only the registration of a channel encrypts it.
LEMMA NextCrypt ==
  ASSUME TypeOK, Next, NEW r \in Peers, NEW c \in Channels,
         ~(ReplaceChannel(r) /\ bwu[r].chan = c)
  PROVE  chan'[r][c].crypt => chan[r][c].crypt
<1>1. CASE UNCHANGED chan
  BY <1>1
<1>2. ASSUME NEW p \in Peers, ThreadStep(p)
      PROVE  chan'[r][c].crypt => chan[r][c].crypt
  <2>1. CASE r # p
    BY <1>2, <2>1, ThreadApart DEF Apart
  <2>2. CASE r = p /\ ReplaceChannel(p)
    <3>1. bwu[p].chan # c
      BY <2>2
    <3>2. chan' = Closed(p, bwu[p].chan) \/ chan' = Prepared(p, bwu[p].chan)
      BY <2>2 DEF ReplaceChannel
    <3>3. chan'[r][c] = chan[r][c]
      BY <2>2, <3>1, <3>2 DEF Closed, Prepared, TypeOK, ChannelsTypeOK
    <3> QED
      BY <3>3
  <2>3. CASE CloseAllChannels(p)
    <3>1. chan[r][c] \in ChannelStates
      BY SidesTyped
    <3>2. chan'[r][c] = chan[r][c]
          \/ chan'[r][c] = [chan[r][c] EXCEPT !.closed = TRUE, !.paused = FALSE]
      BY <2>3 DEF CloseAllChannels, TypeOK, ChannelsTypeOK
    <3> QED
      BY <3>1, <3>2 DEF ChannelStates
  <2>4. CASE ProcessPath(p)
    BY <1>1, <2>3, <2>4 DEF ProcessPath, Join, JoinFails, channelVars
  <2>5. CASE \/ AwaitAck(p) \/ IncomingConnection(p) \/ WriteSafe(p) \/ ProcessSafe(p)
             \/ DrainPrior(p) \/ ResumeUpgraded(p) \/ EndpointDisconnected(p) \/ WriteFailure(p)
    <3>1. \E d : UNCHANGED chan \/ chan' = Closed(p, d) \/ chan' = Unencrypted(p, d)
                 \/ chan' = Resumed(p, d)
      BY <2>5 DEF AwaitAck, IncomingConnection, WriteSafe, ProcessSafe, DrainPrior,
                  ResumeUpgraded, EndpointDisconnected, WriteFailure, channelVars
    <3> QED
      BY <3>1, CloseCrypt
  <2>6. CASE \/ InitiateUpgrade(p) \/ WritePath(p) \/ ProcessUpgradeFailure(p)
             \/ RetryUpgrade(p) \/ WriteLast(p) \/ DropFrame(p) \/ ProcessLast(p)
             \/ WriteDisconnection(p)
    <3>1. UNCHANGED chan \/ CloseAllChannels(p)
      BY <2>6 DEF InitiateUpgrade, WritePath, ProcessUpgradeFailure, RetryUpgrade, WriteLast,
         DropFrame, ProcessLast, WriteDisconnection, channelVars
    <3> QED
      BY <1>1, <2>3, <3>1
  <2> QED
    BY <1>2, <2>1, <2>2, <2>4, <2>5, <2>6 DEF ThreadStep
<1>3. ASSUME WorkersNext
      PROVE  chan'[r][c].crypt => chan[r][c].crypt
  <2>1. \/ UNCHANGED chan
        \/ \E p \in Peers : \E d : chan' = Closed(p, d) \/ chan' = Resumed(p, d)
    BY <1>3 DEF WorkersNext, ReaderStep, ReaderFetch, ReaderRead, ReaderFail, ReaderFrame,
       ReaderAck, Route, KeeperStep, KeeperFetch, KeeperWrite, WriterStep, WriterFetch,
       WriterWrite, BeginRemoval, RemoveEndpoint, Disconnected, OnConnectionAccepted,
       KeeperTimeout, Leave, BreakLink, Break, channelVars
  <2> QED
    BY <2>1, CloseCrypt
<1>4. ASSUME NEW d \in Channels, Accept(d)
      PROVE  chan'[r][c].crypt => chan[r][c].crypt
  BY <1>4, CloseCrypt DEF Accept
<1>5. ASSUME NEW p \in Peers, RequestUpgrade(p) \/ RetryAlarm(p)
      PROVE  chan'[r][c].crypt => chan[r][c].crypt
  BY <1>5 DEF RequestUpgrade, RetryAlarm, channelVars
<1> QED
  BY <1>2, <1>3, <1>4, <1>5 DEF Next

\* What was written on a channel not encrypted is not numbered.
LEMMA FreshKept ==
  ASSUME TypeOK, OffersInv, Next, NEW p \in Peers, NEW c \in Channels,
         ~(ReplaceChannel(p) /\ bwu[p].chan = c), Unprepared(p, c)
  PROVE  Unprepared(p, c)'
<1>1. ~chan[p][c].crypt /\ Numbers(net[p][c]) = {}
  BY DEF Unprepared
<1>2. ~chan'[p][c].crypt
  BY <1>1, NextCrypt
<1>3. Wrote(p)
  BY NextWrote
<1>4. Numbers(net'[p][c]) = {}
  <2>1. CASE \A d \in Channels : Shorter(net'[p][d], net[p][d])
    BY <1>1, <2>1 DEF Shorter
  <2>2. ASSUME NEW d \in Channels, Writable(p, d),
               \A e \in Channels \ {d} : net'[p][e] = net[p][e]
        PROVE  Numbers(net'[p][c]) = {}
    <3>1. c # d
      BY <1>1, <2>2 DEF Writable
    <3> QED
      BY <1>1, <2>2, <3>1
  <2> QED
    BY <1>3, <2>1, <2>2 DEF Wrote
<1> QED
  BY <1>2, <1>4 DEF Unprepared

\* A passive step that does not register the channel keeps what is known of it.
LEMMA PassiveKept ==
  ASSUME TypeOK, TypeOK', OffersInv, Next, NEW c \in Channels, Passive(c),
         \A p \in Peers : ~(ReplaceChannel(p) /\ bwu[p].chan = c)
  PROVE  OfferInv(c)'
<1>1. Fresh(c)
  BY FreshKept DEF Fresh
<1> QED
  BY <1>1, ElsewhereKept DEF Passive, Elsewhere, OffersInv

-----------------------------------------------------------------------------
(* The offer of one channel on its way *)

ArrivalsFewer(c) ==
  /\ Fewer(tasks'[Discoverer], tasks[Discoverer], "INCOMING", c)
  /\ Fewer(tasks'[Advertiser], tasks[Advertiser], "INCOMING", c)

\* Until it is joined, nobody touches the channel.
LEMMA OfferMoves ==
  ASSUME NEW c \in Channels, OfferInv(c), c > opened \/ Offered(c), ~(c > opened'),
         OfferedOnce(c)', ArrivalsFewer(c), Fresh(c), link'[c].dialled => link[c].dialled,
         \A p \in Peers : Switching(p, c)' => Switching(p, c)
  PROVE  OfferInv(c)'
<1>1. /\ ~Switching(Discoverer, c) /\ ~Arriving(c)
      /\ Unprepared(Discoverer, c) /\ Unprepared(Advertiser, c)
  BY DEF OfferInv, Untouched
<1>2. Unprepared(Discoverer, c)' /\ Unprepared(Advertiser, c)'
  BY <1>1, ConstantsTyped DEF Fresh
<1>3. ~Switching(Discoverer, c)' /\ ~Switching(Advertiser, c)'
  BY <1>1, ConstantsTyped DEF Arriving
<1>4. ~link'[c].dialled /\ ~Accepted(c)'
  BY <1>1 DEF Arriving, ArrivalsFewer, Fewer, Accepted
<1>5. ~Arriving(c)'
  BY <1>3, <1>4 DEF Arriving
<1>6. ArrivesOnce(c)'
  BY <1>4 DEF OfferInv, ArrivesOnce, ArrivalsFewer, Fewer
<1>7. Untouched(c)'
  BY <1>2, <1>3, <1>5 DEF Untouched
<1> QED
  BY <1>6, <1>7 DEF OfferInv

\* Once it is joined there is no offer of it any more.
LEMMA ArrivalMoves ==
  ASSUME NEW c \in Channels, ~(c > opened'), OfferedOnce(c)', ArrivesOnce(c)', ~Offered(c)',
         Switching(Discoverer, c)' => Unprepared(Discoverer, c)',
         Arriving(c)' => Unprepared(Advertiser, c)'
  PROVE  OfferInv(c)'
BY DEF OfferInv, Untouched

\* The offer begins: the channel is new.
LEMMA OfferBegins ==
  ASSUME TypeOK, OffersInv, Next, NEW c \in Channels, InitiateUpgrade(Advertiser),
         c = opened + 1, opened' # opened
  PROVE  OfferInv(c)'
<1>1. OfferInv(c)
  BY DEF OffersInv
<1>2. opened \in Nat
  BY OpenedTyped
<1>3. /\ Task(Advertiser, "INIT") /\ TakeTask(Advertiser)
      /\ opened' = opened + 1 /\ UNCHANGED <<net, chan>>
      /\ link' = [link EXCEPT ![c].medium = Arg(Advertiser)]
      /\ At(Advertiser, "path", c, conn[Advertiser].active)
  BY DEF InitiateUpgrade, channelVars
<1>4. TasksFewer(c) /\ FramesFewer(c)
  BY <1>3, TakeTaskFewer, FramesSame, ConstantsTyped
<1>5. c > opened /\ ~(c > opened')
  BY <1>2, <1>3
<1>6. ~PathSent(c) /\ ~PathGot(c)
  BY <1>1, <1>5 DEF OfferInv, Untouched, Offered
<1>7. ~PathSent(c)' /\ ~PathGot(c)'
  BY <1>4, <1>6 DEF TasksFewer, FramesFewer, Fewer, PathSent, PathGot
<1>8. OfferedOnce(c)'
  <2>1. \A d \in Channels : ~Has(net'[Advertiser][d], "PATH", c)
    BY <1>7 DEF PathSent
  <2>2. /\ \A d \in Channels : Once(net'[Advertiser][d], "PATH", c)
        /\ Once(tasks'[Discoverer], "PATH", c)
    BY <1>1, <1>4 DEF OfferInv, OfferedOnce, TasksFewer, FramesFewer, Fewer
  <2> QED
    BY <1>7, <2>1, <2>2 DEF OfferedOnce
<1>9. Fresh(c)
  BY <1>3 DEF Fresh, Unprepared
<1>10. link'[c].dialled = link[c].dialled
  BY <1>3 DEF TypeOK, ChannelsTypeOK, Links
<1>11. \A p \in Peers : Switching(p, c)' => Switching(p, c)
  BY <1>3, AtOthers, ConstantsTyped DEF Switching
<1>12. ArrivalsFewer(c)
  BY <1>4 DEF TasksFewer, ArrivalsFewer
<1> QED
  BY <1>1, <1>5, <1>8, <1>9, <1>10, <1>11, <1>12, OfferMoves

\* The offer is written.
LEMMA OfferSent ==
  ASSUME TypeOK, OffersInv, Next, NEW c \in Channels, WritePath(Advertiser),
         bwu[Advertiser].chan = c, ~WriteFailed(Advertiser, bwu[Advertiser].old)
  PROVE  OfferInv(c)'
<1> PICK o : o = bwu[Advertiser].old
  OBVIOUS
<1> DEFINE f == [kind |-> "PATH", seq |-> Stamp(Advertiser, o), arg |-> c]
<1>1. OfferInv(c)
  BY DEF OffersInv
<1>2. /\ bwu[Advertiser].pc = "path" /\ Idle(Advertiser)
      /\ UNCHANGED <<tasks, chan, opened, link>>
      /\ net' = [net EXCEPT ![Advertiser][o] = Append(@, f)]
  BY DEF WritePath, Written, Sent
<1>3. f.kind = "PATH" /\ f.arg = c
  OBVIOUS
<1> HIDE DEF f
<1>4. PathAt(c) /\ o \in Channels
  <2>1. bwu[Advertiser] \in Threads
    BY SidesTyped, ConstantsTyped
  <2> QED
    BY <1>2, <2>1 DEF PathAt, Threads
<1>5. ~PathSent(c) /\ ~PathGot(c) /\ ~(c > opened)
  BY <1>1, <1>4 DEF OfferInv, OfferedOnce, Untouched, Offered
<1>6. /\ net'[Advertiser][o] = Append(net[Advertiser][o], f)
      /\ \A d \in Channels \ {o} : net'[Advertiser][d] = net[Advertiser][d]
      /\ net[Advertiser][o] \in Seq(Frames)
  <2>1. Advertiser \in Peers /\ net \in [Peers -> [Channels -> Seq(Frames)]]
    BY ConstantsTyped DEF TypeOK, ChannelsTypeOK
  <2>2. net[Advertiser] \in [Channels -> Seq(Frames)]
    BY <2>1
  <2>3. net'[Advertiser] = [net[Advertiser] EXCEPT ![o] = Append(@, f)]
    BY <1>2, <2>1
  <2>4. net'[Advertiser][o] = Append(net[Advertiser][o], f)
    BY <1>4, <2>2, <2>3
  <2>5. \A d \in Channels \ {o} : net'[Advertiser][d] = net[Advertiser][d]
    BY <2>2, <2>3
  <2> QED
    BY <1>4, <2>2, <2>4, <2>5
<1>7. OfferedOnce(c)'
  <2>1. \A d \in Channels : ~Has(net[Advertiser][d], "PATH", c) /\ Once(net[Advertiser][d], "PATH", c)
    BY <1>1, <1>5 DEF OfferInv, OfferedOnce, PathSent
  <2>2. Once(net'[Advertiser][o], "PATH", c)
    BY <1>4, <1>6, <2>1, AppendFewer
  <2>3. \A d \in Channels : Has(net'[Advertiser][d], "PATH", c) => d = o
    BY <1>6, <2>1
  <2>4. ~PathAt(c)' /\ ~PathGot(c)'
    BY <1>2, <1>5, IdleOthers, ConstantsTyped DEF PathAt, PathGot
  <2>5. \A d \in Channels : Once(net'[Advertiser][d], "PATH", c)
    BY <1>6, <2>1, <2>2
  <2>6. Once(tasks'[Discoverer], "PATH", c)
    BY <1>1, <1>2 DEF OfferInv, OfferedOnce
  <2> QED
    BY <2>3, <2>4, <2>5, <2>6 DEF OfferedOnce
<1>8. Fresh(c)
  <2>1. \A p \in Peers : ~ReplaceChannel(p)
    <3>1. ~ReplaceChannel(Advertiser)
      BY <1>2 DEF ReplaceChannel
    <3>2. Advertiser \in Peers /\ bwu'[Advertiser].pc = "idle"
      BY <1>2, IdleOthers, ConstantsTyped
    <3>3. ASSUME ReplaceChannel(Discoverer)
          PROVE  FALSE
      <4>1. UNCHANGED net
        BY <3>3 DEF ReplaceChannel
      <4>2. ~PathSent(c)' /\ Has(net'[Advertiser][o], "PATH", c)
        BY <1>3, <1>4, <1>5, <1>6, <4>1, AppendFewer DEF PathSent
      <4> QED
        BY <1>4, <4>2 DEF PathSent
    <3> QED
      BY <3>1, <3>3 DEF Peers
  <2> QED
    BY <2>1, FreshKept DEF Fresh
<1>9. \A p \in Peers : Switching(p, c)' => Switching(p, c)
  BY <1>2, IdleOthers, ConstantsTyped DEF Switching
<1>10. ArrivalsFewer(c)
  BY <1>2, SameFewer DEF ArrivalsFewer
<1>11. link'[c].dialled => link[c].dialled
  BY <1>2
<1>12. Offered(c) /\ ~(c > opened')
  BY <1>2, <1>4, <1>5 DEF Offered
<1> QED
  BY <1>1, <1>7, <1>8, <1>9, <1>10, <1>11, <1>12, OfferMoves

\* The reader takes the offer and posts it to the Discoverer's thread.
LEMMA OfferRead ==
  ASSUME TypeOK, OffersInv, Next, NEW c \in Channels, ReaderFrame(Discoverer), ManagerUnchanged,
         HeadFor(Discoverer).kind = "PATH", HeadFor(Discoverer).arg = c, ~UNCHANGED tasks
  PROVE  OfferInv(c)'
<1> PICK d : d = reader[Discoverer].chan
  OBVIOUS
<1>1. OfferInv(c) /\ d \in Channels /\ Other(Discoverer) = Advertiser
  BY PeersDistinct, ConstantsTyped
  DEF OffersInv, Other, TypeOK, WorkersTypeOK, Loops
<1>2. /\ CanRead(Discoverer, d) /\ net' = Popped(Discoverer, d)
      /\ UNCHANGED <<link, bwu, opened>>
      /\ tasks' = [tasks EXCEPT ![Discoverer] = Post(Discoverer, "PATH", c)]
  BY DEF ReaderFrame, Route, HeadFor, ManagerUnchanged
<1>3. /\ net[Advertiser][d] # << >> /\ net[Advertiser][d] \in Seq(Frames)
      /\ Head(net[Advertiser][d]).kind = "PATH" /\ Head(net[Advertiser][d]).arg = c
  BY <1>1, <1>2, ConstantsTyped, SidesTyped DEF CanRead, Incoming, HeadFor
<1>4. /\ net'[Advertiser][d] = Tail(net[Advertiser][d])
      /\ \A e \in Channels \ {d} : net'[Advertiser][e] = net[Advertiser][e]
  BY <1>1, <1>2, ConstantsTyped DEF Popped, TypeOK, ChannelsTypeOK
<1>5. Has(net[Advertiser][d], "PATH", c)
  BY <1>3, TailFewer
<1>6. PathSent(c) /\ ~PathGot(c) /\ ~PathAt(c) /\ ~(c > opened)
  BY <1>1, <1>5 DEF PathSent, OfferInv, OfferedOnce, Untouched, Offered
<1>7. \A e \in Channels : /\ ~Has(net'[Advertiser][e], "PATH", c)
                          /\ Once(net'[Advertiser][e], "PATH", c)
  <2>1. \A e \in Channels : Once(net[Advertiser][e], "PATH", c)
    BY <1>1 DEF OfferInv, OfferedOnce
  <2>2. \A e \in Channels \ {d} : ~Has(net[Advertiser][e], "PATH", c)
    BY <1>1, <1>5 DEF OfferInv, OfferedOnce
  <2>3. ~Has(net'[Advertiser][d], "PATH", c) /\ Once(net'[Advertiser][d], "PATH", c)
    BY <1>1, <1>3, <1>4, <2>1, TailFewer DEF Fewer
  <2> QED
    BY <1>4, <2>1, <2>2, <2>3
<1> DEFINE t == [kind |-> "PATH", arg |-> c]
<1>8. /\ tasks'[Discoverer] = Append(tasks[Discoverer], t)
      /\ tasks'[Advertiser] = tasks[Advertiser]
      /\ t.kind = "PATH" /\ t.arg = c /\ tasks[Discoverer] \in Seq(Tasks)
  BY <1>2, ConstantsTyped, PeersDistinct DEF Post, TypeOK, WorkersTypeOK
<1> HIDE DEF t
<1>9. OfferedOnce(c)'
  <2>1. ~PathAt(c)' /\ ~PathSent(c)'
    BY <1>2, <1>6, <1>7 DEF PathAt, PathSent
  <2>2. Once(tasks[Discoverer], "PATH", c) /\ ~Has(tasks[Discoverer], "PATH", c)
    BY <1>1, <1>6 DEF OfferInv, OfferedOnce, PathGot
  <2>3. Once(tasks'[Discoverer], "PATH", c)
    BY <1>8, <2>2, AppendFewer
  <2> QED
    BY <1>7, <2>1, <2>3 DEF OfferedOnce
<1>10. ArrivalsFewer(c)
  <2>1. t.kind # "INCOMING"
    BY <1>8
  <2> QED
    BY <1>8, <2>1, SameFewer, AppendFewer DEF ArrivalsFewer
<1>11. \A p \in Peers : Switching(p, c)' => Switching(p, c)
  BY <1>2 DEF Switching
<1>12. Fresh(c)
  <2>1. \A p \in Peers : ~ReplaceChannel(p)
    BY DEF ReplaceChannel
  <2> QED
    BY <2>1, FreshKept DEF Fresh
<1>13. (link'[c].dialled => link[c].dialled) /\ Offered(c) /\ ~(c > opened')
  BY <1>2, <1>6 DEF Offered
<1> QED
  BY <1>1, <1>9, <1>10, <1>11, <1>12, <1>13, OfferMoves

\* The Discoverer joins: CLIENT_INTRODUCTION is not numbered.
LEMMA OfferJoined ==
  ASSUME TypeOK, OffersInv, Next, NEW c \in Channels, NEW m, ProcessPath(Discoverer),
         Join(Discoverer, c, m), c = Arg(Discoverer)
  PROVE  OfferInv(c)'
<1>1. OfferInv(c) /\ Discoverer \in Peers /\ Advertiser \in Peers
  BY ConstantsTyped DEF OffersInv
<1>2. /\ Task(Discoverer, "PATH") /\ TakeTask(Discoverer) /\ UNCHANGED <<opened, chan>>
      /\ Sent(Discoverer, c, "INTRO", 0) /\ link' = [link EXCEPT ![c].dialled = TRUE]
      /\ At(Discoverer, "ack", c, None) \/ At(Discoverer, "replace", c, None)
  BY DEF ProcessPath, Join
<1>3. /\ Head(tasks[Discoverer]).kind = "PATH" /\ Head(tasks[Discoverer]).arg = c
      /\ tasks[Discoverer] # << >> /\ tasks[Discoverer] \in Seq(Tasks)
      /\ tasks'[Discoverer] = Tail(tasks[Discoverer])
      /\ tasks'[Advertiser] = tasks[Advertiser]
  <2>1. tasks \in [Peers -> Seq(Tasks)]
    BY DEF TypeOK, WorkersTypeOK
  <2> QED
    BY <1>1, <1>2, <2>1, PeersDistinct DEF Task, TakeTask, Arg
<1>4. PathGot(c)
  BY <1>3, TailFewer DEF PathGot
<1>5. /\ ~PathAt(c) /\ ~PathSent(c) /\ ~(c > opened)
      /\ ~Switching(Discoverer, c) /\ ~Arriving(c)
      /\ Unprepared(Discoverer, c) /\ Unprepared(Advertiser, c)
  BY <1>1, <1>4 DEF OfferInv, OfferedOnce, Untouched, Offered
<1>6. net'[Advertiser] = net[Advertiser] /\ bwu'[Advertiser] = bwu[Advertiser]
  <2>1. net'[Advertiser] = net[Advertiser]
    BY <1>1, <1>2, PeersDistinct DEF Sent, TypeOK, ChannelsTypeOK
  <2> QED
    BY <1>1, <1>2, <2>1, AtOthers, PeersDistinct
<1>7. OfferedOnce(c)' /\ ~Offered(c)'
  <2>1. ~PathAt(c)'
    BY <1>5, <1>6 DEF PathAt
  <2>2. ~PathSent(c)'
    BY <1>5, <1>6 DEF PathSent
  <2>3. ~PathGot(c)' /\ Once(tasks'[Discoverer], "PATH", c)
    BY <1>1, <1>3, TailFewer DEF OfferInv, OfferedOnce, PathGot, Fewer
  <2>4. /\ \A d, e \in Channels : Has(net'[Advertiser][d], "PATH", c)
                                  /\ Has(net'[Advertiser][e], "PATH", c) => d = e
        /\ \A d \in Channels : Once(net'[Advertiser][d], "PATH", c)
    BY <1>1, <1>6 DEF OfferInv, OfferedOnce
  <2> QED
    BY <2>1, <2>2, <2>3, <2>4 DEF OfferedOnce, Offered
<1>8. ArrivesOnce(c)'
  <2>1. ~Accepted(c)' /\ ~Switching(Advertiser, c)'
    BY <1>3, <1>5, <1>6 DEF Arriving, Accepted, Switching
  <2>2. ~Has(tasks'[Discoverer], "INCOMING", c)
    BY <1>1, <1>3, TailFewer DEF OfferInv, ArrivesOnce, Fewer
  <2>3. Once(tasks'[Advertiser], "INCOMING", c)
    BY <1>1, <1>3 DEF OfferInv, ArrivesOnce
  <2> QED
    BY <2>1, <2>2, <2>3 DEF ArrivesOnce
<1>9. Unprepared(Discoverer, c)' /\ Unprepared(Advertiser, c)'
  <2>1. \A p \in Peers : ~ReplaceChannel(p)
    <3>1. tasks' # tasks
      <4>1. Len(Tail(tasks[Discoverer])) # Len(tasks[Discoverer])
        BY <1>3
      <4> QED
        BY <1>3, <4>1
    <3> QED
      BY <3>1 DEF ReplaceChannel
  <2> QED
    BY <1>1, <1>5, <2>1, FreshKept
<1> QED
  BY <1>2, <1>5, <1>7, <1>8, <1>9, ArrivalMoves

\* The accept loop hands the socket to the Advertiser's thread, ...
LEMMA OfferAccepted ==
  ASSUME TypeOK, OffersInv, Next, NEW c \in Channels, Accept(c), ~UNCHANGED tasks
  PROVE  OfferInv(c)'
<1>1. OfferInv(c) /\ Discoverer \in Peers /\ Advertiser \in Peers
  BY ConstantsTyped DEF OffersInv
<1>2. /\ link[c].dialled /\ link' = [link EXCEPT ![c].dialled = FALSE]
      /\ UNCHANGED <<net, bwu, opened>>
      /\ tasks' = [tasks EXCEPT ![Advertiser] = Post(Advertiser, "INCOMING", c)]
  BY DEF Accept
<1>3. ~link'[c].dialled
  BY <1>2 DEF TypeOK, ChannelsTypeOK, Links
<1>4. Arriving(c) /\ ~Accepted(c) /\ ~Switching(Advertiser, c)
      /\ ~Offered(c) /\ ~(c > opened)
      /\ Unprepared(Advertiser, c)
  BY <1>1, <1>2 DEF Arriving, OfferInv, ArrivesOnce, Untouched
<1> DEFINE t == [kind |-> "INCOMING", arg |-> c]
<1>5. /\ tasks'[Advertiser] = Append(tasks[Advertiser], t)
      /\ tasks'[Discoverer] = tasks[Discoverer]
      /\ t.kind = "INCOMING" /\ t.arg = c /\ tasks[Advertiser] \in Seq(Tasks)
  BY <1>1, <1>2, PeersDistinct DEF Post, TypeOK, WorkersTypeOK
<1> HIDE DEF t
<1>6. OfferedOnce(c)' /\ ~Offered(c)'
  BY <1>1, <1>2, <1>4, <1>5
  DEF OfferInv, OfferedOnce, Offered, PathAt, PathSent, PathGot
<1>7. ArrivesOnce(c)'
  <2>1. ~Switching(Advertiser, c)'
    BY <1>2, <1>4 DEF Switching
  <2>2. Once(tasks'[Advertiser], "INCOMING", c)
    BY <1>1, <1>4, <1>5, AppendFewer DEF OfferInv, ArrivesOnce, Accepted
  <2>3. ~Has(tasks'[Discoverer], "INCOMING", c)
    BY <1>1, <1>5 DEF OfferInv, ArrivesOnce
  <2> QED
    BY <1>3, <2>1, <2>2, <2>3 DEF ArrivesOnce
<1>8. \A p \in Peers : ~ReplaceChannel(p)
  BY DEF ReplaceChannel
<1>9. Unprepared(Advertiser, c)'
  BY <1>1, <1>4, <1>8, FreshKept
<1>10. Switching(Discoverer, c)' => Unprepared(Discoverer, c)'
  BY <1>1, <1>2, <1>8, FreshKept DEF OfferInv, Untouched, Switching
<1> QED
  BY <1>2, <1>4, <1>6, <1>7, <1>9, <1>10, ArrivalMoves

\* ... which takes it.
LEMMA OfferTaken ==
  ASSUME TypeOK, OffersInv, Next, NEW p \in Peers, NEW c \in Channels, ThreadStep(p),
         IncomingConnection(p), c = Arg(p)
  PROVE  OfferInv(c)'
<1>1. OfferInv(c) /\ Discoverer \in Peers /\ Advertiser \in Peers
  BY ConstantsTyped DEF OffersInv
<1>2. /\ Task(p, "INCOMING") /\ TakeTask(p) /\ UNCHANGED <<opened, link>>
      /\ UNCHANGED bwu \/ At(p, "replace", c, None)
  BY DEF IncomingConnection
<1>3. /\ Head(tasks[p]).kind = "INCOMING" /\ Head(tasks[p]).arg = c
      /\ tasks[p] # << >> /\ tasks[p] \in Seq(Tasks)
      /\ tasks'[p] = Tail(tasks[p]) /\ \A r \in Peers \ {p} : tasks'[r] = tasks[r]
  <2>1. tasks \in [Peers -> Seq(Tasks)]
    BY DEF TypeOK, WorkersTypeOK
  <2> QED
    BY <1>2, <2>1 DEF Task, TakeTask, Arg
<1>4. p = Advertiser /\ Accepted(c)
  <2>1. Has(tasks[p], "INCOMING", c)
    BY <1>3, TailFewer
  <2> QED
    BY <1>1, <2>1 DEF OfferInv, ArrivesOnce, Accepted, Peers
<1>5. /\ ~link[c].dialled /\ ~Switching(Advertiser, c) /\ Arriving(c)
      /\ ~Offered(c) /\ ~(c > opened) /\ Unprepared(Advertiser, c)
  BY <1>1, <1>4 DEF Arriving, OfferInv, ArrivesOnce, Untouched
<1>6. FramesFewer(c) /\ TasksFewer(c)
  BY IncomingPassive
<1>7. ~PathAt(c)' /\ bwu'[Discoverer] = bwu[Discoverer]
  <2>1. CASE UNCHANGED bwu
    BY <1>5, <2>1 DEF Offered, PathAt
  <2>2. CASE At(p, "replace", c, None)
    BY <1>1, <1>4, <2>2, AtOthers, PeersDistinct DEF PathAt
  <2> QED
    BY <1>2, <2>1, <2>2
<1>8. OfferedOnce(c)' /\ ~Offered(c)'
  <2>1. ~PathSent(c)' /\ ~PathGot(c)'
    BY <1>5, <1>6 DEF FramesFewer, TasksFewer, Fewer, Offered, PathSent, PathGot
  <2> QED
    BY <1>1, <1>6, <1>7, <2>1
    DEF OfferInv, OfferedOnce, Offered, FramesFewer, TasksFewer, Fewer, PathSent
<1>9. ArrivesOnce(c)'
  <2>1. ~Accepted(c)'
    <3>1. Once(tasks[p], "INCOMING", c)
      BY <1>1, <1>4 DEF OfferInv, ArrivesOnce
    <3>2. ~Has(Tail(tasks[p]), "INCOMING", c)
      BY <1>3, <3>1, TailFewer
    <3> QED
      BY <1>3, <1>4, <3>2 DEF Accepted
  <2>2. ~Has(tasks'[Discoverer], "INCOMING", c) /\ Once(tasks'[Advertiser], "INCOMING", c)
    BY <1>1, <1>6 DEF OfferInv, ArrivesOnce, TasksFewer, Fewer
  <2>3. ~link'[c].dialled
    BY <1>2, <1>5
  <2> QED
    BY <2>1, <2>2, <2>3 DEF ArrivesOnce
<1>10. \A r \in Peers : ~ReplaceChannel(r)
  <2>1. tasks' # tasks
    <3>1. Len(Tail(tasks[p])) # Len(tasks[p])
      BY <1>3
    <3> QED
      BY <1>3, <3>1
  <2> QED
    BY <2>1 DEF ReplaceChannel
<1>11. Unprepared(Advertiser, c)'
  BY <1>1, <1>5, <1>10, FreshKept
<1>12. Switching(Discoverer, c)' => Unprepared(Discoverer, c)'
  BY <1>1, <1>7, <1>10, FreshKept DEF OfferInv, Untouched, Switching
<1> QED
  BY <1>2, <1>5, <1>8, <1>9, <1>11, <1>12, ArrivalMoves

\* The channel is registered.
LEMMA OfferEnds ==
  ASSUME TypeOK, OffersInv, Next, NEW p \in Peers, NEW c \in Channels, ThreadStep(p),
         ReplaceChannel(p), bwu[p].chan = c
  PROVE  OfferInv(c)'
<1>1. OfferInv(c) /\ Discoverer \in Peers /\ Advertiser \in Peers
  BY ConstantsTyped DEF OffersInv
<1>2. bwu[p].pc = "replace" /\ UNCHANGED <<net, link, tasks, opened>>
  BY DEF ReplaceChannel
<1>3. bwu'[p].pc \in {"idle", "last"} /\ \A r \in Peers \ {p} : bwu'[r] = bwu[r]
  <2>1. Idle(p) \/ At(p, "last", bwu[p].chan, conn[p].active)
    BY DEF ReplaceChannel
  <2> QED
    BY <2>1, AtOthers, IdleOthers
<1>4. Switching(p, c) /\ ~Switching(p, c)'
  BY <1>2, <1>3 DEF Switching
<1>5. ~Offered(c) /\ ~(c > opened)
  BY <1>1, <1>4 DEF OfferInv, Untouched, Arriving, Peers
<1>6. OfferedOnce(c)' /\ ~Offered(c)'
  <2>1. ~PathAt(c)'
    BY <1>1, <1>3, <1>5 DEF Offered, PathAt
  <2> QED
    BY <1>1, <1>2, <1>5, <2>1 DEF OfferInv, OfferedOnce, Offered, PathSent, PathGot
<1>7. Switching(Advertiser, c)' => Switching(Advertiser, c) /\ p = Discoverer
  BY <1>1, <1>3, <1>4 DEF Switching, Peers
<1>8. ArrivesOnce(c)'
  BY <1>1, <1>2, <1>7 DEF OfferInv, ArrivesOnce, Accepted
<1>9. \A r \in Peers \ {p} : Unprepared(r, c) => Unprepared(r, c)'
  <2>1. \A r \in Peers \ {p} : chan'[r] = chan[r]
    BY ThreadApart DEF Apart
  <2> QED
    BY <1>2, <2>1 DEF Unprepared
<1>10. Switching(Discoverer, c)' => Unprepared(Discoverer, c)'
  BY <1>1, <1>3, <1>4, <1>9 DEF OfferInv, Untouched, Switching
<1>11. Arriving(c)' => Unprepared(Advertiser, c)'
  <2>1. CASE p = Advertiser
    BY <1>1, <1>2, <1>4, <2>1 DEF OfferInv, ArrivesOnce, Arriving, Accepted
  <2>2. CASE p = Discoverer
    BY <1>1, <1>2, <1>7, <1>9, <2>2, PeersDistinct DEF OfferInv, Untouched, Arriving, Accepted
  <2> QED
    BY <2>1, <2>2 DEF Peers
<1> QED
  BY <1>2, <1>5, <1>6, <1>8, <1>10, <1>11, ArrivalMoves

-----------------------------------------------------------------------------
(* The invariant *)

\* At first nothing is offered, nothing is in flight, and channel 0 is encrypted.
LEMMA InitWire ==
  ASSUME Init
  PROVE  WireInv
<1>1. ASSUME NEW c \in Channels
      PROVE  OfferInv(c)
  <2>1. /\ \A p \in Peers : bwu[p].pc = "idle" /\ tasks[p] = << >>
        /\ \A p \in Peers, d \in Channels : net[p][d] = << >>
        /\ ~link[c].dialled /\ opened = 0
        /\ \A p \in Peers : chan[p][c].crypt <=> c = 0
    BY DEF Init, ChannelsInit, WorkersInit
  <2>2. /\ \A p \in Peers : \A kind \in {"PATH", "INCOMING"} :
             ~Has(tasks[p], kind, c) /\ Once(tasks[p], kind, c)
        /\ \A p \in Peers, d \in Channels :
             ~Has(net[p][d], "PATH", c) /\ Once(net[p][d], "PATH", c)
    BY <2>1 DEF Has, Once
  <2>3. ~PathAt(c) /\ ~PathSent(c) /\ ~PathGot(c) /\ ~Accepted(c)
    BY <2>1, <2>2, ConstantsTyped DEF PathAt, PathSent, PathGot, Accepted
  <2>4. ~Switching(Advertiser, c) /\ ~Switching(Discoverer, c)
    BY <2>1, ConstantsTyped DEF Switching
  <2>5. ~Arriving(c) /\ ~Offered(c)
    BY <2>1, <2>3, <2>4 DEF Arriving, Offered
  <2>6. c > opened => \A p \in Peers : Unprepared(p, c)
    BY <2>1 DEF Unprepared, Numbers
  <2>7. Untouched(c)
    BY <2>4, <2>5, <2>6, ConstantsTyped DEF Untouched
  <2>8. OfferedOnce(c)
    BY <2>2, <2>3, ConstantsTyped DEF OfferedOnce
  <2>9. ArrivesOnce(c)
    BY <2>1, <2>2, <2>3, ConstantsTyped DEF ArrivesOnce
  <2> QED
    BY <2>7, <2>8, <2>9 DEF OfferInv
<1>2. ASSUME NEW p \in Peers
      PROVE  DeviceInv(p)
  <2>1. /\ bwu[p].pc = "idle" /\ mgr[p].previous = None /\ conn[p].active = 0
        /\ \A c \in Channels : net[p][c] = << >> /\ (chan[p][c].crypt <=> c = 0)
    BY ConstantsTyped DEF Init, ChannelsInit, WorkersInit
  <2>2. \A c \in Channels : Numbers(net[p][c]) = {} /\ Increasing(net[p][c])
    BY <2>1 DEF Numbers, Increasing
  <2>3. \A c \in Channels : Writable(p, c) => c = 0
    BY <2>1 DEF Writable
  <2>4. Counted(p)
    BY <2>2 DEF Counted
  <2>5. Ordered(p)
    BY <2>1, <2>2, ConstantsTyped DEF Ordered, Before
  <2>6. OneWritable(p)
    BY <2>2, <2>3 DEF OneWritable, Before
  <2>7. NewHalted(p)
    BY <2>1, <2>3 DEF NewHalted
  <2>8. ThreadKnows(p)
    BY <2>1 DEF ThreadKnows, Stopping
  <2> QED
    BY <2>4, <2>5, <2>6, <2>7, <2>8 DEF DeviceInv
<1> QED
  BY <1>1, <1>2 DEF WireInv, OffersInv

\* No step brings a second offer of a channel.
LEMMA NextOffers ==
  ASSUME TypeOK, TypeOK', OffersInv, Next
  PROVE  OffersInv'
<1> SUFFICES ASSUME NEW c \in Channels
             PROVE  OfferInv(c)'
  BY DEF OffersInv
<1>1. Advertiser \in Peers /\ Discoverer \in Peers /\ \A p \in Peers : p # Advertiser => p = Discoverer
  BY ConstantsTyped DEF Peers
<1>2. CASE Passive(c) /\ \A p \in Peers : ~(ReplaceChannel(p) /\ bwu[p].chan = c)
  BY <1>2, PassiveKept
<1>3. CASE \E p \in Peers : ThreadStep(p) /\ ReplaceChannel(p) /\ bwu[p].chan = c
  BY <1>3, OfferEnds
<1>4. ASSUME NEW p \in Peers, ReplaceChannel(p)
      PROVE  ThreadStep(p)
  BY <1>4 DEF ThreadStep
<1>5. CASE Passive(c)
  BY <1>2, <1>3, <1>4, <1>5
<1>6. ASSUME NEW p \in Peers, ThreadStep(p)
      PROVE  OfferInv(c)'
  <2>1. CASE InitiateUpgrade(p)
    <3>1. CASE p = Advertiser /\ c = opened + 1 /\ opened' # opened
      BY <2>1, <3>1, OfferBegins
    <3>2. CASE p = Discoverer \/ c # opened + 1 \/ opened' = opened
      BY <1>5, <1>6, <2>1, <3>2, AskingPassive
    <3> QED
      BY <1>1, <3>1, <3>2
  <2>2. CASE WritePath(p)
    <3>1. CASE p = Advertiser /\ bwu[p].chan = c /\ ~WriteFailed(p, bwu[p].old)
      BY <2>2, <3>1, OfferSent
    <3>2. CASE p # Advertiser \/ bwu[p].chan # c \/ WriteFailed(p, bwu[p].old)
      BY <1>5, <1>6, <2>2, <3>2, WritePathPassive
    <3> QED
      BY <3>1, <3>2
  <2>3. CASE ProcessPath(p)
    <3>1. ASSUME NEW m, Join(p, Arg(p), m), Arg(p) = c
          PROVE  OfferInv(c)'
      <4>1. CASE p = Discoverer
        BY <2>3, <3>1, <4>1, OfferJoined
      <4>2. CASE p = Advertiser
        <5>1. bwu'[p].pc \in {"ack", "replace"}
          BY <3>1, AtOthers DEF Join
        <5>2. p # Discoverer
          BY <4>2, PeersDistinct
        <5>3. bwu[p].pc = "idle" /\ (UNCHANGED bwu \/ At(p, "fail", Arg(p), None))
          BY <2>3, <5>2 DEF ProcessPath, Task
        <5>4. bwu'[p].pc \in {"idle", "fail"}
          BY <5>3, AtOthers
        <5> QED
          BY <5>1, <5>4
      <4> QED
        BY <1>1, <4>1, <4>2
    <3>2. CASE Arg(p) # c \/ ~\E m : Join(p, Arg(p), m)
      BY <1>5, <1>6, <2>3, <3>2, ProcessPathPassive
    <3> QED
      BY <3>1, <3>2
  <2>4. CASE IncomingConnection(p)
    <3>1. CASE Arg(p) = c
      BY <1>6, <2>4, <3>1, OfferTaken
    <3>2. CASE Arg(p) # c
      BY <1>5, <1>6, <2>4, <3>2, IncomingPassive
    <3> QED
      BY <3>1, <3>2
  <2>5. CASE \/ ProcessUpgradeFailure(p) \/ RetryUpgrade(p) \/ DropFrame(p)
             \/ ProcessLast(p) \/ ProcessSafe(p) \/ ResumeUpgraded(p) \/ EndpointDisconnected(p)
    BY <1>5, <1>6, <2>5, AskingPassive
  <2>6. CASE WriteFailure(p) \/ WriteLast(p) \/ WriteSafe(p) \/ WriteDisconnection(p)
    BY <1>5, <1>6, <2>6, AnswersPassive
  <2>7. CASE AwaitAck(p) \/ DrainPrior(p) \/ ReplaceChannel(p)
    BY <1>5, <1>6, <2>7, SwitchPassive
  <2> QED
    BY <1>6, <2>1, <2>2, <2>3, <2>4, <2>5, <2>6, <2>7 DEF ThreadStep
<1>7. ASSUME NEW p \in Peers, RequestUpgrade(p) \/ RetryAlarm(p)
      PROVE  OfferInv(c)'
  BY <1>5, <1>7, CallersPassive
<1>8. ASSUME NEW d \in Channels, Accept(d)
      PROVE  OfferInv(c)'
  <2>1. CASE d # c \/ UNCHANGED tasks
    BY <1>5, <1>8, <2>1, CallersPassive
  <2>2. CASE d = c /\ ~UNCHANGED tasks
    BY <1>8, <2>2, OfferAccepted
  <2> QED
    BY <2>1, <2>2
<1>9. ASSUME WorkersNext, ManagerUnchanged
      PROVE  OfferInv(c)'
  <2>1. ASSUME NEW p \in Peers, ReaderFrame(p)
        PROVE  OfferInv(c)'
    <3>1. CASE \/ UNCHANGED tasks
               \/ p = Advertiser \/ HeadFor(p).kind # "PATH" \/ HeadFor(p).arg # c
      BY <1>5, <1>9, <2>1, <3>1, ReaderFramePassive
    <3>2. CASE /\ p = Discoverer /\ HeadFor(p).kind = "PATH" /\ HeadFor(p).arg = c
               /\ ~UNCHANGED tasks
      BY <1>9, <2>1, <3>2, OfferRead
    <3> QED
      BY <1>1, <3>1, <3>2
  <2>2. CASE \A p \in Peers : ~ReaderFrame(p)
    BY <1>5, <1>9, <2>2, WorkersPassive
  <2> QED
    BY <2>1, <2>2
<1> QED
  BY <1>6, <1>7, <1>8, <1>9 DEF Next, ManagerUnchanged

\* Stuttering keeps everything.
LEMMA StutterWire ==
  ASSUME WireInv, UNCHANGED vars
  PROVE  WireInv'
<1>1. UNCHANGED <<chan, net, seq, link, conn, tasks, mgr, bwu, opened>>
  BY DEF vars, channelVars
<1>2. ASSUME NEW c \in Channels
      PROVE  OfferInv(c)'
  <2>1. OfferedOnce(c) /\ ArrivesOnce(c) /\ Untouched(c)
    BY DEF WireInv, OffersInv, OfferInv
  <2>2. OfferedOnce(c)'
    BY <1>1, <2>1 DEF OfferedOnce, PathAt, PathSent, PathGot
  <2>3. ArrivesOnce(c)'
    BY <1>1, <2>1 DEF ArrivesOnce, Accepted, Switching
  <2>4. Untouched(c)'
    BY <1>1, <2>1 DEF Untouched, Offered, PathAt, PathSent, PathGot, Switching, Accepted,
       Arriving, Unprepared
  <2> QED
    BY <2>2, <2>3, <2>4 DEF OfferInv
<1>3. ASSUME NEW p \in Peers
      PROVE  DeviceInv(p)'
  <2>0. DeviceInv(p)
    BY DEF WireInv
  <2>1. Counted(p) => Counted(p)'
    BY <1>1 DEF Counted
  <2>2. Registered(p)' => Registered(p)
    BY <1>1 DEF Registered
  <2>3. Ordered(p) => Ordered(p)'
    BY <1>1 DEF Ordered
  <2>4. OneWritable(p) => OneWritable(p)'
    BY <1>1 DEF OneWritable, Writable
  <2>5. NewHalted(p) => NewHalted(p)'
    BY <1>1 DEF NewHalted, Writable, Halted
  <2>6. ThreadKnows(p) => ThreadKnows(p)'
    BY <1>1 DEF ThreadKnows, Writable, Halted, Stopped
  <2> QED
    BY <2>0, <2>1, <2>2, <2>3, <2>4, <2>5, <2>6 DEF DeviceInv
<1> QED
  BY <1>2, <1>3 DEF WireInv, OffersInv

\* While the endpoint is registered, the encrypted frames in flight from a device
\* are numbered in the order in which the peer can take them, one channel after the
\* other, whatever upgrades were attempted: RunUpgradeProtocol pauses the new
\* channel before it registers it (bwu_manager.cc:757), and it is resumed only when
\* the prior channel has been shut down.
THEOREM UpgradedAfterPrior == Spec => []WireOrder
<1>1. Init => WireInv
  BY InitWire
<1>2. TypeOK /\ TypeOK' /\ WireInv /\ [Next]_vars => WireInv'
  <2> SUFFICES ASSUME TypeOK, TypeOK', WireInv, [Next]_vars
               PROVE  WireInv'
    OBVIOUS
  <2>1. CASE Next
    <3>1. OffersInv'
      BY <2>1, NextOffers DEF WireInv
    <3>2. \A p \in Peers : DeviceInv(p)'
      BY <2>1, NextDevice DEF WireInv
    <3> QED
      BY <3>1, <3>2 DEF WireInv
  <2>2. CASE UNCHANGED vars
    BY <2>2, StutterWire
  <2> QED
    BY <2>1, <2>2
<1>3. WireInv => WireOrder
  BY DEF WireInv, DeviceInv, Ordered, WireOrder
<1>4. Spec => []TypeOK
  BY TypeCorrect
<1> QED
  BY <1>1, <1>2, <1>3, <1>4, PTL DEF Spec

=============================================================================
