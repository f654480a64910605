--------------------------- MODULE HandoverProofs ---------------------------
(***************************************************************************)
(* BandwidthUpgrade: what the shutdown of the prior channel promises.  The *)
(* steps from the registration of the upgraded channel to its resumption   *)
(* keep Handover; from that, readers can decode what they read, the        *)
(* devices settle on one channel, no payload frame is lost, and they come  *)
(* in order.                                                               *)
(***************************************************************************)
EXTENDS HandoverInvariant, UpgradeStream

-----------------------------------------------------------------------------
(* The BwuManager thread: from one stage to the next *)

\* A device that goes on numbering the same channel finds its queues in order, if it
\* neither reads nor writes.
LEMMA WireSame ==
  ASSUME TypeOK, Handover, Fine, NEW r \in Peers, UNCHANGED <<net, seq>>,
         Cur(r)' = Cur(r), hist'[r].safe = hist[r].safe,
         \A x \in Channels : Mute(r, x)' => Mute(r, x)
  PROVE  WireFine(r)'
<1>1. NumberInv(r) /\ Cur(r) \in Channels /\ \A x \in Channels : QueueInv(r, x)
  BY Standing DEF Handover
<1>2. NumberInv(r)'
  BY <1>1, NumberSame
<1>3. \A x \in Channels : QueueInv(r, x)'
  BY <1>1, QueueKept
<1> QED
  BY <1>2, <1>3 DEF WireFine

\* So does the other device, which the step does not move.
LEMMA WireOther ==
  ASSUME TypeOK, Handover, Fine, NEW r \in Peers, UNCHANGED <<net, seq>>,
         SameView(r), StillClosed(r)
  PROVE  WireFine(r)'
<1>1. Cur(r)' = Cur(r) /\ hist'[r].safe = hist[r].safe
  BY DEF SameView, Cur
<1>2. \A x \in Channels : Mute(r, x)' => Mute(r, x)
  BY MuteKept
<1> QED
  BY <1>1, <1>2, WireSame

\* Closing a channel stays harmless: only a channel both devices have done with is closed,
\* or told to be, and such a channel is not taken for a prior channel again.
LEMMA CloseMoves ==
  ASSUME TypeOK, Handover, NEW p \in Peers, NEW x \in Channels,
         Spent(p, x) => Spent(p, x)', Spent(Other(p), x) => Spent(Other(p), x)',
         chan'[p][x].closed => chan[p][x].closed \/ MayClose(p, x),
         HasKind(net'[p][x], "DISC") => HasKind(net[p][x], "DISC"),
         \A r \in Peers : mgr'[r].previous = x => mgr[r].previous = x \/ x \notin hist[r].safe,
         Stage(p)' = "ending" /\ Prior(p)' = x => Spent(Other(p), x)'
  PROVE  CloseInv(p, x)'
<1> DEFINE q == Other(p)
<1>1. q \in Peers /\ CloseInv(p, x) /\ QueueInv(p, x)
  BY Two DEF Handover
<1>2. /\ mgr'[p].previous = x => mgr[p].previous = x \/ x \notin hist[p].safe
      /\ mgr'[q].previous = x => mgr[q].previous = x \/ x \notin hist[q].safe
  BY <1>1
<1>3. HasKind(net[p][x], "DISC") => x \in hist[p].safe
  BY <1>1 DEF QueueInv
<1>4. /\ Spent(p, x) => Spent(p, x)' /\ x \in hist[p].safe
      /\ Spent(q, x) => Spent(q, x)' /\ x \in hist[q].safe
      /\ chan'[p][x].closed => chan[p][x].closed \/ MayClose(p, x)
      /\ HasKind(net'[p][x], "DISC") => HasKind(net[p][x], "DISC")
      /\ Stage(p)' = "ending" /\ Prior(p)' = x => Spent(q, x)'
  BY DEF Spent
<1>5. chan'[p][x].closed =>
        /\ Spent(p, x)' /\ Spent(q, x)'
        /\ Encrypts(x) => mgr'[p].previous # x /\ mgr'[q].previous # x
  BY <1>1, <1>2, <1>4 DEF CloseInv, MayClose
<1>6. HasKind(net'[p][x], "DISC") => Spent(q, x)' /\ mgr'[p].previous # x
  BY <1>1, <1>2, <1>3, <1>4 DEF CloseInv
<1> HIDE DEF q
<1> QED
  BY <1>4, <1>5, <1>6 DEF CloseInv, q

\* A step that only p sees of the connection's report to the client.
LEMMA ConnectedStage ==
  ASSUME TypeOK, Handover, NEW p \in Peers, ThreadStep(p),
         \A r \in Peers : conn'[r].connected = conn[r].connected,
         tasks'[Advertiser] = tasks[Advertiser] \/ \E kind \in {"LAST", "SAFE"} : KeepsTasks({kind}),
         opened' = opened, mgr'[p].retry = mgr[p].retry,
         p = Discoverer => /\ mgr'[p].inProgress => mgr[p].inProgress
                           /\ bwu'[p].pc \notin {"ack", "replace"}
  PROVE  ConnectedInv'
<1>1. ConnectedInv /\ InitiallyConnected \subseteq Peers
  BY WorkersTyped DEF Handover
<1>2. \A kind \in {"INIT", "RETRY"} :
        HasKind(tasks'[Advertiser], kind) => HasKind(tasks[Advertiser], kind)
  BY Two DEF KeepsTasks, Keeps
<1>3. \A r \in Peers : r # p => mgr'[r] = mgr[r] /\ bwu'[r] = bwu[r]
  BY ThreadApart DEF Apart
<1> QED
  BY <1>1, <1>2, <1>3, Two DEF ConnectedInv

\* Which channel is about to be registered, and where the peer stands.
LEMMA ReplaceState ==
  ASSUME TypeOK, WireInv, RoleInv, Handover, Fine, NEW p \in Peers, bwu[p].pc = "replace"
  PROVE  LET c == bwu[p].chan
         IN  /\ c \in Channels /\ FreshFor(p, c) /\ Stage(p) = "ease" /\ mgr[p].inProgress
             /\ c = opened /\ opened > 0 /\ Switching(p, c)
             /\ \/ Stage(Other(p)) = "ease"
                \/ Stage(Other(p)) \in Early /\ Act(Other(p)) = c
             /\ p = Advertiser => /\ ~link[c].dialled /\ ~Accepted(c) /\ ~Offered(c) /\ ~Failing(c)
                                  /\ Stage(Discoverer) = "ease" => Switching(Discoverer, c)
             /\ p = Discoverer /\ Stage(Advertiser) = "ease" => Arriving(c)
<1> DEFINE c == bwu[p].chan
           A == Advertiser
           D == Discoverer
<1>1. bwu[p] \in Threads /\ Stage(p) = "ease" /\ ProgressInv(p)
  BY Standing, SidesTyped DEF Handover
<1>2. c \in Channels /\ Switching(p, c) /\ mgr[p].inProgress
  BY <1>1 DEF Threads, Switching, ProgressInv
<1> HIDE DEF c
<1>3. FreshInv(c) /\ FlowInv(c) /\ JoinInv(c) /\ Untouched(c) /\ ArrivesOnce(c)
  BY <1>2 DEF Handover, WireInv, OffersInv, OfferInv
<1>4. CASE p = A
  <2>1. Arriving(c)
    BY <1>2, <1>4 DEF Arriving
  <2>2. c = opened /\ opened > 0 /\ FreshFor(A, c)
    BY <1>3, <2>1 DEF FlowInv, Underway, FreshInv
  <2>3. /\ ~link[c].dialled /\ ~Accepted(c) /\ ~Offered(c) /\ ~Failing(c)
        /\ \/ Stage(D) = "ease" /\ Switching(D, c)
           \/ Stage(D) \in Early /\ Act(D) = c
    BY <1>2, <1>3, <1>4, <2>1 DEF ArrivesOnce, Untouched, FlowInv, JoinInv
  <2> QED
    BY <1>1, <1>2, <1>4, <2>1, <2>2, <2>3, Two DEF c, Early
<1>5. CASE p = D
  <2>1. c = opened /\ opened > 0 /\ FreshFor(D, c)
    BY <1>2, <1>3, <1>5 DEF FlowInv, Underway, FreshInv
  <2>2. Arriving(c) \/ (Stage(A) \in Early /\ Act(A) = c)
    BY <1>2, <1>3, <1>5 DEF JoinInv
  <2>3. Arriving(c) => Stage(A) = "ease"
    BY <1>3 DEF FlowInv
  <2> QED
    BY <1>1, <1>2, <1>5, <2>1, <2>2, <2>3, Two DEF c, Early
<1> QED
  BY <1>4, <1>5, Two

\* The device that registers the new channel, afterwards.
LEMMA ReplaceDevice ==
  ASSUME Now, NEW p \in Peers, ReplaceChannel(p)
  PROVE  /\ Stage(p)' = "halting" /\ Act(p)' = bwu[p].chan /\ Prior(p)' = Act(p)
         /\ bwu'[p].pc = "last" /\ UNCHANGED <<net, seq, link, workerVars, tasks, hist, mgr, opened>>
         /\ \A r \in Peers : conn'[r].connected = conn[r].connected
         /\ \A r \in Peers, x \in Channels : chan'[r][x].closed = chan[r][x].closed
         /\ DeviceFine(p)' /\ WireFine(p)'
<1> DEFINE c == bwu[p].chan
           old == Act(p)
<1>1. /\ TypeOK /\ WireInv /\ RoleInv /\ Handover /\ Fine
      /\ bwu \in [Peers -> Threads] /\ conn \in [Peers -> Connections]
      /\ chan \in [Peers -> [Channels -> ChannelStates]]
  BY DEF Now, TypeOK, WorkersTypeOK, ChannelsTypeOK
<1>2. bwu[p].pc = "replace" /\ UNCHANGED <<net, seq, link, workerVars, tasks, hist, mgr, opened>>
  BY DEF ReplaceChannel
<1>3. /\ c \in Channels /\ FreshFor(p, c) /\ Stage(p) = "ease" /\ mgr[p].inProgress
      /\ c = opened /\ opened > 0
  BY <1>1, <1>2, ReplaceState
<1>4. old \in Channels /\ old # None /\ old # c /\ old \notin hist[p].safe /\ c \notin hist[p].safe
      /\ Prior(p) = None /\ mgr[p].previous = None
  BY <1>1, <1>3, Standing, NoneIsNoChannel DEF FreshFor
<1>5. /\ chan' = Prepared(p, c) /\ conn' = [conn EXCEPT ![p].active = c]
      /\ At(p, "last", c, old)
  BY <1>4 DEF ReplaceChannel, Act
<1> HIDE DEF c, old
<1>6. bwu'[p].pc = "last" /\ bwu'[p].old = old
  BY <1>1, <1>5 DEF At
<1>7. /\ chan'[p][c].paused /\ (chan'[p][c].crypt <=> EncryptUpgraded)
      /\ chan'[p][c].closed = chan[p][c].closed
      /\ \A x \in Channels : x # c => chan'[p][x] = chan[p][x]
      /\ \A r \in Peers : r # p => chan'[r] = chan[r]
  BY <1>1, <1>3, <1>5 DEF Prepared, ChannelStates
<1>8. conn'[p].active = c /\ \A r \in Peers : conn'[r].connected = conn[r].connected
  BY <1>1, <1>5 DEF Connections
<1>9. Stage(p)' = "halting" /\ Act(p)' = c /\ Prior(p)' = old
  BY <1>6, <1>8 DEF Stage, Act, Prior
<1>10. StageInv(p) /\ ProgressInv(p) /\ ChannelInv(p) /\ HoldsInv(p) /\ ~hist[p].desync
  BY <1>1 DEF Handover
<1>11. StageInv(p)'
  BY <1>2, <1>4, <1>6, <1>9, <1>10 DEF StageInv
<1>12. ProgressInv(p)'
  BY <1>2, <1>3, <1>9 DEF ProgressInv
<1>13. ChannelInv(p)'
  <2>1. ASSUME NEW x \in Channels
        PROVE  /\ chan'[p][x].paused <=> x = c
               /\ chan'[p][x].crypt <=> Encrypts(x) /\ (x = c \/ x = old)
               /\ x \in hist[p].safe => x # c /\ chan'[p][x].closed
    <3>1. /\ chan[p][x].paused <=> x = old /\ Stage(p) # "ease"
          /\ chan[p][x].crypt <=> Encrypts(x) /\ (x = old \/ x = None)
          /\ x \in hist[p].safe => x = None \/ chan[p][x].closed
      BY <1>3, <1>4, <1>10 DEF ChannelInv, old
    <3>2. x # None
      BY NoneIsNoChannel
    <3>3. CASE x = c
      <4>1. c # 0 => (Encrypts(c) <=> EncryptUpgraded)
        BY DEF Encrypts
      <4>2. c # 0
        BY <1>3
      <4> QED
        BY <1>4, <1>7, <3>3, <4>1, <4>2
    <3>4. CASE x # c
      BY <1>3, <1>7, <3>1, <3>2, <3>4
    <3> QED
      BY <3>3, <3>4
  <2> QED
    BY <1>2, <1>9, <2>1 DEF ChannelInv
<1>14. HoldsInv(p)'
  <2>1. ASSUME NEW loop, loop.pc \in {"idle", "read", "ack"} => loop.chan \in Channels,
               Holds(p, loop)
        PROVE  loop.pc \in {"idle", "read", "ack"} =>
                 loop.chan = Act(p)' \/ loop.chan = Prior(p)' \/ chan'[p][loop.chan].closed
    BY <1>4, <1>7, <1>9, <2>1, NoneIsNoChannel DEF Holds, old
  <2>2. reader[p].chan \in Channels /\ keeper[p].chan \in Channels /\ writer[p].chan \in Channels
    BY <1>1 DEF TypeOK, WorkersTypeOK, Loops
  <2> QED
    BY <1>2, <1>10, <2>1, <2>2 DEF HoldsInv, Holds, workerVars
<1>15. DeviceFine(p)'
  BY <1>2, <1>10, <1>11, <1>12, <1>13, <1>14 DEF DeviceFine
<1>16. WireFine(p)'
  <2>1. Cur(p)' = Cur(p)
    BY <1>3, <1>9 DEF Cur, old
  <2>2. ASSUME NEW x \in Channels
        PROVE  Mute(p, x)' => Mute(p, x)
    <3>1. chan'[p][x].closed = chan[p][x].closed
      BY <1>7
    <3> QED
      BY <1>4, <1>9, <3>1, NoneIsNoChannel DEF Mute, old
  <2> QED
    BY <1>1, <1>2, <2>1, <2>2, WireSame
<1> QED
  BY <1>2, <1>6, <1>7, <1>8, <1>9, <1>15, <1>16 DEF c, old

\* The prior channel is not shut down by registering the new one.
LEMMA ReplaceShut ==
  ASSUME Now, NEW p \in Peers, ReplaceChannel(p), NEW r \in Peers
  PROVE  ShutFine(r)'
<1> DEFINE q == Other(p)
<1>0. PICK c, old : c = bwu[p].chan /\ old = Act(p)
  OBVIOUS
<1>1. TypeOK /\ WireInv /\ RoleInv /\ Handover /\ Fine /\ ThreadStep(p)
  BY DEF Now, ThreadStep
<1>2. /\ Stage(p)' = "halting" /\ Act(p)' = c /\ Prior(p)' = old /\ bwu'[p].pc = "last"
      /\ UNCHANGED <<net, seq, link, workerVars, tasks, hist, mgr, opened>>
      /\ \A s \in Peers, x \in Channels : chan'[s][x].closed = chan[s][x].closed
  BY <1>0, ReplaceDevice
<1>3. bwu[p].pc = "replace"
  BY DEF ReplaceChannel
<1>4. /\ c \in Channels /\ Stage(p) = "ease" /\ mgr[p].inProgress
      /\ Stage(q) = "ease" \/ (Stage(q) \in Early /\ Act(q) = c)
  BY <1>0, <1>1, <1>3, ReplaceState
<1>5. q \in Peers /\ q # p /\ Other(q) = p
  BY Two
<1>6. SameView(q) /\ (LastDue(q)' <=> LastDue(q))
  BY <1>1, <1>2, <1>5, ThreadOther
<1>7. Stage(q)' = Stage(q) /\ Act(q)' = Act(q) /\ Prior(q)' = Prior(q)
  BY <1>6 DEF SameView
<1>8. PairInv(p) /\ PairInv(q) /\ LastInv(p) /\ LastInv(q) /\ SafeInv(p) /\ SafeInv(q)
  BY <1>1, <1>5 DEF Handover
<1>9. /\ LastSent(p)' = LastSent(p) /\ LastSent(q)' = LastSent(q)
      /\ LastGot(p)' = LastGot(p) /\ LastGot(q)' = LastGot(q)
      /\ SafeSent(p)' = SafeSent(p) /\ SafeSent(q)' = SafeSent(q)
      /\ SafeGot(p)' = SafeGot(p) /\ SafeGot(q)' = SafeGot(q)
  BY <1>2, <1>5 DEF LastSent, LastGot, SafeSent, SafeGot
<1>10. LastDue(p)' <=> LastDue(p)
  BY <1>2, <1>3 DEF LastDue
<1>11. PairInv(p)'
  <2>1. Behind(p) <=> Stage(q) \in Early
    BY <1>4, <1>5 DEF Behind
  <2>2. Behind(q)' <=> Stage(q) = "ease"
    BY <1>2, <1>5, <1>7 DEF Behind, Early
  <2>3. ~Behind(p)'
    BY <1>2 DEF Behind
  <2>4. Prior(q) # None => Stage(q) # "ease"
    BY <1>1, <1>5, Standing
  <2> QED
    BY <1>0, <1>2, <1>4, <1>5, <1>7, <1>8, <2>1, <2>2, <2>3, <2>4 DEF PairInv, Early
<1>12. PairInv(q)'
  <2>1. Behind(q)' <=> Stage(q) = "ease"
    BY <1>2, <1>5, <1>7 DEF Behind, Early
  <2>2. ~Behind(p)'
    BY <1>2 DEF Behind
  <2>3. /\ Stage(q) = "ease" => Act(p) = Act(q)
        /\ Stage(q) \in Early => Act(p) = Prior(q)
    BY <1>4, <1>5, <1>8 DEF PairInv, Behind, Early
  <2>4. Prior(q) # None => Stage(q) # "ease"
    BY <1>1, <1>5, Standing
  <2> QED
    BY <1>0, <1>2, <1>4, <1>5, <1>7, <2>1, <2>2, <2>3, <2>4 DEF PairInv, Early
<1>13. LastInv(p)'
  BY <1>2, <1>4, <1>5, <1>6, <1>7, <1>8, <1>9 DEF LastInv, LastSent
<1>14. LastInv(q)'
  BY <1>2, <1>4, <1>5, <1>7, <1>8, <1>9, <1>10 DEF LastInv
<1>15. SafeInv(p)'
  <2>1. Stage(q) # "agreed"
    BY <1>4 DEF Early
  <2>2. ~SafeSent(p) /\ ~SafeGot(q)
    BY <1>4, <1>5, <1>8, <2>1 DEF SafeInv
  <2> QED
    BY <1>2, <1>4, <1>5, <1>7, <1>9, <2>1, <2>2 DEF SafeInv, SafeSent
<1>16. SafeInv(q)'
  <2>1. ~SafeSent(q) /\ ~SafeGot(p)
    BY <1>4, <1>5, <1>8 DEF SafeInv
  <2> QED
    BY <1>2, <1>4, <1>5, <1>7, <1>9, <2>1 DEF SafeInv, SafeSent
<1>17. ASSUME NEW s \in Peers, NEW x \in Channels
       PROVE  CloseInv(s, x)'
  <2>1. \A t \in Peers : Spent(t, x) => Spent(t, x)'
    BY <1>2 DEF Spent
  <2>2. Other(s) \in Peers /\ (s = p \/ s = q) /\ CloseInv(s, x)
    BY <1>1, Two DEF Handover
  <2>3. Stage(s)' = "ending" /\ Prior(s)' = x => Stage(s) = "ending" /\ Prior(s) = x
    BY <1>2, <1>7, <2>2
  <2>4. Stage(s)' = "ending" /\ Prior(s)' = x => Spent(Other(s), x)'
    BY <2>1, <2>2, <2>3 DEF CloseInv
  <2> QED
    BY <1>1, <1>2, <2>1, <2>2, <2>4, CloseMoves
<1>18. ShutFine(p)' /\ ShutFine(q)'
  BY <1>5, <1>11, <1>12, <1>13, <1>14, <1>15, <1>16, <1>17 DEF ShutFine
<1> QED
  BY <1>18, Two

\* The offer ends where it is taken up: the channel it was about is registered, first
\* on one device and then on the other.
LEMMA ReplaceOffers ==
  ASSUME Now, NEW p \in Peers, ReplaceChannel(p)
  PROVE  OffersFine'
<1> DEFINE A == Advertiser
           D == Discoverer
           q == Other(p)
<1>0. PICK c, old : c = bwu[p].chan /\ old = Act(p)
  OBVIOUS
<1>1. TypeOK /\ WireInv /\ RoleInv /\ Handover /\ Fine /\ ThreadStep(p)
  BY DEF Now, ThreadStep
<1>2. /\ Stage(p)' = "halting" /\ Act(p)' = c /\ Prior(p)' = old /\ bwu'[p].pc = "last"
      /\ UNCHANGED <<net, seq, link, workerVars, tasks, hist, mgr, opened>>
  BY <1>0, ReplaceDevice
<1>3. bwu[p].pc = "replace" /\ bwu[p].chan = c
  BY <1>0 DEF ReplaceChannel
<1>4. /\ c \in Channels /\ FreshFor(p, c) /\ Stage(p) = "ease" /\ c = opened /\ opened > 0
      /\ Stage(q) = "ease" \/ (Stage(q) \in Early /\ Act(q) = c)
      /\ p = A => /\ ~link[c].dialled /\ ~Accepted(c) /\ ~Offered(c) /\ ~Failing(c)
                  /\ Stage(D) = "ease" => Switching(D, c)
      /\ p = D /\ Stage(A) = "ease" => Arriving(c)
  BY <1>0, <1>1, <1>3, ReplaceState
<1>5. q \in Peers /\ q # p /\ Other(q) = p
  BY Two
<1>6. bwu'[q] = bwu[q] /\ SameView(q)
  BY <1>1, <1>2, <1>5, ThreadOther, ThreadApart DEF Apart
<1>7. Stage(q)' = Stage(q) /\ Act(q)' = Act(q) /\ Prior(q)' = Prior(q)
      /\ \A x \in Channels : FreshFor(q, x)' <=> FreshFor(q, x)
  BY <1>6 DEF SameView, FreshFor
<1>8. \A x \in Channels : FreshInv(x) /\ FlowInv(x) /\ JoinInv(x)
  BY <1>1 DEF Handover
<1>9. ASSUME NEW x \in Channels, x # c, FreshFor(p, x)
      PROVE  FreshFor(p, x)'
  BY <1>0, <1>2, <1>9 DEF FreshFor
<1>10. ASSUME NEW x \in Channels
       PROVE  /\ PathSent(x)' = PathSent(x) /\ PathGot(x)' = PathGot(x)
              /\ PathAt(x)' => PathAt(x)
              /\ Accepted(x)' = Accepted(x) /\ link'[x].dialled = link[x].dialled
              /\ FailSent(x)' = FailSent(x) /\ FailGot(x)' = FailGot(x)
              /\ FailAt(x)' <=> FailAt(x)
              /\ Switching(p, x) <=> x = c
              /\ ~Switching(p, x)'
              /\ Switching(q, x)' <=> Switching(q, x)
  <2>1. /\ PathSent(x)' = PathSent(x) /\ PathGot(x)' = PathGot(x)
        /\ Accepted(x)' = Accepted(x) /\ link'[x].dialled = link[x].dialled
        /\ FailSent(x)' = FailSent(x) /\ FailGot(x)' = FailGot(x)
    BY <1>2 DEF PathSent, PathGot, Accepted, FailSent, FailGot
  <2>2. (PathAt(x)' => PathAt(x)) /\ (FailAt(x)' <=> FailAt(x))
    BY <1>2, <1>3, <1>5, <1>6, Two DEF PathAt, FailAt
  <2>3. (Switching(p, x) <=> x = c) /\ ~Switching(p, x)' /\ (Switching(q, x)' <=> Switching(q, x))
    BY <1>2, <1>3, <1>6 DEF Switching
  <2> QED
    BY <2>1, <2>2, <2>3
<1>11. ASSUME NEW x \in Channels
       PROVE  /\ Failing(x)' <=> Failing(x)
              /\ Offered(x)' => Offered(x)
              /\ FailsOnce(x)'
  <2>1. FailsOnce(x)
    BY <1>8 DEF FlowInv
  <2>2. FailsOnce(x)'
    BY <1>2, <1>10, <2>1 DEF FailsOnce
  <2> QED
    BY <1>10, <2>2 DEF Failing, Offered
<1>12. BehindInv'
  <2>1. NoneAfter(tasks'[D], "PATH", "SAFE")
    BY <1>1, <1>2 DEF Handover, BehindInv
  <2>2. ~Behind(p)'
    BY <1>2 DEF Behind
  <2>3. ASSUME p = A, Behind(D)'
        PROVE  Switching(D, Act(A))'
    <3>1. Switching(D, c)
      BY <1>4, <1>7, <2>3, Two DEF Behind
    <3> QED
      BY <1>2, <1>6, <2>3, <3>1, Two DEF Switching
  <2>4. ASSUME p = D, Behind(A)'
        PROVE  Arriving(Act(D))'
    <3>1. Arriving(c)
      BY <1>4, <1>7, <2>4, Two DEF Behind
    <3>2. Arriving(c)'
      BY <1>4, <1>10, <2>4, <3>1, Two DEF Arriving
    <3> QED
      BY <1>2, <2>4, <3>2, ArrivingAt
  <2> QED
    BY <2>1, <2>2, <2>3, <2>4, Two DEF BehindInv
<1>13. CASE p = A
  <2>1. ASSUME NEW x \in Channels
        PROVE  ~Arriving(x)' /\ ~Offered(x) /\ ~Failing(x) /\ (Switching(D, x) => x = c)
    <3>1. Arriving(c)
      BY <1>4, <1>10, <1>13 DEF Arriving
    <3>2. Underway(x) => x = c
      BY <1>4, <1>8 DEF FlowInv
    <3>3. PathAt(x) => FALSE
      BY <1>3, <1>13 DEF PathAt
    <3>4. ~Offered(x) /\ ~Failing(x)
      BY <1>4, <1>13, <3>2, <3>3 DEF Offered, Underway
    <3>5. link[x].dialled \/ Accepted(x) => x = c
      BY <3>2 DEF Underway, Arriving
    <3>6. ~Arriving(x)'
      BY <1>4, <1>10, <1>13, <3>5 DEF Arriving
    <3>7. Switching(D, x) => x = c
      BY <3>2 DEF Underway
    <3> QED
      BY <3>4, <3>6, <3>7
  <2>2. ASSUME NEW x \in Channels
        PROVE  FreshInv(x)'
    <3>1. x > opened => x # c
      BY <1>1, <1>4, OpenedTyped
    <3> QED
      BY <1>2, <1>5, <1>7, <1>8, <1>9, <1>10, <1>11, <1>13, <2>1, <3>1, Two DEF FreshInv
  <2>3. ASSUME NEW x \in Channels
        PROVE  FlowInv(x)'
    <3>1. Underway(x)' => Underway(x)
      BY <1>10, <1>11, <1>13, <2>1, Two DEF Underway, Offered
    <3>2. ~PathSent(x)' /\ ~PathGot(x)' /\ ~Failing(x)'
      BY <1>10, <1>11, <2>1 DEF Offered
    <3> QED
      BY <1>2, <1>8, <1>10, <1>11, <2>1, <3>1, <3>2 DEF FlowInv
  <2>4. ASSUME NEW x \in Channels
        PROVE  JoinInv(x)'
    <3>1. Switching(D, x)' => x = c
      BY <1>10, <1>13, <2>1, Two
    <3>2. link'[x].dialled => x \in mgr'[A].listening
      BY <1>2, <1>8 DEF JoinInv
    <3> QED
      BY <1>2, <1>13, <2>1, <3>1, <3>2 DEF JoinInv, Early
  <2> QED
    BY <1>12, <2>2, <2>3, <2>4 DEF OffersFine
<1>14. CASE p = D
  <2>1. ASSUME NEW x \in Channels
        PROVE  (Arriving(x)' <=> Arriving(x)) /\ (Arriving(x) => x = c) /\ ~Offered(c)
    <3>1. Arriving(x)' <=> Arriving(x)
      BY <1>5, <1>10, <1>14, Two DEF Arriving
    <3>2. Arriving(x) => x = c
      BY <1>4, <1>8 DEF FlowInv, Underway
    <3>3. ~Offered(c)
      BY <1>1, <1>4, <1>10, <1>14 DEF WireInv, OffersInv, OfferInv, Untouched
    <3> QED
      BY <3>1, <3>2, <3>3
  <2>2. ASSUME NEW x \in Channels
        PROVE  FreshInv(x)'
    <3>1. x > opened => x # c
      BY <1>1, <1>4, OpenedTyped
    <3>2. Offered(x)' => x # c
      BY <1>11, <2>1
    <3> QED
      BY <1>2, <1>5, <1>7, <1>8, <1>9, <1>10, <1>11, <1>14, <2>1, <3>1, <3>2, Two DEF FreshInv
  <2>3. ASSUME NEW x \in Channels
        PROVE  FlowInv(x)'
    <3>1. Underway(x)' => Underway(x)
      BY <1>10, <1>11, <1>14, <2>1, Two DEF Underway
    <3>2. Stage(A)' = Stage(A)
      BY <1>7, <1>14, Two
    <3> QED
      BY <1>2, <1>8, <1>10, <1>11, <1>14, <2>1, <3>1, <3>2 DEF FlowInv
  <2>4. ASSUME NEW x \in Channels
        PROVE  JoinInv(x)'
    <3>1. ~Switching(D, x)'
      BY <1>10, <1>14
    <3>2. link'[x].dialled => x \in mgr'[A].listening
      BY <1>2, <1>8 DEF JoinInv
    <3> QED
      BY <1>2, <1>14, <2>1, <3>1, <3>2 DEF JoinInv, Early
  <2> QED
    BY <1>12, <2>2, <2>3, <2>4 DEF OffersFine
<1> QED
  BY <1>13, <1>14, Two

\* The new channel is registered (RunUpgradeProtocol).
LEMMA ReplaceHandover ==
  ASSUME Now, NEW p \in Peers, ReplaceChannel(p)
  PROVE  Handover'
<1>1. TypeOK /\ Handover /\ Fine /\ ThreadStep(p)
  BY DEF Now, ThreadStep
<1>2. /\ bwu'[p].pc = "last" /\ DeviceFine(p)' /\ WireFine(p)'
      /\ UNCHANGED <<net, seq, link, workerVars, tasks, hist, mgr, opened>>
      /\ \A r \in Peers : conn'[r].connected = conn[r].connected
  BY ReplaceDevice
<1>3. ASSUME NEW r \in Peers, r # p
      PROVE  DeviceFine(r)' /\ WireFine(r)'
  <2>1. DeviceFine(r)' /\ SameView(r) /\ StillClosed(r)
    BY <1>1, <1>2, <1>3, ThreadOther
  <2> QED
    BY <1>1, <1>2, <2>1, WireOther
<1>4. ConnectedInv'
  BY <1>1, <1>2, ConnectedStage
<1> QED
  BY <1>2, <1>3, <1>4, ReplaceShut, ReplaceOffers, Together

\* LAST, or SAFE, of p is out: it was written, and has not had its effect on the peer.
LastOut(p) ==
  \/ Stage(p) = "told" /\ Stage(Other(p)) # "agreed"
  \/ Stage(p) = "agreed" /\ Stage(Other(p)) = "told"
SafeOut(p) ==
  \/ Stage(Other(p)) = "told" /\ Stage(p) = "agreed"
  \/ Stage(Other(p)) = "agreed" /\ Stage(p) # "told"

\* Where LAST stands after a step that neither writes nor processes one of p's.
LEMMA LastStage ==
  ASSUME Handover, NEW p \in Peers,
         \A x \in Channels : Alike(net'[p][x], net[p][x], "LAST"),
         Alike(tasks'[Other(p)], tasks[Other(p)], "LAST"),
         LastDue(Other(p))' <=> LastDue(Other(p)),
         NoneAfter(tasks[Other(p)], "SAFE", "LAST") => NoneAfter(tasks'[Other(p)], "SAFE", "LAST"),
         LastOut(p)' <=> LastOut(p), Prior(p)' = Prior(p) \/ ~LastOut(p)
  PROVE  LastInv(p)'
<1> DEFINE q == Other(p)
<1>1. LastInv(p) /\ (LastSent(p) \/ LastGot(q) \/ LastDue(q) <=> LastOut(p))
  BY DEF Handover, LastInv, LastOut
<1>2. /\ LastSent(p)' <=> LastSent(p)
      /\ LastGot(q)' <=> LastGot(q)
      /\ OnceKind(tasks[q], "LAST") => OnceKind(tasks'[q], "LAST")
  BY DEF Alike, LastSent, LastGot
<1>3. \A x \in Channels : HasKind(net'[p][x], "LAST") =>
        /\ HasKind(net[p][x], "LAST") /\ LastSent(p)
        /\ OnceKind(net[p][x], "LAST") => OnceKind(net'[p][x], "LAST")
  BY DEF Alike, LastSent
<1>4. /\ LastDue(q)' <=> LastDue(q)
      /\ NoneAfter(tasks[q], "SAFE", "LAST") => NoneAfter(tasks'[q], "SAFE", "LAST")
      /\ LastOut(p)' <=> LastOut(p)
      /\ Prior(p)' = Prior(p) \/ ~LastOut(p)
  OBVIOUS
<1>5. LastSent(p)' \/ LastGot(q)' \/ LastDue(q)' <=> LastOut(p)'
  BY <1>1, <1>2, <1>4
<1>6. \A x \in Channels : HasKind(net'[p][x], "LAST") =>
        x = Prior(p)' /\ OnceKind(net'[p][x], "LAST")
  BY <1>1, <1>3, <1>4 DEF LastInv
<1>7. /\ LastSent(p)' => ~LastGot(q)' /\ ~LastDue(q)'
      /\ LastGot(q)' => ~LastDue(q)' /\ OnceKind(tasks'[q], "LAST")
      /\ NoneAfter(tasks'[q], "SAFE", "LAST")
  BY <1>1, <1>2, <1>4 DEF LastInv
<1> HIDE DEF q
<1> QED
  BY <1>5, <1>6, <1>7 DEF LastInv, LastOut, q

\* Where SAFE stands after a step that neither writes nor processes one of p's.
LEMMA SafeStage ==
  ASSUME TypeOK, Handover, NEW p \in Peers,
         \A x \in Channels : Alike(net'[p][x], net[p][x], "SAFE"),
         \A x \in Channels : Spent(p, x) => Spent(p, x)',
         Alike(tasks'[Other(p)], tasks[Other(p)], "SAFE"),
         SafeOut(p)' <=> SafeOut(p), Prior(Other(p))' = Prior(Other(p)) \/ ~SafeOut(p)
  PROVE  SafeInv(p)'
<1> DEFINE q == Other(p)
<1>1. SafeInv(p) /\ (SafeSent(p) \/ SafeGot(q) <=> SafeOut(p))
  BY DEF Handover, SafeInv, SafeOut
<1>2. /\ SafeSent(p)' <=> SafeSent(p)
      /\ SafeGot(q)' <=> SafeGot(q)
      /\ OnceKind(tasks[q], "SAFE") => OnceKind(tasks'[q], "SAFE")
  BY DEF Alike, SafeSent, SafeGot
<1>3. \A x \in Channels : HasKind(net'[p][x], "SAFE") => HasKind(net[p][x], "SAFE") /\ SafeSent(p)
  BY DEF Alike, SafeSent
<1>4. (SafeOut(p)' <=> SafeOut(p)) /\ (Prior(q)' = Prior(q) \/ ~SafeOut(p))
  OBVIOUS
<1>5. ASSUME SafeGot(q)'
      PROVE  Spent(p, Prior(q))' /\ OnceKind(tasks'[q], "SAFE")
  <2>1. SafeGot(q) /\ Spent(p, Prior(q)) /\ OnceKind(tasks[q], "SAFE") /\ Prior(q)' = Prior(q)
    BY <1>1, <1>2, <1>4, <1>5 DEF SafeInv
  <2>2. hist[p] \in Histories
    BY DEF TypeOK, WorkersTypeOK
  <2>3. Prior(q) \in Channels
    BY <2>1, <2>2 DEF Spent, Histories
  <2> QED
    BY <1>2, <2>1, <2>3 DEF Spent
<1>6. \A x \in Channels : HasKind(net'[p][x], "SAFE") => x = Prior(q)'
  BY <1>1, <1>3, <1>4 DEF SafeInv
<1>7. SafeSent(p)' \/ SafeGot(q)' <=> SafeOut(p)'
  BY <1>1, <1>2, <1>4
<1> HIDE DEF q
<1> QED
  BY <1>5, <1>6, <1>7 DEF SafeInv, SafeOut, q

\* A step of the shutdown leaves the offers alone.
LEMMA StageOffers ==
  ASSUME TypeOK, Handover, Fine, SameRole, NEW kinds, NEW posted,
         KeepsNet(kinds), KeepsTasks(posted), "PATH" \notin kinds, "FAIL" \notin kinds,
         \A kind \in {"PATH", "INCOMING", "FAIL"} : kind \notin posted,
         \A r \in Peers : QuietThread(r), UNCHANGED <<link, opened>>,
         mgr'[Advertiser].listening = mgr[Advertiser].listening,
         \/ mgr'[Advertiser].inProgress = mgr[Advertiser].inProgress
         \/ \A c \in Channels : ~Underway(c) /\ ~PathAt(c),
         NoneAfter(tasks[Discoverer], "PATH", "SAFE") =>
           NoneAfter(tasks'[Discoverer], "PATH", "SAFE")
  PROVE  OffersFine'
<1>1. QuietOffers
  BY Two DEF KeepsNet, KeepsTasks, Keeps, QuietOffers
<1>2. FewerOffers
  BY <1>1, FewerOf
<1> QED
  BY <1>2, OffersKept

\* LAST or SAFE is written on the prior channel.
LEMMA ShutWrite ==
  ASSUME TypeOK, Handover, Fine, NEW p \in Peers, NEW c \in Channels, NEW kind \in {"LAST", "SAFE"},
         Written(p, c, kind, 0), c \notin hist[p].safe, c = Prior(p), Cur(p)' = Cur(p),
         hist'[p].safe = IF kind = "SAFE" THEN hist[p].safe \cup {c} ELSE hist[p].safe,
         \A x \in Channels : Mute(p, x)' => Mute(p, x),
         \A r \in Peers : r # p => SameView(r) /\ StillClosed(r)
  PROVE  /\ \A r \in Peers : WireFine(r)'
         /\ KeepsNet({kind})
         /\ \A x \in Channels : Spent(p, x) => Spent(p, x)'
         /\ \A r \in Peers, x \in Channels : r # p \/ x # c => net'[r][x] = net[r][x]
         /\ HasKind(net'[p][c], kind) /\ (~HasKind(net[p][c], kind) => OnceKind(net'[p][c], kind))
<1> DEFINE f == FrameOf(p, c, kind, 0)
<1>1. Sent(p, c, kind, 0) /\ ~chan[p][c].paused
  BY DEF Written
<1>2. [kind |-> kind, seq |-> 0, arg |-> 0] \in Frames
  BY ConstantsTyped DEF Frames, FrameKinds, Negotiation
<1>3. /\ Appends(p, c, f) /\ f.kind = kind
      /\ f.seq = IF chan[p][c].crypt THEN seq[p].sent + 1 ELSE 0
      /\ \A r \in Peers : seq'[r].received = seq[r].received
                          /\ (r # p => seq'[r].sent = seq[r].sent)
      /\ seq'[p].sent = IF chan[p][c].crypt THEN seq[p].sent + 1 ELSE seq[p].sent
  BY <1>1, <1>2, SentAppends
<1>4. c = Cur(p) /\ ~Mute(p, c) /\ (chan[p][c].crypt <=> Encrypts(c))
  BY <1>1, InTurn
<1> HIDE DEF f
<1>5. seq[p].sent \in Nat /\ net[p][c] \in Seq(Frames) /\ f \in Frames
      /\ net'[p][c] = Append(net[p][c], f)
  BY <1>3, SidesTyped DEF Appends
<1>6. ASSUME NEW r \in Peers
      PROVE  NumberInv(r)'
  <2>1. Cur(r)' = Cur(r)
    BY DEF SameView, Cur
  <2>2. Cur(r) \in Channels /\ NumberInv(r) /\ Other(r) \in Peers
    BY Standing, SidesTyped DEF Handover
  <2>3. \/ f.seq = 0 /\ seq'[p].sent = seq[p].sent
        \/ f.seq = seq[p].sent + 1 /\ seq'[p].sent = seq[p].sent + 1
    BY <1>3
  <2> QED
    BY <1>3, <1>4, <2>1, <2>2, <2>3, NumberAppends
<1>7. QueueInv(p, c)'
  <2>1. QueueInv(p, c)
    BY DEF Handover
  <2>2. ~HasKind(net[p][c], "SAFE") /\ ~HasKind(net[p][c], "DISC") /\ Stamped(net[p][c], c)
    BY <2>1 DEF QueueInv
  <2>3. f.seq # 0 <=> Encrypts(c) /\ f.kind \notin Clear
    BY <1>3, <1>4, <1>5 DEF Clear
  <2>4. Stamped(net'[p][c], c)
    BY <1>5, <2>2, <2>3, AppendNumbers
  <2>5. ~Mute(p, c)'
    BY <1>4
  <2>6. CASE kind = "LAST"
    <3>1. ~HasKind(net'[p][c], "SAFE") /\ ~HasKind(net'[p][c], "DISC")
      BY <1>3, <1>5, <2>2, <2>6, AppendKinds
    <3> QED
      BY <2>4, <2>5, <2>6, <3>1 DEF QueueInv
  <2>7. CASE kind = "SAFE"
    <3>1. Sealed(net'[p][c])
      BY <1>3, <1>5, <2>2, <2>7, SealedKinds
    <3> QED
      BY <2>4, <2>5, <2>7, <3>1 DEF QueueInv
  <2> QED
    BY <2>6, <2>7
<1>8. ASSUME NEW r \in Peers, NEW x \in Channels, r # p \/ x # c
      PROVE  QueueInv(r, x)'
  <2>1. QueueInv(r, x) /\ (Mute(r, x)' => Mute(r, x)) /\ net'[r][x] = net[r][x]
    BY <1>3, <1>8, MuteKept DEF Handover, Appends
  <2>2. x \in hist'[r].safe <=> x \in hist[r].safe
    BY <1>8 DEF SameView
  <2> QED
    BY <2>1, <2>2, QueueKept
<1>9. KeepsNet({kind})
  BY <1>3, NetKeeps
<1>10. \A x \in Channels : Spent(p, x) => Spent(p, x)'
  BY <1>3 DEF Spent, Appends
<1>11. HasKind(net'[p][c], kind) /\ (~HasKind(net[p][c], kind) => OnceKind(net'[p][c], kind))
  <2>1. kind # "DISC" /\ \A i, j \in DOMAIN net[p][c] : ~HasKind(net[p][c], kind) => net[p][c][i].kind # kind
    BY DEF HasKind
  <2>2. ~HasKind(net[p][c], kind) => OnceKind(net[p][c], kind)
    BY <2>1 DEF OnceKind
  <2> QED
    BY <1>3, <1>5, <2>2, AppendKinds
<1> QED
  BY <1>3, <1>6, <1>7, <1>8, <1>9, <1>10, <1>11 DEF WireFine, Appends

-----------------------------------------------------------------------------
(* LAST_WRITE_TO_PRIOR_CHANNEL *)

\* A device that has written one of the two shutdown frames still has the same two channels.
LEMMA SteadyDevice ==
  ASSUME NEW p \in Peers, ChannelInv(p), HoldsInv(p), UNCHANGED <<chan, workerVars>>,
         Act(p)' = Act(p), Prior(p)' = Prior(p), Prior(p) # Act(p),
         Stage(p) \notin {"ease", "ending"}, Stage(p)' \notin {"ease", "ending"},
         \A x \in hist'[p].safe : x \in hist[p].safe \/ x = Prior(p)
  PROVE  ChannelInv(p)' /\ HoldsInv(p)'
<1>1. ASSUME NEW x \in Channels
      PROVE  /\ chan'[p][x].paused <=> x = Act(p)' /\ Stage(p)' # "ease"
             /\ chan'[p][x].crypt <=>
                  Encrypts(x) /\ (x = Act(p)' \/ (x = Prior(p)' /\ Stage(p)' # "ending"))
             /\ x \in hist'[p].safe => x # Act(p)' /\ (x = Prior(p)' \/ chan'[p][x].closed)
  BY DEF ChannelInv
<1>2. HoldsInv(p)'
  BY DEF HoldsInv, Holds, workerVars
<1> QED
  BY <1>1, <1>2 DEF ChannelInv

\* The device that writes LAST, afterwards: the peer's LAST may have come first.
LEMMA LastState ==
  ASSUME Now, NEW p \in Peers, WriteLast(p)
  PROVE  /\ Stage(p) = "halting" /\ Stage(p)' = "told"
         /\ Act(p)' = Act(p) /\ Prior(p)' = Prior(p) /\ Prior(p) \in Channels
         /\ Prior(p) \notin hist[p].safe /\ Written(p, Prior(p), "LAST", 0)
         /\ mgr'[p].previous = Prior(p) /\ ~mgr'[p].upgraded
         /\ mgr'[p].inProgress = mgr[p].inProgress /\ mgr'[p].listening = mgr[p].listening
         /\ mgr'[p].retry = mgr[p].retry
         /\ bwu'[p].pc \in {"safe", "idle"} /\ bwu[p].pc = "last"
         /\ bwu'[p].pc = "safe" <=> mgr[p].upgraded
         /\ UNCHANGED <<chan, link, conn, workerVars, tasks, hist, opened>>
         /\ DeviceFine(p)'
<1>0. PICK old : old = bwu[p].old
  OBVIOUS
<1>1. /\ TypeOK /\ Handover /\ Fine
      /\ bwu \in [Peers -> Threads] /\ mgr \in [Peers -> Managers]
  BY DEF Now, TypeOK
<1>2. /\ bwu[p].pc = "last"
      /\ UNCHANGED <<chan, link, faults, conn, workerVars, tasks, hist, opened, requests>>
  BY DEF WriteLast
<1>3. Stage(p) = "halting" /\ Prior(p) = old
  BY <1>0, <1>2 DEF Stage, Prior
<1>4. old \in Channels /\ old \notin hist[p].safe /\ old # Act(p) /\ mgr[p].previous = None
      /\ old # None
  BY <1>1, <1>3, Standing, NoneIsNoChannel
<1>5. Written(p, old, "LAST", 0) /\ ManagerOf(p, WithPrior(mgr[p], old)) /\ AfterLast(p)
  BY <1>0, <1>1, <1>4, FailsInClear DEF WriteLast
<1>6. /\ mgr'[p].previous = old /\ ~mgr'[p].upgraded
      /\ mgr'[p].inProgress = mgr[p].inProgress /\ mgr'[p].listening = mgr[p].listening
      /\ mgr'[p].retry = mgr[p].retry
  <2>1. mgr'[p] = WithPrior(mgr[p], old) /\ mgr[p] \in Managers
    BY <1>1, <1>5 DEF ManagerOf
  <2> QED
    BY <1>4, <2>1 DEF WithPrior, Managers
<1>7. bwu'[p].pc \in {"safe", "idle"} /\ (bwu'[p].pc = "safe" <=> mgr[p].upgraded)
  BY <1>1, <1>5 DEF AfterLast, At, Idle
<1>8. Stage(p)' = "told" /\ Act(p)' = Act(p) /\ Prior(p)' = old
  BY <1>2, <1>4, <1>6, <1>7 DEF Stage, Act, Prior
<1>9. StageInv(p) /\ ProgressInv(p) /\ ChannelInv(p) /\ HoldsInv(p) /\ ~hist[p].desync
  BY <1>1 DEF Handover
<1>10. StageInv(p)'
  BY <1>2, <1>3, <1>4, <1>6, <1>7, <1>8, <1>9 DEF StageInv
<1>11. ProgressInv(p)'
  BY <1>3, <1>6, <1>7, <1>8, <1>9 DEF ProgressInv
<1>12. ChannelInv(p)' /\ HoldsInv(p)'
  BY <1>2, <1>3, <1>4, <1>8, <1>9, SteadyDevice
<1>13. DeviceFine(p)'
  BY <1>2, <1>9, <1>10, <1>11, <1>12 DEF DeviceFine
<1> QED
  BY <1>2, <1>3, <1>4, <1>5, <1>6, <1>7, <1>8, <1>13

\* LAST of a device is awaited by its peer, which has not answered it.
LEMMA LastShut ==
  ASSUME Now, NEW p \in Peers, WriteLast(p)
  PROVE  /\ \A r \in Peers : ShutFine(r)' /\ WireFine(r)'
         /\ KeepsNet({"LAST"})
<1> DEFINE q == Other(p)
<1>0. PICK old : old = Prior(p)
  OBVIOUS
<1>1. TypeOK /\ TypeOK' /\ Handover /\ Fine /\ ThreadStep(p)
  BY DEF Now, ThreadStep
<1>2. /\ Stage(p) = "halting" /\ Stage(p)' = "told"
      /\ Act(p)' = Act(p) /\ Prior(p)' = old /\ old \in Channels
      /\ old \notin hist[p].safe /\ Written(p, old, "LAST", 0)
      /\ mgr'[p].previous = old /\ ~mgr'[p].upgraded
      /\ bwu'[p].pc = "safe" <=> mgr[p].upgraded
      /\ bwu[p].pc = "last"
      /\ UNCHANGED <<chan, link, conn, workerVars, tasks, hist, opened>>
  BY <1>0, LastState
<1>3. q \in Peers /\ q # p /\ Other(q) = p /\ \A r \in Peers : r = p \/ r = q
  BY Two
<1>4. \A r \in Peers : r # p => SameView(r) /\ StillClosed(r) /\ (LastDue(r)' <=> LastDue(r))
  BY <1>1, <1>2, ThreadOther
<1>5. /\ Stage(q)' = Stage(q) /\ Act(q)' = Act(q) /\ Prior(q)' = Prior(q)
      /\ mgr'[q].previous = mgr[q].previous
  BY <1>3, <1>4 DEF SameView
<1>6. Cur(p)' = Cur(p) /\ \A x \in Channels : Mute(p, x)' => Mute(p, x)
  BY <1>0, <1>2 DEF Cur, Mute
<1>7. /\ \A r \in Peers : WireFine(r)'
      /\ KeepsNet({"LAST"})
      /\ \A x \in Channels : Spent(p, x) => Spent(p, x)'
      /\ \A r \in Peers, x \in Channels : r # p \/ x # old => net'[r][x] = net[r][x]
      /\ HasKind(net'[p][old], "LAST")
      /\ ~HasKind(net[p][old], "LAST") => OnceKind(net'[p][old], "LAST")
  BY <1>0, <1>1, <1>2, <1>4, <1>6, ShutWrite
<1>8. PairInv(p) /\ PairInv(q) /\ LastInv(p) /\ LastInv(q) /\ SafeInv(p) /\ SafeInv(q)
  BY <1>1, <1>3 DEF Handover
<1>9. Stage(q) \in {"ease", "halting", "told"}
  BY <1>2, <1>8 DEF PairInv
<1>10. PairInv(p)' /\ PairInv(q)'
  <2>1. (Behind(p)' <=> Behind(p)) /\ (Behind(q)' <=> Behind(q))
    BY <1>2, <1>3, <1>5 DEF Behind, Early
  <2> QED
    BY <1>0, <1>2, <1>3, <1>5, <1>8, <1>9, <2>1 DEF PairInv
<1>11. LastInv(p)'
  <2>1. ~LastSent(p) /\ ~LastGot(q) /\ ~LastDue(q)
    BY <1>2, <1>8 DEF LastInv
  <2>2. LastSent(p)' /\ ~LastGot(q)' /\ ~LastDue(q)'
    BY <1>2, <1>3, <1>4, <1>7, <2>1 DEF LastSent, LastGot
  <2>3. ASSUME NEW x \in Channels, HasKind(net'[p][x], "LAST")
        PROVE  x = old /\ OnceKind(net'[p][x], "LAST")
    BY <1>2, <1>7, <2>1, <2>3 DEF LastSent
  <2>4. NoneAfter(tasks'[q], "SAFE", "LAST")
    BY <1>2, <1>8 DEF LastInv
  <2> QED
    BY <1>2, <1>5, <1>9, <2>2, <2>3, <2>4 DEF LastInv
<1>12. LastInv(q)'
  <2>1. LastDue(p)' <=> LastDue(p)
    BY <1>2 DEF LastDue
  <2>2. \A x \in Channels : Alike(net'[q][x], net[q][x], "LAST")
    BY <1>3, <1>7 DEF Alike
  <2>3. Alike(tasks'[p], tasks[p], "LAST")
    BY <1>2 DEF Alike
  <2>4. LastOut(q)' <=> LastOut(q)
    BY <1>2, <1>3, <1>5, <1>9 DEF LastOut
  <2>5. NoneAfter(tasks[p], "SAFE", "LAST") => NoneAfter(tasks'[p], "SAFE", "LAST")
    BY <1>2
  <2> QED
    BY <1>1, <1>3, <1>5, <2>1, <2>2, <2>3, <2>4, <2>5, LastStage
<1>13. ASSUME NEW r \in Peers
       PROVE  SafeInv(r)'
  <2>1. \A x \in Channels : Alike(net'[r][x], net[r][x], "SAFE")
    BY <1>7 DEF KeepsNet, Keeps, Alike
  <2>2. Alike(tasks'[Other(r)], tasks[Other(r)], "SAFE")
    BY <1>2 DEF Alike
  <2>3. (SafeOut(r)' <=> SafeOut(r)) /\ Prior(Other(r))' = Prior(Other(r))
    BY <1>0, <1>2, <1>3, <1>5, <1>9 DEF SafeOut
  <2>4. \A x \in Channels : Spent(r, x) => Spent(r, x)'
    BY <1>2, <1>3, <1>7 DEF Spent
  <2> QED
    BY <1>1, <2>1, <2>2, <2>3, <2>4, SafeStage
<1>14. ASSUME NEW r \in Peers, NEW x \in Channels
       PROVE  CloseInv(r, x)'
  <2>1. \A s \in Peers : Spent(s, x) => Spent(s, x)'
    BY <1>2, <1>3, <1>7 DEF Spent
  <2>2. HasKind(net'[r][x], "DISC") => HasKind(net[r][x], "DISC")
    BY <1>7 DEF KeepsNet, Keeps
  <2>3. \A s \in Peers : mgr'[s].previous = x => mgr[s].previous = x \/ x \notin hist[s].safe
    BY <1>2, <1>3, <1>5
  <2>4. ASSUME Stage(r)' = "ending", Prior(r)' = x
        PROVE  Spent(Other(r), x)'
    BY <1>2, <1>3, <1>5, <1>9, <2>4
  <2>5. chan'[r][x].closed => chan[r][x].closed
    BY <1>2
  <2> QED
    BY <1>1, <1>3, <2>1, <2>2, <2>3, <2>4, <2>5, CloseMoves
<1> QED
  BY <1>3, <1>7, <1>10, <1>11, <1>12, <1>13, <1>14 DEF ShutFine

\* LAST is written on the prior channel (RunUpgradeProtocol).
LEMMA WriteLastHandover ==
  ASSUME Now, NEW p \in Peers, WriteLast(p)
  PROVE  Handover'
<1>1. TypeOK /\ TypeOK' /\ Handover /\ Fine /\ ThreadStep(p) /\ bwu \in [Peers -> Threads]
  BY DEF Now, ThreadStep, TypeOK
<1>2. /\ Stage(p) = "halting" /\ Stage(p)' = "told"
      /\ Act(p)' = Act(p) /\ Prior(p)' = Prior(p)
      /\ mgr'[p].inProgress = mgr[p].inProgress /\ mgr'[p].listening = mgr[p].listening
      /\ mgr'[p].retry = mgr[p].retry
      /\ bwu'[p].pc \in {"safe", "idle"} /\ bwu[p].pc = "last"
      /\ UNCHANGED <<chan, link, conn, workerVars, tasks, hist, opened>>
      /\ DeviceFine(p)'
  BY LastState
<1>3. (\A r \in Peers : ShutFine(r)' /\ WireFine(r)') /\ KeepsNet({"LAST"})
  BY LastShut
<1>4. \A r \in Peers : r # p =>
        DeviceFine(r)' /\ SameView(r) /\ QuietThread(r) /\ mgr'[r] = mgr[r] /\ bwu'[r] = bwu[r]
  BY <1>1, <1>2, ThreadOther, ThreadApart DEF Apart
<1>5. ConnectedInv'
  BY <1>1, <1>2, ConnectedStage
<1>6. SameRole
  <2>1. \A r \in Peers : r # p =>
          /\ Stage(r)' = Stage(r) /\ Act(r)' = Act(r) /\ Prior(r)' = Prior(r)
    BY <1>4 DEF SameView
  <2>2. \A r \in Peers : (Behind(r)' => Behind(r)) /\ Act(r)' = Act(r)
    BY <1>2, <2>1, Two DEF Behind, Early
  <2>3. \A r \in Peers, x \in Channels : FreshFor(r, x) => FreshFor(r, x)'
    BY <1>2, <2>1 DEF FreshFor
  <2> QED
    BY <1>2, <2>1, <2>2, <2>3, Two DEF SameRole, Early
<1>7. KeepsTasks({})
  BY <1>1, <1>2, TasksKeep
<1>8. \A r \in Peers : QuietThread(r)
  BY <1>2, <1>4 DEF QuietThread, OfferSteps
<1>9. OffersFine'
  <2>1. /\ mgr'[Advertiser].inProgress = mgr[Advertiser].inProgress
        /\ mgr'[Advertiser].listening = mgr[Advertiser].listening
    BY <1>2, <1>4, Two
  <2> DEFINE kinds == {"LAST"}
             posted == {}
  <2>2. KeepsNet(kinds) /\ KeepsTasks(posted) /\ "PATH" \notin kinds /\ "FAIL" \notin kinds
    BY <1>3, <1>7
  <2>3. \A kind \in {"PATH", "INCOMING", "FAIL"} : kind \notin posted
    OBVIOUS
  <2> HIDE DEF kinds, posted
  <2> QED
    BY <1>1, <1>2, <1>6, <1>8, <2>1, <2>2, <2>3, StageOffers
<1> QED
  BY <1>2, <1>3, <1>4, <1>5, <1>9, Together

\* The device that processes the peer's LAST: it is at ease, and remembers it, or it has
\* written its own, and is about to answer.
LEMMA LastDone ==
  ASSUME Now, NEW p \in Peers, ProcessLast(p)
  PROVE  /\ LastGot(p) /\ LastDue(p)' /\ KeepsTasks({"LAST"})
         /\ tasks'[p] = Tail(tasks[p]) /\ Head(tasks[p]).kind = "LAST" /\ tasks[p] # << >>
         /\ SameView(p) /\ DeviceFine(p)'
         /\ mgr'[p].inProgress = mgr[p].inProgress /\ mgr'[p].listening = mgr[p].listening
         /\ mgr'[p].retry = mgr[p].retry /\ bwu[p].pc = "idle" /\ bwu'[p].pc \in {"safe", "idle"}
         /\ UNCHANGED <<chan, net, seq, link, conn, workerVars, hist, opened>>
<1> DEFINE q == Other(p)
<1>1. /\ TypeOK /\ TypeOK' /\ RoleInv /\ Handover /\ Fine
      /\ bwu \in [Peers -> Threads] /\ mgr \in [Peers -> Managers]
  BY DEF Now, TypeOK
<1>2. /\ Task(p, "LAST") /\ TakeTask(p)
      /\ UNCHANGED <<chan, net, seq, link, conn, workerVars, hist, opened>>
  BY DEF ProcessLast, channelVars
<1>3. /\ LastGot(p) /\ bwu[p].pc = "idle" /\ tasks[p] # << >> /\ Head(tasks[p]).kind = "LAST"
      /\ tasks'[p] = Tail(tasks[p]) /\ KeepsTasks({"LAST"})
  BY <1>1, <1>2, TaskFor, TasksKeep DEF LastGot, Task
<1>4. q \in Peers /\ Other(q) = p /\ LastInv(q)
  BY <1>1, Two DEF Handover
<1>5. Stage(p) \in {"ease", "told"} /\ ~LastDue(p)
  <2>1. Stage(p) \in {"ease", "told", "agreed"}
    BY <1>1, <1>3, Standing
  <2>2. \/ Stage(q) = "told" /\ Stage(p) # "agreed"
        \/ Stage(q) = "agreed" /\ Stage(p) = "told"
    BY <1>3, <1>4 DEF LastInv
  <2> QED
    BY <1>3, <1>4, <2>1, <2>2 DEF LastInv
<1>6. Stage(p) = "ease" <=> mgr[p].previous = None
  BY <1>1, <1>5, Standing
<1>7. /\ mgr'[p].previous = mgr[p].previous
      /\ mgr'[p].inProgress = mgr[p].inProgress /\ mgr'[p].listening = mgr[p].listening
      /\ mgr'[p].retry = mgr[p].retry
      /\ \/ Stage(p) = "ease" /\ mgr'[p].upgraded /\ bwu'[p].pc = "idle"
         \/ Stage(p) = "told" /\ mgr'[p].upgraded = mgr[p].upgraded /\ bwu'[p].pc = "safe"
  <2>1. mgr[p] \in Managers
    BY <1>1
  <2>2. CASE mgr[p].previous = None
    <3>1. mgr' = [mgr EXCEPT ![p].upgraded = TRUE] /\ UNCHANGED bwu
      BY <2>2 DEF ProcessLast
    <3> QED
      BY <1>1, <1>3, <1>6, <2>1, <2>2, <3>1 DEF Managers
  <2>3. CASE mgr[p].previous # None
    <3>1. UNCHANGED mgr /\ At(p, "safe", None, None)
      BY <2>3 DEF ProcessLast
    <3> QED
      BY <1>1, <1>5, <1>6, <2>3, <3>1 DEF At
  <2> QED
    BY <2>2, <2>3
<1>8. SameView(p)
  BY <1>2, <1>3, <1>7, SameViewOf DEF LateSteps
<1>9. LastDue(p)'
  BY <1>7 DEF LastDue
<1>10. StageInv(p) /\ ProgressInv(p) /\ ChannelInv(p) /\ HoldsInv(p) /\ ~hist[p].desync
  BY <1>1 DEF Handover
<1>11. Stage(p)' = Stage(p) /\ Act(p)' = Act(p) /\ Prior(p)' = Prior(p)
  BY <1>8 DEF SameView
<1>12. StageInv(p)'
  <2>1. OverIn(tasks'[p]) => OverIn(tasks[p])
    BY <1>3, TasksQuiet
  <2>2. mgr'[p].upgraded => Stage(p) = "ease"
    BY <1>7, <1>10 DEF StageInv
  <2> QED
    BY <1>2, <1>5, <1>7, <1>10, <1>11, <2>1, <2>2 DEF StageInv
<1>13. ProgressInv(p)'
  BY <1>3, <1>7, <1>10, <1>11 DEF ProgressInv
<1>14. ChannelInv(p)'
  BY <1>2, <1>10, <1>11 DEF ChannelInv
<1>15. HoldsInv(p)'
  BY <1>2, <1>10, <1>11 DEF HoldsInv, Holds, workerVars
<1>16. DeviceFine(p)'
  BY <1>2, <1>10, <1>12, <1>13, <1>14, <1>15 DEF DeviceFine
<1> QED
  BY <1>2, <1>3, <1>7, <1>8, <1>9, <1>16

\* The peer's LAST is processed (ProcessLastWriteToPriorChannelEvent).
LEMMA ProcessLastHandover ==
  ASSUME Now, NEW p \in Peers, ProcessLast(p)
  PROVE  Handover'
<1> DEFINE q == Other(p)
<1>1. TypeOK /\ TypeOK' /\ Handover /\ Fine /\ ThreadStep(p) /\ tasks \in [Peers -> Seq(Tasks)]
  BY DEF Now, ThreadStep, TypeOK, WorkersTypeOK
<1>2. /\ LastGot(p) /\ LastDue(p)' /\ KeepsTasks({"LAST"})
      /\ tasks'[p] = Tail(tasks[p]) /\ Head(tasks[p]).kind = "LAST" /\ tasks[p] # << >>
      /\ SameView(p) /\ DeviceFine(p)'
      /\ mgr'[p].inProgress = mgr[p].inProgress /\ mgr'[p].listening = mgr[p].listening
      /\ mgr'[p].retry = mgr[p].retry /\ bwu[p].pc = "idle" /\ bwu'[p].pc \in {"safe", "idle"}
      /\ UNCHANGED <<chan, net, seq, link, conn, workerVars, hist, opened>>
  BY LastDone
<1>3. q \in Peers /\ q # p /\ Other(q) = p /\ \A r \in Peers : r = p \/ r = q
  BY Two
<1>4. tasks'[q] = tasks[q]
  BY <1>1, <1>3 DEF ProcessLast, TakeTask
<1>5. /\ DeviceFine(q)' /\ SameView(q) /\ StillClosed(q) /\ QuietThread(q)
      /\ (LastDue(q)' <=> LastDue(q)) /\ mgr'[q] = mgr[q] /\ bwu'[q] = bwu[q]
  BY <1>1, <1>2, <1>3, <1>4, ThreadOther, ThreadApart DEF Apart
<1>6. QuietView
  BY <1>2, <1>3, <1>5 DEF QuietView, StillClosed
<1>7. (\A r \in Peers : WireFine(r)') /\ QuietNet
  BY <1>1, <1>2, <1>6, WireKept
<1>8. LastInv(p)'
  <2>1. \A x \in Channels : Alike(net'[p][x], net[p][x], "LAST")
    BY <1>7 DEF QuietNet
  <2>2. Alike(tasks'[q], tasks[q], "LAST")
    BY <1>4 DEF Alike
  <2>3. NoneAfter(tasks[q], "SAFE", "LAST") => NoneAfter(tasks'[q], "SAFE", "LAST")
    BY <1>4
  <2> QED
    BY <1>1, <1>2, <1>3, <1>5, <2>1, <2>2, <2>3, LastKept
<1>9. LastInv(q)'
  <2>1. LastInv(q) /\ LastGot(p) /\ LastOut(q) /\ ~LastSent(q)
    BY <1>1, <1>2, <1>3 DEF Handover, LastInv, LastOut
  <2>2. LastOut(q)'
    BY <1>2, <1>3, <1>5, <2>1 DEF LastOut, SameView
  <2>3. ~LastSent(q)' /\ \A x \in Channels : ~HasKind(net'[q][x], "LAST")
    BY <1>2, <2>1 DEF LastSent
  <2>4. OnceKind(tasks[p], "LAST") /\ NoneAfter(tasks[p], "SAFE", "LAST")
    BY <1>3, <2>1 DEF LastInv
  <2>5. ~LastGot(p)' /\ NoneAfter(tasks'[p], "SAFE", "LAST")
    <3>1. tasks[p] \in Seq(Tasks)
      BY <1>1
    <3>2. /\ \A k : OnceKind(tasks[p], k) /\ Head(tasks[p]).kind = k => ~HasKind(Tail(tasks[p]), k)
          /\ \A a, b : NoneAfter(tasks[p], a, b) => NoneAfter(Tail(tasks[p]), a, b)
      BY <1>2, <3>1, TailKinds
    <3> QED
      BY <1>2, <2>4, <3>2 DEF LastGot
  <2> QED
    BY <1>2, <1>3, <2>2, <2>3, <2>5 DEF LastInv, LastOut
<1>10. ASSUME NEW r \in Peers
       PROVE  SafeInv(r)'
  <2>1. \A x \in Channels : Alike(net'[r][x], net[r][x], "SAFE")
    BY <1>7 DEF QuietNet
  <2>2. Alike(tasks'[Other(r)], tasks[Other(r)], "SAFE")
    <3>1. Other(r) \in Peers
      BY Two
    <3>2. \A kind : kind # "LAST" => Alike(tasks'[Other(r)], tasks[Other(r)], kind)
      BY <1>2, <3>1 DEF KeepsTasks, Keeps, Alike
    <3> QED
      BY <3>2
  <2>3. \A x \in Channels : Spent(r, x) => Spent(r, x)'
    BY <1>7 DEF QuietNet, QuietEnds
  <2>4. SameView(r) /\ SameView(Other(r))
    BY <1>2, <1>3, <1>5
  <2> QED
    BY <1>1, <2>1, <2>2, <2>3, <2>4, SafeKept
<1>11. \A r \in Peers : ShutFine(r)'
  <2>1. QuietEnds
    BY <1>7 DEF QuietNet
  <2>2. \A r \in Peers : PairInv(r)' /\ LastInv(r)' /\ SafeInv(r)'
    BY <1>1, <1>3, <1>6, <1>8, <1>9, <1>10, PairKept
  <2>3. \A r \in Peers, x \in Channels : CloseInv(r, x)'
    BY <1>1, <1>6, <2>1, CloseKept
  <2> QED
    BY <2>2, <2>3 DEF ShutFine
<1>12. SameRole
  BY <1>2, <1>3, <1>5, SameRoleOf
<1>13. OffersFine'
  <2>1. /\ mgr'[Advertiser].inProgress = mgr[Advertiser].inProgress
        /\ mgr'[Advertiser].listening = mgr[Advertiser].listening
    BY <1>2, <1>3, <1>5, Two
  <2>2. \A r \in Peers : QuietThread(r)
    BY <1>2, <1>3, <1>5 DEF QuietThread, OfferSteps
  <2> DEFINE kinds == {}
             posted == {"LAST"}
  <2>3. KeepsNet(kinds) /\ KeepsTasks(posted) /\ "PATH" \notin kinds /\ "FAIL" \notin kinds
    BY <1>1, <1>2, NetKeeps
  <2>4. \A kind \in {"PATH", "INCOMING", "FAIL"} : kind \notin posted
    OBVIOUS
  <2>5. NoneAfter(tasks[Discoverer], "PATH", "SAFE") =>
          NoneAfter(tasks'[Discoverer], "PATH", "SAFE")
    <3>1. "SAFE" \notin posted
      OBVIOUS
    <3> HIDE DEF posted
    <3> QED
      BY <2>3, <3>1, TasksQuiet
  <2> HIDE DEF kinds, posted
  <2> QED
    BY <1>1, <1>2, <1>12, <2>1, <2>2, <2>3, <2>4, <2>5, StageOffers
<1>14. ConnectedInv'
  <2>1. \A r \in Peers : conn'[r].connected = conn[r].connected
    BY <1>2
  <2>2. \E kind \in {"LAST", "SAFE"} : KeepsTasks({kind})
    BY <1>2
  <2>3. bwu'[p].pc \notin {"ack", "replace"} /\ opened' = opened
    BY <1>2
  <2> QED
    BY <1>1, <1>2, <2>1, <2>2, <2>3, ConnectedStage
<1> QED
  BY <1>2, <1>3, <1>5, <1>7, <1>11, <1>13, <1>14, Together

-----------------------------------------------------------------------------
(* SAFE_TO_CLOSE_PRIOR_CHANNEL *)

\* The device that writes SAFE, afterwards; it had written its LAST and read the peer's.
LEMMA SafeState ==
  ASSUME Now, NEW p \in Peers, WriteSafe(p)
  PROVE  /\ Stage(p) = "told" /\ Stage(p)' = "agreed" /\ Stage(Other(p)) \in {"told", "agreed"}
         /\ Act(p)' = Act(p) /\ Prior(p)' = Prior(p) /\ Prior(p) \in Channels
         /\ Prior(p) \notin hist[p].safe /\ hist'[p].safe = hist[p].safe \cup {Prior(p)}
         /\ \A r \in Peers : r # p => hist'[r] = hist[r]
         /\ Written(p, Prior(p), "SAFE", 0)
         /\ bwu[p].pc = "safe" /\ bwu'[p].pc = "idle"
         /\ LastDue(p) /\ ~LastDue(p)'
         /\ UNCHANGED <<chan, mgr, link, conn, workerVars, tasks, opened>>
         /\ DeviceFine(p)'
<1> DEFINE q == Other(p)
<1>0. PICK old : old = mgr[p].previous
  OBVIOUS
<1>1. /\ TypeOK /\ Handover /\ Fine
      /\ bwu \in [Peers -> Threads] /\ mgr \in [Peers -> Managers] /\ hist \in [Peers -> Histories]
  BY DEF Now, TypeOK, WorkersTypeOK
<1>2. bwu[p].pc = "safe" /\ UNCHANGED <<link, faults, conn, workerVars, tasks, opened, requests>>
  BY DEF WriteSafe
<1>3. StageInv(p) /\ ProgressInv(p) /\ ChannelInv(p) /\ HoldsInv(p) /\ ~hist[p].desync
  BY <1>1 DEF Handover
<1>4. Stage(p) = "told" /\ LastDue(p)
  BY <1>2, <1>3 DEF StageInv, LastDue
<1>5. /\ Prior(p) = old /\ old \in Channels /\ old \notin hist[p].safe /\ old # Act(p)
      /\ old # None
  BY <1>0, <1>1, <1>4, Standing, NoneIsNoChannel
<1>6. Stage(q) \in {"told", "agreed"}
  <2>1. q \in Peers /\ Other(q) = p /\ LastInv(q)
    BY <1>1, Two DEF Handover
  <2> QED
    BY <1>4, <2>1 DEF LastInv
<1>7. /\ Written(p, old, "SAFE", 0) /\ UNCHANGED <<chan, mgr>> /\ Idle(p)
      /\ hist' = [hist EXCEPT ![p].safe = @ \cup {old}]
  BY <1>0, <1>1, <1>5, FailsInClear DEF WriteSafe
<1>8. /\ hist'[p].safe = hist[p].safe \cup {old} /\ hist'[p].desync = hist[p].desync
      /\ \A r \in Peers : r # p => hist'[r] = hist[r]
  <2>1. hist[p] \in Histories
    BY <1>1
  <2> QED
    BY <1>1, <1>7, <2>1 DEF Histories
<1>9. bwu'[p].pc = "idle"
  BY <1>1, <1>7 DEF At, Idle
<1>10. Stage(p)' = "agreed" /\ Act(p)' = Act(p) /\ Prior(p)' = old
  BY <1>0, <1>2, <1>5, <1>7, <1>8, <1>9 DEF Stage, Act, Prior
<1>11. ~LastDue(p)'
  BY <1>3, <1>4, <1>7, <1>9 DEF LastDue, StageInv
<1>12. StageInv(p)'
  BY <1>2, <1>3, <1>4, <1>5, <1>7, <1>9, <1>10 DEF StageInv
<1>13. ProgressInv(p)'
  BY <1>3, <1>4, <1>7, <1>9, <1>10 DEF ProgressInv
<1>14. ChannelInv(p)' /\ HoldsInv(p)'
  <2>1. \A x \in hist'[p].safe : x \in hist[p].safe \/ x = Prior(p)
    BY <1>5, <1>8
  <2> QED
    BY <1>2, <1>3, <1>4, <1>5, <1>7, <1>10, <2>1, SteadyDevice
<1>15. DeviceFine(p)'
  BY <1>3, <1>8, <1>12, <1>13, <1>14 DEF DeviceFine
<1> QED
  BY <1>2, <1>4, <1>5, <1>6, <1>7, <1>8, <1>9, <1>10, <1>11, <1>15

\* SAFE of a device is awaited by its peer, whose LAST has been answered.
LEMMA SafeShut ==
  ASSUME Now, NEW p \in Peers, WriteSafe(p)
  PROVE  /\ \A r \in Peers : ShutFine(r)' /\ WireFine(r)'
         /\ KeepsNet({"SAFE"})
<1> DEFINE q == Other(p)
<1>0. PICK old : old = Prior(p)
  OBVIOUS
<1>1. TypeOK /\ TypeOK' /\ Handover /\ Fine /\ ThreadStep(p)
  BY DEF Now, ThreadStep
<1>2. /\ Stage(p) = "told" /\ Stage(p)' = "agreed" /\ Stage(q) \in {"told", "agreed"}
      /\ Act(p)' = Act(p) /\ Prior(p)' = old /\ old \in Channels
      /\ old \notin hist[p].safe /\ hist'[p].safe = hist[p].safe \cup {old}
      /\ \A r \in Peers : r # p => hist'[r] = hist[r]
      /\ Written(p, old, "SAFE", 0)
      /\ LastDue(p) /\ ~LastDue(p)'
      /\ UNCHANGED <<chan, mgr, link, conn, workerVars, tasks, opened>>
  BY <1>0, SafeState
<1>3. q \in Peers /\ q # p /\ Other(q) = p /\ \A r \in Peers : r = p \/ r = q
  BY Two
<1>4. \A r \in Peers : r # p => SameView(r) /\ StillClosed(r) /\ (LastDue(r)' <=> LastDue(r))
  BY <1>1, <1>2, ThreadOther
<1>5. Stage(q)' = Stage(q) /\ Act(q)' = Act(q) /\ Prior(q)' = Prior(q)
  BY <1>3, <1>4 DEF SameView
<1>6. Cur(p)' = Cur(p) /\ \A x \in Channels : Mute(p, x)' => Mute(p, x)
  BY <1>0, <1>2 DEF Cur, Mute
<1>7. /\ \A r \in Peers : WireFine(r)'
      /\ KeepsNet({"SAFE"})
      /\ \A x \in Channels : Spent(p, x) => Spent(p, x)'
      /\ \A r \in Peers, x \in Channels : r # p \/ x # old => net'[r][x] = net[r][x]
      /\ HasKind(net'[p][old], "SAFE")
  BY <1>0, <1>1, <1>2, <1>4, <1>6, ShutWrite
<1>8. /\ PairInv(p) /\ PairInv(q) /\ LastInv(p) /\ LastInv(q) /\ SafeInv(p) /\ SafeInv(q)
      /\ Prior(q) = old
  <2>1. PairInv(p) /\ PairInv(q) /\ LastInv(p) /\ LastInv(q) /\ SafeInv(p) /\ SafeInv(q)
    BY <1>1, <1>3 DEF Handover
  <2>2. Prior(p) # None /\ Prior(q) # None
    BY <1>1, <1>2, <1>3, Standing
  <2> QED
    BY <1>0, <2>1, <2>2 DEF PairInv
<1>9. PairInv(p)' /\ PairInv(q)'
  <2>1. ~Behind(p) /\ ~Behind(q) /\ ~Behind(p)' /\ ~Behind(q)'
    BY <1>2, <1>3, <1>5 DEF Behind
  <2>2. Act(p) = Act(q)
    BY <1>8, <2>1 DEF PairInv
  <2> QED
    BY <1>2, <1>3, <1>5, <1>8, <2>1, <2>2 DEF PairInv
<1>10. LastInv(p)'
  <2>1. \A x \in Channels : Alike(net'[p][x], net[p][x], "LAST")
    BY <1>7 DEF KeepsNet, Keeps, Alike
  <2>2. Alike(tasks'[q], tasks[q], "LAST")
    BY <1>2 DEF Alike
  <2>3. LastOut(p)' <=> LastOut(p)
    BY <1>2, <1>5 DEF LastOut
  <2>4. NoneAfter(tasks[q], "SAFE", "LAST") => NoneAfter(tasks'[q], "SAFE", "LAST")
    BY <1>2
  <2>5. (LastDue(q)' <=> LastDue(q)) /\ Prior(p)' = Prior(p)
    BY <1>0, <1>2, <1>3, <1>4
  <2> QED
    BY <1>1, <1>3, <2>1, <2>2, <2>3, <2>4, <2>5, LastStage
<1>11. LastInv(q)'
  <2>1. ~LastSent(q) /\ ~LastGot(p) /\ NoneAfter(tasks[p], "SAFE", "LAST")
    BY <1>2, <1>3, <1>8 DEF LastInv
  <2>2. ~LastSent(q)' /\ ~LastGot(p)' /\ ~LastOut(q)'
    BY <1>2, <1>3, <1>5, <1>7, <2>1 DEF LastSent, LastGot, LastOut
  <2>3. \A x \in Channels : ~HasKind(net'[q][x], "LAST")
    BY <2>2 DEF LastSent
  <2> QED
    BY <1>2, <1>3, <2>1, <2>2, <2>3 DEF LastInv, LastOut
<1>12. SafeInv(p)'
  <2>1. ~SafeSent(p) /\ ~SafeGot(q)
    BY <1>2, <1>8 DEF SafeInv
  <2>2. SafeSent(p)' /\ ~SafeGot(q)'
    BY <1>2, <1>7, <2>1 DEF SafeSent, SafeGot
  <2>3. ASSUME NEW x \in Channels, HasKind(net'[p][x], "SAFE")
        PROVE  x = Prior(q)'
    BY <1>5, <1>7, <1>8, <2>1, <2>3 DEF SafeSent
  <2> QED
    BY <1>2, <1>5, <2>2, <2>3 DEF SafeInv
<1>13. SafeInv(q)'
  <2>1. \A x \in Channels : Alike(net'[q][x], net[q][x], "SAFE")
    BY <1>3, <1>7 DEF Alike
  <2>2. Alike(tasks'[p], tasks[p], "SAFE")
    BY <1>2 DEF Alike
  <2>3. SafeOut(q)' <=> SafeOut(q)
    BY <1>2, <1>3, <1>5 DEF SafeOut
  <2>4. \A x \in Channels : Spent(q, x) => Spent(q, x)'
    BY <1>2, <1>3, <1>7 DEF Spent
  <2>5. Prior(p)' = Prior(p)
    BY <1>0, <1>2
  <2> QED
    BY <1>1, <1>3, <2>1, <2>2, <2>3, <2>4, <2>5, SafeStage
<1>14. ASSUME NEW r \in Peers, NEW x \in Channels
       PROVE  CloseInv(r, x)'
  <2>1. \A s \in Peers : Spent(s, x) => Spent(s, x)'
    BY <1>2, <1>3, <1>7 DEF Spent
  <2>2. HasKind(net'[r][x], "DISC") => HasKind(net[r][x], "DISC")
    BY <1>7 DEF KeepsNet, Keeps
  <2>3. \A s \in Peers : mgr'[s].previous = mgr[s].previous
    BY <1>2
  <2>4. Stage(r)' # "ending"
    BY <1>2, <1>3, <1>5
  <2>5. chan'[r][x].closed = chan[r][x].closed
    BY <1>2
  <2> QED
    BY <1>1, <1>3, <2>1, <2>2, <2>3, <2>4, <2>5, CloseMoves
<1> QED
  BY <1>3, <1>7, <1>9, <1>10, <1>11, <1>12, <1>13, <1>14 DEF ShutFine

\* SAFE is written on the prior channel (RunUpgradeProtocol and
\* ProcessLastWriteToPriorChannelEvent).
LEMMA WriteSafeHandover ==
  ASSUME Now, NEW p \in Peers, WriteSafe(p)
  PROVE  Handover'
<1> DEFINE q == Other(p)
           A == Advertiser
           D == Discoverer
<1>1. TypeOK /\ TypeOK' /\ Handover /\ Fine /\ ThreadStep(p) /\ bwu \in [Peers -> Threads]
  BY DEF Now, ThreadStep, TypeOK
<1>2. /\ Stage(p) = "told" /\ Stage(p)' = "agreed" /\ Stage(q) \in {"told", "agreed"}
      /\ Act(p)' = Act(p) /\ Prior(p)' = Prior(p)
      /\ hist'[p].safe = hist[p].safe \cup {Prior(p)}
      /\ \A r \in Peers : r # p => hist'[r] = hist[r]
      /\ bwu[p].pc = "safe" /\ bwu'[p].pc = "idle"
      /\ UNCHANGED <<chan, mgr, link, conn, workerVars, tasks, opened>>
      /\ DeviceFine(p)'
  BY SafeState
<1>3. (\A r \in Peers : ShutFine(r)' /\ WireFine(r)') /\ KeepsNet({"SAFE"})
  BY SafeShut
<1>4. \A r \in Peers : r # p => DeviceFine(r)' /\ SameView(r) /\ QuietThread(r)
  BY <1>1, <1>2, ThreadOther
<1>5. ConnectedInv'
  BY <1>1, <1>2, ConnectedStage
<1>6. SameRole
  <2>1. \A r \in Peers : r # p =>
          /\ Stage(r)' = Stage(r) /\ Act(r)' = Act(r) /\ Prior(r)' = Prior(r)
          /\ hist'[r].safe = hist[r].safe
    BY <1>4 DEF SameView
  <2>2. \A r \in Peers : ~Behind(r)' /\ Act(r)' = Act(r)
    BY <1>2, <2>1, Two DEF Behind
  <2>3. \A r \in Peers, x \in Channels : FreshFor(r, x) => FreshFor(r, x)'
    BY <1>2, <2>1 DEF FreshFor
  <2>4. \A x \in Channels : ~Arriving(x)
    <3>1. \A x \in Channels : FlowInv(x)
      BY <1>1 DEF Handover
    <3>2. Stage(A) # "ease"
      BY <1>2, Two
    <3> QED
      BY <3>1, <3>2 DEF FlowInv
  <2>5. \A x \in Channels : ~Switching(D, x)
    <3>1. Stage(D) # "ease"
      BY <1>2, Two
    <3>2. bwu[D].pc \notin {"ack", "replace"}
      BY <1>1, <3>1, Standing, Two
    <3> QED
      BY <3>2 DEF Switching
  <2>6. Stage(A) = "ease" => Stage(A)' = "ease"
    BY <1>2, Two
  <2> QED
    BY <2>2, <2>3, <2>4, <2>5, <2>6 DEF SameRole
<1>7. KeepsTasks({})
  BY <1>1, <1>2, TasksKeep
<1>8. \A r \in Peers : QuietThread(r)
  BY <1>2, <1>4 DEF QuietThread, OfferSteps
<1>9. OffersFine'
  <2> DEFINE kinds == {"SAFE"}
             posted == {}
  <2>1. KeepsNet(kinds) /\ KeepsTasks(posted) /\ "PATH" \notin kinds /\ "FAIL" \notin kinds
    BY <1>3, <1>7
  <2>2. \A kind \in {"PATH", "INCOMING", "FAIL"} : kind \notin posted
    OBVIOUS
  <2> HIDE DEF kinds, posted
  <2> QED
    BY <1>1, <1>2, <1>6, <1>8, <2>1, <2>2, StageOffers
<1> QED
  BY <1>2, <1>3, <1>4, <1>5, <1>9, Together

-----------------------------------------------------------------------------
(* The prior channel is shut down *)

\* SAFE is processed by a device that has written its own: the peer's LAST came before
\* it, and all the peer wrote on the prior channel was read.
LEMMA SafeOrder ==
  ASSUME Now, NEW p \in Peers, ProcessSafe(p)
  PROVE  LET q == Other(p)
         IN  /\ Stage(p) = "agreed" /\ Stage(q) \in {"ease", "agreed", "ending", "finishing"}
             /\ Prior(p) \in Channels /\ Prior(p) = mgr[p].previous
             /\ Spent(q, Prior(p)) /\ SafeGot(p) /\ OnceKind(tasks[p], "SAFE")
             /\ bwu[p].pc = "idle" /\ tasks[p] # << >> /\ Head(tasks[p]).kind = "SAFE"
             /\ tasks'[p] = Tail(tasks[p]) /\ KeepsTasks({"SAFE"})
<1> DEFINE q == Other(p)
<1>1. /\ TypeOK /\ TypeOK' /\ RoleInv /\ Handover /\ Fine /\ tasks \in [Peers -> Seq(Tasks)]
  BY DEF Now, TypeOK, WorkersTypeOK
<1>2. Task(p, "SAFE") /\ TakeTask(p)
  BY DEF ProcessSafe
<1>3. /\ SafeGot(p) /\ bwu[p].pc = "idle" /\ tasks[p] # << >> /\ Head(tasks[p]).kind = "SAFE"
      /\ tasks'[p] = Tail(tasks[p]) /\ KeepsTasks({"SAFE"})
  BY <1>1, <1>2, TaskFor, TasksKeep DEF SafeGot, Task
<1>4. q \in Peers /\ Other(q) = p /\ q # p
  BY Two
<1>5. /\ LastInv(q) /\ SafeInv(q) /\ PairInv(p) /\ PairInv(q) /\ StageInv(p)
      /\ \A x \in Channels : QueueInv(q, x)
  BY <1>1, <1>4 DEF Handover
<1>6. Spent(q, Prior(p)) /\ OnceKind(tasks[p], "SAFE")
  BY <1>3, <1>4, <1>5 DEF SafeInv
<1>7. \/ Stage(p) = "told" /\ Stage(q) = "agreed"
      \/ Stage(p) = "agreed" /\ Stage(q) # "told"
  BY <1>3, <1>4, <1>5 DEF SafeInv
<1>8. ASSUME Stage(p) = "told", Stage(q) = "agreed"
      PROVE  FALSE
  <2>1. LastSent(q) \/ LastGot(p) \/ LastDue(p)
    BY <1>4, <1>5, <1>8 DEF LastInv
  <2>2. ~LastDue(p)
    BY <1>3, <1>5, <1>8 DEF LastDue, StageInv
  <2>3. ~LastGot(p)
    <3>1. tasks[p] \in Seq(Tasks) /\ NoneAfter(tasks[p], "SAFE", "LAST")
      BY <1>1, <1>4, <1>5 DEF LastInv
    <3>2. /\ HasKind(tasks[p], "LAST") <=>
               Head(tasks[p]).kind = "LAST" \/ HasKind(Tail(tasks[p]), "LAST")
          /\ Head(tasks[p]).kind = "SAFE" => ~HasKind(Tail(tasks[p]), "LAST")
      BY <1>3, <3>1, TailKinds
    <3> QED
      BY <1>3, <3>2 DEF LastGot
  <2>4. ~LastSent(q)
    <3>1. Prior(q) = Prior(p)
      <4>1. Prior(p) # None /\ Prior(q) # None
        BY <1>1, <1>4, <1>8, Standing
      <4> QED
        BY <1>5, <4>1 DEF PairInv
    <3>2. ASSUME NEW x \in Channels, HasKind(net[q][x], "LAST")
          PROVE  FALSE
      <4>1. x = Prior(p)
        BY <1>5, <3>1, <3>2 DEF LastInv
      <4>2. Only(net[q][x], {"DISC"})
        BY <1>6, <4>1 DEF Spent
      <4> QED
        BY <3>2, <4>2 DEF Only, HasKind
    <3> QED
      BY <3>2 DEF LastSent
  <2> QED
    BY <2>1, <2>2, <2>3, <2>4
<1>9. Stage(p) = "agreed" /\ Stage(q) # "told"
  BY <1>7, <1>8
<1>10. Stage(q) \in {"ease", "agreed", "ending", "finishing"}
  <2>1. Stage(q) # "halting"
    BY <1>4, <1>5, <1>9 DEF PairInv
  <2> QED
    BY <1>1, <1>4, <1>9, <2>1, Standing DEF Stages
<1>11. Prior(p) \in Channels /\ Prior(p) = mgr[p].previous
  BY <1>1, <1>9, Standing
<1> QED
  BY <1>3, <1>6, <1>9, <1>10, <1>11

\* That device, afterwards.
LEMMA EndingState ==
  ASSUME Now, NEW p \in Peers, ProcessSafe(p)
  PROVE  /\ Stage(p)' = "ending" /\ Act(p)' = Act(p) /\ Prior(p)' = Prior(p)
         /\ bwu'[p].pc = "disconnect" /\ mgr'[p].previous = None
         /\ mgr'[p].upgraded = mgr[p].upgraded
         /\ mgr'[p].inProgress = mgr[p].inProgress /\ mgr'[p].listening = mgr[p].listening
         /\ mgr'[p].retry = mgr[p].retry
         /\ \A r \in Peers, x \in Channels : chan'[r][x].closed = chan[r][x].closed
         /\ UNCHANGED <<net, seq, link, conn, workerVars, hist, opened>>
         /\ DeviceFine(p)'
<1>0. PICK old : old = mgr[p].previous
  OBVIOUS
<1>1. /\ TypeOK /\ TypeOK' /\ Handover /\ Fine
      /\ bwu \in [Peers -> Threads] /\ mgr \in [Peers -> Managers]
      /\ chan \in [Peers -> [Channels -> ChannelStates]]
  BY DEF Now, TypeOK, ChannelsTypeOK
<1>2. /\ Stage(p) = "agreed" /\ old = Prior(p) /\ old \in Channels /\ old # None
      /\ bwu[p].pc = "idle" /\ tasks'[p] = Tail(tasks[p]) /\ KeepsTasks({"SAFE"})
  BY <1>0, SafeOrder, NoneIsNoChannel
<1>3. /\ mgr' = [mgr EXCEPT ![p].previous = None]
      /\ chan' = Unencrypted(p, old) /\ At(p, "disconnect", None, old)
      /\ UNCHANGED <<net, seq, link, faults, conn, workerVars, hist, opened, requests>>
  BY <1>0, <1>2 DEF ProcessSafe
<1>4. /\ mgr'[p].previous = None /\ mgr'[p].upgraded = mgr[p].upgraded
      /\ mgr'[p].inProgress = mgr[p].inProgress /\ mgr'[p].listening = mgr[p].listening
      /\ mgr'[p].retry = mgr[p].retry
  <2>1. mgr[p] \in Managers
    BY <1>1
  <2> QED
    BY <1>1, <1>3, <2>1 DEF Managers
<1>5. bwu'[p].pc = "disconnect" /\ bwu'[p].old = old
  BY <1>1, <1>3 DEF At
<1>6. /\ ~chan'[p][old].crypt /\ chan'[p][old].paused = chan[p][old].paused
      /\ \A x \in Channels : x # old => chan'[p][x] = chan[p][x]
      /\ \A r \in Peers, x \in Channels : chan'[r][x].closed = chan[r][x].closed
  BY <1>1, <1>2, <1>3 DEF Unencrypted, ChannelStates
<1>7. Stage(p)' = "ending" /\ Act(p)' = Act(p) /\ Prior(p)' = old
  BY <1>3, <1>5 DEF Stage, Act, Prior
<1>8. /\ StageInv(p) /\ ProgressInv(p) /\ ChannelInv(p) /\ HoldsInv(p) /\ ~hist[p].desync
      /\ old \in hist[p].safe /\ old # Act(p)
  BY <1>1, <1>2, Standing DEF Handover
<1>9. StageInv(p)'
  <2>1. OverIn(tasks'[p]) => OverIn(tasks[p])
    BY <1>2, TasksQuiet
  <2> QED
    BY <1>2, <1>3, <1>4, <1>5, <1>7, <1>8, <2>1 DEF StageInv
<1>10. ProgressInv(p)'
  BY <1>2, <1>4, <1>7, <1>8 DEF ProgressInv
<1>11. ChannelInv(p)'
  <2>1. ASSUME NEW x \in Channels
        PROVE  /\ chan'[p][x].paused <=> x = Act(p)
               /\ chan'[p][x].crypt <=> Encrypts(x) /\ x = Act(p)
               /\ x \in hist[p].safe => x # Act(p) /\ (x = old \/ chan'[p][x].closed)
    <3>1. /\ chan[p][x].paused <=> x = Act(p)
          /\ chan[p][x].crypt <=> Encrypts(x) /\ (x = Act(p) \/ x = old)
          /\ x \in hist[p].safe => x # Act(p) /\ (x = old \/ chan[p][x].closed)
      BY <1>2, <1>8 DEF ChannelInv
    <3> QED
      BY <1>2, <1>6, <1>8, <3>1
  <2> QED
    BY <1>3, <1>7, <2>1 DEF ChannelInv
<1>12. HoldsInv(p)'
  <2>1. ASSUME NEW loop, loop.chan \in Channels, Holds(p, loop)
        PROVE  loop.pc \in {"idle", "read", "ack"} =>
                 loop.chan = Act(p)' \/ loop.chan = Prior(p)' \/ chan'[p][loop.chan].closed
    BY <1>2, <1>6, <1>7, <2>1 DEF Holds
  <2>2. reader[p].chan \in Channels /\ keeper[p].chan \in Channels /\ writer[p].chan \in Channels
    BY <1>1 DEF TypeOK, WorkersTypeOK, Loops
  <2> QED
    BY <1>3, <1>8, <2>1, <2>2 DEF HoldsInv, Holds, workerVars
<1>13. DeviceFine(p)'
  BY <1>3, <1>8, <1>9, <1>10, <1>11, <1>12 DEF DeviceFine
<1> QED
  BY <1>2, <1>3, <1>4, <1>5, <1>6, <1>7, <1>13

\* The peer may go on ending the prior channel on its side, or may have left it.
LEMMA EndingShut ==
  ASSUME Now, NEW p \in Peers, ProcessSafe(p), NEW r \in Peers
  PROVE  ShutFine(r)' /\ WireFine(r)'
<1> DEFINE q == Other(p)
<1>0. PICK old : old = Prior(p)
  OBVIOUS
<1>1. TypeOK /\ TypeOK' /\ Handover /\ Fine /\ ThreadStep(p) /\ tasks \in [Peers -> Seq(Tasks)]
  BY DEF Now, ThreadStep, TypeOK, WorkersTypeOK
<1>2. /\ Stage(p) = "agreed" /\ Stage(q) \in {"ease", "agreed", "ending", "finishing"}
      /\ old \in Channels /\ Spent(q, old) /\ SafeGot(p) /\ OnceKind(tasks[p], "SAFE")
      /\ bwu[p].pc = "idle" /\ tasks[p] # << >> /\ Head(tasks[p]).kind = "SAFE"
      /\ tasks'[p] = Tail(tasks[p]) /\ KeepsTasks({"SAFE"})
  BY <1>0, SafeOrder
<1>3. /\ Stage(p)' = "ending" /\ Act(p)' = Act(p) /\ Prior(p)' = old
      /\ bwu'[p].pc = "disconnect" /\ mgr'[p].previous = None
      /\ mgr'[p].upgraded = mgr[p].upgraded
      /\ \A s \in Peers, x \in Channels : chan'[s][x].closed = chan[s][x].closed
      /\ UNCHANGED <<net, seq, link, conn, workerVars, hist, opened>>
  BY <1>0, EndingState
<1>4. q \in Peers /\ q # p /\ Other(q) = p /\ \A s \in Peers : s = p \/ s = q
  BY Two
<1>5. tasks'[q] = tasks[q]
  BY <1>1, <1>4 DEF ProcessSafe, TakeTask
<1>6. SameView(q) /\ StillClosed(q) /\ (LastDue(q)' <=> LastDue(q))
  BY <1>1, <1>3, <1>4, <1>5, ThreadOther
<1>7. Stage(q)' = Stage(q) /\ Act(q)' = Act(q) /\ Prior(q)' = Prior(q)
      /\ mgr'[q].previous = mgr[q].previous
  BY <1>6 DEF SameView
<1>8. PairInv(p) /\ PairInv(q) /\ SafeInv(p) /\ SafeInv(q)
  BY <1>1, <1>4 DEF Handover
<1>9. PairInv(p)' /\ PairInv(q)'
  <2>1. ~Behind(p) /\ ~Behind(q) /\ ~Behind(p)' /\ ~Behind(q)'
    BY <1>2, <1>3, <1>4, <1>7 DEF Behind, Early
  <2>2. Stage(q) \in {"ease", "finishing"} => chan'[q][old].closed
    BY <1>0, <1>2, <1>3, <1>4, <1>8 DEF PairInv
  <2>3. PairInv(p)'
    BY <1>0, <1>2, <1>3, <1>4, <1>7, <1>8, <2>1 DEF PairInv
  <2>4. PairInv(q)'
    BY <1>0, <1>2, <1>3, <1>4, <1>7, <1>8, <2>1, <2>2 DEF PairInv
  <2> QED
    BY <2>3, <2>4
<1>10. \A k : \A x \in Channels : \A s \in Peers : Alike(net'[s][x], net[s][x], k)
  BY <1>3 DEF Alike
<1>11. LastInv(p)'
  <2>1. Alike(tasks'[q], tasks[q], "LAST")
    BY <1>5 DEF Alike
  <2>2. LastOut(p)' <=> LastOut(p)
    BY <1>2, <1>3, <1>7 DEF LastOut
  <2>3. NoneAfter(tasks[q], "SAFE", "LAST") => NoneAfter(tasks'[q], "SAFE", "LAST")
    BY <1>5
  <2>4. (LastDue(q)' <=> LastDue(q)) /\ Prior(p)' = Prior(p)
    BY <1>0, <1>3, <1>6
  <2>5. \A x \in Channels : Alike(net'[p][x], net[p][x], "LAST")
    BY <1>10
  <2> QED
    BY <1>1, <2>1, <2>2, <2>3, <2>4, <2>5, LastStage
<1>12. LastInv(q)'
  <2>1. Alike(tasks'[p], tasks[p], "LAST")
    BY <1>2 DEF KeepsTasks, Keeps, Alike
  <2>2. LastOut(q)' <=> LastOut(q)
    BY <1>2, <1>3, <1>4, <1>7 DEF LastOut
  <2>3. NoneAfter(tasks[p], "SAFE", "LAST") => NoneAfter(tasks'[p], "SAFE", "LAST")
    BY <1>2 DEF KeepsTasks, Keeps
  <2>4. (LastDue(p)' <=> LastDue(p)) /\ Prior(q)' = Prior(q)
    BY <1>2, <1>3, <1>7 DEF LastDue
  <2>5. \A x \in Channels : Alike(net'[q][x], net[q][x], "LAST")
    BY <1>4, <1>10
  <2> QED
    BY <1>1, <1>4, <2>1, <2>2, <2>3, <2>4, <2>5, LastStage
<1>13. SafeInv(p)'
  <2>1. Alike(tasks'[q], tasks[q], "SAFE")
    BY <1>5 DEF Alike
  <2>2. (SafeOut(p)' <=> SafeOut(p)) /\ Prior(q)' = Prior(q)
    BY <1>2, <1>3, <1>7 DEF SafeOut
  <2>3. \A x \in Channels : Spent(p, x) => Spent(p, x)'
    BY <1>3 DEF Spent
  <2>4. \A x \in Channels : Alike(net'[p][x], net[p][x], "SAFE")
    BY <1>10
  <2> QED
    BY <1>1, <2>1, <2>2, <2>3, <2>4, SafeStage
<1>14. SafeInv(q)'
  <2>1. ~SafeGot(p)'
    <3>1. tasks[p] \in Seq(Tasks)
      BY <1>1
    <3>2. \A k : OnceKind(tasks[p], k) /\ Head(tasks[p]).kind = k => ~HasKind(Tail(tasks[p]), k)
      BY <1>2, <3>1, TailKinds
    <3> QED
      BY <1>2, <3>2 DEF SafeGot
  <2>2. \A x \in Channels : ~HasKind(net'[q][x], "SAFE")
    <3>1. \A x \in Channels : HasKind(net[q][x], "SAFE") => x = old
      BY <1>0, <1>4, <1>8 DEF SafeInv
    <3>2. ~HasKind(net[q][old], "SAFE")
      BY <1>2 DEF Spent, Only, HasKind
    <3> QED
      BY <1>3, <3>1, <3>2
  <2> QED
    BY <1>3, <1>4, <1>7, <2>1, <2>2 DEF SafeInv, SafeSent
<1>15. ASSUME NEW s \in Peers, NEW x \in Channels
       PROVE  CloseInv(s, x)'
  <2>1. \A t \in Peers : Spent(t, x) => Spent(t, x)'
    BY <1>3 DEF Spent
  <2>2. Other(s) \in Peers /\ (s = p \/ s = q) /\ CloseInv(s, x)
    BY <1>1, Two DEF Handover
  <2>3. ASSUME Stage(s)' = "ending", Prior(s)' = x
        PROVE  Spent(Other(s), x)'
    <3>1. CASE s = p
      BY <1>2, <1>3, <1>4, <2>1, <2>3, <3>1
    <3>2. CASE s = q
      BY <1>4, <1>7, <2>1, <2>2, <2>3, <3>2 DEF CloseInv
    <3> QED
      BY <2>2, <3>1, <3>2
  <2>4. \A t \in Peers : mgr'[t].previous = x => mgr[t].previous = x
    BY <1>3, <1>4, <1>7, NoneIsNoChannel
  <2>5. chan'[s][x].closed = chan[s][x].closed
    BY <1>3
  <2>6. HasKind(net'[s][x], "DISC") => HasKind(net[s][x], "DISC")
    BY <1>3
  <2> QED
    BY <1>1, <2>1, <2>2, <2>3, <2>4, <2>5, <2>6, CloseMoves
<1>16. ShutFine(p)' /\ ShutFine(q)'
  BY <1>4, <1>9, <1>11, <1>12, <1>13, <1>14, <1>15 DEF ShutFine
<1>17. WireFine(p)'
  <2>1. Cur(p)' = Cur(p) /\ \A x \in Channels : Mute(p, x)' => Mute(p, x)
    BY <1>0, <1>2, <1>3 DEF Cur, Mute
  <2> QED
    BY <1>1, <1>3, <2>1, WireSame
<1>18. WireFine(q)'
  BY <1>1, <1>3, <1>4, <1>6, WireOther
<1> QED
  BY <1>4, <1>16, <1>17, <1>18

\* The peer's SAFE is processed: the prior channel stops encrypting
\* (ProcessSafeToClosePriorChannelEvent).
LEMMA ProcessSafeHandover ==
  ASSUME Now, NEW p \in Peers, ProcessSafe(p)
  PROVE  Handover'
<1> DEFINE q == Other(p)
           A == Advertiser
           D == Discoverer
<1>1. TypeOK /\ TypeOK' /\ Handover /\ Fine /\ ThreadStep(p) /\ tasks \in [Peers -> Seq(Tasks)]
  BY DEF Now, ThreadStep, TypeOK, WorkersTypeOK
<1>2. /\ Stage(p) = "agreed" /\ Stage(q) \in {"ease", "agreed", "ending", "finishing"}
      /\ bwu[p].pc = "idle" /\ tasks[p] # << >>
      /\ tasks'[p] = Tail(tasks[p]) /\ KeepsTasks({"SAFE"})
  BY SafeOrder
<1>3. /\ Stage(p)' = "ending" /\ Act(p)' = Act(p) /\ Prior(p)' = Prior(p)
      /\ bwu'[p].pc = "disconnect"
      /\ mgr'[p].inProgress = mgr[p].inProgress /\ mgr'[p].listening = mgr[p].listening
      /\ mgr'[p].retry = mgr[p].retry
      /\ UNCHANGED <<net, seq, link, conn, workerVars, hist, opened>>
      /\ DeviceFine(p)'
  BY EndingState
<1>4. \A r \in Peers : r # p => tasks'[r] = tasks[r]
  BY <1>1 DEF ProcessSafe, TakeTask
<1>5. \A r \in Peers : r # p => DeviceFine(r)' /\ SameView(r) /\ QuietThread(r) /\ mgr'[r] = mgr[r]
  BY <1>1, <1>3, <1>4, ThreadOther, ThreadApart DEF Apart
<1>6. ConnectedInv'
  <2>1. \E kind \in {"LAST", "SAFE"} : KeepsTasks({kind})
    BY <1>2
  <2>2. bwu'[p].pc \notin {"ack", "replace"} /\ \A r \in Peers : conn'[r].connected = conn[r].connected
    BY <1>3
  <2> QED
    BY <1>1, <1>3, <2>1, <2>2, ConnectedStage
<1>7. SameRole
  <2>1. \A r \in Peers : r # p =>
          /\ Stage(r)' = Stage(r) /\ Act(r)' = Act(r) /\ Prior(r)' = Prior(r)
    BY <1>5 DEF SameView
  <2>2. \A r \in Peers : (Behind(r)' => Behind(r)) /\ Act(r)' = Act(r)
    BY <1>2, <1>3, <2>1, Two DEF Behind, Early
  <2>3. \A r \in Peers, x \in Channels : FreshFor(r, x) => FreshFor(r, x)'
    BY <1>3, <2>1 DEF FreshFor
  <2> QED
    BY <1>2, <2>1, <2>2, <2>3, Two DEF SameRole, Early
<1>8. OffersFine'
  <2>1. /\ mgr'[A].inProgress = mgr[A].inProgress /\ mgr'[A].listening = mgr[A].listening
    BY <1>3, <1>5, Two
  <2>2. \A r \in Peers : QuietThread(r)
    BY <1>2, <1>3, <1>5 DEF QuietThread, OfferSteps
  <2>3. NoneAfter(tasks[D], "PATH", "SAFE") => NoneAfter(tasks'[D], "PATH", "SAFE")
    <3>1. CASE p = D
      <4>1. tasks[p] \in Seq(Tasks)
        BY <1>1
      <4>2. \A a, b : NoneAfter(tasks[p], a, b) => NoneAfter(Tail(tasks[p]), a, b)
        BY <1>2, <4>1, TailKinds
      <4> QED
        BY <1>2, <3>1, <4>2
    <3>2. CASE p # D
      BY <1>4, <3>2, Two
    <3> QED
      BY <3>1, <3>2
  <2> DEFINE kinds == {}
             posted == {"SAFE"}
  <2>4. KeepsNet(kinds) /\ KeepsTasks(posted) /\ "PATH" \notin kinds /\ "FAIL" \notin kinds
    BY <1>1, <1>2, <1>3, NetKeeps
  <2>5. \A kind \in {"PATH", "INCOMING", "FAIL"} : kind \notin posted
    OBVIOUS
  <2> HIDE DEF kinds, posted
  <2> QED
    BY <1>1, <1>3, <1>7, <2>1, <2>2, <2>3, <2>4, <2>5, StageOffers
<1> QED
  BY <1>3, <1>5, <1>6, <1>8, EndingShut, Together

\* DISCONNECTION is written in clear on the prior channel.
LEMMA WriteDisconnectionHandover ==
  ASSUME Now, NEW p \in Peers, WriteDisconnection(p)
  PROVE  Handover'
<1> DEFINE q == Other(p)
<1>0. PICK old : old = bwu[p].old
  OBVIOUS
<1>1. /\ TypeOK /\ TypeOK' /\ Handover /\ Fine /\ ThreadStep(p) /\ bwu \in [Peers -> Threads]
  BY DEF Now, ThreadStep, TypeOK
<1>2. /\ bwu[p].pc = "disconnect" /\ At(p, "drain", None, old)
      /\ Written(p, old, "DISC", 0) \/ WriteFailed(p, old)
      /\ UNCHANGED <<chan, link, faults, conn, workerVars, tasks, hist, mgr, opened, requests>>
  BY <1>0 DEF WriteDisconnection
<1>3. Stage(p) = "ending" /\ Prior(p) = old
  BY <1>0, <1>2 DEF Stage, Prior
<1>4. /\ StageInv(p) /\ ProgressInv(p) /\ ChannelInv(p) /\ HoldsInv(p) /\ ~hist[p].desync
  BY <1>1 DEF Handover
<1>5. old \in Channels /\ old \in hist[p].safe /\ old # Act(p) /\ old # None
      /\ mgr[p].previous = None /\ ~chan[p][old].crypt
  <2>1. old \in Channels /\ old \in hist[p].safe /\ old # Act(p) /\ mgr[p].previous = None
    BY <1>1, <1>3, Standing
  <2> QED
    BY <1>3, <1>4, <2>1, NoneIsNoChannel DEF ChannelInv
<1>6. q \in Peers /\ q # p /\ Other(q) = p /\ \A r \in Peers : r = p \/ r = q
  BY Two
<1>7. Spent(q, old)
  BY <1>1, <1>3, <1>5 DEF Handover, CloseInv
<1>8. bwu'[p].pc = "drain" /\ bwu'[p].old = old
  BY <1>1, <1>2 DEF At
<1>9. SameView(p)
  BY <1>0, <1>2, <1>8, SameViewOf
<1>10. DeviceFine(q)' /\ SameView(q) /\ StillClosed(q) /\ QuietThread(q) /\ (LastDue(q)' <=> LastDue(q))
  BY <1>1, <1>2, <1>6, ThreadOther
<1>11. QuietView /\ QuietDue /\ \A r \in Peers : QuietThread(r)
  <2>1. LastDue(p)' <=> LastDue(p)
    BY <1>2, <1>8 DEF LastDue
  <2>2. StillClosed(p)
    BY <1>2 DEF StillClosed
  <2>3. QuietThread(p)
    BY <1>2, <1>8 DEF QuietThread, OfferSteps
  <2> QED
    BY <1>6, <1>9, <1>10, <2>1, <2>2, <2>3 DEF QuietView, QuietDue
<1>12. DeviceFine(p)'
  <2>1. Stage(p)' = Stage(p) /\ Act(p)' = Act(p) /\ Prior(p)' = Prior(p)
    BY <1>9 DEF SameView
  <2>2. StageInv(p)'
    BY <1>2, <1>3, <1>4, <1>8, <2>1 DEF StageInv
  <2>3. ProgressInv(p)'
    BY <1>2, <1>3, <1>4, <1>8, <2>1 DEF ProgressInv
  <2>4. ChannelInv(p)'
    BY <1>2, <1>4, <2>1 DEF ChannelInv
  <2>5. HoldsInv(p)'
    BY <1>2, <1>4, <2>1 DEF HoldsInv, Holds, workerVars
  <2> QED
    BY <1>2, <1>4, <2>2, <2>3, <2>4, <2>5 DEF DeviceFine
<1>13. /\ UNCHANGED seq /\ \A r \in Peers, x \in Channels : InClear(r, x)
       /\ KeepsNet({"DISC"})
  <2>1. CASE WriteFailed(p, old)
    <3>1. UNCHANGED <<net, seq>>
      BY <1>1, <1>5, <2>1, FailsInClear
    <3>2. KeepsNet({})
      BY <1>1, <3>1, NetKeeps
    <3>3. KeepsNet({"DISC"})
      BY <3>2 DEF KeepsNet, Keeps
    <3> QED
      BY <3>1, <3>3 DEF InClear
  <2>2. CASE Written(p, old, "DISC", 0)
    <3> DEFINE f == FrameOf(p, old, "DISC", 0)
    <3>1. Sent(p, old, "DISC", 0) /\ UNCHANGED seq
      BY <1>5, <2>2 DEF Written, Sent, Encode
    <3>2. [kind |-> "DISC", seq |-> 0, arg |-> 0] \in Frames
      BY ConstantsTyped DEF Frames, FrameKinds, Negotiation
    <3>3. Appends(p, old, f) /\ f.kind = "DISC" /\ f.seq = 0
      BY <1>1, <1>5, <3>1, <3>2, SentAppends
    <3> HIDE DEF f
    <3>4. Belongs(p, old, f) /\ f \in Frames
      BY <1>3, <1>5, <3>3 DEF Belongs, Clear, Mute, Appends
    <3>5. InClear(p, old)
      BY <1>5, <1>7, <3>3, <3>4 DEF InClear, Clear, Appends
    <3>6. \A r \in Peers, x \in Channels : InClear(r, x)
      BY <3>3, <3>5 DEF InClear, Appends
    <3>7. KeepsNet({"DISC"})
      BY <1>1, <1>5, <3>3, NetKeeps
    <3> QED
      BY <3>1, <3>6, <3>7
  <2> QED
    BY <1>2, <2>1, <2>2
<1>14. (\A r \in Peers : WireFine(r)') /\ QuietNet
  BY <1>1, <1>11, <1>13, ClearKept
<1>15. KeepsTasks({})
  BY <1>1, <1>2, TasksKeep
<1>16. ConnectedInv'
  BY <1>1, <1>2, <1>8, ConnectedStage
<1>17. \A r \in Peers : DeviceFine(r)'
  BY <1>6, <1>10, <1>12
<1> DEFINE kinds == {"DISC"}
           posted == {}
<1>18. KeepsNet(kinds) /\ KeepsTasks(posted) /\ "PATH" \notin kinds /\ "FAIL" \notin kinds
  BY <1>13, <1>15
<1>19. \A kind \in {"PATH", "INCOMING", "FAIL", "LAST", "SAFE"} : kind \notin posted
  OBVIOUS
<1> HIDE DEF kinds, posted
<1> QED
  BY <1>1, <1>2, <1>11, <1>14, <1>16, <1>17, <1>18, <1>19, QuietStep

\* What is drained from the prior channel is the peer's DISCONNECTION, or the peer has
\* closed it: both devices have read all of it.
LEMMA DrainLeaves ==
  ASSUME Now, NEW p \in Peers, DrainPrior(p)
  PROVE  LET old == Prior(p)
             q == Other(p)
         IN  /\ bwu[p].pc = "drain" /\ Stage(p) = "ending" /\ old \in Channels /\ old # None
             /\ bwu[p].old = old /\ old # Act(p)
             /\ MayClose(p, old) /\ old \in hist[p].safe /\ mgr[p].previous = None
             /\ Stage(q) \in {"ease", "agreed", "ending", "finishing"}
             /\ \/ UNCHANGED net
                \/ Takes(q, old) /\ Head(net[q][old]).kind = "DISC" /\ Head(net[q][old]).seq = 0
<1> DEFINE q == Other(p)
<1>0. PICK old : old = bwu[p].old
  OBVIOUS
<1>1. TypeOK /\ Handover /\ Fine
  BY DEF Now
<1>2. bwu[p].pc = "drain"
  BY DEF DrainPrior
<1>3. Stage(p) = "ending" /\ Prior(p) = old
  BY <1>0, <1>2 DEF Stage, Prior
<1>4. old \in Channels /\ old \in hist[p].safe /\ old # Act(p) /\ mgr[p].previous = None
      /\ old # None
  BY <1>1, <1>3, Standing, NoneIsNoChannel
<1>5. q \in Peers /\ q # p /\ Other(q) = p
  BY Two
<1>6. CloseInv(p, old) /\ CloseInv(q, old) /\ PairInv(q) /\ QueueInv(q, old)
  BY <1>1, <1>4, <1>5 DEF Handover
<1>7. Spent(q, old)
  BY <1>3, <1>6 DEF CloseInv
<1>8. MayClose(p, old) /\ \/ UNCHANGED net
                           \/ /\ Takes(q, old) /\ Head(net[q][old]).kind = "DISC"
                              /\ Head(net[q][old]).seq = 0
  <2>1. \/ CanRead(p, old) /\ net' = Popped(p, old)
        \/ ReadFails(p, old) /\ UNCHANGED net
    BY <1>0 DEF DrainPrior
  <2>2. CASE CanRead(p, old) /\ net' = Popped(p, old)
    <3>1. Takes(q, old)
      BY <1>1, <1>4, <2>2, PoppedTakes
    <3>2. net[q][old] # << >> /\ net[q][old] \in Seq(Frames)
      BY <1>1, <1>4, <1>5, <3>1, SidesTyped DEF Takes
    <3>3. Head(net[q][old]).kind = "DISC" /\ HasKind(net[q][old], "DISC")
      <4>1. Only(net[q][old], {"DISC"})
        BY <1>7 DEF Spent
      <4> QED
        BY <3>2, <4>1, TailKinds
    <3>4. Head(net[q][old]).seq = 0
      <4>1. Stamped(net[q][old], old)
        BY <1>6 DEF QueueInv
      <4> QED
        BY <3>2, <3>3, <4>1, TailNumbers DEF Clear
    <3>5. Spent(p, old) /\ mgr[q].previous # old
      BY <1>5, <1>6, <3>3 DEF CloseInv
    <3>6. MayClose(p, old)
      BY <1>4, <1>7, <3>5 DEF MayClose
    <3> QED
      BY <3>1, <3>3, <3>4, <3>6
  <2>3. CASE ReadFails(p, old) /\ UNCHANGED net
    <3>1. chan[p][old].closed \/ chan[q][old].closed
      BY <1>1, <1>4, <2>3 DEF ReadFails, Down, Fine, AllLinksUp
    <3>2. MayClose(p, old)
      BY <1>5, <1>6, <3>1 DEF CloseInv, MayClose
    <3> QED
      BY <2>3, <3>2
  <2> QED
    BY <2>1, <2>2, <2>3
<1>9. Stage(q) \in {"ease", "agreed", "ending", "finishing"}
  <2>1. Stage(q) \notin {"halting", "told"}
    BY <1>3, <1>5, <1>6 DEF PairInv
  <2> QED
    BY <1>1, <1>5, <2>1, Standing DEF Stages
<1> QED
  BY <1>0, <1>2, <1>3, <1>4, <1>8, <1>9

\* The device that closes the prior channel, afterwards.
LEMMA DrainedState ==
  ASSUME Now, NEW p \in Peers, DrainPrior(p)
  PROVE  /\ Stage(p)' = "finishing" /\ Act(p)' = Act(p) /\ Prior(p)' = None
         /\ bwu'[p].pc = "finish"
         /\ chan'[p][Prior(p)].closed
         /\ \A r \in Peers, x \in Channels :
               r # p \/ x # Prior(p) => chan'[r][x] = chan[r][x]
         /\ UNCHANGED <<seq, link, conn, workerVars, tasks, hist, mgr, opened>>
         /\ DeviceFine(p)'
<1>0. PICK old : old = Prior(p)
  OBVIOUS
<1>1. /\ TypeOK /\ TypeOK' /\ Handover /\ Fine
      /\ bwu \in [Peers -> Threads] /\ chan \in [Peers -> [Channels -> ChannelStates]]
  BY DEF Now, TypeOK, ChannelsTypeOK
<1>2. /\ bwu[p].pc = "drain" /\ Stage(p) = "ending" /\ old \in Channels /\ old # None
      /\ bwu[p].old = old /\ old # Act(p) /\ old \in hist[p].safe /\ mgr[p].previous = None
  BY <1>0, DrainLeaves
<1>3. /\ chan' = Closed(p, old) /\ At(p, "finish", None, None)
      /\ UNCHANGED <<seq, link, faults, conn, workerVars, tasks, hist, mgr, opened, requests>>
  BY <1>2 DEF DrainPrior
<1>4. bwu'[p].pc = "finish"
  BY <1>1, <1>3 DEF At
<1>5. Stage(p)' = "finishing" /\ Act(p)' = Act(p) /\ Prior(p)' = None
  BY <1>2, <1>3, <1>4 DEF Stage, Act, Prior
<1>6. /\ chan'[p][old].closed /\ ~chan'[p][old].paused
      /\ chan'[p][old].crypt = chan[p][old].crypt
      /\ \A r \in Peers, x \in Channels : r # p \/ x # old => chan'[r][x] = chan[r][x]
  BY <1>1, <1>2, <1>3 DEF Closed, ChannelStates
<1>7. StageInv(p) /\ ProgressInv(p) /\ ChannelInv(p) /\ HoldsInv(p) /\ ~hist[p].desync
  BY <1>1 DEF Handover
<1>8. StageInv(p)'
  <2>1. Prior(p)' # Act(p)'
    BY <1>1, <1>5, Standing, NoneIsNoChannel
  <2> QED
    BY <1>2, <1>3, <1>4, <1>5, <1>7, <2>1 DEF StageInv
<1>9. ProgressInv(p)'
  BY <1>2, <1>3, <1>4, <1>5, <1>7 DEF ProgressInv
<1>10. ChannelInv(p)'
  <2>1. ASSUME NEW x \in Channels
        PROVE  /\ chan'[p][x].paused <=> x = Act(p)
               /\ chan'[p][x].crypt <=> Encrypts(x) /\ x = Act(p)
               /\ x \in hist[p].safe => x # Act(p) /\ chan'[p][x].closed
    <3>1. /\ chan[p][x].paused <=> x = Act(p)
          /\ chan[p][x].crypt <=> Encrypts(x) /\ x = Act(p)
          /\ x \in hist[p].safe => x # Act(p) /\ (x = old \/ chan[p][x].closed)
      BY <1>0, <1>2, <1>7 DEF ChannelInv
    <3> QED
      BY <1>2, <1>6, <3>1
  <2>2. \A x \in Channels : x # Prior(p)'
    BY <1>5, NoneIsNoChannel
  <2> QED
    BY <1>3, <1>5, <2>1, <2>2 DEF ChannelInv
<1>11. HoldsInv(p)'
  <2>1. ASSUME NEW loop, loop.chan \in Channels, Holds(p, loop)
        PROVE  loop.pc \in {"idle", "read", "ack"} =>
                 loop.chan = Act(p)' \/ loop.chan = Prior(p)' \/ chan'[p][loop.chan].closed
    BY <1>0, <1>5, <1>6, <2>1 DEF Holds
  <2>2. reader[p].chan \in Channels /\ keeper[p].chan \in Channels /\ writer[p].chan \in Channels
    BY <1>1 DEF TypeOK, WorkersTypeOK, Loops
  <2> QED
    BY <1>3, <1>7, <2>1, <2>2 DEF HoldsInv, Holds, workerVars
<1>12. DeviceFine(p)'
  BY <1>3, <1>7, <1>8, <1>9, <1>10, <1>11 DEF DeviceFine
<1> QED
  BY <1>0, <1>3, <1>4, <1>5, <1>6, <1>12

\* The frames of the prior channel were all read; the numbers go on with the new one.
LEMMA DrainWire ==
  ASSUME Now, NEW p \in Peers, DrainPrior(p)
  PROVE  /\ \A r \in Peers : WireFine(r)'
         /\ \A r \in Peers, x \in Channels : Spent(r, x) => Spent(r, x)'
         /\ KeepsNet({"DISC"})
         /\ \A r \in Peers, x \in Channels : HasKind(net'[r][x], "DISC") => HasKind(net[r][x], "DISC")
<1> DEFINE q == Other(p)
<1>0. PICK old : old = Prior(p)
  OBVIOUS
<1>1. TypeOK /\ TypeOK' /\ WireInv /\ Handover /\ Fine /\ ThreadStep(p)
  BY DEF Now, ThreadStep
<1>2. /\ Stage(p) = "ending" /\ old \in Channels /\ old # None /\ old # Act(p)
      /\ MayClose(p, old)
      /\ \/ UNCHANGED net
         \/ Takes(q, old) /\ Head(net[q][old]).kind = "DISC" /\ Head(net[q][old]).seq = 0
  BY <1>0, DrainLeaves
<1>3. /\ Stage(p)' = "finishing" /\ Act(p)' = Act(p) /\ Prior(p)' = None
      /\ chan'[p][old].closed
      /\ \A r \in Peers, x \in Channels : r # p \/ x # old => chan'[r][x] = chan[r][x]
      /\ UNCHANGED <<seq, link, conn, workerVars, tasks, hist, mgr, opened>>
  BY <1>0, DrainedState
<1>4. q \in Peers /\ q # p /\ Other(q) = p /\ \A r \in Peers : r = p \/ r = q
  BY Two
<1>5. SameView(q) /\ StillClosed(q)
  BY <1>1, <1>3, <1>4, ThreadOther
<1>6. Cur(p) = old /\ Cur(p)' = Act(p) /\ Act(p) \in Channels
  BY <1>0, <1>1, <1>2, <1>3, Standing DEF Cur
<1>7. \A x \in Channels : net'[p][x] = net[p][x]
  BY <1>2, <1>4 DEF Takes
<1>8. NumberInv(p)'
  <2>1. NumberInv(p) /\ QueueInv(p, old) /\ seq[p].sent \in Nat /\ seq[q].received \in Nat
    BY <1>1, <1>2, <1>4, SidesTyped DEF Handover
  <2>2. Numbers(net[p][old]) = {}
    <3>1. \A i \in DOMAIN net[p][old] : net[p][old][i].kind = "DISC"
      BY <1>2 DEF MayClose, Spent, Only
    <3>2. \A i \in DOMAIN net[p][old] : net[p][old][i].seq = 0
      BY <2>1, <3>1 DEF QueueInv, Stamped, Clear
    <3> QED
      BY <3>2 DEF Numbers
  <2>3. (seq[q].received + 1)..seq[p].sent = {} /\ seq[q].received <= seq[p].sent
    BY <1>6, <2>1, <2>2 DEF NumberInv
  <2>4. \A x \in Channels : Numbers(net[p][x]) = {}
    BY <1>6, <2>1, <2>2 DEF NumberInv
  <2> QED
    BY <1>3, <1>6, <1>7, <2>3, <2>4 DEF NumberInv
<1>9. Cur(q)' = Cur(q)
  BY <1>5 DEF SameView, Cur
<1>10. NumberInv(q)'
  <2>1. NumberInv(q) /\ Cur(q) \in Channels
    BY <1>1, <1>4, Standing DEF Handover
  <2>2. CASE UNCHANGED net
    BY <1>3, <1>4, <1>9, <2>1, <2>2, NumberSame
  <2>3. CASE Takes(q, old) /\ Head(net[q][old]).seq = 0
    BY <1>1, <1>2, <1>3, <1>4, <1>9, <2>3, NumberTakes
  <2> QED
    BY <1>2, <2>2, <2>3
<1>11. ASSUME NEW r \in Peers, NEW x \in Channels
       PROVE  QueueInv(r, x)'
  <2>1. QueueInv(r, x) /\ (x \in hist'[r].safe <=> x \in hist[r].safe)
    BY <1>1, <1>3 DEF Handover
  <2>2. Mute(r, x)' => Mute(r, x)
    <3>1. CASE r = q
      BY <1>4, <1>5, <3>1, MuteKept
    <3>2. CASE r = p
      BY <1>0, <1>2, <1>3, <3>2 DEF Mute
    <3> QED
      BY <1>4, <3>1, <3>2
  <2>3. \/ net'[r][x] = net[r][x]
        \/ net[r][x] # << >> /\ net'[r][x] = Tail(net[r][x])
    BY <1>2 DEF Takes
  <2> QED
    BY <1>1, <2>1, <2>2, <2>3, QueueKept
<1>12. KeepsNet({"DISC"})
  <2>1. CASE UNCHANGED net
    <3>1. KeepsNet({})
      BY <1>1, <2>1, NetKeeps
    <3> QED
      BY <3>1 DEF KeepsNet, Keeps
  <2>2. CASE Takes(q, old) /\ Head(net[q][old]).kind = "DISC"
    <3>1. KeepsNet({Head(net[q][old]).kind})
      BY <1>1, <1>2, <1>4, <2>2, NetKeeps
    <3> QED
      BY <2>2, <3>1
  <2> QED
    BY <1>2, <2>1, <2>2
<1>13. ASSUME NEW r \in Peers, NEW x \in Channels
       PROVE  /\ Spent(r, x) => Spent(r, x)'
              /\ HasKind(net'[r][x], "DISC") => HasKind(net[r][x], "DISC")
  <2>1. \/ net'[r][x] = net[r][x]
        \/ net[r][x] # << >> /\ net'[r][x] = Tail(net[r][x])
    BY <1>2 DEF Takes
  <2>2. CASE net'[r][x] = net[r][x]
    BY <1>3, <2>2 DEF Spent
  <2>3. CASE net[r][x] # << >> /\ net'[r][x] = Tail(net[r][x])
    <3>1. net[r][x] \in Seq(Frames)
      BY <1>1, SidesTyped
    <3>2. /\ \A ks : Only(net[r][x], ks) => Only(Tail(net[r][x]), ks)
          /\ \A k : HasKind(Tail(net[r][x]), k) => HasKind(net[r][x], k)
      BY <2>3, <3>1, TailKinds
    <3> QED
      BY <1>3, <2>3, <3>2 DEF Spent
  <2> QED
    BY <2>1, <2>2, <2>3
<1> QED
  BY <1>4, <1>8, <1>10, <1>11, <1>12, <1>13 DEF WireFine

\* The shutdown of the prior channel, when one device has closed it.
LEMMA DrainShut ==
  ASSUME Now, NEW p \in Peers, DrainPrior(p), NEW r \in Peers
  PROVE  ShutFine(r)'
<1> DEFINE q == Other(p)
<1>0. PICK old : old = Prior(p)
  OBVIOUS
<1>1. TypeOK /\ TypeOK' /\ Handover /\ Fine /\ ThreadStep(p)
  BY DEF Now, ThreadStep
<1>2. /\ Stage(p) = "ending" /\ Stage(q) \in {"ease", "agreed", "ending", "finishing"}
      /\ old \in Channels /\ old # None /\ MayClose(p, old) /\ bwu[p].pc = "drain"
  BY <1>0, DrainLeaves
<1>3. /\ Stage(p)' = "finishing" /\ Act(p)' = Act(p) /\ Prior(p)' = None
      /\ chan'[p][old].closed /\ bwu'[p].pc = "finish"
      /\ \A s \in Peers, x \in Channels : s # p \/ x # old => chan'[s][x] = chan[s][x]
      /\ UNCHANGED <<seq, link, conn, workerVars, tasks, hist, mgr, opened>>
  BY <1>0, DrainedState
<1>4. q \in Peers /\ q # p /\ Other(q) = p /\ \A s \in Peers : s = p \/ s = q
  BY Two
<1>5. /\ \A s \in Peers, x \in Channels : Spent(s, x) => Spent(s, x)'
      /\ KeepsNet({"DISC"})
      /\ \A s \in Peers, x \in Channels : HasKind(net'[s][x], "DISC") => HasKind(net[s][x], "DISC")
  BY DrainWire
<1>6. SameView(q) /\ StillClosed(q) /\ (LastDue(q)' <=> LastDue(q))
  BY <1>1, <1>3, <1>4, ThreadOther
<1>7. Stage(q)' = Stage(q) /\ Act(q)' = Act(q) /\ Prior(q)' = Prior(q)
  BY <1>6 DEF SameView
<1>8. PairInv(p) /\ PairInv(q)
  BY <1>1, <1>4 DEF Handover
<1>9. PairInv(p)' /\ PairInv(q)'
  <2>1. ~Behind(p) /\ ~Behind(q) /\ ~Behind(p)' /\ ~Behind(q)'
    BY <1>2, <1>3, <1>4, <1>7 DEF Behind, Early
  <2>2. Act(p) = Act(q)
    BY <1>8, <2>1 DEF PairInv
  <2>3. Stage(q) \in {"agreed", "ending"} => Prior(q) = old
    <3>1. Stage(q) \in {"agreed", "ending"} => Prior(q) # None
      BY <1>1, <1>4, Standing
    <3> QED
      BY <1>0, <1>2, <1>8, <3>1 DEF PairInv
  <2>4. PairInv(p)'
    BY <1>2, <1>3, <1>7, <2>1, <2>2, <2>3 DEF PairInv
  <2>5. PairInv(q)'
    BY <1>2, <1>3, <1>4, <1>7, <2>1, <2>2 DEF PairInv
  <2> QED
    BY <2>4, <2>5
<1>10. ASSUME NEW s \in Peers
       PROVE  LastInv(s)' /\ SafeInv(s)'
  <2>1. /\ \A x \in Channels : Alike(net'[s][x], net[s][x], "LAST")
        /\ \A x \in Channels : Alike(net'[s][x], net[s][x], "SAFE")
    BY <1>5 DEF KeepsNet, Keeps, Alike
  <2>2. \A k : Alike(tasks'[Other(s)], tasks[Other(s)], k)
    BY <1>3 DEF Alike
  <2>3. LastDue(p)' <=> LastDue(p)
    BY <1>2, <1>3 DEF LastDue
  <2>4. /\ LastDue(Other(s))' <=> LastDue(Other(s))
        /\ NoneAfter(tasks[Other(s)], "SAFE", "LAST") => NoneAfter(tasks'[Other(s)], "SAFE", "LAST")
    BY <1>3, <1>4, <1>6, <2>3
  <2>5. /\ LastOut(s)' <=> LastOut(s)
        /\ Prior(s)' = Prior(s) \/ ~LastOut(s)
        /\ SafeOut(s)' <=> SafeOut(s)
        /\ Prior(Other(s))' = Prior(Other(s)) \/ ~SafeOut(s)
    BY <1>2, <1>3, <1>4, <1>7 DEF LastOut, SafeOut
  <2>6. LastInv(s)'
    BY <1>1, <2>1, <2>2, <2>4, <2>5, LastStage
  <2>7. SafeInv(s)'
    BY <1>1, <1>5, <2>1, <2>2, <2>5, SafeStage
  <2> QED
    BY <2>6, <2>7
<1>11. ASSUME NEW s \in Peers, NEW x \in Channels
       PROVE  CloseInv(s, x)'
  <2>1. Other(s) \in Peers /\ (s = p \/ s = q) /\ CloseInv(s, x)
    BY <1>1, Two DEF Handover
  <2>2. ASSUME Stage(s)' = "ending", Prior(s)' = x
        PROVE  Spent(Other(s), x)'
    BY <1>3, <1>4, <1>5, <1>7, <2>1, <2>2 DEF CloseInv
  <2>3. chan'[s][x].closed => chan[s][x].closed \/ MayClose(s, x)
    BY <1>2, <1>3
  <2>4. \A t \in Peers : mgr'[t].previous = mgr[t].previous
    BY <1>3
  <2>5. Spent(s, x) => Spent(s, x)'
    BY <1>5
  <2>6. Spent(Other(s), x) => Spent(Other(s), x)'
    BY <1>5, <2>1
  <2>7. HasKind(net'[s][x], "DISC") => HasKind(net[s][x], "DISC")
    BY <1>5
  <2> QED
    BY <1>1, <2>2, <2>3, <2>4, <2>5, <2>6, <2>7, CloseMoves
<1> QED
  BY <1>4, <1>9, <1>10, <1>11 DEF ShutFine

\* The prior channel is drained and closed.
LEMMA DrainPriorHandover ==
  ASSUME Now, NEW p \in Peers, DrainPrior(p)
  PROVE  Handover'
<1> DEFINE q == Other(p)
<1>1. TypeOK /\ TypeOK' /\ Handover /\ Fine /\ ThreadStep(p)
  BY DEF Now, ThreadStep
<1>2. Stage(p) = "ending" /\ bwu[p].pc = "drain"
  BY DrainLeaves
<1>3. /\ Stage(p)' = "finishing" /\ Act(p)' = Act(p) /\ Prior(p)' = None
      /\ bwu'[p].pc = "finish"
      /\ UNCHANGED <<seq, link, conn, workerVars, tasks, hist, mgr, opened>>
      /\ DeviceFine(p)'
  BY DrainedState
<1>4. \A r \in Peers : r # p => DeviceFine(r)' /\ SameView(r) /\ QuietThread(r)
  BY <1>1, <1>3, ThreadOther
<1>5. (\A r \in Peers : WireFine(r)') /\ KeepsNet({"DISC"})
  BY DrainWire
<1>6. ConnectedInv'
  BY <1>1, <1>3, ConnectedStage
<1>7. SameRole
  <2>1. \A r \in Peers : r # p =>
          /\ Stage(r)' = Stage(r) /\ Act(r)' = Act(r) /\ Prior(r)' = Prior(r)
    BY <1>4 DEF SameView
  <2>2. \A r \in Peers : (Behind(r)' => Behind(r)) /\ Act(r)' = Act(r)
    BY <1>2, <1>3, <2>1, Two DEF Behind, Early
  <2>3. \A r \in Peers, x \in Channels : FreshFor(r, x) => FreshFor(r, x)'
    BY <1>3, <2>1, NoneIsNoChannel DEF FreshFor
  <2> QED
    BY <1>2, <2>1, <2>2, <2>3, Two DEF SameRole, Early
<1>8. \A r \in Peers : QuietThread(r)
  BY <1>2, <1>3, <1>4 DEF QuietThread, OfferSteps
<1>9. KeepsTasks({})
  BY <1>1, <1>3, TasksKeep
<1>10. OffersFine'
  <2> DEFINE kinds == {"DISC"}
             posted == {}
  <2>1. KeepsNet(kinds) /\ KeepsTasks(posted) /\ "PATH" \notin kinds /\ "FAIL" \notin kinds
    BY <1>5, <1>9
  <2>2. \A kind \in {"PATH", "INCOMING", "FAIL"} : kind \notin posted
    OBVIOUS
  <2> HIDE DEF kinds, posted
  <2> QED
    BY <1>1, <1>3, <1>7, <1>8, <2>1, <2>2, StageOffers
<1> QED
  BY <1>3, <1>4, <1>5, <1>6, <1>10, DrainShut, Together

-----------------------------------------------------------------------------
(* The upgraded channel is resumed *)

\* The device that has closed the prior channel goes on with the new one; by then the
\* peer has answered its LAST too.
LEMMA EaseState ==
  ASSUME Now, NEW p \in Peers, ResumeUpgraded(p)
  PROVE  /\ Stage(p) = "finishing" /\ Stage(p)' = "ease" /\ Act(p)' = Act(p)
         /\ Prior(p) = None /\ Prior(p)' = None
         /\ Stage(Other(p)) \in {"ease", "agreed", "ending", "finishing"}
         /\ bwu[p].pc = "finish" /\ bwu'[p].pc = "idle"
         /\ mgr'[p].previous = mgr[p].previous /\ ~mgr'[p].upgraded /\ ~mgr[p].upgraded
         /\ mgr[p].inProgress /\ ~mgr'[p].inProgress
         /\ mgr'[p].listening = mgr[p].listening /\ mgr'[p].retry = mgr[p].retry
         /\ \A r \in Peers, x \in Channels : chan'[r][x].closed = chan[r][x].closed
         /\ \A r \in Peers : hist'[r].safe = hist[r].safe /\ (r # p => hist'[r] = hist[r])
         /\ UNCHANGED <<net, seq, link, conn, workerVars, tasks, opened>>
         /\ DeviceFine(p)'
<1>0. PICK c : c = Act(p)
  OBVIOUS
<1>1. /\ TypeOK /\ TypeOK' /\ Handover /\ Fine
      /\ bwu \in [Peers -> Threads] /\ mgr \in [Peers -> Managers] /\ hist \in [Peers -> Histories]
      /\ chan \in [Peers -> [Channels -> ChannelStates]]
  BY DEF Now, TypeOK, ChannelsTypeOK, WorkersTypeOK
<1>2. /\ bwu[p].pc = "finish" /\ Idle(p)
      /\ UNCHANGED <<net, seq, link, faults, conn, workerVars, tasks, opened, requests>>
  BY DEF ResumeUpgraded
<1>3. Stage(p) = "finishing"
  BY <1>2 DEF Stage
<1>4. /\ c \in Channels /\ c # None /\ Prior(p) = None /\ mgr[p].previous = None
      /\ c \notin hist[p].safe
  BY <1>0, <1>1, <1>3, Standing, NoneIsNoChannel
<1>5. /\ StageInv(p) /\ ProgressInv(p) /\ ChannelInv(p) /\ HoldsInv(p) /\ ~hist[p].desync
      /\ PairInv(Other(p))
  BY <1>1, Two DEF Handover
<1>6. /\ chan' = Resumed(p, c) /\ mgr' = [mgr EXCEPT ![p].inProgress = FALSE]
      /\ hist' = [hist EXCEPT ![p].notified = @ \cup {c}]
  BY <1>0, <1>4 DEF ResumeUpgraded, Act
<1>7. /\ mgr'[p].previous = mgr[p].previous /\ mgr'[p].upgraded = mgr[p].upgraded
      /\ ~mgr'[p].inProgress
      /\ mgr'[p].listening = mgr[p].listening /\ mgr'[p].retry = mgr[p].retry
  <2>1. mgr[p] \in Managers
    BY <1>1
  <2> QED
    BY <1>1, <1>6, <2>1 DEF Managers
<1>8. /\ hist'[p].safe = hist[p].safe /\ hist'[p].desync = hist[p].desync
      /\ \A r \in Peers : r # p => hist'[r] = hist[r]
  <2>1. hist[p] \in Histories
    BY <1>1
  <2> QED
    BY <1>1, <1>6, <2>1 DEF Histories
<1>9. /\ ~chan'[p][c].paused /\ chan'[p][c].crypt = chan[p][c].crypt
      /\ \A x \in Channels : x # c => chan'[p][x] = chan[p][x]
      /\ \A r \in Peers, x \in Channels : chan'[r][x].closed = chan[r][x].closed
  BY <1>1, <1>4, <1>6 DEF Resumed, ChannelStates
<1>10. bwu'[p].pc = "idle"
  BY <1>1, <1>2 DEF Idle, At
<1>11. Stage(p)' = "ease" /\ Act(p)' = Act(p) /\ Prior(p)' = None
  BY <1>2, <1>4, <1>7, <1>10 DEF Stage, Act, Prior
<1>12. ~mgr[p].upgraded /\ mgr[p].inProgress
  BY <1>3, <1>5 DEF StageInv, ProgressInv
<1>13. StageInv(p)'
  <2>1. Prior(p)' # Act(p)'
    BY <1>0, <1>4, <1>11
  <2> QED
    BY <1>2, <1>5, <1>10, <1>11, <2>1 DEF StageInv
<1>14. ProgressInv(p)'
  BY <1>7, <1>10, <1>11 DEF ProgressInv
<1>15. ChannelInv(p)'
  <2>1. ASSUME NEW x \in Channels
        PROVE  /\ ~chan'[p][x].paused
               /\ chan'[p][x].crypt <=> Encrypts(x) /\ x = c
               /\ x \in hist'[p].safe => x # c /\ chan'[p][x].closed
    <3>1. /\ chan[p][x].paused <=> x = c
          /\ chan[p][x].crypt <=> Encrypts(x) /\ (x = c \/ x = None)
          /\ x \in hist[p].safe => x # c /\ (x = None \/ chan[p][x].closed)
      BY <1>0, <1>3, <1>4, <1>5 DEF ChannelInv
    <3>2. x # None
      BY NoneIsNoChannel
    <3> QED
      BY <1>8, <1>9, <3>1, <3>2
  <2>2. \A x \in Channels : x # Prior(p)'
    BY <1>11, NoneIsNoChannel
  <2> QED
    BY <1>0, <1>11, <2>1, <2>2 DEF ChannelInv
<1>16. HoldsInv(p)'
  <2>1. ASSUME NEW loop, loop.chan \in Channels, Holds(p, loop)
        PROVE  loop.pc \in {"idle", "read", "ack"} =>
                 loop.chan = Act(p)' \/ loop.chan = Prior(p)' \/ chan'[p][loop.chan].closed
    BY <1>4, <1>9, <1>11, <2>1 DEF Holds
  <2>2. reader[p].chan \in Channels /\ keeper[p].chan \in Channels /\ writer[p].chan \in Channels
    BY <1>1 DEF TypeOK, WorkersTypeOK, Loops
  <2> QED
    BY <1>2, <1>5, <2>1, <2>2 DEF HoldsInv, Holds, workerVars
<1>17. DeviceFine(p)'
  BY <1>5, <1>8, <1>13, <1>14, <1>15, <1>16 DEF DeviceFine
<1>18. Stage(Other(p)) \in {"ease", "agreed", "ending", "finishing"}
  <2>1. Stage(Other(p)) \notin {"halting", "told"}
    BY <1>3, <1>5, Two DEF PairInv
  <2> QED
    BY <1>1, <2>1, Standing, Two DEF Stages
<1> QED
  BY <1>2, <1>3, <1>4, <1>7, <1>8, <1>9, <1>10, <1>11, <1>12, <1>17, <1>18

\* The shutdown of the prior channel, when one device is through with it.
LEMMA EaseShut ==
  ASSUME Now, NEW p \in Peers, ResumeUpgraded(p), NEW r \in Peers
  PROVE  ShutFine(r)' /\ WireFine(r)'
<1> DEFINE q == Other(p)
<1>1. TypeOK /\ TypeOK' /\ Handover /\ Fine /\ ThreadStep(p)
  BY DEF Now, ThreadStep
<1>2. /\ Stage(p) = "finishing" /\ Stage(p)' = "ease" /\ Act(p)' = Act(p)
      /\ Prior(p) = None /\ Prior(p)' = None
      /\ Stage(q) \in {"ease", "agreed", "ending", "finishing"}
      /\ bwu[p].pc = "finish" /\ bwu'[p].pc = "idle"
      /\ mgr'[p].previous = mgr[p].previous /\ ~mgr'[p].upgraded /\ ~mgr[p].upgraded
      /\ \A s \in Peers, x \in Channels : chan'[s][x].closed = chan[s][x].closed
      /\ \A s \in Peers : hist'[s].safe = hist[s].safe /\ (s # p => hist'[s] = hist[s])
      /\ UNCHANGED <<net, seq, link, conn, workerVars, tasks, opened>>
  BY EaseState
<1>3. q \in Peers /\ q # p /\ Other(q) = p /\ \A s \in Peers : s = p \/ s = q
  BY Two
<1>4. SameView(q) /\ StillClosed(q) /\ (LastDue(q)' <=> LastDue(q))
  BY <1>1, <1>2, <1>3, ThreadOther
<1>5. Stage(q)' = Stage(q) /\ Act(q)' = Act(q) /\ Prior(q)' = Prior(q)
      /\ mgr'[q].previous = mgr[q].previous
  BY <1>4 DEF SameView
<1>6. PairInv(p) /\ PairInv(q)
  BY <1>1, <1>3 DEF Handover
<1>7. PairInv(p)' /\ PairInv(q)'
  <2>1. ~Behind(p) /\ ~Behind(q) /\ ~Behind(p)' /\ ~Behind(q)'
    BY <1>2, <1>3, <1>5 DEF Behind, Early
  <2>2. Act(p) = Act(q)
    BY <1>6, <2>1 DEF PairInv
  <2>3. Stage(q) \in {"agreed", "ending"} => Prior(q) \in Channels
    BY <1>1, <1>3, Standing
  <2>4. PairInv(p)'
    BY <1>2, <1>5, <1>6, <2>1, <2>2, <2>3 DEF PairInv
  <2>5. PairInv(q)'
    BY <1>2, <1>3, <1>5, <2>1, <2>2 DEF PairInv
  <2> QED
    BY <2>4, <2>5
<1>8. ASSUME NEW s \in Peers
      PROVE  LastInv(s)' /\ SafeInv(s)'
  <2>1. /\ \A x \in Channels : Alike(net'[s][x], net[s][x], "LAST")
        /\ \A x \in Channels : Alike(net'[s][x], net[s][x], "SAFE")
        /\ \A x \in Channels : Spent(s, x) => Spent(s, x)'
    BY <1>2 DEF Alike, Spent
  <2>2. \A k : Alike(tasks'[Other(s)], tasks[Other(s)], k)
    BY <1>2 DEF Alike
  <2>3. LastDue(p)' <=> LastDue(p)
    BY <1>2 DEF LastDue
  <2>4. /\ LastDue(Other(s))' <=> LastDue(Other(s))
        /\ NoneAfter(tasks[Other(s)], "SAFE", "LAST") => NoneAfter(tasks'[Other(s)], "SAFE", "LAST")
    BY <1>2, <1>3, <1>4, <2>3
  <2>5. /\ LastOut(s)' <=> LastOut(s)
        /\ Prior(s)' = Prior(s)
        /\ SafeOut(s)' <=> SafeOut(s)
        /\ Prior(Other(s))' = Prior(Other(s))
    BY <1>2, <1>3, <1>5 DEF LastOut, SafeOut
  <2>6. LastInv(s)'
    BY <1>1, <2>1, <2>2, <2>4, <2>5, LastStage
  <2>7. SafeInv(s)'
    BY <1>1, <2>1, <2>2, <2>5, SafeStage
  <2> QED
    BY <2>6, <2>7
<1>9. ASSUME NEW s \in Peers, NEW x \in Channels
      PROVE  CloseInv(s, x)'
  <2>1. Other(s) \in Peers /\ (s = p \/ s = q) /\ CloseInv(s, x)
    BY <1>1, Two DEF Handover
  <2>2. \A t \in Peers : Spent(t, x) => Spent(t, x)'
    BY <1>2 DEF Spent
  <2>3. ASSUME Stage(s)' = "ending", Prior(s)' = x
        PROVE  Spent(Other(s), x)'
    BY <1>2, <1>3, <1>5, <2>1, <2>2, <2>3 DEF CloseInv
  <2>4. \A t \in Peers : mgr'[t].previous = mgr[t].previous
    BY <1>2, <1>3, <1>5
  <2>5. chan'[s][x].closed = chan[s][x].closed
    BY <1>2
  <2>6. HasKind(net'[s][x], "DISC") => HasKind(net[s][x], "DISC")
    BY <1>2
  <2> QED
    BY <1>1, <2>1, <2>2, <2>3, <2>4, <2>5, <2>6, CloseMoves
<1>10. WireFine(p)'
  <2>1. Cur(p)' = Cur(p) /\ \A x \in Channels : Mute(p, x)' => Mute(p, x)
    BY <1>2 DEF Cur, Mute
  <2> QED
    BY <1>1, <1>2, <2>1, WireSame
<1>11. WireFine(q)'
  BY <1>1, <1>2, <1>3, <1>4, WireOther
<1> QED
  BY <1>3, <1>7, <1>8, <1>9, <1>10, <1>11 DEF ShutFine

\* The writers waiting on the upgraded channel are released, and the upgrade is over.
LEMMA ResumeHandover ==
  ASSUME Now, NEW p \in Peers, ResumeUpgraded(p)
  PROVE  Handover'
<1> DEFINE q == Other(p)
           A == Advertiser
           D == Discoverer
<1>1. TypeOK /\ TypeOK' /\ Handover /\ Fine /\ ThreadStep(p)
  BY DEF Now, ThreadStep
<1>2. /\ Stage(p) = "finishing" /\ Stage(p)' = "ease" /\ Act(p)' = Act(p)
      /\ Prior(p) = None /\ Prior(p)' = None
      /\ Stage(q) \in {"ease", "agreed", "ending", "finishing"}
      /\ bwu[p].pc = "finish" /\ bwu'[p].pc = "idle"
      /\ mgr[p].inProgress /\ ~mgr'[p].inProgress
      /\ mgr'[p].listening = mgr[p].listening /\ mgr'[p].retry = mgr[p].retry
      /\ \A r \in Peers : hist'[r].safe = hist[r].safe /\ (r # p => hist'[r] = hist[r])
      /\ UNCHANGED <<net, seq, link, conn, workerVars, tasks, opened>>
      /\ DeviceFine(p)'
  BY EaseState
<1>3. \A r \in Peers : r # p => DeviceFine(r)' /\ SameView(r) /\ QuietThread(r) /\ mgr'[r] = mgr[r]
  BY <1>1, <1>2, ThreadOther, ThreadApart DEF Apart
<1>4. ConnectedInv'
  BY <1>1, <1>2, ConnectedStage
<1>5. SameRole
  <2>1. \A r \in Peers : r # p =>
          /\ Stage(r)' = Stage(r) /\ Act(r)' = Act(r) /\ Prior(r)' = Prior(r)
    BY <1>3 DEF SameView
  <2>2. \A r \in Peers : (Behind(r)' => Behind(r)) /\ Act(r)' = Act(r)
    BY <1>2, <2>1, Two DEF Behind, Early
  <2>3. \A r \in Peers, x \in Channels : FreshFor(r, x) => FreshFor(r, x)'
    BY <1>2, <2>1 DEF FreshFor
  <2> QED
    BY <1>2, <2>1, <2>2, <2>3, Two DEF SameRole, Early
<1>6. \A r \in Peers : QuietThread(r)
  BY <1>2, <1>3 DEF QuietThread, OfferSteps
<1>7. /\ mgr'[A].listening = mgr[A].listening
      /\ \/ mgr'[A].inProgress = mgr[A].inProgress
         \/ \A c \in Channels : ~Underway(c) /\ ~PathAt(c)
  <2>1. CASE p = A
    <3>1. \A c \in Channels : FlowInv(c) /\ JoinInv(c)
      BY <1>1 DEF Handover
    <3>2. \A c \in Channels : ~Underway(c) /\ ~PathAt(c)
      BY <1>2, <2>1, <3>1 DEF FlowInv, JoinInv, Underway, Early
    <3> QED
      BY <1>2, <2>1, <3>2
  <2>2. CASE p # A
    BY <1>3, <2>2, Two
  <2> QED
    BY <2>1, <2>2
<1>8. OffersFine'
  <2> DEFINE kinds == {}
             posted == {}
  <2>1. KeepsNet(kinds) /\ KeepsTasks(posted) /\ "PATH" \notin kinds /\ "FAIL" \notin kinds
    BY <1>1, <1>2, NetKeeps, TasksKeep
  <2>2. \A kind \in {"PATH", "INCOMING", "FAIL"} : kind \notin posted
    OBVIOUS
  <2> HIDE DEF kinds, posted
  <2> QED
    BY <1>1, <1>2, <1>5, <1>6, <1>7, <2>1, <2>2, StageOffers
<1> QED
  BY <1>2, <1>3, <1>4, <1>8, EaseShut, Together

-----------------------------------------------------------------------------
(* Every step *)

\* Nothing a registered endpoint's removal, a broken transport or a late write begins
\* is undone.
LEMMA WorkersBefore ==
  ASSUME TypeOK, WorkersNext
  PROVE  /\ \A c \in Channels : link[c].broken => link'[c].broken
         /\ \A r \in Peers : /\ hist[r].late => hist'[r].late
                             /\ conn'[r].em = "up" => conn[r].em = "up"
<1>1. /\ conn \in [Peers -> Connections] /\ hist \in [Peers -> Histories]
      /\ link \in [Channels -> Links]
  BY DEF TypeOK, WorkersTypeOK, ChannelsTypeOK
<1>2. ASSUME NEW p \in Peers
      PROVE  /\ ReaderStep(p) \/ KeeperStep(p) \/ WriterStep(p) => UNCHANGED <<link, conn>>
             /\ KeeperTimeout(p) \/ BeginRemoval(p) \/ RemoveEndpoint(p) \/ Disconnected(p)
                \/ OnConnectionAccepted(p) \/ Leave(p) => UNCHANGED <<link, hist>>
  BY DEF ReaderStep, KeeperStep, WriterStep, ReaderFetch, ReaderRead, ReaderFail, ReaderFrame,
     ReaderAck, KeeperFetch, KeeperWrite, WriterFetch, WriterWrite, KeeperTimeout, BeginRemoval,
     RemoveEndpoint, Disconnected, OnConnectionAccepted, Leave
<1>3. ASSUME NEW p \in Peers, ReaderStep(p) \/ KeeperStep(p) \/ WriterStep(p), NEW r \in Peers
      PROVE  hist[r].late => hist'[r].late
  <2>1. CASE UNCHANGED hist
    BY <2>1
  <2>2. CASE ReaderFrame(p)
    <3>1. \/ UNCHANGED hist
          \/ \E x : hist' = [hist EXCEPT ![p].got = x]
          \/ \E x : hist' = [hist EXCEPT ![p].desync = x]
      BY <2>2 DEF ReaderFrame, Route
    <3> QED
      BY <1>1, <3>1 DEF Histories
  <2>3. CASE \E c : hist' = Noted(p, c)
    BY <1>1, <2>3 DEF Noted, Histories
  <2>4. CASE WriterWrite(p)
    <3>1. \/ UNCHANGED hist
          \/ \E x : hist' = [hist EXCEPT ![p].overdue = x, ![p].late = TRUE]
          \/ \E x : hist' = [hist EXCEPT ![p].intime = x]
      BY <2>4 DEF WriterWrite
    <3> QED
      BY <1>1, <3>1 DEF Histories
  <2> QED
    BY <1>3, <2>1, <2>2, <2>3, <2>4
    DEF ReaderStep, KeeperStep, WriterStep, ReaderFetch, ReaderRead, ReaderFail,
        ReaderAck, KeeperFetch, KeeperWrite, WriterFetch
<1>4. ASSUME NEW p \in Peers, NEW r \in Peers,
             BeginRemoval(p) \/ RemoveEndpoint(p) \/ Disconnected(p)
             \/ OnConnectionAccepted(p) \/ Leave(p)
      PROVE  conn'[r].em = "up" => conn[r].em = "up"
  <2>1. CASE BeginRemoval(p)
    BY <1>1, <2>1 DEF BeginRemoval, Connections
  <2>2. CASE RemoveEndpoint(p)
    BY <1>1, <2>2 DEF RemoveEndpoint, Connections
  <2>3. CASE Disconnected(p)
    BY <1>1, <2>3 DEF Disconnected, Connections
  <2>4. CASE OnConnectionAccepted(p)
    BY <1>1, <2>4 DEF OnConnectionAccepted, Connections
  <2>5. CASE Leave(p)
    BY <1>1, <2>5 DEF Leave, Connections
  <2> QED
    BY <1>4, <2>1, <2>2, <2>3, <2>4, <2>5
<1>5. ASSUME NEW c \in Channels, BreakLink(c)
      PROVE  UNCHANGED <<conn, hist>> /\ \A d \in Channels : link[d].broken => link'[d].broken
  BY <1>1, <1>5 DEF BreakLink, Break, Links
<1> QED
  BY <1>2, <1>3, <1>4, <1>5 DEF WorkersNext, KeeperTimeout

\* The same of BwuManager's steps.
LEMMA ThreadBefore ==
  ASSUME TypeOK, NEW p \in Peers, ThreadStep(p)
  PROVE  /\ \A c \in Channels : link[c].broken => link'[c].broken
         /\ \A r \in Peers : /\ hist[r].late => hist'[r].late
                             /\ conn'[r].em = "up" => conn[r].em = "up"
<1>1. /\ conn \in [Peers -> Connections] /\ hist \in [Peers -> Histories]
      /\ link \in [Channels -> Links]
  BY DEF TypeOK, WorkersTypeOK, ChannelsTypeOK
<1>2. CASE UNCHANGED <<link, hist, conn>>
  BY <1>2
<1>3. CASE InitiateUpgrade(p)
  <2>1. UNCHANGED <<hist, conn>>
        /\ (UNCHANGED link \/ \E c, x : link' = [link EXCEPT ![c].medium = x])
    BY <1>3 DEF InitiateUpgrade
  <2> QED
    BY <1>1, <2>1 DEF Links
<1>4. CASE ProcessPath(p)
  <2>1. UNCHANGED <<hist, conn>>
        /\ (UNCHANGED link \/ \E c : link' = [link EXCEPT ![c].dialled = TRUE])
    BY <1>4 DEF ProcessPath, CloseAllChannels, Join, JoinFails
  <2> QED
    BY <1>1, <2>1 DEF Links
<1>5. CASE ReplaceChannel(p)
  <2>1. UNCHANGED <<link, hist>> /\ (UNCHANGED conn \/ \E c : conn' = [conn EXCEPT ![p].active = c])
    BY <1>5 DEF ReplaceChannel
  <2> QED
    BY <1>1, <2>1 DEF Connections
<1>6. CASE WriteSafe(p)
  <2>1. UNCHANGED <<link, conn>> /\ (UNCHANGED hist \/ \E x : hist' = [hist EXCEPT ![p].safe = x])
    BY <1>6 DEF WriteSafe
  <2> QED
    BY <1>1, <2>1 DEF Histories
<1>7. CASE ResumeUpgraded(p)
  <2>1. /\ UNCHANGED <<link, conn>>
        /\ UNCHANGED hist \/ \E x : hist' = [hist EXCEPT ![p].notified = x]
    BY <1>7 DEF ResumeUpgraded
  <2> QED
    BY <1>1, <2>1 DEF Histories
<1>8. CASE EndpointDisconnected(p)
  <2>1. /\ UNCHANGED <<link, hist>>
        /\ conn' = [conn EXCEPT ![p].em = IF @ = "removing" THEN "cleaned" ELSE @]
    BY <1>8 DEF EndpointDisconnected
  <2> QED
    BY <1>1, <2>1 DEF Connections
<1>9. CASE \/ WritePath(p) \/ ProcessUpgradeFailure(p) \/ RetryUpgrade(p) \/ AwaitAck(p)
           \/ WriteFailure(p) \/ IncomingConnection(p) \/ WriteLast(p) \/ DropFrame(p)
           \/ ProcessLast(p) \/ ProcessSafe(p) \/ WriteDisconnection(p) \/ DrainPrior(p)
  BY <1>2, <1>9
  DEF WritePath, ProcessUpgradeFailure, RetryUpgrade, AwaitAck, WriteFailure, IncomingConnection,
      WriteLast, DropFrame, ProcessLast, ProcessSafe, WriteDisconnection, DrainPrior
<1> QED
  BY <1>3, <1>4, <1>5, <1>6, <1>7, <1>8, <1>9 DEF ThreadStep

\* So while all is fine, all was fine.
LEMMA FineBefore ==
  ASSUME TypeOK, TypeOK', Next, Fine'
  PROVE  Fine
<1>1. /\ \A c \in Channels : link[c].broken => link'[c].broken
      /\ \A r \in Peers : /\ hist[r].late => hist'[r].late
                          /\ conn'[r].em = "up" => conn[r].em = "up"
  <2>1. CASE WorkersNext
    BY <2>1, WorkersBefore
  <2>2. ASSUME NEW p \in Peers, ThreadStep(p)
        PROVE  /\ \A c \in Channels : link[c].broken => link'[c].broken
               /\ \A r \in Peers : /\ hist[r].late => hist'[r].late
                                   /\ conn'[r].em = "up" => conn[r].em = "up"
    BY <2>2, ThreadBefore
  <2>3. ASSUME NEW p \in Peers, RequestUpgrade(p) \/ RetryAlarm(p)
        PROVE  UNCHANGED <<link, hist, conn>>
    BY <2>3 DEF RequestUpgrade, RetryAlarm
  <2>4. ASSUME NEW c \in Channels, Accept(c)
        PROVE  /\ UNCHANGED <<hist, conn>>
               /\ \A d \in Channels : link[d].broken => link'[d].broken
    BY <2>4 DEF Accept, TypeOK, ChannelsTypeOK, Links
  <2> QED
    BY <2>1, <2>2, <2>3, <2>4 DEF Next
<1>2. /\ link \in [Channels -> Links] /\ link' \in [Channels -> Links]
      /\ hist \in [Peers -> Histories] /\ hist' \in [Peers -> Histories]
  BY DEF TypeOK, WorkersTypeOK, ChannelsTypeOK
<1>3. AllLinksUp' => AllLinksUp
  BY <1>1 DEF AllLinksUp
<1> QED
  BY <1>1, <1>3 DEF Fine, Registered

\* A step that all is fine after takes the device and its connection through the
\* switch one step at most.
LEMMA NextHandover ==
  ASSUME Now, Next
  PROVE  Handover'
<1>1. TypeOK /\ TypeOK' /\ Fine /\ Fine'
  BY DEF Now
<1>2. ASSUME NEW p \in Peers, ThreadStep(p)
      PROVE  Handover'
  BY <1>2, NeverDropped, InitiateHandover, WritePathHandover, FailureHandover, RetryHandover,
     ProcessPathHandover, AwaitAckHandover, WriteFailureHandover, IncomingHandover,
     ReplaceHandover, WriteLastHandover, ProcessLastHandover, WriteSafeHandover,
     ProcessSafeHandover, WriteDisconnectionHandover, DrainPriorHandover, ResumeHandover
  DEF ThreadStep
<1>3. ASSUME WorkersNext, UNCHANGED <<mgr, bwu, opened, requests>>
      PROVE  Handover'
  <2>1. ASSUME NEW p \in Peers
        PROVE  ~BeginRemoval(p) /\ ~RemoveEndpoint(p) /\ ~Disconnected(p)
    <3>1. conn \in [Peers -> Connections] /\ conn[p] \in Connections /\ conn'[p].em = "up"
      BY <1>1 DEF TypeOK, WorkersTypeOK, Fine, Registered
    <3>2. ~BeginRemoval(p)
      BY <3>1 DEF BeginRemoval, Connections
    <3>3. ~RemoveEndpoint(p)
      BY <3>1 DEF RemoveEndpoint, Connections
    <3>4. ~Disconnected(p)
      BY <3>1 DEF Disconnected, Connections
    <3> QED
      BY <3>2, <3>3, <3>4
  <2>2. ASSUME NEW c \in Channels
        PROVE  ~BreakLink(c)
    <3>1. link \in [Channels -> Links] /\ ~link'[c].broken
      BY <1>1 DEF Fine, AllLinksUp, TypeOK, ChannelsTypeOK
    <3>2. ASSUME link' = [link EXCEPT ![c].broken = TRUE]
          PROVE  FALSE
      BY <3>1, <3>2 DEF Links
    <3> QED
      BY <3>2 DEF BreakLink, Break
  <2> QED
    BY <1>3, <2>1, <2>2, LoopsHandover, WritesHandover, ReaderHandover
    DEF WorkersNext, ReaderStep, KeeperStep, WriterStep
<1> QED
  BY <1>2, <1>3, CallsHandover, AcceptHandover DEF Next

\* Stuttering changes nothing.
LEMMA StutterHandover ==
  ASSUME Handover, UNCHANGED vars
  PROVE  Handover'
<1>1. UNCHANGED <<chan, net, seq, link, faults, conn, reader, keeper, writer, tasks, hist, mgr,
                  bwu, opened>>
  BY DEF vars, channelVars, workerVars
<1>2. \A p \in Peers : /\ Stage(p)' = Stage(p) /\ Act(p)' = Act(p) /\ Prior(p)' = Prior(p)
                         /\ Behind(p)' = Behind(p) /\ Cur(p)' = Cur(p)
  BY <1>1 DEF Stage, Act, Prior, Behind, Cur
<1>3. ConnectedInv' /\ BehindInv'
  BY <1>1, <1>2, ConstantsTyped DEF Handover, ConnectedInv, BehindInv, Arriving, Accepted, Switching
<1>4. ASSUME NEW p \in Peers
      PROVE  StageInv(p)' /\ ProgressInv(p)' /\ ChannelInv(p)' /\ HoldsInv(p)'
  BY <1>1, <1>2 DEF Handover, StageInv, ProgressInv, ChannelInv, HoldsInv, Holds
<1>5. ASSUME NEW p \in Peers
      PROVE  NumberInv(p)' /\ PairInv(p)' /\ ~hist'[p].desync
  BY <1>1, <1>2, ConstantsTyped DEF Handover, NumberInv, PairInv
<1>6. ASSUME NEW p \in Peers
      PROVE  LastInv(p)' /\ SafeInv(p)'
  <2>1. \A r \in Peers : /\ LastSent(r)' = LastSent(r) /\ LastGot(r)' = LastGot(r)
                         /\ LastDue(r)' = LastDue(r) /\ SafeSent(r)' = SafeSent(r)
                         /\ SafeGot(r)' = SafeGot(r)
    BY <1>1 DEF LastSent, LastGot, LastDue, SafeSent, SafeGot
  <2>2. LastInv(p) /\ SafeInv(p)
    BY DEF Handover
  <2>3. LastInv(p)'
    BY <1>1, <1>2, <2>1, <2>2, ConstantsTyped DEF LastInv
  <2>4. SafeInv(p)'
    BY <1>1, <1>2, <2>1, <2>2, ConstantsTyped DEF SafeInv, Spent
  <2> QED
    BY <2>3, <2>4
<1>7. ASSUME NEW p \in Peers, NEW x \in Channels
      PROVE  QueueInv(p, x)' /\ CloseInv(p, x)'
  BY <1>1, <1>2 DEF Handover, QueueInv, Mute, CloseInv, Spent
<1>8. ASSUME NEW c \in Channels
      PROVE  FreshInv(c)' /\ FlowInv(c)' /\ JoinInv(c)'
  BY <1>1, <1>2, ConstantsTyped
  DEF Handover, FreshInv, FlowInv, JoinInv, FreshFor, Offered, PathAt, PathSent, PathGot,
      Underway, Arriving, Accepted, Switching, Failing, FailAt, FailSent, FailGot, FailsOnce
<1> QED
  BY <1>3, <1>4, <1>5, <1>6, <1>7, <1>8 DEF Handover

-----------------------------------------------------------------------------
(* Who does what *)

\* The frames, tasks and steps a device does not have.
AlienFrames(r) == IF r = Advertiser THEN {"FAIL"} ELSE {"PATH"}
AlienTasks(r) == IF r = Advertiser THEN {"PATH"} ELSE {"FAIL", "INIT", "RETRY", "INCOMING"}
AlienSteps(r) == IF r = Advertiser THEN {"ack", "fail"} ELSE {"path"}

NoNew(s, q, kinds) == \A kind \in kinds : HasKind(s, kind) => HasKind(q, kind)
FramesRole == \A r \in Peers, x \in Channels : NoNew(net'[r][x], net[r][x], AlienFrames(r))
TasksRole == \A r \in Peers : NoNew(tasks'[r], tasks[r], AlienTasks(r))
ThreadRole ==
  /\ \A r \in Peers : bwu'[r].pc \in AlienSteps(r) => bwu[r].pc \in AlienSteps(r)
  /\ mgr'[Discoverer].retry => mgr[Discoverer].retry

\* It does not come to have one.
LEMMA RoleKept ==
  ASSUME RoleInv, FramesRole, TasksRole, ThreadRole
  PROVE  RoleInv'
<1>1. \A x \in Channels : /\ ~HasKind(net'[Advertiser][x], "FAIL")
                          /\ ~HasKind(net'[Discoverer][x], "PATH")
  BY Two DEF RoleInv, FramesRole, NoNew, AlienFrames
<1>2. /\ ~HasKind(tasks'[Advertiser], "PATH")
      /\ \A kind \in {"FAIL", "INIT", "RETRY", "INCOMING"} : ~HasKind(tasks'[Discoverer], kind)
  <2>1. /\ NoNew(tasks'[Advertiser], tasks[Advertiser], {"PATH"})
        /\ NoNew(tasks'[Discoverer], tasks[Discoverer], {"FAIL", "INIT", "RETRY", "INCOMING"})
    BY Two DEF TasksRole, AlienTasks
  <2> QED
    BY <2>1 DEF RoleInv, NoNew
<1>3. bwu'[Advertiser].pc \notin {"ack", "fail"} /\ bwu'[Discoverer].pc # "path"
  BY Two DEF RoleInv, ThreadRole, AlienSteps
<1>4. ~mgr'[Discoverer].retry
  BY DEF RoleInv, ThreadRole
<1> QED
  BY <1>1, <1>2, <1>3, <1>4 DEF RoleInv

\* A device writes a frame it may write, or reads one.
LEMMA FramesRoleKept ==
  ASSUME TypeOK
  PROVE  /\ UNCHANGED net => FramesRole
         /\ \A p \in Peers, c \in Channels : \A f :
               Appends(p, c, f) /\ f.kind \notin AlienFrames(p) => FramesRole
         /\ \A p \in Peers, c \in Channels : Takes(p, c) => FramesRole
<1>1. UNCHANGED net => FramesRole
  BY DEF FramesRole, NoNew
<1>2. ASSUME NEW p \in Peers, NEW c \in Channels, NEW f, Appends(p, c, f),
             f.kind \notin AlienFrames(p), NEW r \in Peers, NEW x \in Channels,
             NEW kind \in AlienFrames(r), HasKind(net'[r][x], kind)
      PROVE  HasKind(net[r][x], kind)
  <2>1. net[r][x] \in Seq(Frames) /\ f \in Frames
    BY <1>2, SidesTyped DEF Appends
  <2>2. CASE r = p /\ x = c
    <3>1. net'[r][x] = Append(net[r][x], f) /\ f.kind # kind
      BY <1>2, <2>2 DEF Appends
    <3> QED
      BY <1>2, <2>1, <3>1, AppendKinds
  <2> QED
    BY <1>2, <2>2 DEF Appends
<1>3. ASSUME NEW p \in Peers, NEW c \in Channels, Takes(p, c), NEW r \in Peers,
             NEW x \in Channels, NEW kind \in AlienFrames(r), HasKind(net'[r][x], kind)
      PROVE  HasKind(net[r][x], kind)
  BY <1>3, SidesTyped, TailKinds DEF Takes
<1> QED
  BY <1>1, <1>2, <1>3 DEF FramesRole, NoNew

\* The same of a write that may fail, and of a read.
LEMMA WriteRole ==
  ASSUME TypeOK, NEW p \in Peers, NEW c \in Channels, NEW kind, NEW arg,
         [kind |-> kind, seq |-> 0, arg |-> arg] \in Frames, kind \notin AlienFrames(p),
         Written(p, c, kind, arg) \/ WriteFailed(p, c)
  PROVE  FramesRole
<1>1. CASE Sent(p, c, kind, arg)
  <2>1. Appends(p, c, FrameOf(p, c, kind, arg)) /\ FrameOf(p, c, kind, arg).kind = kind
    BY <1>1, SentAppends
  <2> QED
    BY <2>1, FramesRoleKept
<1>2. CASE UNCHANGED net
  BY <1>2, FramesRoleKept
<1> QED
  BY <1>1, <1>2 DEF Written, WriteFailed, NotSent

\* A reader adds nothing to the queues.
LEMMA ReadRole ==
  ASSUME TypeOK, NEW p \in Peers, NEW c \in Channels, CanRead(p, c), net' = Popped(p, c)
  PROVE  FramesRole
BY PoppedTakes, SidesTyped, FramesRoleKept

\* A device posts a task it may have, or takes one.
LEMMA TasksRoleKept ==
  ASSUME TypeOK, TypeOK', NEW p \in Peers
  PROVE  /\ UNCHANGED tasks => TasksRole
         /\ \A kind, arg : /\ kind \notin AlienTasks(p)
                           /\ tasks' = [tasks EXCEPT ![p] = Post(p, kind, arg)]
                           => TasksRole
         /\ \A kind : Task(p, kind) /\ TakeTask(p) => TasksRole
         /\ "INIT" \notin AlienTasks(p) /\ tasks[p] # << >> /\ AddsInit(p, Tail(tasks[p]))
               => TasksRole
         /\ "INIT" \notin AlienTasks(p) /\ AddsInit(p, tasks[p]) => TasksRole
<1>1. \A r \in Peers : tasks[r] \in Seq(Tasks) /\ tasks'[r] \in Seq(Tasks)
  BY DEF TypeOK, WorkersTypeOK
<1>2. ASSUME \A r \in Peers \ {p} : tasks'[r] = tasks[r],
             NoNew(tasks'[p], tasks[p], AlienTasks(p))
      PROVE  TasksRole
  BY <1>2 DEF TasksRole, NoNew
<1>3. ASSUME NEW q \in Seq(Tasks), NEW kind, NEW arg, kind \notin AlienTasks(p),
             NoNew(q, tasks[p], AlienTasks(p)),
             tasks'[p] = Append(q, [kind |-> kind, arg |-> arg])
      PROVE  NoNew(tasks'[p], tasks[p], AlienTasks(p))
  <2> DEFINE t == [kind |-> kind, arg |-> arg]
  <2>1. t.kind = kind /\ tasks'[p] = Append(q, t)
    BY <1>3
  <2> HIDE DEF t
  <2>2. t \in Tasks
    <3>1. Len(q) + 1 \in DOMAIN tasks'[p] /\ tasks'[p][Len(q) + 1] = t
      BY <2>1
    <3> QED
      BY <1>1, <3>1
  <2> QED
    BY <1>3, <2>1, <2>2, AppendKinds DEF NoNew
<1>4. NoNew(tasks[p], tasks[p], AlienTasks(p))
  BY DEF NoNew
<1>5. tasks[p] # << >> => /\ Tail(tasks[p]) \in Seq(Tasks)
                          /\ NoNew(Tail(tasks[p]), tasks[p], AlienTasks(p))
  BY <1>1, TailKinds DEF NoNew
<1>6. UNCHANGED tasks => TasksRole
  BY <1>2, <1>4
<1>7. ASSUME NEW kind, NEW arg, kind \notin AlienTasks(p),
             tasks' = [tasks EXCEPT ![p] = Post(p, kind, arg)]
      PROVE  TasksRole
  <2>1. /\ \A r \in Peers \ {p} : tasks'[r] = tasks[r]
        /\ tasks'[p] = Append(tasks[p], [kind |-> kind, arg |-> arg])
    BY <1>7 DEF Post, TypeOK, WorkersTypeOK
  <2> QED
    BY <1>1, <1>2, <1>3, <1>4, <1>7, <2>1
<1>8. ASSUME NEW kind, Task(p, kind), TakeTask(p)
      PROVE  TasksRole
  <2>1. /\ \A r \in Peers \ {p} : tasks'[r] = tasks[r]
        /\ tasks[p] # << >> /\ tasks'[p] = Tail(tasks[p])
    BY <1>8 DEF Task, TakeTask, TypeOK, WorkersTypeOK
  <2> QED
    BY <1>2, <1>5, <2>1
<1>9. ASSUME "INIT" \notin AlienTasks(p), NEW q \in Seq(Tasks), AddsInit(p, q),
             NoNew(q, tasks[p], AlienTasks(p))
      PROVE  TasksRole
  BY <1>2, <1>3, <1>9 DEF AddsInit
<1> QED
  BY <1>1, <1>4, <1>5, <1>6, <1>7, <1>8, <1>9

\* The workers write no frame of the negotiation; a task the reader posts stands for a
\* frame of the other device.
LEMMA WorkersRole ==
  ASSUME TypeOK, TypeOK', RoleInv, WorkersNext, ManagerUnchanged
  PROVE  RoleInv'
<1>1. ThreadRole
  BY DEF ThreadRole, ManagerUnchanged
<1>2. ASSUME NEW p \in Peers
      PROVE  /\ reader[p].chan \in Channels /\ keeper[p].chan \in Channels
             /\ writer[p].chan \in Channels /\ writer[p].count + 1 \in Nat
  BY DEF TypeOK, WorkersTypeOK, Loops
<1>3. /\ \A n \in Nat : [kind |-> "DATA", seq |-> 0, arg |-> n] \in Frames
      /\ \A kind \in {"KEEP", "KEEPACK", "DISC"} : [kind |-> kind, seq |-> 0, arg |-> 0] \in Frames
      /\ \A p \in Peers : \A kind \in {"DATA", "KEEP", "KEEPACK", "DISC"} : kind \notin AlienFrames(p)
  BY ConstantsTyped DEF Frames, FrameKinds, AlienFrames
<1>4. ASSUME NEW p \in Peers, ReaderFrame(p)
      PROVE  FramesRole /\ TasksRole
  <2> DEFINE q == Other(p)
             c == reader[p].chan
             f == HeadFor(p)
  <2>1. CanRead(p, c) /\ net' = Popped(p, c)
    BY <1>4 DEF ReaderFrame
  <2>2. FramesRole
    BY <1>2, <2>1, ReadRole
  <2>3. q \in Peers /\ net[q][c] \in Seq(Frames) /\ net[q][c] # << >> /\ f = Head(net[q][c])
    BY <1>2, <2>1, SidesTyped DEF CanRead, Incoming, HeadFor
  <2>4. HasKind(net[q][c], f.kind)
    BY <2>3, TailKinds
  <2>5. f.kind \in Negotiation => f.kind \notin AlienTasks(p)
    BY <1>2, <2>4, Two DEF RoleInv, AlienTasks, Negotiation
  <2>6. \/ UNCHANGED tasks
        \/ f.kind \in Negotiation /\ tasks' = [tasks EXCEPT ![p] = Post(p, f.kind, f.arg)]
    BY <1>4 DEF ReaderFrame, Route, HeadFor
  <2> QED
    BY <2>2, <2>5, <2>6, TasksRoleKept
<1>5. ASSUME NEW p \in Peers, ReaderAck(p)
      PROVE  FramesRole /\ TasksRole
  <2>1. Written(p, reader[p].chan, "KEEPACK", 0) \/ WriteFailed(p, reader[p].chan)
    BY <1>5 DEF ReaderAck
  <2> QED
    BY <1>2, <1>3, <1>5, <2>1, WriteRole, TasksRoleKept DEF ReaderAck
<1>6. ASSUME NEW p \in Peers, KeeperWrite(p)
      PROVE  FramesRole /\ TasksRole
  <2>1. Written(p, keeper[p].chan, "KEEP", 0) \/ WriteFailed(p, keeper[p].chan)
    BY <1>6 DEF KeeperWrite
  <2> QED
    BY <1>2, <1>3, <1>6, <2>1, WriteRole, TasksRoleKept DEF KeeperWrite
<1>7. ASSUME NEW p \in Peers, WriterWrite(p)
      PROVE  FramesRole /\ TasksRole
  <2>1. \/ Written(p, writer[p].chan, "DATA", writer[p].count + 1)
        \/ WriteFailed(p, writer[p].chan)
    BY <1>7 DEF WriterWrite
  <2> QED
    BY <1>2, <1>3, <1>7, <2>1, WriteRole, TasksRoleKept DEF WriterWrite
<1>8. ASSUME NEW p \in Peers, RemoveEndpoint(p)
      PROVE  FramesRole /\ TasksRole
  <2>1. UNCHANGED net => FramesRole
    BY FramesRoleKept
  <2>2. ASSUME conn[p].em = "closing",
               Written(p, conn[p].active, "DISC", 0) \/ WriteFailed(p, conn[p].active)
        PROVE  FramesRole
    <3>1. conn[p].active \in Channels
      BY <2>2, SidesTyped DEF Connections
    <3> QED
      BY <1>3, <2>2, <3>1, WriteRole
  <2>3. tasks' = [tasks EXCEPT ![p] = Post(p, "OVER", conn[p].active)]
        /\ "OVER" \notin AlienTasks(p)
    BY <1>8 DEF RemoveEndpoint, AlienTasks
  <2> QED
    BY <1>8, <2>1, <2>2, <2>3, TasksRoleKept DEF RemoveEndpoint, channelVars
<1>9. CASE UNCHANGED <<net, tasks>>
  BY <1>1, <1>9, RoleKept, FramesRoleKept, TasksRoleKept, ConstantsTyped
<1>10. \/ \E p \in Peers : \/ ReaderFrame(p) \/ ReaderAck(p) \/ KeeperWrite(p) \/ WriterWrite(p)
                           \/ RemoveEndpoint(p)
       \/ UNCHANGED <<net, tasks>>
  BY DEF WorkersNext, ReaderStep, KeeperStep, WriterStep, ReaderFetch, ReaderRead, ReaderFail,
     KeeperFetch, WriterFetch, BeginRemoval, Disconnected, OnConnectionAccepted, KeeperTimeout,
     Leave, BreakLink, Break, channelVars
<1> QED
  BY <1>1, <1>4, <1>5, <1>6, <1>7, <1>8, <1>9, <1>10, RoleKept

\* Clients ask, and the alarm fires, and sockets arrive, on the Advertiser.
LEMMA CallsRole ==
  ASSUME TypeOK, TypeOK', RoleInv, Undisturbed,
         \/ \E p \in Peers : RequestUpgrade(p) \/ RetryAlarm(p)
         \/ \E c \in Channels : Accept(c)
  PROVE  RoleInv'
<1>1. mgr \in [Peers -> Managers]
  BY DEF TypeOK
<1>2. /\ \A p \in Peers : p = Advertiser \/ p = Discoverer
      /\ \A kind \in {"INIT", "RETRY", "INCOMING"} : kind \notin AlienTasks(Advertiser)
  BY Two DEF AlienTasks, Peers
<1>3. FramesRole /\ ThreadRole
  <2>1. UNCHANGED <<net, bwu>>
    BY DEF RequestUpgrade, RetryAlarm, Accept, channelVars
  <2>2. UNCHANGED mgr \/ \E p \in Peers : mgr' = [mgr EXCEPT ![p].retry = FALSE]
    BY DEF RequestUpgrade, RetryAlarm, Accept
  <2>3. mgr'[Discoverer].retry => mgr[Discoverer].retry
    BY <1>1, <2>2, Two DEF Managers
  <2> QED
    BY <2>1, <2>3, FramesRoleKept DEF ThreadRole
<1>4. TasksRole
  <2>1. ASSUME NEW p \in Peers, RequestUpgrade(p)
        PROVE  TasksRole
    <3>1. p = Advertiser /\ \E m : tasks' = [tasks EXCEPT ![p] = Post(p, "INIT", m)]
      BY <2>1 DEF RequestUpgrade, Undisturbed
    <3> QED
      BY <1>2, <3>1, TasksRoleKept
  <2>2. ASSUME NEW p \in Peers, RetryAlarm(p)
        PROVE  TasksRole
    <3>1. p = Advertiser /\ tasks' = [tasks EXCEPT ![p] = Post(p, "RETRY", None)]
      BY <1>2, <2>2 DEF RetryAlarm, RoleInv
    <3> QED
      BY <1>2, <3>1, TasksRoleKept
  <2>3. ASSUME NEW c \in Channels, Accept(c)
        PROVE  TasksRole
    <3>1. \/ UNCHANGED tasks
          \/ tasks' = [tasks EXCEPT ![Advertiser] = Post(Advertiser, "INCOMING", c)]
      BY <2>3 DEF Accept
    <3> QED
      BY <1>2, <3>1, TasksRoleKept, Two
  <2> QED
    BY <2>1, <2>2, <2>3
<1> QED
  BY <1>3, <1>4, RoleKept

\* BwuManager's thread: enough is what its step does to the device itself.
LEMMA ThreadRoleKept ==
  ASSUME TypeOK, RoleInv, NEW p \in Peers, ThreadStep(p), FramesRole, TasksRole,
         UNCHANGED bwu \/ bwu'[p].pc \notin AlienSteps(p),
         p = Advertiser \/ (mgr'[p].retry => mgr[p].retry)
  PROVE  RoleInv'
<1>1. \A r \in Peers \ {p} : bwu'[r] = bwu[r] /\ mgr'[r] = mgr[r]
  BY ThreadApart DEF Apart
<1>2. ThreadRole
  BY <1>1, Two DEF ThreadRole
<1> QED
  BY <1>2, RoleKept

\* Who has a task.
LEMMA TaskRole ==
  ASSUME TypeOK, RoleInv, NEW p \in Peers, NEW kind, Task(p, kind)
  PROVE  /\ tasks[p] # << >> /\ tasks[p] \in Seq(Tasks)
         /\ kind \in {"FAIL", "INIT", "RETRY", "INCOMING"} => p = Advertiser
         /\ kind = "PATH" => p = Discoverer
<1>1. tasks[p] # << >> /\ tasks[p] \in Seq(Tasks) /\ Head(tasks[p]).kind = kind
  BY SidesTyped DEF Task
<1>2. HasKind(tasks[p], kind)
  BY <1>1, TailKinds
<1>3. p = Advertiser \/ p = Discoverer
  BY DEF Peers
<1> QED
  BY <1>1, <1>2, <1>3 DEF RoleInv

\* The steps of the Advertiser that offer an upgrade.
LEMMA OfferingRole ==
  ASSUME TypeOK, TypeOK', RoleInv, NEW p \in Peers, ThreadStep(p),
         \/ InitiateUpgrade(p) \/ WritePath(p) \/ ProcessUpgradeFailure(p) \/ RetryUpgrade(p)
  PROVE  RoleInv'
<1>1. mgr[p] \in Managers /\ (p = Advertiser \/ p = Discoverer)
  BY SidesTyped DEF Peers
<1>2. "INIT" \notin AlienTasks(Advertiser) /\ "PATH" \notin AlienFrames(Advertiser)
      /\ "path" \notin AlienSteps(Advertiser) /\ "idle" \notin AlienSteps(p)
  BY DEF AlienTasks, AlienFrames, AlienSteps
<1>3. CASE InitiateUpgrade(p)
  <2> DEFINE medium == Arg(p)
             started == [[mgr[p] EXCEPT !.medium = medium] EXCEPT !.retry = FALSE]
  <2>1. Task(p, "INIT") /\ p = Advertiser /\ tasks[p] # << >> /\ tasks[p] \in Seq(Tasks)
    BY <1>3, TaskRole DEF InitiateUpgrade
  <2>2. UNCHANGED net /\ (UNCHANGED bwu \/ \E c, d : At(p, "path", c, d))
    BY <1>3 DEF InitiateUpgrade, channelVars
  <2>3. TakeTask(p) \/ UpgradeFailure(p, started, medium, Tail(tasks[p]))
    BY <1>3 DEF InitiateUpgrade
  <2>4. started \in Managers
    <3>1. medium \in Mediums \cup {None}
      BY <2>1 DEF Arg, Task, Tasks, Negotiation
    <3> QED
      BY <1>1, <3>1 DEF Managers
  <2> HIDE DEF started, medium
  <2>5. TakeTask(p) \/ AddsInit(p, Tail(tasks[p]))
    BY <2>3, <2>4, UpgradeFailureShape
  <2>6. TasksRole
    BY <1>2, <2>1, <2>5, TasksRoleKept
  <2>7. UNCHANGED bwu \/ bwu'[p].pc = "path"
    BY <2>2, AtOthers
  <2> QED
    BY <1>2, <2>1, <2>2, <2>6, <2>7, FramesRoleKept, ThreadRoleKept
<1>4. CASE WritePath(p)
  <2>1. /\ bwu[p].pc = "path" /\ Idle(p)
        /\ \/ Written(p, bwu[p].old, "PATH", bwu[p].chan) /\ UNCHANGED tasks
           \/ /\ WriteFailed(p, bwu[p].old)
              /\ UpgradeFailure(p, mgr[p], link[bwu[p].chan].medium, tasks[p])
    BY <1>4 DEF WritePath
  <2>2. p = Advertiser /\ bwu[p].old \in Channels /\ bwu[p].chan \in Channels
    BY <1>1, <2>1, SidesTyped DEF RoleInv, Threads
  <2>3. [kind |-> "PATH", seq |-> 0, arg |-> bwu[p].chan] \in Frames
    BY <2>2 DEF Frames, FrameKinds, Negotiation
  <2>4. FramesRole
    BY <1>2, <2>1, <2>2, <2>3, WriteRole
  <2>5. UNCHANGED tasks \/ AddsInit(p, tasks[p])
    BY <1>1, <2>1, UpgradeFailureShape
  <2>6. TasksRole
    BY <1>2, <2>2, <2>5, TasksRoleKept
  <2> QED
    BY <1>2, <2>1, <2>2, <2>4, <2>6, IdleOthers, ThreadRoleKept
<1>5. CASE ProcessUpgradeFailure(p)
  <2>1. /\ Task(p, "FAIL") /\ UNCHANGED <<net, bwu>>
        /\ UpgradeFailure(p, mgr[p], link[Arg(p)].medium, Tail(tasks[p]))
    BY <1>5 DEF ProcessUpgradeFailure, channelVars
  <2>2. p = Advertiser /\ tasks[p] # << >>
    BY <2>1, TaskRole
  <2>3. AddsInit(p, Tail(tasks[p]))
    BY <1>1, <2>1, UpgradeFailureShape
  <2>4. TasksRole
    BY <1>2, <2>2, <2>3, TasksRoleKept
  <2> QED
    BY <2>1, <2>2, <2>4, FramesRoleKept, ThreadRoleKept
<1>6. CASE RetryUpgrade(p)
  <2>1. /\ Task(p, "RETRY") /\ UNCHANGED <<net, bwu>>
        /\ TakeTask(p) \/ TryNextBest(p, mgr[p], AllUpgradeMediums, Tail(tasks[p]))
    BY <1>6 DEF RetryUpgrade, channelVars
  <2>2. p = Advertiser /\ tasks[p] # << >>
    BY <2>1, TaskRole
  <2>3. TakeTask(p) \/ AddsInit(p, Tail(tasks[p]))
    BY <1>1, <2>1, TryNextBestShape
  <2>4. TasksRole
    BY <1>2, <2>1, <2>2, <2>3, TasksRoleKept
  <2> QED
    BY <2>1, <2>2, <2>4, FramesRoleKept, ThreadRoleKept
<1> QED
  BY <1>3, <1>4, <1>5, <1>6

\* The steps that join the offered channel, and those that report a failure.
LEMMA JoiningRole ==
  ASSUME TypeOK, TypeOK', RoleInv, NEW p \in Peers, ThreadStep(p),
         ProcessPath(p) \/ AwaitAck(p) \/ WriteFailure(p) \/ IncomingConnection(p)
  PROVE  RoleInv'
<1>1. /\ mgr \in [Peers -> Managers] /\ mgr[p] \in Managers
      /\ p = Advertiser \/ p = Discoverer
  BY SidesTyped DEF Peers, TypeOK
<1>2. /\ \A kind \in {"INTRO", "FAIL"} : kind \notin AlienFrames(Discoverer)
      /\ \A pc \in {"ack", "fail"} : pc \notin AlienSteps(Discoverer)
      /\ \A pc \in {"replace", "idle"} : pc \notin AlienSteps(p)
      /\ \A c \in Channels : /\ [kind |-> "INTRO", seq |-> 0, arg |-> 0] \in Frames
                             /\ [kind |-> "FAIL", seq |-> 0, arg |-> c] \in Frames
  BY Two, ConstantsTyped DEF AlienFrames, AlienSteps, Frames, FrameKinds, Negotiation
<1>3. CASE ProcessPath(p)
  <2> DEFINE c == Arg(p)
             mine == IF mgr[p].medium = None THEN [mgr[p] EXCEPT !.medium = link[c].medium]
                     ELSE mgr[p]
  <2>1. Task(p, "PATH") /\ TakeTask(p)
    BY <1>3 DEF ProcessPath, CloseAllChannels, Join, JoinFails
  <2>2. p = Discoverer /\ c \in Channels
    <3>1. tasks[p] # << >> /\ tasks[p] \in Seq(Tasks) /\ p = Discoverer
      BY <2>1, TaskRole
    <3>2. Head(tasks[p]) \in Tasks /\ Head(tasks[p]).kind = "PATH"
      BY <2>1, <3>1 DEF Task
    <3> QED
      BY <3>1, <3>2 DEF Arg, Tasks
  <2>3. mine.retry = mgr[p].retry
    BY <1>1 DEF Managers
  <2>4. mine \in [{"inProgress", "previous", "upgraded", "medium", "listening", "retry"} ->
                     {mine[x] : x \in DOMAIN mine}]
    BY <1>1 DEF Managers
  <2> HIDE DEF mine
  <2>5. /\ UNCHANGED net \/ Sent(p, c, "INTRO", 0)
        /\ UNCHANGED bwu \/ \E pc \in {"ack", "fail", "replace"} : At(p, pc, c, None)
        /\ \/ UNCHANGED mgr \/ ManagerOf(p, mine) \/ mgr' = [mgr EXCEPT ![p].previous = None]
           \/ ManagerOf(p, [mine EXCEPT !.inProgress = TRUE])
    BY <1>3 DEF ProcessPath, CloseAllChannels, Join, JoinFails, channelVars, mine
  <2>6. mgr'[p].retry => mgr[p].retry
    BY <1>1, <2>3, <2>4, <2>5, ManagerOfOthers DEF Managers
  <2>7. UNCHANGED bwu \/ bwu'[p].pc \in {"ack", "fail", "replace"}
    BY <2>5, AtOthers
  <2>8. FramesRole
    <3>1. CASE Sent(p, c, "INTRO", 0)
      <4> HIDE DEF c
      <4>1. [kind |-> "INTRO", seq |-> 0, arg |-> 0] \in Frames /\ "INTRO" \notin AlienFrames(p)
        BY <1>2, <2>2
      <4>2. Appends(p, c, FrameOf(p, c, "INTRO", 0)) /\ FrameOf(p, c, "INTRO", 0).kind = "INTRO"
        BY <2>2, <3>1, <4>1, SentAppends
      <4> QED
        BY <2>2, <4>1, <4>2, FramesRoleKept
    <3> QED
      BY <2>5, <3>1, FramesRoleKept
  <2>9. TasksRole
    BY <2>1, TasksRoleKept
  <2> QED
    BY <1>2, <2>2, <2>6, <2>7, <2>8, <2>9, ThreadRoleKept
<1>4. CASE AwaitAck(p)
  <2>1. /\ bwu[p].pc = "ack" /\ UNCHANGED tasks
        /\ UNCHANGED net \/ (CanRead(p, bwu[p].chan) /\ net' = Popped(p, bwu[p].chan))
        /\ \E pc \in {"replace", "fail"} : At(p, pc, bwu[p].chan, None)
        /\ UNCHANGED mgr \/ mgr' = [mgr EXCEPT ![p].inProgress = TRUE]
    BY <1>4 DEF AwaitAck
  <2>2. p = Discoverer /\ bwu[p].chan \in Channels
    BY <1>1, <2>1, SidesTyped DEF RoleInv, Threads
  <2>3. FramesRole /\ TasksRole
    BY <2>1, <2>2, FramesRoleKept, ReadRole, TasksRoleKept
  <2>4. bwu'[p].pc \in {"replace", "fail"}
    BY <2>1, AtOthers
  <2>5. mgr'[p].retry => mgr[p].retry
    BY <1>1, <2>1 DEF Managers
  <2> QED
    BY <1>2, <2>2, <2>3, <2>4, <2>5, ThreadRoleKept
<1>5. CASE WriteFailure(p)
  <2>1. bwu[p].pc = "fail" /\ UNCHANGED tasks /\ Idle(p)
    BY <1>5 DEF WriteFailure
  <2>2. p = Discoverer /\ p # Advertiser /\ bwu[p].chan \in Channels
    BY <1>1, <2>1, SidesTyped, Two DEF RoleInv, Threads
  <2>3. \/ UNCHANGED net
        \/ /\ conn[p].active \in Channels
           /\ \/ Written(p, conn[p].active, "FAIL", bwu[p].chan)
              \/ WriteFailed(p, conn[p].active)
    BY <1>5, SidesTyped DEF WriteFailure, channelVars
  <2>4. FramesRole
    BY <1>2, <2>2, <2>3, FramesRoleKept, WriteRole
  <2>5. mgr'[p].retry => mgr[p].retry
    <3>1. \/ UNCHANGED mgr
          \/ mgr' = [mgr EXCEPT ![p] = [[mgr[p] EXCEPT !.medium = None] EXCEPT !.inProgress = FALSE]]
      BY <1>5, <2>2 DEF WriteFailure, ManagerOf, RevertedFor
    <3> QED
      BY <1>1, <3>1 DEF Managers
  <2> QED
    BY <1>2, <2>1, <2>2, <2>4, <2>5, TasksRoleKept, IdleOthers, ThreadRoleKept
<1>6. CASE IncomingConnection(p)
  <2> DEFINE c == Arg(p)
             q == Other(p)
  <2>1. Task(p, "INCOMING") /\ TakeTask(p) /\ p = Advertiser
    BY <1>6, TaskRole DEF IncomingConnection
  <2>2. FramesRole
    <3>1. CASE UNCHANGED net
      BY <3>1, FramesRoleKept
    <3>2. CASE /\ CanRead(p, c)
               /\ net' = [net EXCEPT ![q][c] = Tail(@), ![p][c] = @ \o IntroductionAnswer]
      <4>1. q \in Peers /\ q # p /\ c \in Channels
        <5>1. tasks[p] # << >> /\ tasks[p] \in Seq(Tasks)
          BY <2>1, TaskRole
        <5>2. Head(tasks[p]) \in Tasks /\ Head(tasks[p]).kind = "INCOMING"
          BY <2>1, <5>1 DEF Task
        <5> QED
          BY <5>2, SidesTyped DEF Arg, Tasks
      <4>2. net[q][c] # << >> /\ net[q][c] \in Seq(Frames) /\ net[p][c] \in Seq(Frames)
        BY <3>2, <4>1, SidesTyped DEF CanRead, Incoming
      <4>3. /\ net'[q][c] = Tail(net[q][c]) /\ net'[p][c] = net[p][c] \o IntroductionAnswer
            /\ \A r \in Peers, x \in Channels : x # c => net'[r][x] = net[r][x]
        <5>1. net \in [Peers -> [Channels -> Seq(Frames)]]
          BY DEF TypeOK, ChannelsTypeOK
        <5> HIDE DEF q, c
        <5> QED
          BY <3>2, <4>1, <5>1
      <4>4. \A kind : HasKind(Tail(net[q][c]), kind) => HasKind(net[q][c], kind)
        BY <4>2, TailKinds
      <4>5. \A kind \in AlienFrames(p) :
              HasKind(net[p][c] \o IntroductionAnswer, kind) => HasKind(net[p][c], kind)
        <5> DEFINE ack == [kind |-> "ACK", seq |-> 0, arg |-> 0]
        <5>1. IntroductionAnswer = << >> \/ IntroductionAnswer = <<ack>>
          BY DEF IntroductionAnswer
        <5>2. ack \in Frames /\ ack.kind = "ACK" /\ "ACK" \notin AlienFrames(p)
          BY ConstantsTyped DEF Frames, FrameKinds, AlienFrames
        <5> HIDE DEF ack
        <5>3. net[p][c] \o << >> = net[p][c] /\ net[p][c] \o <<ack>> = Append(net[p][c], ack)
          BY <4>2, <5>2
        <5>4. \A kind : HasKind(Append(net[p][c], ack), kind) =>
                          HasKind(net[p][c], kind) \/ ack.kind = kind
          BY <4>2, <5>2, AppendKinds
        <5> QED
          BY <5>1, <5>2, <5>3, <5>4
      <4>6. \A r \in Peers : r = p \/ r = q
        BY SidesTyped
      <4>7. ASSUME NEW r \in Peers, NEW x \in Channels
            PROVE  NoNew(net'[r][x], net[r][x], AlienFrames(r))
        <5>1. CASE x = c /\ r = p
          BY <4>3, <4>5, <5>1 DEF NoNew
        <5>2. CASE x = c /\ r = q
          BY <4>3, <4>4, <5>2 DEF NoNew
        <5>3. CASE x # c
          BY <4>3, <5>3 DEF NoNew
        <5> QED
          BY <4>6, <5>1, <5>2, <5>3
      <4> QED
        BY <4>7 DEF FramesRole
    <3> QED
      BY <1>6, <3>1, <3>2 DEF IncomingConnection
  <2>3. UNCHANGED bwu \/ bwu'[p].pc = "replace"
    BY <1>6, AtOthers DEF IncomingConnection
  <2> QED
    BY <1>2, <2>1, <2>2, <2>3, TasksRoleKept, ThreadRoleKept
<1> QED
  BY <1>3, <1>4, <1>5, <1>6

\* The steps that switch to the new channel, and the removal's.
LEMMA SwitchingRole ==
  ASSUME TypeOK, TypeOK', RoleInv, NEW p \in Peers, ThreadStep(p),
         \/ ReplaceChannel(p) \/ WriteLast(p) \/ DropFrame(p) \/ ProcessLast(p) \/ WriteSafe(p)
         \/ ProcessSafe(p) \/ WriteDisconnection(p) \/ DrainPrior(p) \/ ResumeUpgraded(p)
         \/ EndpointDisconnected(p)
  PROVE  RoleInv'
<1>1. mgr \in [Peers -> Managers] /\ mgr[p] \in Managers
  BY SidesTyped DEF TypeOK
<1>2. /\ \A kind \in {"LAST", "SAFE", "DISC"} : kind \notin AlienFrames(p)
      /\ \A pc \in {"idle", "last", "safe", "disconnect", "drain", "finish"} :
            pc \notin AlienSteps(p)
      /\ \A kind \in {"LAST", "SAFE", "DISC"} : [kind |-> kind, seq |-> 0, arg |-> 0] \in Frames
  BY ConstantsTyped DEF AlienFrames, AlienSteps, Frames, FrameKinds, Negotiation
<1>3. /\ bwu[p].pc \in {"last", "disconnect", "drain"} => bwu[p].old \in Channels
      /\ bwu[p].pc = "safe" => mgr[p].previous \in Channels
  BY SidesTyped DEF Threads, TypeOK, Managers
<1>4. TasksRole
  BY TasksRoleKept
  DEF ReplaceChannel, WriteLast, DropFrame, ProcessLast, WriteSafe, ProcessSafe,
      WriteDisconnection, DrainPrior, ResumeUpgraded, EndpointDisconnected
<1>5. FramesRole
  <2>1. CASE \/ ReplaceChannel(p) \/ DropFrame(p) \/ ProcessLast(p) \/ ProcessSafe(p)
             \/ ResumeUpgraded(p) \/ EndpointDisconnected(p)
    BY <2>1, FramesRoleKept
    DEF ReplaceChannel, DropFrame, ProcessLast, ProcessSafe, ResumeUpgraded, EndpointDisconnected,
        channelVars
  <2>2. CASE WriteLast(p)
    <3>1. bwu[p].pc = "last" /\ (Written(p, bwu[p].old, "LAST", 0) \/ WriteFailed(p, bwu[p].old))
      BY <2>2 DEF WriteLast
    <3> QED
      BY <1>2, <1>3, <3>1, WriteRole
  <2>3. CASE WriteSafe(p)
    <3>1. bwu[p].pc = "safe" /\ \/ Written(p, mgr[p].previous, "SAFE", 0)
                                \/ WriteFailed(p, mgr[p].previous)
      BY <2>3 DEF WriteSafe
    <3> QED
      BY <1>2, <1>3, <3>1, WriteRole
  <2>4. CASE WriteDisconnection(p)
    <3>1. bwu[p].pc = "disconnect"
          /\ (Written(p, bwu[p].old, "DISC", 0) \/ WriteFailed(p, bwu[p].old))
      BY <2>4 DEF WriteDisconnection
    <3> QED
      BY <1>2, <1>3, <3>1, WriteRole
  <2>5. CASE DrainPrior(p)
    <3>1. bwu[p].pc = "drain"
          /\ (UNCHANGED net \/ (CanRead(p, bwu[p].old) /\ net' = Popped(p, bwu[p].old)))
      BY <2>5 DEF DrainPrior
    <3> QED
      BY <1>3, <3>1, FramesRoleKept, ReadRole
  <2> QED
    BY <2>1, <2>2, <2>3, <2>4, <2>5
<1>6. UNCHANGED bwu \/ bwu'[p].pc \notin AlienSteps(p)
  <2>1. \/ UNCHANGED bwu \/ Idle(p)
        \/ \E c, d : \E pc \in {"last", "safe", "disconnect", "drain", "finish"} : At(p, pc, c, d)
    BY DEF ReplaceChannel, WriteLast, AfterLast, DropFrame, ProcessLast, WriteSafe, ProcessSafe,
       WriteDisconnection, DrainPrior, ResumeUpgraded, EndpointDisconnected
  <2> QED
    BY <1>2, <2>1, AtOthers, IdleOthers
<1>7. mgr'[p].retry => mgr[p].retry
  <2>1. CASE EndpointDisconnected(p)
    <3>1. PICK m : mgr' = [mgr EXCEPT ![p] = Forgotten(m)] /\ m = RevertedFor(p, Arg(p), mgr[p])
      BY <2>1 DEF EndpointDisconnected, ManagerOf
    <3>2. m \in Managers
      BY <1>1, <3>1, RevertedTyped DEF RevertedFor, Managers
    <3> QED
      BY <1>1, <3>1, <3>2 DEF Forgotten, Managers
  <2>2. CASE WriteLast(p)
    BY <1>1, <2>2 DEF WriteLast, ManagerOf, WithPrior, Managers
  <2>3. CASE ~EndpointDisconnected(p) /\ ~WriteLast(p)
    <3>1. \/ UNCHANGED mgr \/ mgr' = [mgr EXCEPT ![p].upgraded = TRUE]
          \/ mgr' = [mgr EXCEPT ![p].previous = None]
          \/ mgr' = [mgr EXCEPT ![p].inProgress = FALSE]
      BY <2>3 DEF ReplaceChannel, DropFrame, ProcessLast, WriteSafe, ProcessSafe,
         WriteDisconnection, DrainPrior, ResumeUpgraded
    <3> QED
      BY <1>1, <3>1 DEF Managers
  <2> QED
    BY <2>1, <2>2, <2>3
<1> QED
  BY <1>4, <1>5, <1>6, <1>7, ThreadRoleKept

\* So each device keeps to its part.
LEMMA NextRole ==
  ASSUME TypeOK, TypeOK', RoleInv, Undisturbed, Next
  PROVE  RoleInv'
BY WorkersRole, CallsRole, OfferingRole, JoiningRole, SwitchingRole
DEF Next, ThreadStep, ManagerUnchanged

-----------------------------------------------------------------------------
(* From the start *)

\* The connection starts at ease on channel 0, with nothing in flight.
LEMMA InitHandover ==
  ASSUME Init
  PROVE  RoleInv /\ Handover
<1>1. ASSUME NEW p \in Peers
      PROVE  /\ bwu[p].pc = "idle" /\ tasks[p] = << >> /\ conn[p].active = 0
             /\ conn[p].connected <=> p \in InitiallyConnected
             /\ mgr[p].previous = None /\ ~mgr[p].inProgress /\ ~mgr[p].upgraded /\ ~mgr[p].retry
             /\ hist[p].safe = {} /\ ~hist[p].desync
             /\ reader[p].chan = 0 /\ keeper[p].chan = 0 /\ writer[p].chan = 0
             /\ seq[p].sent = 0 /\ seq[p].received = 0
             /\ \A c \in Channels : /\ net[p][c] = << >> /\ ~chan[p][c].paused
                                    /\ ~chan[p][c].closed /\ (chan[p][c].crypt <=> c = 0)
  BY DEF Init, ChannelsInit, WorkersInit, StartedLoop
<1>2. opened = 0 /\ \A c \in Channels : ~link[c].dialled
  BY DEF Init, ChannelsInit
<1>3. \A kind : ~HasKind(<< >>, kind) /\ \A c : ~Has(<< >>, kind, c) /\ Once(<< >>, kind, c)
  BY DEF HasKind, Has, Once
<1>4. ASSUME NEW p \in Peers
      PROVE  /\ Stage(p) = "ease" /\ Act(p) = 0 /\ Prior(p) = None /\ Cur(p) = 0
             /\ ~LastSent(p) /\ ~LastGot(p) /\ ~LastDue(p) /\ ~SafeSent(p) /\ ~SafeGot(p)
  BY <1>1, <1>3 DEF Stage, Act, Prior, Cur, LastSent, LastGot, LastDue, SafeSent, SafeGot
<1>5. RoleInv
  BY <1>1, <1>3, Two DEF RoleInv
<1>6. ConnectedInv
  <2>1. \A p \in InitiallyConnected : p \in Peers
    BY WorkersTyped
  <2> QED
    BY <1>1, <1>2, <1>3, <2>1, Two DEF ConnectedInv
<1>7. \A p \in Peers : ~Behind(p)
  BY <1>4, Two DEF Behind, Early
<1>8. BehindInv
  BY <1>1, <1>7, Two DEF BehindInv, NoneAfter
<1>9. ASSUME NEW p \in Peers
      PROVE  /\ StageInv(p) /\ ProgressInv(p) /\ ChannelInv(p) /\ HoldsInv(p)
             /\ NumberInv(p) /\ PairInv(p) /\ LastInv(p) /\ SafeInv(p)
  <2>1. Other(p) \in Peers
    BY Two
  <2>2. StageInv(p)
    BY <1>1, <1>4, ConstantsTyped DEF StageInv, OverIn
  <2>3. ProgressInv(p)
    BY <1>1, <1>4 DEF ProgressInv
  <2>4. ChannelInv(p)
    BY <1>1, <1>4, ConstantsTyped DEF ChannelInv, Encrypts
  <2>5. HoldsInv(p)
    BY <1>1, <1>4 DEF HoldsInv, Holds
  <2>6. NumberInv(p)
    <3>1. Numbers(<< >>) = {} /\ (0 + 1)..0 = {}
      BY DEF Numbers
    <3>2. /\ \A x \in Channels : Numbers(net[p][x]) = {}
          /\ Cur(p) \in Channels /\ seq[p].sent = 0 /\ seq[Other(p)].received = 0
      BY <1>1, <1>4, <2>1, <3>1, ConstantsTyped
    <3>3. (seq[Other(p)].received + 1)..seq[p].sent = {}
      BY <3>1, <3>2
    <3> QED
      BY <3>2, <3>3 DEF NumberInv
  <2>7. PairInv(p)
    BY <1>4, <1>7, <2>1 DEF PairInv
  <2>8. LastInv(p)
    BY <1>1, <1>3, <1>4, <2>1 DEF LastInv, NoneAfter
  <2>9. SafeInv(p)
    BY <1>1, <1>3, <1>4, <2>1 DEF SafeInv
  <2> QED
    BY <2>2, <2>3, <2>4, <2>5, <2>6, <2>7, <2>8, <2>9
<1>10. ASSUME NEW p \in Peers, NEW x \in Channels
       PROVE  QueueInv(p, x) /\ CloseInv(p, x)
  BY <1>1, <1>3, <1>4 DEF QueueInv, CloseInv, Only, Stamped
<1>11. ASSUME NEW c \in Channels
       PROVE  FreshInv(c) /\ FlowInv(c) /\ JoinInv(c)
  <2>1. /\ ~PathAt(c) /\ ~PathSent(c) /\ ~PathGot(c) /\ ~Accepted(c)
        /\ \A p \in Peers : ~Switching(p, c)
        /\ ~FailAt(c) /\ ~FailSent(c) /\ ~FailGot(c)
    <3>1. /\ \A p \in Peers : bwu[p].pc = "idle" /\ tasks[p] = << >>
          /\ \A p \in Peers, d \in Channels : net[p][d] = << >>
      BY <1>1
    <3>2. \A kind : ~Has(<< >>, kind, c)
      BY <1>3
    <3>3. ~PathAt(c) /\ (\A p \in Peers : ~Switching(p, c)) /\ ~FailAt(c)
      BY <3>1, Two DEF PathAt, Switching, FailAt
    <3>4. ~PathSent(c) /\ ~PathGot(c) /\ ~Accepted(c) /\ ~FailSent(c) /\ ~FailGot(c)
      BY <3>1, <3>2, Two DEF PathSent, PathGot, Accepted, FailSent, FailGot
    <3> QED
      BY <3>3, <3>4
  <2>2. ~Arriving(c) /\ ~Offered(c) /\ ~Failing(c) /\ ~Underway(c)
    BY <1>2, <2>1, Two DEF Arriving, Offered, Failing, Underway
  <2>3. FreshInv(c)
    BY <1>1, <1>2, <1>4, <2>1, <2>2, Two, ConstantsTyped DEF FreshInv, FreshFor
  <2>4. FailsOnce(c)
    <3>1. tasks[Advertiser] = << >> /\ \A d \in Channels : net[Discoverer][d] = << >>
      BY <1>1, Two
    <3>2. /\ \A d \in Channels : ~Has(net[Discoverer][d], "FAIL", c)
                                /\ Once(net[Discoverer][d], "FAIL", c)
          /\ Once(tasks[Advertiser], "FAIL", c)
      BY <1>3, <3>1
    <3> QED
      BY <2>1, <3>2 DEF FailsOnce
  <2>5. FlowInv(c)
    BY <2>1, <2>2, <2>4 DEF FlowInv, Failing
  <2>6. JoinInv(c)
    BY <1>2, <2>1, <2>2, Two DEF JoinInv
  <2> QED
    BY <2>3, <2>5, <2>6
<1> QED
  BY <1>1, <1>5, <1>6, <1>8, <1>9, <1>10, <1>11 DEF Handover

\* What holds at all times: the order of the frames, each device's part, and, while
\* all is fine, how far the two have moved the connection.
HandoverInv == TypeOK /\ WireInv /\ RoleInv /\ (Fine => Handover)

\* It is inductive: a step that all is fine after was taken while all was fine, and keeps
\* the devices in step (RunUpgradeProtocol and the handlers of its shutdown frames).
LEMMA HandoverStep ==
  ASSUME Undisturbed, TypeOK', HandoverInv, [Next]_vars
  PROVE  HandoverInv'
<1>1. TypeOK /\ WireInv /\ RoleInv /\ (Fine => Handover)
  BY DEF HandoverInv
<1>2. CASE Next
  <2>1. WireInv'
    <3>1. OffersInv'
      BY <1>1, <1>2, NextOffers DEF WireInv
    <3>2. \A p \in Peers : DeviceInv(p)'
      BY <1>1, <1>2, NextDevice DEF WireInv
    <3> QED
      BY <3>1, <3>2 DEF WireInv
  <2>2. RoleInv'
    BY <1>1, <1>2, NextRole
  <2>3. ASSUME Fine'
        PROVE  Handover'
    <3>1. Fine
      BY <1>1, <1>2, <2>3, FineBefore
    <3>2. Now
      BY <1>1, <2>3, <3>1 DEF Now
    <3> QED
      BY <1>2, <3>2, NextHandover
  <2> QED
    BY <2>1, <2>2, <2>3 DEF HandoverInv
<1>3. CASE UNCHANGED vars
  <2>1. WireInv'
    BY <1>1, <1>3, StutterWire
  <2>2. UNCHANGED <<chan, net, link, conn, tasks, hist, mgr, bwu>>
    BY <1>3 DEF vars, channelVars
  <2>3. RoleInv'
    BY <1>1, <2>2 DEF RoleInv
  <2>4. Fine' => Fine
    BY <2>2 DEF Fine, AllLinksUp, Registered
  <2>5. Fine' => Handover'
    BY <1>1, <1>3, <2>4, StutterHandover
  <2> QED
    BY <2>1, <2>3, <2>5 DEF HandoverInv
<1> QED
  BY <1>2, <1>3

\* The upgrade protocol keeps the UKEY2 contexts of the two devices in step: with
\* working transports no reader meets a frame that its context cannot decode, unless a
\* worker wrote on a prior channel after that device's SAFE_TO_CLOSE_PRIOR_CHANNEL or an
\* endpoint is being removed (bwu_manager.cc:1290-1380).
THEOREM StaysDecodable ==
  ASSUME Undisturbed
  PROVE  Spec => []DesyncOnlyAfterLateWrite
<1>1. Init => HandoverInv
  BY InitTyped, InitWire, InitHandover DEF HandoverInv
<1>2. TypeOK' /\ HandoverInv /\ [Next]_vars => HandoverInv'
  BY HandoverStep
<1>3. HandoverInv => DesyncOnlyAfterLateWrite
  BY DEF HandoverInv, DesyncOnlyAfterLateWrite, SomeoneLate, Handover, Fine
<1>4. Spec => []TypeOK
  BY TypeCorrect
<1> QED
  BY <1>1, <1>2, <1>3, <1>4, PTL DEF Spec

\* Once nothing of an upgrade is left, the devices agree on the channel and nobody
\* waits: the end of RunUpgradeProtocol on both sides, with working transports and no
\* late write (the provisos of the switch itself).
THEOREM SettlesInAgreement ==
  ASSUME Undisturbed
  PROVE  Spec => [](AllLinksUp /\ ~SomeoneLate => SettledAgreement)
<1>1. Init => HandoverInv
  BY InitTyped, InitWire, InitHandover DEF HandoverInv
<1>2. TypeOK' /\ HandoverInv /\ [Next]_vars => HandoverInv'
  BY HandoverStep
<1>3. HandoverInv => (AllLinksUp /\ ~SomeoneLate => SettledAgreement)
  <2> SUFFICES ASSUME HandoverInv, AllLinksUp, ~SomeoneLate, Settled
               PROVE  /\ conn[Advertiser].active = conn[Discoverer].active
                      /\ \A p \in Peers : ~chan[p][conn[p].active].paused
    BY DEF SettledAgreement
  <2>1. Fine
    BY DEF Settled, SomeoneLate, Fine
  <2>2. Handover /\ TypeOK
    BY <2>1 DEF HandoverInv
  <2>3. \A p \in Peers : Stage(p) = "ease"
    BY <2>2 DEF Handover, ProgressInv, Settled
  <2>4. conn[Advertiser].active = conn[Discoverer].active
    BY <2>2, <2>3, Two DEF Handover, PairInv, Behind, Early, Act
  <2>5. ASSUME NEW p \in Peers
        PROVE  ~chan[p][conn[p].active].paused
    <3>1. conn[p].active \in Channels
      BY <2>1, <2>2, SidesTyped DEF Fine, Registered, Connections
    <3> QED
      BY <2>2, <2>3, <3>1 DEF Handover, ChannelInv
  <2> QED
    BY <2>4, <2>5
<1>4. Spec => []TypeOK
  BY TypeCorrect
<1> QED
  BY <1>1, <1>2, <1>3, <1>4, PTL DEF Spec

-----------------------------------------------------------------------------
(* No frame is lost *)

\* No DATA frame leaves a queue, ...
DataStays ==
  \A r \in Peers, x \in Channels : \A n :
     Has(net[r][x], "DATA", n) => Has(net'[r][x], "DATA", n)

\* ... or none comes or goes, and they stay in order.
Sorted(q) ==
  \A i, j \in DOMAIN q : i < j /\ q[i].kind = "DATA" /\ q[j].kind = "DATA" => q[i].arg < q[j].arg
SameData(s, q) ==
  /\ \A n : Has(s, "DATA", n) <=> Has(q, "DATA", n)
  /\ Sorted(q) => Sorted(s)
DataSame == \A r \in Peers, x \in Channels : SameData(net'[r][x], net[r][x])

\* What the devices have written and received stays as it is.
DataNoted ==
  \A r \in Peers : hist'[r].intime = hist[r].intime /\ hist'[r].got = hist[r].got

\* Such a step loses nothing.
LEMMA DataKept ==
  ASSUME DataStays, DataNoted, NEW p \in Peers, DataInv(p)
  PROVE  DataInv(p)'
<1>1. Received(Other(p))' = Received(Other(p))
  BY Two DEF DataNoted, Received
<1> QED
  BY <1>1 DEF DataStays, DataNoted, DataInv

\* The DATA frames after a frame is appended.
LEMMA AppendData ==
  ASSUME NEW S, NEW q \in Seq(S), NEW f
  PROVE  /\ \A n : Has(Append(q, f), "DATA", n) <=>
                      Has(q, "DATA", n) \/ (f.kind = "DATA" /\ f.arg = n)
         /\ Sorted(q) /\ (f.kind = "DATA" => \A n : Has(q, "DATA", n) => n < f.arg) =>
              Sorted(Append(q, f))
<1> DEFINE s == Append(q, f)
           k == Len(q)
<1>1. /\ k \in Nat /\ DOMAIN q = 1..k /\ DOMAIN s = 1..(k + 1)
      /\ \A i \in 1..k : s[i] = q[i]
      /\ s[k + 1] = f
  OBVIOUS
<1>2. /\ \A i \in DOMAIN q : i \in DOMAIN s /\ s[i] = q[i]
      /\ k + 1 \in DOMAIN s
      /\ \A i \in DOMAIN s : i # k + 1 => i \in DOMAIN q /\ s[i] = q[i]
      /\ \A i, j \in DOMAIN s : i < j => i # k + 1
  BY <1>1
<1> HIDE DEF s, k
<1>3. \A n : Has(s, "DATA", n) <=> Has(q, "DATA", n) \/ (f.kind = "DATA" /\ f.arg = n)
  BY <1>1, <1>2 DEF Has
<1>4. ASSUME Sorted(q), f.kind = "DATA" => \A n : Has(q, "DATA", n) => n < f.arg,
             NEW i \in DOMAIN s, NEW j \in DOMAIN s, i < j, s[i].kind = "DATA", s[j].kind = "DATA"
      PROVE  s[i].arg < s[j].arg
  <2>1. i \in DOMAIN q /\ s[i] = q[i]
    BY <1>2, <1>4
  <2>2. CASE j = k + 1
    BY <1>1, <1>4, <2>1, <2>2 DEF Has
  <2>3. CASE j # k + 1
    BY <1>2, <1>4, <2>1, <2>3 DEF Sorted
  <2> QED
    BY <2>2, <2>3
<1>5. Sorted(q) /\ (f.kind = "DATA" => \A n : Has(q, "DATA", n) => n < f.arg) => Sorted(s)
  BY <1>4 DEF Sorted
<1> QED
  BY <1>3, <1>5 DEF s

\* The DATA frames after the head is taken.
LEMMA TailData ==
  ASSUME NEW S, NEW q \in Seq(S), q # << >>, Sorted(q)
  PROVE  /\ Sorted(Tail(q))
         /\ Head(q).kind = "DATA" => \A n : Has(Tail(q), "DATA", n) => Head(q).arg < n
<1> DEFINE t == Tail(q)
           h == Head(q)
<1>1. /\ 1 \in DOMAIN q /\ q[1] = h
      /\ \A i \in DOMAIN t : i \in Nat /\ i > 0 /\ i + 1 \in DOMAIN q /\ t[i] = q[i + 1]
  BY TailElements
<1> HIDE DEF t, h
<1>2. \A i \in DOMAIN t : 1 < i + 1
  BY <1>1
<1>3. \A i, j \in DOMAIN t : i < j => i + 1 < j + 1
  BY <1>1
<1>4. Sorted(t)
  BY <1>1, <1>3 DEF Sorted
<1>5. h.kind = "DATA" => \A n : Has(t, "DATA", n) => h.arg < n
  BY <1>1, <1>2 DEF Sorted, Has
<1> QED
  BY <1>4, <1>5 DEF t, h

\* A frame of another kind is written (EndpointChannel::Write) or read.
LEMMA OtherData ==
  ASSUME TypeOK, NEW p \in Peers
  PROVE  /\ UNCHANGED net => DataSame
         /\ \A c, kind, arg :
               (Written(p, c, kind, arg) \/ WriteFailed(p, c) \/ Sent(p, c, kind, arg))
               => DataStays /\ (kind # "DATA" => DataSame)
         /\ \A c \in Channels : Takes(p, c) /\ Head(net[p][c]).kind # "DATA" => DataSame
         /\ DataSame => DataStays
<1>1. net \in [Peers -> [Channels -> Seq(Frames)]]
  BY DEF TypeOK, ChannelsTypeOK
<1>2. ASSUME NEW r \in Peers, NEW x \in Channels, net'[r][x] = net[r][x]
      PROVE  SameData(net'[r][x], net[r][x])
  BY <1>2 DEF SameData
<1>3. DataSame => DataStays
  BY DEF DataSame, DataStays, SameData
<1>4. UNCHANGED net => DataSame
  BY <1>2 DEF DataSame
<1>5. ASSUME NEW c, NEW kind, NEW arg,
             Written(p, c, kind, arg) \/ WriteFailed(p, c) \/ Sent(p, c, kind, arg)
      PROVE  DataStays /\ (kind # "DATA" => DataSame)
  <2> DEFINE f == [kind |-> kind, seq |-> Stamp(p, c), arg |-> arg]
  <2>1. UNCHANGED net \/ net' = [net EXCEPT ![p][c] = Append(@, f)]
    BY <1>5 DEF Written, WriteFailed, NotSent, Sent
  <2>2. f.kind = kind
    OBVIOUS
  <2> HIDE DEF f
  <2>3. CASE net' = [net EXCEPT ![p][c] = Append(@, f)]
    <3>1. \A r \in Peers, x \in Channels :
             \/ net'[r][x] = net[r][x]
             \/ net'[r][x] = Append(net[r][x], f)
      BY <1>1, <2>3
    <3>2. ASSUME NEW r \in Peers, NEW x \in Channels, net'[r][x] = Append(net[r][x], f)
          PROVE  /\ \A n : Has(net[r][x], "DATA", n) => Has(net'[r][x], "DATA", n)
                 /\ kind # "DATA" => SameData(net'[r][x], net[r][x])
      <4>1. net[r][x] \in Seq(Frames)
        BY <1>1
      <4> QED
        BY <2>2, <3>2, <4>1, AppendData DEF SameData
    <3> QED
      BY <1>2, <3>1, <3>2 DEF DataStays, DataSame
  <2> QED
    BY <1>3, <1>4, <2>1, <2>3
<1>6. ASSUME NEW c \in Channels, Takes(p, c), Head(net[p][c]).kind # "DATA"
      PROVE  DataSame
  <2>1. net[p][c] \in Seq(Frames) /\ net[p][c] # << >> /\ net'[p][c] = Tail(net[p][c])
    BY <1>1, <1>6 DEF Takes
  <2>2. SameData(net'[p][c], net[p][c])
    <3>1. \A n : Has(net'[p][c], "DATA", n) <=> Has(net[p][c], "DATA", n)
      BY <1>6, <2>1, TailKinds
    <3>2. Sorted(net[p][c]) => Sorted(net'[p][c])
      BY <2>1, TailData
    <3> QED
      BY <3>1, <3>2 DEF SameData
  <2> QED
    BY <1>2, <1>6, <2>2 DEF DataSame, Takes
<1> QED
  BY <1>3, <1>4, <1>5, <1>6

\* BwuManager's thread reads no DATA frame: what it takes from a channel itself is the
\* introduction on a new channel and the DISCONNECTION on the prior one.
LEMMA ThreadData ==
  ASSUME Now, NEW p \in Peers, ThreadStep(p)
  PROVE  DataSame /\ DataNoted
<1>1. TypeOK /\ hist \in [Peers -> Histories] /\ net \in [Peers -> [Channels -> Seq(Frames)]]
  BY DEF Now, TypeOK, WorkersTypeOK, ChannelsTypeOK
<1>2. DataNoted
  <2>1. \/ UNCHANGED hist
        \/ \E x : hist' = [hist EXCEPT ![p].safe = x]
        \/ \E x : hist' = [hist EXCEPT ![p].notified = x]
    BY DEF ThreadStep, InitiateUpgrade, WritePath, ProcessUpgradeFailure, RetryUpgrade,
           ProcessPath, AwaitAck, WriteFailure, IncomingConnection, ReplaceChannel, WriteLast,
           DropFrame, ProcessLast, WriteSafe, ProcessSafe, WriteDisconnection, DrainPrior,
           ResumeUpgraded, EndpointDisconnected
  <2>2. ASSUME NEW x, hist' = [hist EXCEPT ![p].safe = x] \/ hist' = [hist EXCEPT ![p].notified = x]
        PROVE  DataNoted
    <3>1. CASE hist' = [hist EXCEPT ![p].safe = x]
      <4>1. \A r \in Peers : hist'[r].intime = hist[r].intime
        BY <1>1, <3>1 DEF Histories
      <4>2. \A r \in Peers : hist'[r].got = hist[r].got
        BY <1>1, <3>1 DEF Histories
      <4> QED
        BY <4>1, <4>2 DEF DataNoted
    <3>2. CASE hist' = [hist EXCEPT ![p].notified = x]
      <4>1. \A r \in Peers : hist'[r].intime = hist[r].intime
        BY <1>1, <3>2 DEF Histories
      <4>2. \A r \in Peers : hist'[r].got = hist[r].got
        BY <1>1, <3>2 DEF Histories
      <4> QED
        BY <4>1, <4>2 DEF DataNoted
    <3> QED
      BY <2>2, <3>1, <3>2
  <2> QED
    BY <2>1, <2>2 DEF DataNoted
<1>3. CASE UNCHANGED net
  BY <1>1, <1>2, <1>3, OtherData
<1>4. ASSUME NEW q \in Peers, NEW c \in Channels, Takes(q, c), Head(net[q][c]).kind # "DATA"
      PROVE  DataSame
  BY <1>1, <1>4, OtherData
<1>5. CASE AwaitAck(p)
  BY <1>2, <1>4, <1>5, AckRead, Two
<1>6. CASE DrainPrior(p)
  <2>1. CASE ~UNCHANGED net
    <3>1. Prior(p) \in Channels /\ Takes(Other(p), Prior(p))
          /\ Head(net[Other(p)][Prior(p)]).kind # "DATA"
      BY <1>6, <2>1, DrainLeaves
    <3> QED
      BY <1>2, <1>4, <3>1, Two
  <2> QED
    BY <1>3, <2>1
<1>7. CASE IncomingConnection(p)
  <2> DEFINE A == Advertiser
             D == Discoverer
  <2>0. PICK c : c = Arg(p)
    OBVIOUS
  <2>1. /\ c \in Channels /\ A # D /\ A \in Peers /\ D \in Peers
        /\ net' = [net EXCEPT ![D][c] = Tail(@), ![A][c] = @ \o IntroductionAnswer]
        /\ Head(net[D][c]).kind # "DATA" /\ net[D][c] # << >>
    <3>1. CanRead(p, c) /\ p = A /\ Other(p) = D
      BY <1>7, <2>0, IncomingRead, Two
    <3> QED
      BY <1>7, <2>0, <3>1, IncomingRead, Two DEF CanRead, Incoming
  <2>3. /\ net'[D][c] = Tail(net[D][c])
        /\ net'[A][c] = net[A][c] \o IntroductionAnswer
        /\ \A r \in Peers, x \in Channels : x # c => net'[r][x] = net[r][x]
        /\ net[A][c] \in Seq(Frames) /\ net[D][c] \in Seq(Frames)
    BY <1>1, <2>1
  <2>4. SameData(net'[D][c], net[D][c])
    <3>1. \A n : Has(net'[D][c], "DATA", n) <=> Has(net[D][c], "DATA", n)
      BY <2>1, <2>3, TailKinds
    <3>2. Sorted(net[D][c]) => Sorted(net'[D][c])
      BY <2>1, <2>3, TailData
    <3> QED
      BY <3>1, <3>2 DEF SameData
  <2>5. SameData(net'[A][c], net[A][c])
    <3> DEFINE f == [kind |-> "ACK", seq |-> 0, arg |-> 0]
    <3>1. net[A][c] \o <<f>> = Append(net[A][c], f) /\ net[A][c] \o << >> = net[A][c]
      BY <2>3
    <3>2. f.kind # "DATA"
      OBVIOUS
    <3>3. net'[A][c] = Append(net[A][c], f) \/ net'[A][c] = net[A][c]
      BY <2>3, <3>1 DEF IntroductionAnswer
    <3> HIDE DEF f
    <3>4. SameData(net[A][c], net[A][c])
      BY DEF SameData
    <3>5. SameData(Append(net[A][c], f), net[A][c])
      <4>1. \A n : Has(Append(net[A][c], f), "DATA", n) <=> Has(net[A][c], "DATA", n)
        BY <2>3, <3>2, AppendData
      <4>2. Sorted(net[A][c]) => Sorted(Append(net[A][c], f))
        BY <2>3, <3>2, AppendData
      <4> QED
        BY <4>1, <4>2 DEF SameData
    <3> QED
      BY <3>3, <3>4, <3>5
  <2>6. \A r \in Peers, x \in Channels : x # c => SameData(net'[r][x], net[r][x])
    BY <2>3 DEF SameData
  <2> QED
    BY <1>2, <2>4, <2>5, <2>6, Two DEF DataSame
<1>8. CASE ProcessPath(p)
  <2>1. UNCHANGED net \/ \E c : Sent(p, c, "INTRO", 0)
    BY <1>8 DEF ProcessPath, CloseAllChannels, Join, JoinFails, channelVars
  <2> QED
    BY <1>1, <1>2, <1>3, <2>1, OtherData
<1>9. CASE WritePath(p) \/ WriteFailure(p) \/ WriteLast(p) \/ WriteSafe(p) \/ WriteDisconnection(p)
  <2>1. \/ UNCHANGED net
        \/ \E c, kind, arg : kind # "DATA" /\ (Written(p, c, kind, arg) \/ WriteFailed(p, c))
    BY <1>9 DEF WritePath, WriteFailure, WriteLast, WriteSafe, WriteDisconnection, channelVars
  <2> QED
    BY <1>1, <1>2, <1>3, <2>1, OtherData
<1>10. CASE \/ InitiateUpgrade(p) \/ ProcessUpgradeFailure(p) \/ RetryUpgrade(p)
            \/ ReplaceChannel(p) \/ DropFrame(p) \/ ProcessLast(p) \/ ProcessSafe(p)
            \/ ResumeUpgraded(p) \/ EndpointDisconnected(p)
  <2>1. UNCHANGED net
    BY <1>10 DEF InitiateUpgrade, ProcessUpgradeFailure, RetryUpgrade, ReplaceChannel, DropFrame,
                 ProcessLast, ProcessSafe, ResumeUpgraded, EndpointDisconnected, channelVars
  <2> QED
    BY <1>3, <2>1
<1> QED
  BY <1>5, <1>6, <1>7, <1>8, <1>9, <1>10 DEF ThreadStep

\* The client of every device reports the connection, or frames are not filtered.
Reported == FilterUnconfirmed => InitiallyConnected = Peers

\* A DATA frame that is read goes to the PayloadManager: its number is the next one, it
\* was written in clear on a channel whose encryption is off, and the client knows of the
\* connection (EndpointManager::HandleData).
LEMMA FrameData ==
  ASSUME Now, Reported, NEW p \in Peers, ReaderFrame(p), \A r \in Peers : DataInv(r)
  PROVE  \A r \in Peers : DataInv(r)'
<1> DEFINE q == Other(p)
           c == reader[p].chan
           f == Head(Incoming(p, c))
           d == Decoding(p, c, f)
<1>1. /\ TypeOK /\ WireInv /\ Handover /\ Fine
      /\ hist \in [Peers -> Histories] /\ reader \in [Peers -> Loops]
      /\ q \in Peers /\ q # p /\ \A r \in Peers : r = p \/ r = q
  BY Two DEF Now, TypeOK, WorkersTypeOK
<1>2. c \in Channels /\ reader[p].pc = "read" /\ CanRead(p, c) /\ net' = Popped(p, c)
  BY <1>1 DEF ReaderFrame, Loops
<1>3. Takes(q, c) /\ f = Head(net[q][c]) /\ net[q][c] \in Seq(Frames)
  BY <1>1, <1>2, PoppedTakes, SidesTyped DEF Incoming
<1>4. f.kind = "DATA" => d \in {"decoded", "clear"}
  BY <1>1, <1>2, ReadDecodes DEF Clear
<1>5. ~Unconfirmed(p, f) \/ f.kind # "DATA"
  BY <1>1 DEF Reported, Handover, ConnectedInv, Unconfirmed
<1>6. /\ \/ d = "invalid" /\ hist' = [hist EXCEPT ![p].desync = @ \/ f.seq # 0]
         \/ (d = "garbage" \/ Unconfirmed(p, f)) /\ UNCHANGED hist
         \/ d \in {"decoded", "clear"} /\ Route(p, c, f)
  BY DEF ReaderFrame
<1> HIDE DEF c, f, d
<1>7. CASE f.kind = "DATA"
  <2>1. d # "invalid" /\ d # "garbage" /\ ~Unconfirmed(p, f)
    BY <1>4, <1>5, <1>7
  <2>2. hist' = [hist EXCEPT ![p].got = Append(@, f.arg)]
    BY <1>6, <1>7, <2>1 DEF Route, Negotiation
  <2>3. hist[p].got \in Seq(Nat) /\ f.arg \in Nat
    <3>1. f \in Frames
      BY <1>3, TailElements DEF Takes
    <3> QED
      BY <1>1, <1>7, <3>1 DEF Histories, Frames
  <2>4. /\ hist'[p].got = Append(hist[p].got, f.arg) /\ hist'[q].got = hist[q].got
        /\ \A r \in Peers : hist'[r].intime = hist[r].intime
    <3>1. hist'[p].got = Append(hist[p].got, f.arg) /\ hist'[q].got = hist[q].got
      BY <1>1, <2>2 DEF Histories
    <3>2. \A r \in Peers : hist'[r].intime = hist[r].intime
      BY <1>1, <2>2 DEF Histories
    <3> QED
      BY <3>1, <3>2
  <2>5. Received(p)' = Received(p) \cup {f.arg} /\ Received(q)' = Received(q)
    <3> DEFINE s == hist[p].got
               t == Append(hist[p].got, f.arg)
    <3>1. /\ DOMAIN s = 1..Len(s) /\ DOMAIN t = 1..(Len(s) + 1) /\ Len(s) \in Nat
          /\ \A i \in 1..Len(s) : t[i] = s[i]
          /\ t[Len(s) + 1] = f.arg
      BY <2>3
    <3>2. 1..(Len(s) + 1) = 1..Len(s) \cup {Len(s) + 1}
      BY <3>1
    <3> HIDE DEF t, s
    <3>3. {t[i] : i \in DOMAIN t} = {s[i] : i \in DOMAIN s} \cup {f.arg}
      BY <3>1, <3>2
    <3> QED
      BY <2>4, <3>3 DEF Received, s, t
  <2>6. \A n : Has(net[q][c], "DATA", n) => n = f.arg \/ Has(net'[q][c], "DATA", n)
    BY <1>3, TailKinds DEF Takes
  <2>7. DataInv(q)'
    <3>1. Other(q) = p
      BY Two
    <3> QED
      BY <1>1, <1>3, <2>4, <2>5, <2>6, <3>1 DEF DataInv, Takes
  <2>8. DataInv(p)'
    BY <1>1, <1>3, <2>4, <2>5 DEF DataInv, Takes
  <2> QED
    BY <1>1, <2>7, <2>8
<1>8. CASE f.kind # "DATA"
  <2>1. DataStays
    BY <1>1, <1>2, <1>3, <1>8, OtherData
  <2>2. UNCHANGED hist \/ \E b : hist' = [hist EXCEPT ![p].desync = b]
    BY <1>6, <1>8 DEF Route
  <2>3. DataNoted
    <3>1. CASE UNCHANGED hist
      BY <3>1 DEF DataNoted
    <3>2. ASSUME NEW b, hist' = [hist EXCEPT ![p].desync = b]
          PROVE  DataNoted
      <4>1. \A r \in Peers : hist'[r].intime = hist[r].intime
        BY <1>1, <3>2 DEF Histories
      <4>2. \A r \in Peers : hist'[r].got = hist[r].got
        BY <1>1, <3>2 DEF Histories
      <4> QED
        BY <4>1, <4>2 DEF DataNoted
    <3> QED
      BY <2>2, <3>1, <3>2
  <2> QED
    BY <2>1, <2>3, DataKept
<1> QED
  BY <1>7, <1>8

\* SendTransferFrameBytes: a DATA frame that was written in time is in flight.
LEMMA WriterData ==
  ASSUME Now, NEW p \in Peers, WriterWrite(p), \A r \in Peers : DataInv(r)
  PROVE  \A r \in Peers : DataInv(r)'
<1> DEFINE c == writer[p].chan
           n == writer[p].count + 1
<1>1. /\ TypeOK /\ hist \in [Peers -> Histories] /\ writer \in [Peers -> Loops]
      /\ net \in [Peers -> [Channels -> Seq(Frames)]]
  BY DEF Now, TypeOK, WorkersTypeOK, ChannelsTypeOK
<1>2. c \in Channels /\ n \in Nat
  BY <1>1 DEF Loops
<1>3. \/ /\ Written(p, c, "DATA", n)
         /\ hist' = IF c \in hist[p].safe
                    THEN [hist EXCEPT ![p].overdue = @ \cup {n}, ![p].late = TRUE]
                    ELSE [hist EXCEPT ![p].intime = @ \cup {n}]
      \/ WriteFailed(p, c) /\ UNCHANGED hist
  BY DEF WriterWrite
<1> HIDE DEF c, n
<1>4. DataStays
  BY <1>1, <1>3, OtherData
<1>5. CASE hist' = [hist EXCEPT ![p].intime = @ \cup {n}] /\ Written(p, c, "DATA", n)
  <2>1. /\ hist'[p].intime = hist[p].intime \cup {n}
        /\ \A r \in Peers : hist'[r].got = hist[r].got
        /\ \A r \in Peers : r # p => hist'[r].intime = hist[r].intime
    <3>1. hist'[p].intime = hist[p].intime \cup {n}
      BY <1>1, <1>5 DEF Histories
    <3>2. \A r \in Peers : hist'[r].got = hist[r].got
      BY <1>1, <1>5 DEF Histories
    <3>3. \A r \in Peers : r # p => hist'[r].intime = hist[r].intime
      BY <1>1, <1>5
    <3> QED
      BY <3>1, <3>2, <3>3
  <2>2. Has(net'[p][c], "DATA", n)
    <3> DEFINE f == FrameOf(p, c, "DATA", n)
    <3>1. [kind |-> "DATA", seq |-> 0, arg |-> n] \in Frames
      BY <1>2 DEF Frames
    <3>2. Appends(p, c, f) /\ f.kind = "DATA" /\ f.arg = n
      BY <1>1, <1>2, <1>5, <3>1, SentAppends DEF Written
    <3> HIDE DEF f
    <3> QED
      BY <1>1, <1>2, <3>2, AppendKinds DEF Appends
  <2>3. ASSUME NEW r \in Peers
        PROVE  Received(Other(r))' = Received(Other(r))
    BY <2>1, Two DEF Received
  <2> QED
    BY <1>2, <1>4, <2>1, <2>2, <2>3 DEF DataInv, DataStays
<1>6. CASE \/ UNCHANGED hist
           \/ hist' = [hist EXCEPT ![p].overdue = @ \cup {n}, ![p].late = TRUE]
  <2>1. DataNoted
    <3>1. CASE UNCHANGED hist
      BY <3>1 DEF DataNoted
    <3>2. CASE hist' = [hist EXCEPT ![p].overdue = @ \cup {n}, ![p].late = TRUE]
      BY <1>1, <3>2 DEF DataNoted, Histories
    <3> QED
      BY <1>6, <3>1, <3>2
  <2> QED
    BY <1>4, <2>1, DataKept
<1> QED
  BY <1>3, <1>5, <1>6

\* Every other step leaves the frames and the histories alone.
LEMMA NextData ==
  ASSUME Now, Reported, Next, \A r \in Peers : DataInv(r)
  PROVE  \A r \in Peers : DataInv(r)'
<1>1. TypeOK /\ hist \in [Peers -> Histories] /\ conn \in [Peers -> Connections]
  BY DEF Now, TypeOK, WorkersTypeOK
<1>2. CASE UNCHANGED <<net, hist>>
  <2>1. DataStays /\ DataNoted
    BY <1>2 DEF DataStays, DataNoted
  <2> QED
    BY <2>1, DataKept
<1>3. ASSUME NEW p \in Peers, ThreadStep(p)
      PROVE  \A r \in Peers : DataInv(r)'
  BY <1>1, <1>3, ThreadData, OtherData, DataKept
<1>4. ASSUME NEW p \in Peers, RequestUpgrade(p) \/ RetryAlarm(p)
      PROVE  UNCHANGED <<net, hist>>
  BY <1>4 DEF RequestUpgrade, RetryAlarm, channelVars
<1>5. ASSUME NEW c \in Channels, Accept(c)
      PROVE  UNCHANGED <<net, hist>>
  BY <1>5 DEF Accept
<1>6. ASSUME NEW c \in Channels, BreakLink(c)
      PROVE  UNCHANGED <<net, hist>>
  BY <1>6 DEF BreakLink, Break, channelVars
<1>7. ASSUME NEW p \in Peers, ReaderAck(p) \/ KeeperWrite(p)
      PROVE  \A r \in Peers : DataInv(r)'
  <2>1. /\ \E c, kind, arg : Written(p, c, kind, arg) \/ WriteFailed(p, c)
        /\ UNCHANGED hist \/ \E c : hist' = Noted(p, c)
    BY <1>7 DEF ReaderAck, KeeperWrite
  <2>2. DataStays
    BY <1>1, <2>1, OtherData
  <2>3. DataNoted
    <3>1. CASE UNCHANGED hist
      BY <3>1 DEF DataNoted
    <3>2. ASSUME NEW c, hist' = Noted(p, c)
          PROVE  DataNoted
      <4>1. \A r \in Peers : hist'[r].intime = hist[r].intime
        BY <1>1, <3>2 DEF Histories, Noted
      <4>2. \A r \in Peers : hist'[r].got = hist[r].got
        BY <1>1, <3>2 DEF Histories, Noted
      <4> QED
        BY <4>1, <4>2 DEF DataNoted
    <3> QED
      BY <2>1, <3>1, <3>2
  <2> QED
    BY <2>2, <2>3, DataKept
<1>8. ASSUME NEW p \in Peers,
             \/ ReaderFetch(p) \/ ReaderRead(p) \/ ReaderFail(p) \/ KeeperFetch(p)
             \/ KeeperTimeout(p) \/ WriterFetch(p) \/ OnConnectionAccepted(p) \/ Leave(p)
             \/ BeginRemoval(p) \/ Disconnected(p)
      PROVE  UNCHANGED <<net, hist>>
  BY <1>8 DEF ReaderFetch, ReaderRead, ReaderFail, KeeperFetch, KeeperTimeout, WriterFetch,
              OnConnectionAccepted, Leave, BeginRemoval, Disconnected, channelVars
<1>9. ASSUME NEW p \in Peers, RemoveEndpoint(p)
      PROVE  FALSE
  <2>1. conn'[p].em = "up"
    BY DEF Now, Fine, Registered
  <2>2. conn'[p].em = "removing"
    BY <1>1, <1>9 DEF RemoveEndpoint, Connections
  <2> QED
    BY <2>1, <2>2
<1> QED
  BY <1>2, <1>3, <1>4, <1>5, <1>6, <1>7, <1>8, <1>9, FrameData, WriterData
  DEF Next, WorkersNext, ReaderStep, KeeperStep, WriterStep

\* While all is fine, what was written in time is received or in flight.
LossInv == HandoverInv /\ (Fine => \A p \in Peers : DataInv(p))

\* No step loses a frame: not the reader's, nor the closing of the prior channel
\* (ProcessSafeToClosePriorChannelEvent).
LEMMA LossStep ==
  ASSUME Undisturbed, Reported, TypeOK', LossInv, [Next]_vars
  PROVE  LossInv'
<1>1. TypeOK /\ HandoverInv /\ HandoverInv'
  BY HandoverStep DEF LossInv, HandoverInv
<1>2. CASE Next
  <2>1. ASSUME Fine'
        PROVE  \A p \in Peers : DataInv(p)'
    <3>1. Fine
      BY <1>1, <1>2, <2>1, FineBefore
    <3>2. Now
      BY <1>1, <2>1, <3>1 DEF Now, HandoverInv
    <3> QED
      BY <1>2, <3>1, <3>2, NextData DEF LossInv
  <2> QED
    BY <1>1, <2>1 DEF LossInv
<1>3. CASE UNCHANGED vars
  <2>1. UNCHANGED <<net, link, conn, hist>>
    BY <1>3 DEF vars, channelVars
  <2>2. Fine' => Fine
    BY <2>1 DEF Fine, AllLinksUp, Registered
  <2>3. DataStays /\ DataNoted
    BY <2>1 DEF DataStays, DataNoted
  <2> QED
    BY <1>1, <2>2, <2>3, DataKept DEF LossInv
<1> QED
  BY <1>2, <1>3

\* A frame in flight can still be read: no reader has closed its channel, for a channel
\* is closed only when its queue holds nothing but DISCONNECTIONs.
LEMMA StillReadable ==
  ASSUME TypeOK, Handover, \A p \in Peers : DataInv(p)
  PROVE  \A p \in Peers : \A n \in hist[p].intime :
            InFlight(p, n) \/ n \in Received(Other(p))
<1> SUFFICES ASSUME NEW p \in Peers, NEW n \in hist[p].intime, n \notin Received(Other(p))
             PROVE  InFlight(p, n)
  OBVIOUS
<1>1. PICK x \in Channels : Has(net[p][x], "DATA", n)
  BY DEF DataInv
<1>2. PICK i \in DOMAIN net[p][x] : net[p][x][i].kind = "DATA" /\ net[p][x][i].arg = n
  BY <1>1 DEF Has
<1>3. ~chan[Other(p)][x].closed
  <2>1. Other(p) \in Peers /\ Other(Other(p)) = p
    BY Two
  <2>2. CloseInv(Other(p), x)
    BY <2>1 DEF Handover
  <2> QED
    BY <1>2, <2>1, <2>2 DEF CloseInv, Spent, Only
<1> QED
  BY <1>2, <1>3 DEF InFlight

\* "There can be no data loss" when the prior channel is closed (bwu_manager.cc:1345):
\* with working transports and the endpoint registered, a payload frame written before
\* the device's SAFE_TO_CLOSE_PRIOR_CHANNEL, or on the upgraded channel, is received or
\* can still be read, unless a worker wrote on a prior channel after it.
THEOREM NothingLost ==
  ASSUME Undisturbed, Reported
  PROVE  Spec => []NoDataLoss
<1>1. Init => LossInv
  <2>1. Init => \A p \in Peers : DataInv(p)
    BY DEF Init, WorkersInit, DataInv
  <2> QED
    BY <2>1, InitTyped, InitWire, InitHandover DEF HandoverInv, LossInv
<1>2. TypeOK' /\ LossInv /\ [Next]_vars => LossInv'
  BY LossStep
<1>3. LossInv => NoDataLoss
  BY StillReadable DEF LossInv, HandoverInv, NoDataLoss, Fine
<1>4. Spec => []TypeOK
  BY TypeCorrect
<1> QED
  BY <1>1, <1>2, <1>3, <1>4, PTL DEF Spec

-----------------------------------------------------------------------------
(* The order of the payload frames *)

\* The payload thread (SendTransferFrameBytes) and the reader go from channel to channel
\* and never back, so that the frames are in line over all channels, and what was
\* received is ahead of what the reader will come to.
AfterReceived(p, x) == \A n : Has(net[p][x], "DATA", n) =>
  \A m \in Received(Other(p)) : m < n
BeforeWritten(p, x) == \A n : Has(net[p][x], "DATA", n) =>
  x <= writer[p].chan /\ n <= writer[p].count
LineInv(p) ==
  /\ writer[p].chan <= Act(p) /\ reader[p].chan <= Act(p)
  /\ \A x \in Channels : Sorted(net[p][x]) /\ BeforeWritten(p, x)
  /\ \A x \in Channels : reader[Other(p)].chan <= x => AfterReceived(p, x)
  /\ \A x, y \in Channels : x < y =>
       \A m, n : Has(net[p][x], "DATA", m) /\ Has(net[p][y], "DATA", n) => m < n
  /\ \A m \in Received(Other(p)) : m <= writer[p].count
  /\ \A i, j \in DOMAIN hist[Other(p)].got : i < j => hist[Other(p)].got[i] < hist[Other(p)].got[j]

\* Only RunUpgradeProtocol changes the channel of an endpoint that stays registered, ...
LEMMA ActiveMoves ==
  ASSUME TypeOK, TypeOK', Fine', Next, NEW p \in Peers
  PROVE  Act(p)' = Act(p) \/ (ReplaceChannel(p) /\ Act(p)' = bwu[p].chan)
<1>1. conn \in [Peers -> Connections] /\ conn'[p] \in Connections /\ conn'[p].em = "up"
  BY DEF TypeOK, WorkersTypeOK, Fine, Registered
<1>2. ASSUME UNCHANGED conn
      PROVE  Act(p)' = Act(p)
  BY <1>2 DEF Act
<1>3. ASSUME NEW r \in Peers, ReplaceChannel(r)
      PROVE  Act(p)' = Act(p) \/ (ReplaceChannel(p) /\ Act(p)' = bwu[p].chan)
  BY <1>1, <1>3 DEF ReplaceChannel, Act, Connections
<1>4. ASSUME NEW r \in Peers, ThreadStep(r), ~ReplaceChannel(r)
      PROVE  Act(p)' = Act(p)
  <2>1. UNCHANGED conn \/ \E x : conn' = [conn EXCEPT ![r].em = x]
    BY <1>4 DEF ThreadStep, InitiateUpgrade, WritePath, ProcessUpgradeFailure, RetryUpgrade,
           ProcessPath, AwaitAck, WriteFailure, IncomingConnection, WriteLast,
           DropFrame, ProcessLast, WriteSafe, ProcessSafe, WriteDisconnection, DrainPrior,
           ResumeUpgraded, EndpointDisconnected
  <2> QED
    BY <1>1, <2>1 DEF Act, Connections
<1>5. ASSUME NEW r \in Peers, RequestUpgrade(r) \/ RetryAlarm(r)
      PROVE  UNCHANGED conn
  BY <1>5 DEF RequestUpgrade, RetryAlarm
<1>6. ASSUME NEW c \in Channels, Accept(c)
      PROVE  UNCHANGED conn
  BY <1>6 DEF Accept
<1>7. ASSUME WorkersNext
      PROVE  Act(p)' = Act(p)
  <2>1. ASSUME NEW r \in Peers, RemoveEndpoint(r)
        PROVE  Act(p)' = Act(p)
    <3>1. conn' = [conn EXCEPT ![r].active = None, ![r].em = "removing"]
      BY <2>1 DEF RemoveEndpoint
    <3>2. r # p
      BY <1>1, <3>1 DEF Connections
    <3> QED
      BY <1>1, <3>1, <3>2 DEF Act
  <2>2. ASSUME NEW r \in Peers,
               \/ ReaderStep(r) \/ KeeperStep(r) \/ WriterStep(r) \/ KeeperTimeout(r)
               \/ BeginRemoval(r) \/ Disconnected(r) \/ OnConnectionAccepted(r) \/ Leave(r)
        PROVE  Act(p)' = Act(p)
    <3>1. UNCHANGED conn \/ Act(p)' = Act(p)
      <4>1. CASE ReaderStep(r) \/ KeeperStep(r) \/ WriterStep(r) \/ KeeperTimeout(r)
        BY <4>1 DEF ReaderStep, KeeperStep, WriterStep, KeeperTimeout, ReaderFetch, ReaderRead,
               ReaderFail, ReaderFrame, ReaderAck, KeeperFetch, KeeperWrite, WriterFetch,
               WriterWrite
      <4>2. CASE BeginRemoval(r)
        BY <1>1, <4>2 DEF BeginRemoval, Act, Connections
      <4>3. CASE Disconnected(r)
        BY <1>1, <4>3 DEF Disconnected, Act, Connections
      <4>4. CASE OnConnectionAccepted(r) \/ Leave(r)
        BY <1>1, <4>4 DEF OnConnectionAccepted, Leave, Act, Connections
      <4> QED
        BY <2>2, <4>1, <4>2, <4>3, <4>4
    <3> QED
      BY <1>2, <3>1
  <2>3. ASSUME NEW c \in Channels, BreakLink(c)
        PROVE  Act(p)' = Act(p)
    BY <1>2, <2>3 DEF BreakLink
  <2> QED
    BY <1>7, <2>1, <2>2, <2>3 DEF WorkersNext
<1> QED
  BY <1>2, <1>3, <1>4, <1>5, <1>6, <1>7 DEF Next

\* ... for one that was offered later.
LEMMA LaterChannel ==
  ASSUME Now, Next, NEW p \in Peers
  PROVE  Act(p) \in Nat /\ Act(p)' \in Nat /\ Act(p) <= Act(p)'
<1>1. /\ TypeOK /\ WireInv /\ RoleInv /\ Handover /\ Fine /\ TypeOK' /\ Fine'
      /\ opened \in Nat /\ \A c \in Channels : c \in Nat
  BY ConstantsTyped, OpenedTyped DEF Now
<1>2. Act(p) \in Channels
  BY <1>1, Standing
<1>3. CASE Act(p)' = Act(p)
  BY <1>1, <1>2, <1>3
<1>4. CASE ReplaceChannel(p) /\ Act(p)' = bwu[p].chan
  <2>1. bwu[p].pc = "replace"
    BY <1>4 DEF ReplaceChannel
  <2>2. bwu[p].chan = opened /\ bwu[p].chan \in Channels
    BY <1>1, <2>1, ReplaceState
  <2>3. ~(Act(p) > opened)
    BY <1>1, <1>2, Two DEF Handover, FreshInv, FreshFor
  <2> QED
    BY <1>1, <1>2, <1>4, <2>2, <2>3
<1> QED
  BY <1>1, <1>3, <1>4, ActiveMoves

\* The loops stay on their channel or take the active one.
LineMove(p) ==
  /\ Act(p) \in Nat /\ Act(p)' \in Nat /\ Act(p) <= Act(p)'
  /\ writer'[p].count = writer[p].count \/ writer'[p].count = writer[p].count + 1
  /\ writer'[p].chan = writer[p].chan \/ writer'[p].chan = Act(p)
  /\ reader'[p].chan = reader[p].chan \/ reader'[p].chan = Act(p)

LEMMA LineMoves ==
  ASSUME Now, Next, NEW p \in Peers
  PROVE  LineMove(p)
<1>1. writer \in [Peers -> Loops] /\ reader \in [Peers -> Loops]
  BY DEF Now, TypeOK, WorkersTypeOK
<1>2. Act(p) \in Nat /\ Act(p)' \in Nat /\ Act(p) <= Act(p)'
  BY LaterChannel
<1>3. ASSUME UNCHANGED <<reader, writer>>
      PROVE  LineMove(p)
  BY <1>2, <1>3 DEF LineMove
<1>4. ASSUME NEW r \in Peers, ThreadStep(r) \/ RequestUpgrade(r) \/ RetryAlarm(r)
      PROVE  UNCHANGED <<reader, writer>>
  <2>1. UNCHANGED workerVars
    BY <1>4 DEF ThreadStep, RequestUpgrade, RetryAlarm, InitiateUpgrade, WritePath,
           ProcessUpgradeFailure, RetryUpgrade, ProcessPath, AwaitAck, WriteFailure,
           IncomingConnection, ReplaceChannel, WriteLast, DropFrame, ProcessLast, WriteSafe,
           ProcessSafe, WriteDisconnection, DrainPrior, ResumeUpgraded, EndpointDisconnected
  <2> QED
    BY <2>1 DEF workerVars
<1>5. ASSUME NEW c \in Channels, Accept(c) \/ BreakLink(c)
      PROVE  UNCHANGED <<reader, writer>>
  BY <1>5 DEF Accept, BreakLink, workerVars
<1>6. ASSUME NEW r \in Peers, ReaderStep(r)
      PROVE  LineMove(p)
  <2>1. UNCHANGED writer
    BY <1>6 DEF ReaderStep, ReaderFetch, ReaderRead, ReaderFail, ReaderFrame, ReaderAck
  <2>2. \/ \E pc : reader' = [reader EXCEPT ![r].pc = pc]
        \/ reader' = [reader EXCEPT ![r] = LoopFailed(@)]
        \/ reader' = [reader EXCEPT ![r] = LoopFetch(r, @)]
    BY <1>6 DEF ReaderStep, ReaderFetch, ReaderRead, ReaderFail, ReaderFrame, ReaderAck, Route
  <2>3. reader'[p].chan = reader[p].chan \/ reader'[p].chan = Act(p)
    <3>1. ASSUME NEW pc, reader' = [reader EXCEPT ![r].pc = pc]
          PROVE  reader'[p].chan = reader[p].chan
      BY <1>1, <3>1 DEF Loops
    <3>2. CASE reader' = [reader EXCEPT ![r] = LoopFailed(@)]
      BY <1>1, <3>2 DEF Loops, LoopFailed
    <3>3. CASE reader' = [reader EXCEPT ![r] = LoopFetch(r, @)]
      BY <1>1, <3>3 DEF Loops, LoopFetch, Act
    <3> QED
      BY <2>2, <3>1, <3>2, <3>3
  <2> QED
    BY <1>2, <2>1, <2>3 DEF LineMove
<1>7. ASSUME NEW r \in Peers, WriterStep(r)
      PROVE  LineMove(p)
  <2>1. CASE WriterFetch(r)
    <3>1. /\ UNCHANGED reader
          /\ writer' = [writer EXCEPT ![r].pc = "idle", ![r].chan = conn[r].active]
      BY <2>1 DEF WriterFetch
    <3> QED
      BY <1>1, <1>2, <3>1 DEF LineMove, Act, Loops
  <2>2. CASE WriterWrite(r)
    <3>1. /\ UNCHANGED reader
          /\ writer' = [writer EXCEPT ![r].pc = "fetch", ![r].count = writer[r].count + 1]
      BY <2>2 DEF WriterWrite
    <3> QED
      BY <1>1, <1>2, <3>1 DEF LineMove, Loops
  <2> QED
    BY <1>7, <2>1, <2>2 DEF WriterStep
<1>8. ASSUME NEW r \in Peers,
             \/ KeeperStep(r) \/ BeginRemoval(r) \/ RemoveEndpoint(r) \/ Disconnected(r)
             \/ OnConnectionAccepted(r) \/ KeeperTimeout(r) \/ Leave(r)
      PROVE  UNCHANGED <<reader, writer>>
  BY <1>8 DEF KeeperStep, KeeperFetch, KeeperWrite, BeginRemoval, RemoveEndpoint, Disconnected,
         OnConnectionAccepted, KeeperTimeout, Leave, workerVars
<1> QED
  BY <1>3, <1>4, <1>5, <1>6, <1>7, <1>8 DEF Next, WorkersNext

\* What the line is compared by: numbers of channels and frames.
LEMMA LineTyped ==
  ASSUME TypeOK, NEW p \in Peers
  PROVE  /\ writer[p].chan \in Nat /\ writer[p].chan \in Channels /\ writer[p].count \in Nat
         /\ reader[p].chan \in Nat /\ reader[p].chan \in Channels
         /\ \A x \in Channels : \A n : Has(net[p][x], "DATA", n) => n \in Nat
         /\ hist[p].got \in Seq(Nat)
         /\ \A m \in Received(p) : m \in Nat
         /\ \A x \in Channels : x \in Nat
<1>1. writer[p] \in Loops /\ reader[p] \in Loops /\ hist[p] \in Histories
  BY DEF TypeOK, WorkersTypeOK
<1>2. \A x \in Channels : x \in Nat
  BY ConstantsTyped
<1>3. ASSUME NEW x \in Channels, NEW n, Has(net[p][x], "DATA", n)
      PROVE  n \in Nat
  <2>1. PICK i \in DOMAIN net[p][x] : net[p][x][i].kind = "DATA" /\ net[p][x][i].arg = n
    BY <1>3 DEF Has
  <2>2. net[p][x] \in Seq(Frames)
    BY SidesTyped
  <2>3. net[p][x][i] \in Frames
    BY <2>1, <2>2
  <2> QED
    BY <2>1, <2>3 DEF Frames
<1>4. hist[p].got \in Seq(Nat)
  BY <1>1 DEF Histories
<1>5. \A m \in Received(p) : m \in Nat
  BY <1>4 DEF Received
<1> QED
  BY <1>1, <1>2, <1>3, <1>4, <1>5 DEF Loops

\* DATA frames were taken, or none.
FewerData(s, q) ==
  (\A n : Has(s, "DATA", n) => Has(q, "DATA", n)) /\ (Sorted(q) => Sorted(s))

\* What keeps the line of p: no frame is added and none received, the loops move on.
LEMMA LineKept ==
  ASSUME TypeOK, TypeOK', NEW p \in Peers,
         \A x \in Channels : FewerData(net'[p][x], net[p][x]),
         hist'[Other(p)].got = hist[Other(p)].got,
         \A r \in Peers : LineMove(r) /\ LineInv(r)
  PROVE  LineInv(p)'
<1> DEFINE q == Other(p)
<1>1. q \in Peers /\ LineMove(p) /\ LineMove(q) /\ LineInv(p) /\ LineInv(q)
  BY Two
<1>2. hist'[q].got = hist[q].got /\ Received(q)' = Received(q)
  BY DEF Received
<1>3. \A x \in Channels : \A n : Has(net'[p][x], "DATA", n) => Has(net[p][x], "DATA", n)
  BY DEF FewerData
<1>4. \A x \in Channels : Sorted(net[p][x]) => Sorted(net'[p][x])
  BY DEF FewerData
<1> HIDE DEF q
<1>5. /\ writer[p].chan <= writer'[p].chan /\ writer[p].count <= writer'[p].count
      /\ writer'[p].chan <= Act(p)' /\ reader'[p].chan <= Act(p)'
      /\ reader[q].chan <= reader'[q].chan
      /\ writer'[p].chan \in Nat /\ writer'[p].count \in Nat /\ reader'[q].chan \in Nat
  <2>1. writer[p].chan <= Act(p) /\ reader[p].chan <= Act(p) /\ reader[q].chan <= Act(q)
    BY <1>1 DEF LineInv
  <2>2. /\ writer[p].chan \in Nat /\ writer[p].count \in Nat /\ reader[p].chan \in Nat
        /\ reader[q].chan \in Nat
    BY <1>1, LineTyped
  <2> QED
    BY <1>1, <2>1, <2>2 DEF LineMove
<1>6. ASSUME NEW x \in Channels
      PROVE  Sorted(net'[p][x]) /\ BeforeWritten(p, x)'
  <2>1. Sorted(net[p][x]) /\ BeforeWritten(p, x)
    BY <1>1 DEF LineInv
  <2>2. ASSUME NEW n, Has(net'[p][x], "DATA", n)
        PROVE  x <= writer'[p].chan /\ n <= writer'[p].count
    <3>1. x <= writer[p].chan /\ n <= writer[p].count /\ n \in Nat /\ x \in Nat
      BY <1>3, <2>1, <2>2, LineTyped DEF BeforeWritten
    <3> QED
      BY <1>5, <3>1, LineTyped
  <2> QED
    BY <1>4, <2>1, <2>2 DEF BeforeWritten
<1>7. ASSUME NEW x \in Channels, reader'[q].chan <= x
      PROVE  AfterReceived(p, x)'
  <2>1. reader[q].chan <= x
    BY <1>1, <1>5, <1>7, LineTyped
  <2>2. AfterReceived(p, x)
    BY <1>1, <2>1 DEF LineInv, q
  <2> QED
    BY <1>2, <1>3, <2>2 DEF AfterReceived, q
<1>8. \A m \in Received(q) : m <= writer'[p].count
  <2>1. ASSUME NEW m \in Received(q)
        PROVE  m <= writer'[p].count
    <3>1. m <= writer[p].count /\ m \in Nat
      BY <1>1, LineTyped DEF LineInv, q
    <3> QED
      BY <1>1, <1>5, <3>1, LineTyped
  <2> QED
    BY <2>1
<1>9. \A i, j \in DOMAIN hist'[q].got : i < j => hist'[q].got[i] < hist'[q].got[j]
  BY <1>1, <1>2 DEF LineInv, q
<1>10. \A x, y \in Channels : x < y =>
         \A m, n : Has(net'[p][x], "DATA", m) /\ Has(net'[p][y], "DATA", n) => m < n
  BY <1>1, <1>3 DEF LineInv
<1> QED
  BY <1>2, <1>5, <1>6, <1>7, <1>8, <1>9, <1>10 DEF LineInv, q

\* SendTransferFrameBytes: the frame goes to the end of the line.
LEMMA WriterLine ==
  ASSUME Now, NEW p \in Peers, WriterWrite(p), \A r \in Peers : LineMove(r) /\ LineInv(r)
  PROVE  \A r \in Peers : LineInv(r)'
<1> DEFINE q == Other(p)
           c == writer[p].chan
           k == writer[p].count
           f == FrameOf(p, c, "DATA", k + 1)
<1>1. /\ TypeOK /\ TypeOK' /\ hist \in [Peers -> Histories] /\ writer \in [Peers -> Loops]
      /\ q \in Peers /\ q # p /\ Other(q) = p /\ \A r \in Peers : r = p \/ r = q
  BY Two DEF Now, TypeOK, WorkersTypeOK
<1>2. c \in Channels /\ c \in Nat /\ k \in Nat
  BY <1>1, LineTyped
<1>3. /\ Written(p, c, "DATA", k + 1) \/ UNCHANGED net
      /\ writer'[p].count = k + 1 /\ writer'[p].chan = c /\ reader' = reader
      /\ \A r \in Peers : hist'[r].got = hist[r].got
  <2>1. /\ Written(p, c, "DATA", k + 1) \/ UNCHANGED net
        /\ writer' = [writer EXCEPT ![p].pc = "fetch", ![p].count = k + 1] /\ reader' = reader
        /\ \/ UNCHANGED hist
           \/ hist' = [hist EXCEPT ![p].overdue = @ \cup {k + 1}, ![p].late = TRUE]
           \/ hist' = [hist EXCEPT ![p].intime = @ \cup {k + 1}]
    BY DEF WriterWrite, WriteFailed, NotSent
  <2>2. writer'[p].count = k + 1 /\ writer'[p].chan = c
    BY <1>1, <2>1 DEF Loops
  <2>3. \A r \in Peers : hist'[r].got = hist[r].got
    <3>1. CASE UNCHANGED hist
      BY <3>1
    <3>2. CASE hist' = [hist EXCEPT ![p].overdue = @ \cup {k + 1}, ![p].late = TRUE]
      BY <1>1, <3>2 DEF Histories
    <3>3. CASE hist' = [hist EXCEPT ![p].intime = @ \cup {k + 1}]
      BY <1>1, <3>3 DEF Histories
    <3> QED
      BY <2>1, <3>1, <3>2, <3>3
  <2> QED
    BY <2>1, <2>2, <2>3
<1> HIDE DEF q, c, k
<1>4. ASSUME NEW r \in Peers, \A x \in Channels : net'[r][x] = net[r][x]
      PROVE  LineInv(r)'
  <2>1. \A x \in Channels : FewerData(net'[r][x], net[r][x])
    BY <1>4 DEF FewerData
  <2>2. hist'[Other(r)].got = hist[Other(r)].got
    BY <1>3, Two
  <2> QED
    BY <1>1, <2>1, <2>2, LineKept
<1>5. CASE UNCHANGED net
  BY <1>4, <1>5
<1>6. CASE Written(p, c, "DATA", k + 1)
  <2>1. [kind |-> "DATA", seq |-> 0, arg |-> k + 1] \in Frames
    BY <1>2 DEF Frames
  <2>2. Appends(p, c, f) /\ f.kind = "DATA" /\ f.arg = k + 1
    BY <1>1, <1>2, <1>6, <2>1, SentAppends DEF Written
  <2> HIDE DEF f
  <2>3. /\ net[p][c] \in Seq(Frames) /\ net'[p][c] = Append(net[p][c], f)
        /\ \A x \in Channels \ {c} : net'[p][x] = net[p][x]
        /\ \A x \in Channels : net'[q][x] = net[q][x]
    BY <1>1, <1>2, <2>2, SidesTyped DEF Appends
  <2>4. LineInv(q)'
    BY <1>1, <1>4, <2>3
  <2>5. \A x \in Channels : \A n : Has(net'[p][x], "DATA", n) =>
           Has(net[p][x], "DATA", n) \/ (x = c /\ n = k + 1)
    <3>1. \A n : Has(net'[p][c], "DATA", n) => Has(net[p][c], "DATA", n) \/ n = k + 1
      BY <2>2, <2>3, AppendData
    <3> QED
      BY <2>3, <3>1
  <2>6. /\ \A x \in Channels : Sorted(net[p][x]) /\ BeforeWritten(p, x)
        /\ \A x \in Channels : reader[q].chan <= x => AfterReceived(p, x)
        /\ \A x, y \in Channels : x < y =>
             \A m, n : Has(net[p][x], "DATA", m) /\ Has(net[p][y], "DATA", n) => m < n
        /\ \A m \in Received(q) : m <= k /\ m \in Nat
        /\ \A i, j \in DOMAIN hist[q].got : i < j => hist[q].got[i] < hist[q].got[j]
        /\ writer[p].chan <= Act(p) /\ reader[p].chan <= Act(p)
    BY <1>1, LineTyped DEF LineInv, q, k
  <2>7. \A x \in Channels : \A n : Has(net[p][x], "DATA", n) =>
           x <= c /\ n < k + 1 /\ n \in Nat /\ x \in Nat
    <3>1. ASSUME NEW x \in Channels, NEW n, Has(net[p][x], "DATA", n)
          PROVE  x <= c /\ n <= k /\ n \in Nat /\ x \in Nat
      BY <1>1, <2>6, <3>1, LineTyped DEF BeforeWritten, c, k
    <3> QED
      BY <1>2, <3>1
  <2>8. Received(q)' = Received(q)
    BY <1>1, <1>3 DEF Received
  <2>9. \A x \in Channels : Sorted(net'[p][x])
    <3>1. Sorted(net'[p][c])
      BY <1>2, <2>2, <2>3, <2>6, <2>7, AppendData
    <3> QED
      BY <2>3, <2>6, <3>1
  <2>10. ASSUME NEW x \in Channels
         PROVE  BeforeWritten(p, x)'
    <3>1. ASSUME NEW n, Has(net'[p][x], "DATA", n)
          PROVE  x <= c /\ n <= k + 1
      <4>1. CASE Has(net[p][x], "DATA", n)
        BY <1>2, <2>7, <4>1
      <4>2. CASE x = c /\ n = k + 1
        BY <1>2, <4>2
      <4> QED
        BY <2>5, <3>1, <4>1, <4>2
    <3> QED
      BY <1>3, <3>1 DEF BeforeWritten
  <2>11. ASSUME NEW x \in Channels, reader[q].chan <= x
         PROVE  AfterReceived(p, x)'
    <3>1. ASSUME NEW n, Has(net'[p][x], "DATA", n), NEW m \in Received(q)
          PROVE  m < n
      <4>1. CASE Has(net[p][x], "DATA", n)
        BY <2>6, <2>11, <3>1, <4>1 DEF AfterReceived, q
      <4>2. CASE n = k + 1
        BY <1>2, <2>6, <4>2
      <4> QED
        BY <2>5, <3>1, <4>1, <4>2
    <3> QED
      BY <2>8, <3>1 DEF AfterReceived, q
  <2>12. ASSUME NEW x \in Channels, NEW y \in Channels, x < y, NEW m, NEW n,
                Has(net'[p][x], "DATA", m), Has(net'[p][y], "DATA", n)
         PROVE  m < n
    <3>1. x \in Nat /\ y \in Nat
      BY <1>1, LineTyped
    <3>2. CASE Has(net[p][x], "DATA", m) /\ Has(net[p][y], "DATA", n)
      BY <2>6, <2>12, <3>2
    <3>3. CASE Has(net[p][x], "DATA", m) /\ y = c /\ n = k + 1
      BY <2>7, <3>3
    <3>4. CASE x = c /\ Has(net[p][y], "DATA", n)
      BY <1>2, <2>7, <2>12, <3>1, <3>4
    <3>5. Has(net[p][x], "DATA", m) \/ (x = c /\ m = k + 1)
      BY <2>5, <2>12
    <3>6. Has(net[p][y], "DATA", n) \/ (y = c /\ n = k + 1)
      BY <2>5, <2>12
    <3>7. ~(x = c /\ y = c)
      BY <1>2, <2>12
    <3> QED
      BY <3>2, <3>3, <3>4, <3>5, <3>6, <3>7
  <2>13. writer'[p].chan <= Act(p)' /\ reader'[p].chan <= Act(p)'
    <3>1. LineMove(p) /\ reader[p].chan \in Nat
      BY <1>1, LineTyped
    <3> QED
      BY <1>2, <1>3, <2>6, <3>1 DEF LineMove, c
  <2>14. \A m \in Received(q) : m <= k + 1
    BY <1>2, <2>6
  <2>15. LineInv(p)'
    BY <1>1, <1>3, <2>6, <2>8, <2>9, <2>10, <2>11, <2>12, <2>13, <2>14 DEF LineInv, q
  <2> QED
    BY <1>1, <2>4, <2>15
<1> QED
  BY <1>3, <1>5, <1>6

\* A read takes from the head of a queue.
LEMMA TakesFewer ==
  ASSUME TypeOK, NEW q \in Peers, NEW c \in Channels, Takes(q, c), NEW p \in Peers
  PROVE  \A x \in Channels : FewerData(net'[p][x], net[p][x])
<1>1. net[q][c] \in Seq(Frames) /\ net[q][c] # << >> /\ net'[q][c] = Tail(net[q][c])
  BY SidesTyped DEF Takes
<1>2. FewerData(net'[q][c], net[q][c])
  <2>1. \A n : Has(net'[q][c], "DATA", n) => Has(net[q][c], "DATA", n)
    BY <1>1, TailKinds
  <2>2. Sorted(net[q][c]) => Sorted(net'[q][c])
    BY <1>1, TailData
  <2> QED
    BY <2>1, <2>2 DEF FewerData
<1>3. ASSUME NEW x \in Channels, p # q \/ x # c
      PROVE  FewerData(net'[p][x], net[p][x])
  BY <1>3 DEF Takes, FewerData
<1> QED
  BY <1>2, <1>3

\* EndpointManager::HandleData: what is received comes after all that was.
LEMMA FrameLine ==
  ASSUME Now, NEW p \in Peers, ReaderFrame(p), \A r \in Peers : LineMove(r) /\ LineInv(r)
  PROVE  \A r \in Peers : LineInv(r)'
<1> DEFINE q == Other(p)
           c == reader[p].chan
           f == Head(Incoming(p, c))
<1>1. /\ TypeOK /\ TypeOK' /\ hist \in [Peers -> Histories] /\ reader \in [Peers -> Loops]
      /\ q \in Peers /\ q # p /\ Other(q) = p /\ \A r \in Peers : r = p \/ r = q
  BY Two DEF Now, TypeOK, WorkersTypeOK
<1>2. c \in Channels /\ c \in Nat /\ Takes(q, c) /\ f = Head(net[q][c]) /\ UNCHANGED writer
      /\ net[q][c] \in Seq(Frames) /\ net[q][c] # << >> /\ net'[q][c] = Tail(net[q][c])
  <2>1. c \in Channels /\ c \in Nat /\ CanRead(p, c) /\ net' = Popped(p, c) /\ UNCHANGED writer
    BY <1>1, LineTyped DEF ReaderFrame
  <2>2. Takes(q, c) /\ f = Head(net[q][c]) /\ net[q][c] \in Seq(Frames)
    BY <1>1, <2>1, PoppedTakes, SidesTyped DEF Incoming
  <2> QED
    BY <2>1, <2>2 DEF Takes
<1>3. \A r \in Peers, x \in Channels : FewerData(net'[r][x], net[r][x])
  BY <1>1, <1>2, TakesFewer
<1>4. hist'[q].got = hist[q].got
      /\ \/ hist'[p].got = hist[p].got
         \/ f.kind = "DATA" /\ hist'[p].got = Append(hist[p].got, f.arg)
  <2>1. \/ UNCHANGED hist
        \/ \E b : hist' = [hist EXCEPT ![p].desync = b]
        \/ f.kind = "DATA" /\ hist' = [hist EXCEPT ![p].got = Append(@, f.arg)]
    BY DEF ReaderFrame, Route
  <2> HIDE DEF f, q
  <2>2. ASSUME NEW b, hist' = [hist EXCEPT ![p].desync = b]
        PROVE  hist'[q].got = hist[q].got /\ hist'[p].got = hist[p].got
    BY <1>1, <2>2 DEF Histories
  <2>3. CASE f.kind = "DATA" /\ hist' = [hist EXCEPT ![p].got = Append(@, f.arg)]
    BY <1>1, <2>3 DEF Histories
  <2> QED
    BY <2>1, <2>2, <2>3
<1> HIDE DEF c, f
<1>5. LineInv(p)'
  BY <1>1, <1>3, <1>4, LineKept
<1>6. CASE hist'[p].got = hist[p].got
  <2>1. LineInv(q)'
    BY <1>1, <1>3, <1>6, LineKept
  <2> QED
    BY <1>1, <1>5, <2>1
<1>7. CASE f.kind = "DATA" /\ hist'[p].got = Append(hist[p].got, f.arg)
  <2> DEFINE g == hist[p].got
             h == Append(hist[p].got, f.arg)
             k == f.arg
  <2>1. /\ \A x \in Channels : Sorted(net[q][x]) /\ BeforeWritten(q, x)
        /\ \A x \in Channels : reader[p].chan <= x => AfterReceived(q, x)
        /\ \A x, y \in Channels : x < y =>
             \A m, n : Has(net[q][x], "DATA", m) /\ Has(net[q][y], "DATA", n) => m < n
        /\ \A m \in Received(p) : m <= writer[q].count
        /\ \A i, j \in DOMAIN g : i < j => g[i] < g[j]
        /\ writer[q].chan <= Act(q) /\ reader[q].chan <= Act(q)
    BY <1>1 DEF LineInv
  <2>2. Has(net[q][c], "DATA", k) /\ k \in Nat /\ k <= writer[q].count
    <3>1. 1 \in DOMAIN net[q][c] /\ net[q][c][1] = f
      BY <1>2
    <3>2. Has(net[q][c], "DATA", k)
      BY <1>7, <3>1 DEF Has
    <3>3. k <= writer[q].count
      BY <1>2, <2>1, <3>2 DEF BeforeWritten
    <3> QED
      BY <1>1, <1>2, <3>2, <3>3, LineTyped
  <2>3. \A m \in Received(p) : m < k
    BY <1>1, <1>2, <2>1, <2>2 DEF AfterReceived, c
  <2>4. \A x \in Channels : \A n : Has(net'[q][x], "DATA", n) => Has(net[q][x], "DATA", n)
    BY <1>1, <1>3 DEF FewerData
  <2>5. ASSUME NEW x \in Channels, c <= x, NEW n, Has(net'[q][x], "DATA", n)
        PROVE  k < n
    <3>1. CASE x = c
      <4>1. \A m : Has(Tail(net[q][c]), "DATA", m) => f.arg < m
        BY <1>2, <1>7, <2>1, TailData
      <4> QED
        BY <1>2, <2>5, <3>1, <4>1
    <3>2. CASE x # c
      <4>1. c < x
        BY <1>1, <1>2, <2>5, <3>2, LineTyped
      <4> QED
        BY <1>2, <2>1, <2>2, <2>4, <2>5, <4>1
    <3> QED
      BY <3>1, <3>2
  <2>6. /\ hist'[p].got = h
        /\ DOMAIN g = 1..Len(g) /\ DOMAIN h = 1..(Len(g) + 1) /\ Len(g) \in Nat
        /\ \A i \in 1..Len(g) : h[i] = g[i]
        /\ h[Len(g) + 1] = k
    <3>1. g \in Seq(Nat)
      BY <1>1, LineTyped
    <3> QED
      BY <1>7, <2>2, <3>1
  <2> HIDE DEF g, h, k
  <2>7. \A i \in DOMAIN g : g[i] \in Received(p)
    BY DEF g, Received
  <2>8. \A i, j \in DOMAIN h : i < j => h[i] < h[j]
    <3>1. ASSUME NEW i \in DOMAIN h, NEW j \in DOMAIN h, i < j
          PROVE  h[i] < h[j]
      <4>1. i \in DOMAIN g /\ h[i] = g[i]
        BY <2>6, <3>1
      <4>2. CASE j = Len(g) + 1
        BY <2>3, <2>6, <2>7, <4>1, <4>2
      <4>3. CASE j # Len(g) + 1
        BY <2>1, <2>6, <3>1, <4>1, <4>3
      <4> QED
        BY <4>2, <4>3
    <3> QED
      BY <3>1
  <2>9. \A m \in Received(p)' : m \in Received(p) \/ m = k
    <3>1. Received(p)' = {h[i] : i \in DOMAIN h}
      BY <2>6 DEF Received
    <3>2. \A i \in DOMAIN h : h[i] \in Received(p) \/ h[i] = k
      BY <2>6, <2>7
    <3> QED
      BY <3>1, <3>2
  <2>10. /\ writer'[q].chan = writer[q].chan /\ writer'[q].count = writer[q].count
         /\ writer'[q].chan <= Act(q)' /\ reader'[q].chan <= Act(q)'
         /\ c <= reader'[p].chan /\ reader'[p].chan \in Nat
    <3>1. /\ LineMove(p) /\ LineMove(q) /\ reader[p].chan <= Act(p)
          /\ writer[q].chan \in Nat /\ reader[q].chan \in Nat
      BY <1>1, LineTyped DEF LineInv
    <3> QED
      BY <1>2, <2>1, <3>1 DEF LineMove, c
  <2>11. ASSUME NEW x \in Channels
         PROVE  Sorted(net'[q][x]) /\ BeforeWritten(q, x)'
    <3>1. Sorted(net'[q][x])
      BY <1>1, <1>3, <2>1 DEF FewerData
    <3>2. BeforeWritten(q, x)'
      BY <2>1, <2>4, <2>10 DEF BeforeWritten
    <3> QED
      BY <3>1, <3>2
  <2>12. ASSUME NEW x \in Channels, reader'[p].chan <= x
         PROVE  AfterReceived(q, x)'
    <3>1. c <= x /\ reader[p].chan <= x
      BY <1>1, <1>2, <2>10, <2>12, LineTyped DEF c
    <3>2. ASSUME NEW n, Has(net'[q][x], "DATA", n), NEW m \in Received(p)'
          PROVE  m < n
      <4>1. CASE m \in Received(p)
        BY <1>1, <2>1, <2>4, <3>1, <3>2, <4>1 DEF AfterReceived
      <4>2. CASE m = k
        BY <2>5, <3>1, <3>2, <4>2
      <4> QED
        BY <2>9, <3>2, <4>1, <4>2
    <3> QED
      BY <1>1, <3>2 DEF AfterReceived
  <2>13. \A m \in Received(p)' : m <= writer'[q].count
    BY <2>1, <2>2, <2>9, <2>10
  <2>14. \A x, y \in Channels : x < y =>
           \A m, n : Has(net'[q][x], "DATA", m) /\ Has(net'[q][y], "DATA", n) => m < n
    BY <2>1, <2>4
  <2>15. LineInv(q)'
    BY <1>1, <2>6, <2>8, <2>10, <2>11, <2>12, <2>13, <2>14 DEF LineInv
  <2> QED
    BY <1>1, <1>5, <2>15
<1> QED
  BY <1>4, <1>6, <1>7

\* Every other step leaves the line alone, but for where the loops stand.
LEMMA NextLine ==
  ASSUME Now, Next, \A r \in Peers : LineInv(r)
  PROVE  \A r \in Peers : LineInv(r)'
<1>1. /\ TypeOK /\ TypeOK' /\ hist \in [Peers -> Histories] /\ conn \in [Peers -> Connections]
      /\ \A r \in Peers : LineMove(r)
  BY LineMoves DEF Now, TypeOK, WorkersTypeOK
<1>2. ASSUME DataSame, \A r \in Peers : hist'[r].got = hist[r].got
      PROVE  \A r \in Peers : LineInv(r)'
  <2>1. \A r \in Peers, x \in Channels : FewerData(net'[r][x], net[r][x])
    BY <1>2 DEF DataSame, SameData, FewerData
  <2> QED
    BY <1>1, <1>2, <2>1, Two, LineKept
<1>3. CASE UNCHANGED <<net, hist>>
  BY <1>1, <1>2, <1>3, Two, OtherData
<1>4. ASSUME NEW p \in Peers, ThreadStep(p)
      PROVE  \A r \in Peers : LineInv(r)'
  <2>1. DataSame /\ DataNoted
    BY <1>4, ThreadData
  <2> QED
    BY <1>2, <2>1 DEF DataNoted
<1>5. ASSUME NEW p \in Peers, RequestUpgrade(p) \/ RetryAlarm(p)
      PROVE  UNCHANGED <<net, hist>>
  BY <1>5 DEF RequestUpgrade, RetryAlarm, channelVars
<1>6. ASSUME NEW c \in Channels, Accept(c) \/ BreakLink(c)
      PROVE  UNCHANGED <<net, hist>>
  BY <1>6 DEF Accept, BreakLink, Break, channelVars
<1>7. ASSUME NEW p \in Peers, ReaderAck(p) \/ KeeperWrite(p)
      PROVE  \A r \in Peers : LineInv(r)'
  <2>1. /\ \E c, kind, arg : kind # "DATA" /\ (Written(p, c, kind, arg) \/ WriteFailed(p, c))
        /\ UNCHANGED hist \/ \E c : hist' = Noted(p, c)
    BY <1>7 DEF ReaderAck, KeeperWrite
  <2>2. DataSame
    BY <1>1, <2>1, OtherData
  <2>3. \A r \in Peers : hist'[r].got = hist[r].got
    <3>1. ASSUME NEW c, hist' = Noted(p, c)
          PROVE  \A r \in Peers : hist'[r].got = hist[r].got
      BY <1>1, <3>1 DEF Noted, Histories
    <3> QED
      BY <2>1, <3>1
  <2> QED
    BY <1>2, <2>2, <2>3
<1>8. ASSUME NEW p \in Peers,
             \/ ReaderFetch(p) \/ ReaderRead(p) \/ ReaderFail(p) \/ KeeperFetch(p)
             \/ KeeperTimeout(p) \/ WriterFetch(p) \/ OnConnectionAccepted(p) \/ Leave(p)
             \/ BeginRemoval(p) \/ Disconnected(p)
      PROVE  UNCHANGED <<net, hist>>
  BY <1>8 DEF ReaderFetch, ReaderRead, ReaderFail, KeeperFetch, KeeperTimeout, WriterFetch,
              OnConnectionAccepted, Leave, BeginRemoval, Disconnected, channelVars
<1>9. ASSUME NEW p \in Peers, RemoveEndpoint(p)
      PROVE  FALSE
  <2>1. conn'[p].em = "up"
    BY DEF Now, Fine, Registered
  <2>2. conn'[p].em = "removing"
    BY <1>1, <1>9 DEF RemoveEndpoint, Connections
  <2> QED
    BY <2>1, <2>2
<1>10. ASSUME NEW p \in Peers, ReaderFrame(p) \/ WriterWrite(p)
       PROVE  \A r \in Peers : LineInv(r)'
  BY <1>1, <1>10, FrameLine, WriterLine
<1> QED
  BY <1>3, <1>4, <1>5, <1>6, <1>7, <1>8, <1>9, <1>10
  DEF Next, WorkersNext, ReaderStep, KeeperStep, WriterStep

\* While all is fine, the frames of each device are in line.
OrderInv == HandoverInv /\ (Fine => \A p \in Peers : LineInv(p))

\* No step of either program disturbs the line.
LEMMA OrderStep ==
  ASSUME Undisturbed, TypeOK', OrderInv, [Next]_vars
  PROVE  OrderInv'
<1>1. TypeOK /\ HandoverInv /\ HandoverInv'
  BY HandoverStep DEF OrderInv, HandoverInv
<1>2. CASE Next
  <2>1. ASSUME Fine'
        PROVE  \A p \in Peers : LineInv(p)'
    <3>1. Fine
      BY <1>1, <1>2, <2>1, FineBefore
    <3>2. Now
      BY <1>1, <2>1, <3>1 DEF Now, HandoverInv
    <3> QED
      BY <1>2, <3>1, <3>2, NextLine DEF OrderInv
  <2> QED
    BY <1>1, <2>1 DEF OrderInv
<1>3. CASE UNCHANGED vars
  <2>1. UNCHANGED <<net, link, conn, hist, reader, writer>>
    BY <1>3 DEF vars, channelVars, workerVars
  <2>2. Fine' => Fine
    BY <2>1 DEF Fine, AllLinksUp, Registered
  <2>3. \A p \in Peers : LineInv(p) => LineInv(p)'
    BY <2>1 DEF LineInv, AfterReceived, BeforeWritten, Received, Act
  <2> QED
    BY <1>1, <2>2, <2>3 DEF OrderInv
<1> QED
  BY <1>2, <1>3

\* Nothing is written yet.
LEMMA InitLine ==
  ASSUME Init, NEW p \in Peers
  PROVE  LineInv(p)
<1>1. Other(p) \in Peers
  BY Two
<1>2. /\ writer[p].chan = 0 /\ reader[p].chan = 0 /\ Act(p) = 0 /\ writer[p].count = 0
      /\ hist[Other(p)].got = << >>
  BY <1>1 DEF Init, WorkersInit, StartedLoop, Act
<1>3. \A x \in Channels : net[p][x] = << >>
  BY DEF Init, ChannelsInit
<1>4. Received(Other(p)) = {}
  BY <1>2 DEF Received
<1>5. \A x \in Channels : Sorted(net[p][x]) /\ \A n : ~Has(net[p][x], "DATA", n)
  BY <1>3 DEF Sorted, Has
<1>6. \A x \in Channels : BeforeWritten(p, x) /\ AfterReceived(p, x)
  BY <1>5 DEF AfterReceived, BeforeWritten
<1> QED
  BY <1>2, <1>4, <1>5, <1>6 DEF LineInv

\* Payload frames are received in the order in which they were written, none twice, and
\* those still to come are later ones, over any number of channels: what the pause of the
\* new channel in RunUpgradeProtocol and the draining of the prior one are for
\* (PayloadStream's InOrder).
THEOREM ReceivedInOrder ==
  ASSUME Undisturbed
  PROVE  Spec => [](Fine => Stream!InOrder)
<1>1. Init => OrderInv
  BY InitTyped, InitWire, InitHandover, InitLine DEF HandoverInv, OrderInv
<1>2. TypeOK' /\ OrderInv /\ [Next]_vars => OrderInv'
  BY OrderStep
<1>3. ASSUME OrderInv, Fine
      PROVE  Stream!InOrder
  <2>1. ASSUME NEW p \in Peers
        PROVE  /\ \A i, j \in DOMAIN hist[Other(p)].got :
                     i < j => hist[Other(p)].got[i] < hist[Other(p)].got[j]
               /\ \A i \in DOMAIN hist[Other(p)].got : \A n \in StillUnderWay(p) :
                     hist[Other(p)].got[i] < n
    <3>1. LineInv(p)
      BY <1>3, <2>1 DEF OrderInv
    <3>2. ASSUME NEW i \in DOMAIN hist[Other(p)].got, NEW n \in StillUnderWay(p)
          PROVE  hist[Other(p)].got[i] < n
      <4>1. PICK x \in Channels : reader[Other(p)].chan <= x /\ Has(net[p][x], "DATA", n)
        BY <3>2 DEF StillUnderWay, Has
      <4>2. hist[Other(p)].got[i] \in Received(Other(p))
        BY <3>2 DEF Received
      <4> QED
        BY <3>1, <4>1, <4>2 DEF LineInv, AfterReceived
    <3> QED
      BY <3>1, <3>2 DEF LineInv
  <2> QED
    BY <2>1 DEF Stream!InOrder
<1>4. Spec => []TypeOK
  BY TypeCorrect
<1> QED
  BY <1>1, <1>2, <1>3, <1>4, PTL DEF Spec

=============================================================================
