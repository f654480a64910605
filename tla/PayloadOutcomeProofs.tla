------------------------ MODULE PayloadOutcomeProofs ------------------------
(***************************************************************************)
(* Theorems of PayloadManager about what the clients are told of a payload,*)
(* for every value of its constants.  A sender's client is told Success    *)
(* only of a payload that was received; a receiver's client only of one    *)
(* that it has whole, and with acknowledgements it is told no other        *)
(* outcome first when the sender's client is told Success.  The invariants *)
(* are about a payload id that is used once (Fresh), so about send 1.      *)
(***************************************************************************)
EXTENDS PayloadManagerProofs

-----------------------------------------------------------------------------
(* What the invariant says of the sending thread *)

Whole(e) == <<1, e>> \in hist.whole
Torn(e) == <<1, e>> \in hist.torn

\* A frame written to e is received: once this ends, it has ended for good.
Open(e) == link[e].host = "connected" /\ link[e].peer = "connected" /\ ~link[e].broken
Joined(e) == link[e].peer = "connected"

\* The send has not been taken by the executor.
Unsent == host.sends = 0 \/ sender.queue # <<>>

\* The endpoints whose stream the sender continues, and its next chunk.
Continued == {e \in Endpoints :
  \/ sender.pc = "top" /\ e \in Available
  \/ sender.pc = "write" /\ e \in sender.targets
  \/ sender.pc = "confirm" /\ ~sender.last /\ e \in sender.targets}
NextNumber == IF sender.pc = "confirm" THEN sender.chunk + 1 ELSE sender.chunk

\* One loop for the one send.  A chunk goes to every endpoint that can still be
\* sent to; only if all these writes fail can the last one be written again.
SenderOnce ==
  /\ sender.queue # <<>> => sender.queue = <<1>> /\ host.sends = 1
  /\ Unsent => sender.pc = "idle"
  /\ sender.pc \in {"write", "confirm", "wait"} => Available \subseteq sender.targets
  /\ sender.pc = "wait" => sender.last /\ sender.wrote /\ sender.awaited = 1
  /\ sender.pc = "confirm" =>
       sender.wrote \/ (sender.left = {} /\ \A e \in sender.targets : e \in Endpoints => ~Open(e))

-----------------------------------------------------------------------------
(* What it says of the frames on their way to an endpoint *)

\* The data frames in D are numbered from b on, and nothing precedes them.
Numbered(D, b) ==
  \A i \in DOMAIN D : D[i].type = "data" =>
     /\ D[i].chunk = b + i - 1 /\ D[i].send = 1
     /\ \A j \in 1..i : D[j].type = "data"

DataIn(frames) == \E i \in DOMAIN frames : frames[i].type = "data"

\* The reports to a client or the tasks in s name a status in S.
Says(s, S) == \E i \in DOMAIN s : s[i].status \in S
Unsuccessful == {"Failure", "Canceled"}

\* The client of e has heard nothing, and will not before a chunk is read.
Untouched(e) == heard.peer[e] = <<>> /\ (Joined(e) => peerTasks[e] = <<>>)

\* No other outcome than success has been posted for the payload of e.
Clean(e) ==
  Joined(e) /\ peer[e].tracked /\ ~peer[e].cancelled /\ ~Torn(e) =>
    ~Says(heard.peer[e], Unsuccessful) /\ ~Says(peerTasks[e], Unsuccessful)

\* Endpoint e has read b chunks.  A payload that it still assembles has them all,
\* and as long as more of them come only its client, its reader or the end of the
\* connection end it otherwise.
Arrival(e, b) ==
  /\ Numbered(link[e].down, b)
  /\ Unsent => b = 0 /\ link[e].down = <<>>
  /\ b = 0 => ~peer[e].tracked /\ ~Torn(e) /\ Untouched(e)
  /\ peer[e].tracked => peer[e].send = 1
  /\ peer[e].tracked /\ ~peer[e].cancelled /\ ~Torn(e) => peer[e].got = 0..(b - 1)
  /\ Open(e) /\ e \in Continued =>
       /\ \A i \in DOMAIN link[e].down : link[e].down[i].type = "data"
       /\ b + Len(link[e].down) = NextNumber
  /\ DataIn(link[e].down) \/ (Open(e) /\ e \in Continued) => Clean(e)

Arriving == \A e \in Endpoints : \E b \in Nat : Arrival(e, b)

-----------------------------------------------------------------------------
(* What it says of acknowledgements *)

AckIn(frames) == \E i \in DOMAIN frames : frames[i].type = "ack"
SuccessIn(tasks, e) ==
  \E i \in DOMAIN tasks : e \in DOMAIN tasks[i].outcome /\ tasks[i].outcome[e] = "Success"
SuccessHeard(e) == \E i \in DOMAIN heard.host[e] : heard.host[e][i].status = "Success"

\* An acknowledgement of e is under way, from its executor to the client.  A task
\* for an endpoint that is not one of the payload's any more tells nothing.
Acknowledged(e) ==
  \/ acks[e] # <<>> /\ Joined(e)
  \/ AckIn(link[e].up)
  \/ host.sends = 1 /\ e \in pay[1].acked
  \/ (host.sends = 1 => e \in pay[1].endpoints) /\ SuccessIn(hostTasks, e)
  \/ SuccessHeard(e)

AckedWhole == \A e \in AckEnabled : Acknowledged(e) => Whole(e) \/ Torn(e)

ReceiptInv == Fresh => SenderOnce /\ Arriving /\ AckedWhole

-----------------------------------------------------------------------------
(* Types of the parts *)

LEMMA LinkOf ==
  ASSUME IInv, NEW e \in Endpoints
  PROVE  /\ link[e] \in Links /\ DOMAIN link = Endpoints
         /\ link[e].down \in Seq(DownFrames) /\ link[e].up \in Seq(UpFrames)
BY DEF IInv, HostInv, LinkTyped, Links

\* With one send, the payload that is tracked, sent or awaited is that one.
LEMMA OneSend ==
  ASSUME IInv, Fresh
  PROVE  /\ host.sends \in {0, 1} /\ (host.sends = 1 => 1 \in Sends)
         /\ host.tracked \in {0, 1} /\ (host.tracked = 1 => host.sends = 1)
         /\ sender.pending \in {0, 1} /\ (sender.pending = 1 => host.sends = 1)
         /\ sender.pc # "idle" => sender.pending = 1
<1>1. /\ host.sends \in Tracked /\ host.tracked \in Tracked /\ sender.pending \in Tracked
      /\ host.tracked <= host.sends /\ sender.pending <= host.sends
      /\ sender.pc # "idle" => sender.pending # 0
  BY DEF IInv, HostInv, HostTyped, Hosts, SenderTyped, Senders, ChunksRead
<1> QED
  BY <1>1, PayloadTyped DEF Fresh, Sends, Tracked

-----------------------------------------------------------------------------
(* Steps that are not the sender's *)

\* What such a step leaves of the sender's work, of the frames to e, and of the
\* payload that e assembles.
SenderLeft ==
  /\ sender' = sender /\ host'.sends = host.sends
  /\ sender.pc # "idle" => Available' \subseteq Available
LinkLeft(e) ==
  /\ link'[e].down \in {link[e].down} \cup InHand(link[e].down)
  /\ Open(e)' => Open(e) /\ link'[e].down = link[e].down
  /\ Joined(e)' => Joined(e)
PeerLeft(e) ==
  /\ peer'[e].got = peer[e].got /\ peer'[e].send = peer[e].send
  /\ peer'[e].tracked => peer[e].tracked
  /\ peer[e].cancelled => peer'[e].cancelled
  /\ Torn(e)' <=> Torn(e)
  /\ ~peer[e].tracked => heard'.peer[e] = heard.peer[e]
  /\ Joined(e)' =>
       /\ peerTasks[e] = <<>> => peerTasks'[e] = <<>>
       /\ ~Says(heard.peer[e], Unsuccessful) /\ ~Says(peerTasks[e], Unsuccessful) =>
            ~Says(heard'.peer[e], Unsuccessful) /\ ~Says(peerTasks'[e], Unsuccessful)

LEMMA OnceLeft ==
  ASSUME SenderOnce, SenderLeft, \A e \in Endpoints : Open(e)' => Open(e)
  PROVE  /\ SenderOnce' /\ (Unsent' <=> Unsent)
         /\ NextNumber' = NextNumber /\ Continued' \subseteq Continued
<1>1. SenderOnce'
  BY DEF SenderOnce, SenderLeft, Unsent
<1>2. (Unsent' <=> Unsent) /\ NextNumber' = NextNumber
  BY DEF SenderLeft, Unsent, NextNumber
<1>3. Continued' \subseteq Continued
  BY DEF SenderLeft, Continued
<1> QED
  BY <1>1, <1>2, <1>3

\* Of the frames, at most the first is left.
LEMMA NumberedLeft ==
  ASSUME NEW D \in Seq(DownFrames), NEW b, Numbered(D, b), NEW rest \in {D} \cup InHand(D)
  PROVE  Numbered(rest, b) /\ (D = <<>> => rest = <<>>) /\ (DataIn(rest) => DataIn(D))
<1>1. CASE rest = D \/ rest = <<>>
  BY <1>1 DEF Numbered, DataIn
<1>2. CASE rest # D /\ rest # <<>>
  <2>1. PICK i \in DOMAIN D \cap {1} : rest = <<D[i]>>
    BY <1>2 DEF InHand
  <2>2. DOMAIN rest = {1} /\ rest[1] = D[1] /\ 1 \in DOMAIN D
    BY <2>1
  <2>3. D[1].type = "data" => D[1].chunk = b + 1 - 1 /\ D[1].send = 1
    BY <2>2 DEF Numbered
  <2> QED
    BY <2>2, <2>3 DEF Numbered, DataIn
<1> QED
  BY <1>1, <1>2

LEMMA ArrivalLeft ==
  ASSUME IInv, NEW e \in Endpoints, NEW b \in Nat, Arrival(e, b),
         Unsent' => Unsent,
         e \in Continued' /\ Open(e)' => e \in Continued /\ NextNumber' = NextNumber,
         LinkLeft(e), PeerLeft(e)
  PROVE  Arrival(e, b)'
<1>1. /\ Numbered(link'[e].down, b) /\ (link[e].down = <<>> => link'[e].down = <<>>)
      /\ DataIn(link'[e].down) => DataIn(link[e].down)
  BY LinkOf, NumberedLeft DEF Arrival, LinkLeft
<1>2. (~peer[e].tracked /\ Untouched(e) => Untouched(e)') /\ (Clean(e) => Clean(e)')
  BY DEF LinkLeft, PeerLeft, Untouched, Clean
<1>3. /\ Unsent' => b = 0 /\ link'[e].down = <<>>
      /\ b = 0 => ~peer'[e].tracked /\ ~Torn(e)' /\ Untouched(e)'
      /\ peer'[e].tracked => peer'[e].send = 1
      /\ peer'[e].tracked /\ ~peer'[e].cancelled /\ ~Torn(e)' => peer'[e].got = 0..(b - 1)
  BY <1>1, <1>2 DEF Arrival, PeerLeft
<1>4. /\ Open(e)' /\ e \in Continued' =>
           /\ \A i \in DOMAIN link'[e].down : link'[e].down[i].type = "data"
           /\ b + Len(link'[e].down) = NextNumber'
      /\ DataIn(link'[e].down) \/ (Open(e)' /\ e \in Continued') => Clean(e)'
  BY <1>1, <1>2 DEF Arrival, LinkLeft
<1> QED
  BY <1>1, <1>3, <1>4 DEF Arrival

LEMMA SenderUntouched ==
  ASSUME IInv, sender' = sender, host'.sends = host.sends,
         \A k \in Sends : /\ pay'[k].endpoints \subseteq pay[k].endpoints
                          /\ \A e \in pay'[k].endpoints :
                               pay'[k].status[e] = "available" => pay[k].status[e] = "available"
  PROVE  SenderLeft
<1>1. sender.pc # "idle" => sender.pending \in Sends
  BY AtWork DEF IInv, HostInv
<1> QED
  BY <1>1 DEF SenderLeft, Available

LEMMA PeersLeft ==
  ASSUME UNCHANGED <<peer, peerTasks>>, heard'.peer = heard.peer, hist'.torn = hist.torn, NEW e
  PROVE  PeerLeft(e)
BY DEF PeerLeft, Torn

LEMMA LinksLeft ==
  ASSUME link' = link, NEW e
  PROVE  LinkLeft(e)
BY DEF LinkLeft, Open, Joined

\* One link changes, and only loses frames towards e unless its end changes too.
LEMMA OneLinkLeft ==
  ASSUME IInv, NEW x \in Endpoints, NEW l, link' = [link EXCEPT ![x] = l],
         l.down \in {link[x].down} \cup InHand(link[x].down),
         l.host = "connected" /\ l.peer = "connected" /\ ~l.broken =>
           Open(x) /\ l.down = link[x].down,
         l.peer = "connected" => Joined(x)
  PROVE  \A e \in Endpoints : LinkLeft(e)
<1> SUFFICES ASSUME NEW e \in Endpoints PROVE LinkLeft(e)
  OBVIOUS
<1>1. CASE e = x
  <2>1. link'[e] = l
    BY <1>1, LinkOf
  <2> QED
    BY <1>1, <2>1 DEF LinkLeft, Open, Joined
<1>2. CASE e # x
  <2>1. link'[e] = link[e]
    BY <1>2, LinkOf
  <2> QED
    BY <2>1 DEF LinkLeft, Open, Joined
<1> QED
  BY <1>1, <1>2

LEMMA HistTorn ==
  ASSUME IInv
  PROVE  /\ Faulted(hist).torn = hist.torn
         /\ \A S : [Faulted(hist) EXCEPT !.late = S].torn = hist.torn
         /\ \A S : [hist EXCEPT !.late = S].torn = hist.torn
         /\ \A S : [hist EXCEPT !.skipped = S].torn = hist.torn
         /\ \A S : [hist EXCEPT !.unconfirmed = S].torn = hist.torn
         /\ \A S : [Faulted(hist) EXCEPT !.truncated = S].torn = hist.torn
BY DEF IInv, HostInv, HistTyped, Histories, Faulted

\* A step that leaves all three: the others of the host, and all of a peer's but
\* the reading of a frame.
Bystander == SenderLeft /\ \A e \in Endpoints : LinkLeft(e) /\ PeerLeft(e)

LEMMA CancelOutgoingLeft ==
  ASSUME IInv, CancelOutgoing, UNCHANGED peerVars
  PROVE  Bystander
<1>1. /\ sender' = sender /\ host' = host /\ link' = link /\ UNCHANGED <<peer, peerTasks, heard>>
      /\ hist'.torn = hist.torn
  BY HistTorn DEF CancelOutgoing, peerVars
<1>2. /\ host.tracked # 0
      /\ pay' = [pay EXCEPT ![host.tracked].cancelled = TRUE]
  BY DEF CancelOutgoing
<1>3. \A k \in Sends : pay'[k].endpoints = pay[k].endpoints /\ pay'[k].status = pay[k].status
  BY <1>2, SentTyped DEF Payloads
<1> QED
  BY <1>1, <1>3, SenderUntouched, PeersLeft, LinksLeft DEF Bystander

LEMMA StopManagerLeft ==
  ASSUME IInv, StopManager, UNCHANGED peerVars
  PROVE  Bystander
<1>1. /\ sender' = sender /\ pay' = pay /\ link' = link /\ UNCHANGED <<peer, peerTasks, heard>>
      /\ hist'.torn = hist.torn
  BY HistTorn DEF StopManager, peerVars
<1>2. host'.sends = host.sends
  BY DEF StopManager, IInv, HostInv, HostTyped, Hosts
<1> QED
  BY <1>1, <1>2, SenderUntouched, PeersLeft, LinksLeft DEF Bystander

LEMMA StatusUpdateLeft ==
  ASSUME IInv, StatusUpdate, UNCHANGED peerVars
  PROVE  Bystander
<1> DEFINE q == host.tracked
           S == DOMAIN Head(hostTasks).outcome \cap pay[q].endpoints
           F == {e \in S : Head(hostTasks).outcome[e] \in Final}
<1>1. /\ sender' = sender /\ host' = host /\ link' = link /\ UNCHANGED <<peer, peerTasks>>
      /\ hist' = hist
  BY DEF StatusUpdate, peerVars
<1>2. pay' = pay \/ (q # 0 /\ pay' = Removed(q, F))
  BY DEF StatusUpdate, ApplyUpdate
<1>3. \A k \in Sends : /\ pay'[k].endpoints \subseteq pay[k].endpoints
                       /\ pay'[k].status = pay[k].status
  <2> HIDE DEF F, q
  <2>1. CASE pay' = pay
    BY <2>1
  <2>2. CASE q # 0 /\ pay' = Removed(q, F)
    <3>1. q \in Sends
      BY <2>2, SentTyped DEF q
    <3> QED
      BY <2>2, <3>1, SentTyped DEF Removed, Payloads
  <2> QED
    BY <1>2, <2>1, <2>2
<1>4. heard'.peer = heard.peer
  BY SentTyped DEF StatusUpdate, ApplyUpdate, Told
<1> QED
  BY <1>1, <1>3, <1>4, SenderUntouched, PeersLeft, LinksLeft DEF Bystander

LEMMA HostStatusStepLeft ==
  ASSUME IInv, HostStatusStep, UNCHANGED peerVars
  PROVE  Bystander
<1>1. CASE StatusUpdate
  BY <1>1, StatusUpdateLeft
<1>2. CASE DestroyPendingPayload \/ NotifyShutdown
  <2>1. /\ sender' = sender /\ pay' = pay /\ link' = link /\ UNCHANGED <<peer, peerTasks, heard>>
        /\ hist' = hist
    BY <1>2 DEF DestroyPendingPayload, NotifyShutdown, peerVars
  <2>2. host'.sends = host.sends
    BY <1>2 DEF DestroyPendingPayload, NotifyShutdown, IInv, HostInv, HostTyped, Hosts
  <2> QED
    BY <2>1, <2>2, SenderUntouched, PeersLeft, LinksLeft DEF Bystander
<1> QED
  BY <1>1, <1>2 DEF HostStatusStep

LEMMA TeardownStepLeft ==
  ASSUME IInv, TeardownStep, UNCHANGED peerVars
  PROVE  Bystander
<1>1. /\ sender' = sender /\ link' = link /\ UNCHANGED <<peer, peerTasks, heard>> /\ hist' = hist
  BY DEF TeardownStep, CancelAllPayloads, AwaitBarrier, JoinExecutors, peerVars
<1>2. host'.sends = host.sends
  BY DEF TeardownStep, CancelAllPayloads, AwaitBarrier, JoinExecutors, IInv, HostInv, HostTyped, Hosts
<1>3. \/ pay' = pay
      \/ /\ host.tracked # 0
         /\ pay' = [pay EXCEPT ![host.tracked] = [@ EXCEPT !.cancelled = TRUE, !.closed = TRUE]]
  BY DEF TeardownStep, CancelAllPayloads, AwaitBarrier, JoinExecutors
<1>4. \A k \in Sends : pay'[k].endpoints = pay[k].endpoints /\ pay'[k].status = pay[k].status
  <2> DEFINE w == [pay[host.tracked] EXCEPT !.cancelled = TRUE, !.closed = TRUE]
  <2>1. CASE pay' = pay
    BY <2>1
  <2>2. CASE host.tracked # 0 /\ pay' = [pay EXCEPT ![host.tracked] = w]
    <3>1. host.tracked \in Sends /\ pay[host.tracked] \in Payloads /\ DOMAIN pay = Sends
      BY <2>2, SentTyped
    <3>2. w.endpoints = pay[host.tracked].endpoints /\ w.status = pay[host.tracked].status
      BY <3>1 DEF Payloads
    <3> HIDE DEF w
    <3> QED
      BY <2>2, <3>1, <3>2
  <2> QED
    BY <1>3, <2>1, <2>2
<1> QED
  BY <1>1, <1>2, <1>4, SenderUntouched, PeersLeft, LinksLeft DEF Bystander

LEMMA HostFrameLeft ==
  ASSUME IInv, NEW x \in Endpoints, HostFrame(x), UNCHANGED peerVars
  PROVE  Bystander
<1> DEFINE q == host.tracked
           status == Head(link[x].up).type
           acked == pay[q].acked \cup {x}
           l == [link[x] EXCEPT !.up = Tail(link[x].up)]
<1>1. /\ sender' = sender /\ host' = host /\ UNCHANGED <<peer, peerTasks, heard>> /\ hist' = hist
      /\ link' = [link EXCEPT ![x] = l] /\ link[x].up # <<>>
  BY DEF HostFrame, peerVars
<1>2. \/ pay' = pay
      \/ pay' = [pay EXCEPT ![q].acked = acked]
      \/ status # "ack" /\ q # 0 /\ pay' = [pay EXCEPT ![q].status[x] = status]
  BY DEF HostFrame, Member
<1>3. status # "ack" => status \in {"canceled", "error"}
  <2>1. Head(link[x].up) \in UpFrames
    BY <1>1, LinkOf, HeadTailProperties
  <2> QED
    BY <2>1 DEF UpFrames, Frames
<1>4. \A k \in Sends :
        /\ pay'[k].endpoints = pay[k].endpoints
        /\ \A e \in Endpoints : pay'[k].status[e] = "available" => pay[k].status[e] = "available"
  <2> HIDE DEF status, acked, q
  <2>1. CASE pay' = pay
    BY <2>1
  <2>2. CASE pay' = [pay EXCEPT ![q].acked = acked]
    <3>1. ASSUME NEW k \in Sends
          PROVE  pay'[k].endpoints = pay[k].endpoints /\ pay'[k].status = pay[k].status
      BY <2>2, SentTyped DEF Payloads
    <3> QED
      BY <3>1
  <2>3. CASE status # "ack" /\ q # 0 /\ pay' = [pay EXCEPT ![q].status[x] = status]
    <3>1. q \in Sends /\ pay[q] \in Payloads /\ DOMAIN pay = Sends
      BY <2>3, SentTyped DEF q
    <3>2. /\ pay'[q].endpoints = pay[q].endpoints
          /\ pay'[q].status = [pay[q].status EXCEPT ![x] = status]
          /\ \A k \in Sends : k # q => pay'[k] = pay[k]
      BY <2>3, <3>1 DEF Payloads
    <3>3. DOMAIN pay[q].status = Endpoints
      BY <3>1 DEF Payloads
    <3> QED
      BY <1>3, <2>3, <3>1, <3>2, <3>3
  <2> QED
    BY <1>2, <2>1, <2>2, <2>3
<1>5. \A e \in Endpoints : LinkLeft(e)
  <2>1. /\ l.down = link[x].down /\ l.host = link[x].host /\ l.peer = link[x].peer
        /\ l.broken = link[x].broken
    BY LinkOf DEF Links
  <2> HIDE DEF l
  <2> QED
    BY <1>1, <2>1, OneLinkLeft DEF Open, Joined
<1>6. \A k \in Sends : pay[k].endpoints \subseteq Endpoints
  BY SentTyped DEF Payloads
<1>7. SenderLeft
  BY <1>1, <1>4, <1>6, SenderUntouched
<1> QED
  BY <1>1, <1>5, <1>7, PeersLeft DEF Bystander

LEMMA HostConnectionLeft ==
  ASSUME IInv, NEW x \in Endpoints, HostConnection(x), UNCHANGED peerVars
  PROVE  Bystander
<1>1. /\ sender' = sender /\ host' = host /\ UNCHANGED <<peer, peerTasks, heard>> /\ pay' = pay
      /\ hist'.torn = hist.torn
  BY HistTorn DEF HostConnection, HostNotices, HostLeaves, HostDisconnected, BreakLink, CloseHostEnd,
                  peerVars
<1>2. link[x] \in Links
  BY LinkOf
<1>3. \A e \in Endpoints : LinkLeft(e)
  <2>1. CASE CloseHostEnd(x)
    <3>1. PICK rest \in InHand(link[x].up), kept \in {link[x].down, <<>>} :
            link' = [link EXCEPT ![x] = [@ EXCEPT !.host = "leaving", !.up = rest, !.down = kept]]
      BY <2>1 DEF CloseHostEnd
    <3> DEFINE l == [link[x] EXCEPT !.host = "leaving", !.up = rest, !.down = kept]
    <3>2. /\ l.down = kept /\ l.host = "leaving" /\ l.peer = link[x].peer
          /\ link' = [link EXCEPT ![x] = l]
      BY <1>2, <3>1 DEF Links
    <3>3. kept \in {link[x].down} \cup InHand(link[x].down)
      BY DEF InHand
    <3> HIDE DEF l
    <3> QED
      BY <3>2, <3>3, OneLinkLeft DEF Joined
  <2>2. CASE HostDisconnected(x)
    <3> DEFINE l == [link[x] EXCEPT !.host = "gone", !.up = <<>>]
    <3>1. /\ l.down = link[x].down /\ l.host = "gone" /\ l.peer = link[x].peer
          /\ link' = [link EXCEPT ![x] = l]
      BY <1>2, <2>2 DEF HostDisconnected, Links
    <3> HIDE DEF l
    <3> QED
      BY <3>1, OneLinkLeft DEF Joined
  <2>3. CASE BreakLink(x)
    <3> DEFINE l == [link[x] EXCEPT !.broken = TRUE, !.down = <<>>, !.up = <<>>]
    <3>1. /\ l.down = <<>> /\ l.broken /\ l.peer = link[x].peer
          /\ link' = [link EXCEPT ![x] = l]
      BY <1>2, <2>3 DEF BreakLink, Links
    <3>2. <<>> \in InHand(link[x].down)
      BY DEF InHand
    <3> HIDE DEF l
    <3> QED
      BY <3>1, <3>2, OneLinkLeft DEF Joined
  <2> QED
    BY <2>1, <2>2, <2>3 DEF HostConnection, HostNotices, HostLeaves
<1> QED
  BY <1>1, <1>3, SenderUntouched, PeersLeft DEF Bystander

\* The steps of a peer but for the reading of a frame.
LEMMA SendPayloadAckLeft ==
  ASSUME IInv, NEW x \in Endpoints, SendPayloadAck(x)
  PROVE  Bystander
<1>1. /\ sender' = sender /\ host' = host /\ UNCHANGED <<peer, peerTasks, heard>> /\ pay' = pay
      /\ hist' = hist
  BY DEF SendPayloadAck, hostVars
<1>2. \A e \in Endpoints : LinkLeft(e)
  <2> DEFINE l == WrittenUp(link[x], Ack)
  <2>1. CASE link' = link
    BY <2>1, LinksLeft
  <2>2. CASE link' = [link EXCEPT ![x] = l]
    <3>1. /\ l.down = link[x].down /\ l.host = link[x].host /\ l.peer = link[x].peer
          /\ l.broken = link[x].broken
      BY LinkOf DEF WrittenUp, Links
    <3> HIDE DEF l
    <3> QED
      BY <2>2, <3>1, OneLinkLeft DEF Open, Joined
  <2> QED
    BY <2>1, <2>2 DEF SendPayloadAck
<1> QED
  BY <1>1, <1>2, SenderUntouched, PeersLeft DEF Bystander

\* The status thread of x tells its client of the first task, if anything.
LEMMA StatusStepQuiet ==
  ASSUME IInv, NEW x \in Endpoints, PeerStatusStep(x), NEW e \in Endpoints
  PROVE  /\ peerTasks[x] # <<>> /\ peerTasks[x] \in Seq(PeerTasks)
         /\ heard.peer[e] \in Seq(Reports)
         /\ e # x => heard'.peer[e] = heard.peer[e] /\ peerTasks'[e] = peerTasks[e]
         /\ e = x => /\ peerTasks'[e] = Tail(peerTasks[e])
                     /\ \/ heard'.peer[e] = heard.peer[e]
                        \/ /\ peer[e].tracked /\ link[e].peer # "gone"
                           /\ \E r \in Reports :
                                /\ heard'.peer[e] = Append(heard.peer[e], r)
                                /\ r.send = Head(peerTasks[e]).send
                                /\ r.status = Head(peerTasks[e]).status
<1> DEFINE t == Head(peerTasks[x])
           r == [kind |-> t.kind, of |-> peer[x].inst, send |-> t.send, status |-> t.status]
<1>1. /\ heard = [host |-> heard.host, peer |-> heard.peer] /\ DOMAIN heard.peer = Endpoints
      /\ DOMAIN peerTasks = Endpoints /\ t \in PeerTasks /\ peer[x].inst \in Nat
      /\ peerTasks[x] \in Seq(PeerTasks) /\ heard.peer[e] \in Seq(Reports)
  BY PeerTaskOf DEF IInv, PeerTyped, HostInv, HeardTyped, IncomingPayloads, PeerStatusStep
<1>2. peerTasks[x] # <<>> /\ peerTasks' = [peerTasks EXCEPT ![x] = Tail(@)]
  BY DEF PeerStatusStep
<1>3. r \in Reports /\ r.send = t.send /\ r.status = t.status
  BY <1>1 DEF Reports, PeerTasks
<1>4. UNCHANGED heard \/ (peer[x].tracked /\ PeerTold(x, t))
  BY DEF PeerStatusStep
<1>5. PeerTold(x, t) =>
        \/ heard' = heard
        \/ link[x].peer # "gone" /\ heard'.peer = [heard.peer EXCEPT ![x] = Append(@, r)]
  BY <1>1 DEF PeerTold
<1> HIDE DEF r
<1>6. e # x => heard'.peer[e] = heard.peer[e]
  BY <1>1, <1>4, <1>5
<1>7. \/ heard'.peer[x] = heard.peer[x]
      \/ peer[x].tracked /\ link[x].peer # "gone" /\ heard'.peer[x] = Append(heard.peer[x], r)
  BY <1>1, <1>4, <1>5
<1> QED
  BY <1>1, <1>2, <1>3, <1>6, <1>7

LEMMA SaysAppended ==
  ASSUME NEW T, NEW s \in Seq(T), NEW r \in T, NEW S
  PROVE  Says(Append(s, r), S) <=> Says(s, S) \/ r.status \in S
<1> DEFINE u == Append(s, r)
<1>1. /\ \A i \in DOMAIN u : u[i] = r \/ (i \in DOMAIN s /\ u[i] = s[i])
      /\ \A i \in DOMAIN s : i \in DOMAIN u /\ u[i] = s[i]
      /\ \E i \in DOMAIN u : u[i] = r
  <2>1. Len(s) + 1 \in DOMAIN u /\ u[Len(s) + 1] = r
    OBVIOUS
  <2> QED
    BY <2>1
<1> HIDE DEF u
<1> QED
  BY <1>1 DEF Says, u

LEMMA SaysHead ==
  ASSUME NEW T, NEW s \in Seq(T), s # <<>>, NEW S
  PROVE  Says(s, S) <=> Head(s).status \in S \/ Says(Tail(s), S)
<1> DEFINE u == Tail(s)
<1>1. /\ 1 \in DOMAIN s /\ Head(s) = s[1]
      /\ \A i \in DOMAIN u : i + 1 \in DOMAIN s /\ u[i] = s[i + 1]
      /\ \A i \in DOMAIN s : i = 1 \/ (i - 1 \in DOMAIN u /\ u[i - 1] = s[i])
  OBVIOUS
<1> HIDE DEF u
<1> QED
  BY <1>1 DEF Says, u

\* What it takes from the queue is what it tells.
LEMMA StatusStepSays ==
  ASSUME IInv, NEW x \in Endpoints, PeerStatusStep(x), NEW e \in Endpoints, NEW S
  PROVE  /\ ~Says(heard.peer[e], S) /\ ~Says(peerTasks[e], S) =>
              ~Says(heard'.peer[e], S) /\ ~Says(peerTasks'[e], S)
         /\ Says(peerTasks'[e], S) => Says(peerTasks[e], S)
         /\ Says(heard.peer[e], S) => Says(heard'.peer[e], S)
<1>1. CASE e # x
  BY <1>1, StatusStepQuiet
<1>2. CASE e = x
  <2>1. /\ peerTasks[e] # <<>> /\ peerTasks[e] \in Seq(PeerTasks) /\ heard.peer[e] \in Seq(Reports)
        /\ peerTasks'[e] = Tail(peerTasks[e])
        /\ \/ heard'.peer[e] = heard.peer[e]
           \/ \E r \in Reports : /\ heard'.peer[e] = Append(heard.peer[e], r)
                                 /\ r.status = Head(peerTasks[e]).status
    BY <1>2, StatusStepQuiet
  <2>2. Says(peerTasks[e], S) <=> Head(peerTasks[e]).status \in S \/ Says(peerTasks'[e], S)
    BY <2>1, SaysHead
  <2>3. \/ heard'.peer[e] = heard.peer[e]
        \/ Says(heard'.peer[e], S) <=> Says(heard.peer[e], S) \/ Head(peerTasks[e]).status \in S
    BY <2>1, SaysAppended
  <2> QED
    BY <2>2, <2>3
<1> QED
  BY <1>1, <1>2

LEMMA PeerStatusStepLeft ==
  ASSUME IInv, NEW x \in Endpoints, PeerStatusStep(x)
  PROVE  Bystander
<1> DEFINE tracked == StillTracked(Head(peerTasks[x]).status)
<1>1. /\ sender' = sender /\ host' = host /\ pay' = pay /\ link' = link /\ hist' = hist
  BY DEF PeerStatusStep, hostVars
<1>2. \/ peer' = peer
      \/ peer[x].tracked /\ peer' = [peer EXCEPT ![x].tracked = tracked]
      \/ peer' = [peer EXCEPT ![x].member = FALSE]
  BY DEF PeerStatusStep
<1>3. ASSUME NEW e \in Endpoints PROVE PeerLeft(e)
  <2>1. peer[e] \in IncomingPayloads /\ DOMAIN peer = Endpoints
    BY DEF IInv, PeerTyped
  <2>2. /\ ~peer[e].tracked => heard'.peer[e] = heard.peer[e]
        /\ peerTasks[e] = <<>> => peerTasks'[e] = <<>>
        /\ ~Says(heard.peer[e], Unsuccessful) /\ ~Says(peerTasks[e], Unsuccessful) =>
             ~Says(heard'.peer[e], Unsuccessful) /\ ~Says(peerTasks'[e], Unsuccessful)
    BY StatusStepSays, StatusStepQuiet
  <2>3. /\ peer'[e].got = peer[e].got /\ peer'[e].send = peer[e].send
        /\ peer'[e].tracked => peer[e].tracked
        /\ peer[e].cancelled => peer'[e].cancelled
    <3>1. CASE e # x \/ peer' = peer
      BY <1>2, <2>1, <3>1
    <3>2. CASE e = x /\ peer[x].tracked /\ peer' = [peer EXCEPT ![x].tracked = tracked]
      <4> HIDE DEF tracked
      <4> QED
        BY <2>1, <3>2 DEF IncomingPayloads
    <3>3. CASE e = x /\ peer' = [peer EXCEPT ![x].member = FALSE]
      BY <2>1, <3>3 DEF IncomingPayloads
    <3> QED
      BY <1>2, <3>1, <3>2, <3>3
  <2> QED
    BY <1>1, <2>2, <2>3 DEF PeerLeft, Torn
<1> QED
  BY <1>1, <1>3, SenderUntouched, LinksLeft DEF Bystander

LEMMA CancelIncomingLeft ==
  ASSUME IInv, NEW x \in Endpoints, CancelIncoming(x)
  PROVE  Bystander
<1>1. /\ sender' = sender /\ host' = host /\ pay' = pay /\ link' = link
      /\ UNCHANGED <<heard, peerTasks>> /\ hist'.torn = hist.torn
      /\ peer' = [peer EXCEPT ![x].cancelled = TRUE]
  BY HistTorn DEF CancelIncoming, hostVars
<1>2. ASSUME NEW e \in Endpoints PROVE PeerLeft(e)
  <2>1. peer[e] \in IncomingPayloads /\ DOMAIN peer = Endpoints
    BY DEF IInv, PeerTyped
  <2>2. CASE e # x
    <3>1. peer'[e] = peer[e]
      BY <1>1, <2>1, <2>2
    <3> QED
      BY <1>1, <3>1 DEF PeerLeft, Torn
  <2>3. CASE e = x
    BY <1>1, <2>1, <2>3 DEF PeerLeft, Torn, IncomingPayloads
  <2> QED
    BY <2>2, <2>3
<1> QED
  BY <1>1, <1>2, SenderUntouched, LinksLeft DEF Bystander

LEMMA PeerConnectionLeft ==
  ASSUME IInv, NEW x \in Endpoints, PeerNotices(x) \/ PeerLeaves(x) \/ PeerDisconnected(x)
  PROVE  Bystander
<1>1. /\ sender' = sender /\ host' = host /\ UNCHANGED <<peer, heard>> /\ pay' = pay
      /\ hist'.torn = hist.torn
  BY HistTorn DEF PeerNotices, PeerLeaves, PeerDisconnected, ClosePeerEnd, hostVars, peerVars
<1>2. link[x] \in Links
  BY LinkOf
<1>3. \A e \in Endpoints : LinkLeft(e)
  <2>1. CASE ClosePeerEnd(x)
    <3>1. PICK rest \in InHand(link[x].down), kept \in {link[x].up, <<>>} :
            link' = [link EXCEPT ![x] = [@ EXCEPT !.peer = "leaving", !.down = rest, !.up = kept]]
      BY <2>1 DEF ClosePeerEnd
    <3> DEFINE l == [link[x] EXCEPT !.peer = "leaving", !.down = rest, !.up = kept]
    <3>2. l.down = rest /\ l.peer = "leaving" /\ link' = [link EXCEPT ![x] = l]
      BY <1>2, <3>1 DEF Links
    <3> HIDE DEF l
    <3> QED
      BY <3>1, <3>2, OneLinkLeft
  <2>2. CASE PeerDisconnected(x)
    <3> DEFINE l == [link[x] EXCEPT !.peer = "gone", !.down = <<>>]
    <3>1. l.down = <<>> /\ l.peer = "gone" /\ link' = [link EXCEPT ![x] = l]
      BY <1>2, <2>2 DEF PeerDisconnected, Links
    <3>2. <<>> \in InHand(link[x].down)
      BY DEF InHand
    <3> HIDE DEF l
    <3> QED
      BY <3>1, <3>2, OneLinkLeft
  <2> QED
    BY <2>1, <2>2 DEF PeerNotices, PeerLeaves
<1>4. ASSUME NEW e \in Endpoints PROVE PeerLeft(e)
  <2>1. DOMAIN peerTasks = Endpoints /\ DOMAIN link = Endpoints
    BY LinkOf DEF IInv, PeerTyped
  <2>2. peerTasks'[e] = peerTasks[e] \/ (e = x /\ ~Joined(e)')
    <3>1. CASE ClosePeerEnd(x)
      <4>1. \E l : link' = [link EXCEPT ![x] = l] /\ l.peer = "leaving"
        <5>1. PICK rest \in InHand(link[x].down), kept \in {link[x].up, <<>>} :
                link' = [link EXCEPT ![x] = [@ EXCEPT !.peer = "leaving", !.down = rest, !.up = kept]]
          BY <3>1 DEF ClosePeerEnd
        <5> DEFINE l == [link[x] EXCEPT !.peer = "leaving", !.down = rest, !.up = kept]
        <5>2. l.peer = "leaving" /\ link' = [link EXCEPT ![x] = l]
          BY <1>2, <5>1 DEF Links
        <5> QED
          BY <5>2
      <4>2. peerTasks' = [peerTasks EXCEPT ![x] = @ \o <<PeerDisconnect>>]
        BY <3>1 DEF ClosePeerEnd, Post
      <4> QED
        BY <2>1, <4>1, <4>2 DEF Joined
    <3>2. CASE PeerDisconnected(x)
      BY <3>2 DEF PeerDisconnected, peerVars
    <3> QED
      BY <3>1, <3>2 DEF PeerNotices, PeerLeaves
  <2> QED
    BY <1>1, <2>2 DEF PeerLeft, Torn
<1> QED
  BY <1>1, <1>3, <1>4, SenderUntouched DEF Bystander

\* Such a step keeps the invariant but for what it does to acknowledgements.
LEMMA BystanderInv ==
  ASSUME IInv, SenderOnce, Arriving, Bystander
  PROVE  SenderOnce' /\ Arriving'
<1>1. /\ SenderOnce' /\ (Unsent' <=> Unsent)
      /\ NextNumber' = NextNumber /\ Continued' \subseteq Continued
  BY OnceLeft DEF Bystander, LinkLeft
<1>2. ASSUME NEW e \in Endpoints PROVE \E b \in Nat : Arrival(e, b)'
  <2>1. PICK b \in Nat : Arrival(e, b)
    BY DEF Arriving
  <2>2. Arrival(e, b)'
    BY <1>1, <2>1, ArrivalLeft DEF Bystander
  <2> QED
    BY <2>2
<1>3. Arriving'
  BY <1>2 DEF Arriving
<1> QED
  BY <1>1, <1>3

-----------------------------------------------------------------------------
(* The send, and the sending thread *)

LEMMA SendPayloadArriving ==
  ASSUME IInv, SenderOnce, Arriving, Fresh', SendPayload, UNCHANGED peerVars
  PROVE  Fresh /\ SenderOnce' /\ Arriving'
<1>1. sender \in Senders /\ host \in Hosts /\ host.sends \in Nat
  BY SentTyped DEF IInv, HostInv, SenderTyped, HostTyped, Hosts
<1>2. host'.sends = host.sends + 1
  BY <1>1 DEF SendPayload, Hosts
<1>3. host.sends = 0 /\ host'.sends = 1
  BY <1>1, <1>2 DEF Fresh
<1>4. sender.queue = <<>> /\ sender.pc = "idle" /\ Unsent
  BY <1>3 DEF SenderOnce, Unsent
<1>5. sender' = [sender EXCEPT !.queue = <<1>>]
  <2>1. Append(sender.queue, host.sends + 1) = <<1>>
    BY <1>3, <1>4
  <2> QED
    BY <2>1 DEF SendPayload
<1>6. sender'.queue = <<1>> /\ sender'.pc = "idle"
  BY <1>1, <1>4, <1>5 DEF Senders
<1>7. SenderOnce'
  BY <1>3, <1>6 DEF SenderOnce
<1>8. link' = link /\ UNCHANGED <<peer, peerTasks, heard>> /\ hist'.torn = hist.torn
  BY HistTorn DEF SendPayload, peerVars
<1>9. ASSUME NEW e \in Endpoints PROVE \E b \in Nat : Arrival(e, b)'
  <2>1. PICK b \in Nat : Arrival(e, b)
    BY DEF Arriving
  <2>2. e \notin Continued'
    BY <1>6 DEF Continued
  <2>3. Arrival(e, b)'
    BY <1>4, <1>8, <2>1, <2>2, ArrivalLeft, PeersLeft, LinksLeft
  <2> QED
    BY <2>3
<1> QED
  BY <1>3, <1>7, <1>9 DEF Fresh, Arriving

LEMMA TakeSendArriving ==
  ASSUME IInv, Fresh, SenderOnce, Arriving, TakeSend, UNCHANGED peerVars
  PROVE  SenderOnce' /\ Arriving'
<1> DEFINE rest == [sender EXCEPT !.queue = Tail(@)]
<1>1. sender \in Senders /\ sender.pc = "idle" /\ sender.queue = <<1>> /\ host.sends = 1
  BY DEF IInv, HostInv, SenderTyped, TakeSend, At, SenderOnce
<1>2. /\ UNCHANGED <<link, pay, host, peer, peerTasks, heard>> /\ hist'.torn = hist.torn
      /\ \/ sender' = rest
         \/ sender' = [rest EXCEPT !.pc = "top", !.pending = host.tracked, !.chunk = 0]
  BY HistTorn DEF TakeSend, peerVars
<1>3. Tail(sender.queue) = <<>>
  BY <1>1
<1>4. /\ sender'.queue = <<>>
      /\ sender'.pc = "idle" \/ (sender'.pc = "top" /\ sender'.chunk = 0)
  BY <1>1, <1>2, <1>3 DEF Senders
<1>5. SenderOnce'
  BY <1>1, <1>2, <1>4 DEF SenderOnce, Unsent
<1>6. ASSUME NEW e \in Endpoints PROVE \E b \in Nat : Arrival(e, b)'
  <2>1. PICK b \in Nat : Arrival(e, b)
    BY DEF Arriving
  <2>2. b = 0 /\ link[e].down = <<>>
    BY <1>1, <2>1 DEF Arrival, Unsent
  <2>3. e \in Continued' => NextNumber' = 0
    BY <1>4 DEF Continued, NextNumber
  <2>4. Clean(e)' /\ (Untouched(e)' <=> Untouched(e))
    BY <1>2, <2>1, <2>2 DEF Arrival, Clean, Untouched, Joined
  <2>5. Arrival(e, b)'
    BY <1>1, <1>2, <1>4, <2>1, <2>2, <2>3, <2>4 DEF Arrival, Unsent, Open, Torn
  <2> QED
    BY <2>5
<1> QED
  BY <1>5, <1>6 DEF Arriving

\* A control frame behind the others.
LEMMA NumberedControl ==
  ASSUME NEW D \in Seq(DownFrames), NEW b, Numbered(D, b), NEW f, f.type # "data"
  PROVE  Numbered(Append(D, f), b) /\ (DataIn(Append(D, f)) => DataIn(D))
<1> DEFINE W == Append(D, f)
<1>1. /\ DOMAIN W = 1..(Len(D) + 1) /\ W[Len(D) + 1] = f /\ Len(D) \in Nat
      /\ DOMAIN D = 1..Len(D) /\ \A i \in DOMAIN D : W[i] = D[i]
  OBVIOUS
<1>2. ASSUME NEW i \in DOMAIN W, W[i].type = "data"
      PROVE  /\ W[i].chunk = b + i - 1 /\ W[i].send = 1 /\ \A j \in 1..i : W[j].type = "data"
             /\ DataIn(D)
  <2>1. i \in DOMAIN D /\ 1..i \subseteq DOMAIN D
    BY <1>1, <1>2
  <2> HIDE DEF W
  <2> QED
    BY <1>1, <1>2, <2>1 DEF Numbered, DataIn
<1> QED
  BY <1>2 DEF Numbered, DataIn

LEMMA Said ==
  ASSUME IInv, NEW S, NEW event \in {"canceled", "error"}, Say(S, event), NEW e \in Endpoints
  PROVE  /\ (Open(e)' <=> Open(e)) /\ (Joined(e)' <=> Joined(e))
         /\ \A b : Numbered(link[e].down, b) =>
                    Numbered(link'[e].down, b) /\ (DataIn(link'[e].down) => DataIn(link[e].down))
<1> DEFINE l == WrittenDown(link[e], Control(event))
<1>1. link[e] \in Links /\ link[e].down \in Seq(DownFrames) /\ Control(event).type = event
  BY LinkOf DEF Control
<1>2. /\ l.host = link[e].host /\ l.peer = link[e].peer /\ l.broken = link[e].broken
      /\ l.down \in {link[e].down, Append(link[e].down, Control(event))}
  BY <1>1 DEF WrittenDown, Links
<1>3. link'[e] = link[e] \/ link'[e] = l
  BY DEF Say
<1> HIDE DEF l
<1> QED
  BY <1>1, <1>2, <1>3, NumberedControl DEF Open, Joined

\* The thread at work says to some that it ends, or leaves the links; it goes on
\* with no stream that it was not going on with.
LEMMA WorkArriving ==
  ASSUME IInv, SenderOnce, Arriving, sender.pc # "idle",
         UNCHANGED <<host, heard, peerVars>>,
         hist'.torn = hist.torn, sender'.queue = sender.queue,
         \/ /\ link' = link
            /\ \A e \in Endpoints : e \in Continued' /\ Open(e) =>
                                      e \in Continued /\ NextNumber' = NextNumber
         \/ /\ \E S : \E event \in {"canceled", "error"} : Say(S, event)
            /\ \A e \in Endpoints : e \notin Continued'
  PROVE  Arriving'
<1>1. ~Unsent /\ ~Unsent' /\ UNCHANGED <<peer, peerTasks, heard>>
  BY DEF SenderOnce, Unsent, peerVars
<1>2. ASSUME NEW e \in Endpoints PROVE \E b \in Nat : Arrival(e, b)'
  <2>1. PICK b \in Nat : Arrival(e, b)
    BY DEF Arriving
  <2>2. CASE /\ link' = link
             /\ e \in Continued' /\ Open(e) => e \in Continued /\ NextNumber' = NextNumber
    <3>1. Open(e)' <=> Open(e)
      BY <2>2 DEF Open
    <3>2. Arrival(e, b)'
      BY <1>1, <2>1, <2>2, <3>1, ArrivalLeft, PeersLeft, LinksLeft
    <3> QED
      BY <3>2
  <2>3. CASE /\ \E S : \E event \in {"canceled", "error"} : Say(S, event)
             /\ e \notin Continued'
    <3>1. /\ Numbered(link'[e].down, b) /\ (DataIn(link'[e].down) => DataIn(link[e].down))
          /\ (Joined(e)' <=> Joined(e)) /\ (Torn(e)' <=> Torn(e))
      BY <2>1, <2>3, Said DEF Arrival, Torn
    <3>2. (Untouched(e) => Untouched(e)') /\ (Clean(e) => Clean(e)')
      BY <1>1, <3>1 DEF Untouched, Clean
    <3>3. b = 0 => ~peer'[e].tracked /\ ~Torn(e)' /\ Untouched(e)'
      BY <1>1, <2>1, <3>1, <3>2 DEF Arrival
    <3>4. Arrival(e, b)'
      BY <1>1, <2>1, <2>3, <3>1, <3>2, <3>3 DEF Arrival
    <3> QED
      BY <3>4
  <2> QED
    BY <2>2, <2>3
<1> QED
  BY <1>2 DEF Arriving

LEMMA NextChunkArriving ==
  ASSUME IInv, Fresh, SenderOnce, Arriving, NextChunk, UNCHANGED peerVars
  PROVE  SenderOnce' /\ Arriving'
<1>1. sender \in Senders /\ sender.pc = "top"
  BY DEF IInv, HostInv, SenderTyped, NextChunk, At
<1>2. /\ sender' = [sender EXCEPT !.pc = "write", !.targets = Available]
      /\ UNCHANGED <<link, pay, host, heard, hist>>
  BY DEF NextChunk
<1>3. /\ sender'.pc = "write" /\ sender'.targets = Available /\ sender'.chunk = sender.chunk
      /\ sender'.queue = sender.queue /\ sender'.pending = sender.pending
  BY <1>1, <1>2 DEF Senders
<1>4. Available' = Available
  BY <1>2, <1>3 DEF Available
<1>5. SenderOnce'
  BY <1>1, <1>2, <1>3, <1>4 DEF SenderOnce, Unsent
<1>6. \A e \in Endpoints : e \in Continued' => e \in Continued /\ NextNumber' = NextNumber
  BY <1>1, <1>3, <1>4 DEF Continued, NextNumber
<1> QED
  BY <1>1, <1>2, <1>3, <1>5, <1>6, WorkArriving

\* The thread is done with an endpoint.
LEMMA ConfirmedArriving ==
  ASSUME IInv, Fresh, SenderOnce, Arriving, NEW e, Confirmed(e),
         UNCHANGED <<host, heard, peerVars>>, hist'.torn = hist.torn,
         link' = link \/ (sender.last /\ Say({e}, "canceled")),
         \/ sender.pc = "confirm" /\ e \in sender.left
         \/ sender.pc = "wait",
         \A k \in Sends : pay'[k].endpoints = pay[k].endpoints /\ pay'[k].status = pay[k].status
  PROVE  SenderOnce' /\ Arriving'
<1>1. sender \in Senders /\ (sender.pc = "wait" => sender.last /\ sender.wrote)
  BY DEF IInv, HostInv, SenderTyped, SenderOnce
<1>2. /\ sender'.pc = "confirm" /\ sender'.queue = sender.queue
      /\ sender'.pending = sender.pending /\ sender'.chunk = sender.chunk
      /\ sender'.targets = sender.targets /\ sender'.last = sender.last
      /\ sender'.wrote = sender.wrote
  BY <1>1 DEF Confirmed, Senders
<1>3. sender.wrote /\ sender.pc # "idle"
  BY <1>1 DEF SenderOnce
<1>4. Available' = Available
  <2>1. sender.pending \in Sends
    BY <1>3, AtWork DEF IInv, HostInv
  <2> QED
    BY <1>2, <2>1 DEF Available
<1>5. SenderOnce'
  BY <1>2, <1>3, <1>4 DEF SenderOnce, Unsent
<1>6. \A x \in Endpoints : /\ x \in Continued' => x \in Continued /\ NextNumber' = NextNumber
                           /\ sender.last => x \notin Continued'
  BY <1>1, <1>2 DEF Continued, NextNumber
<1>7. CASE link' = link
  BY <1>2, <1>3, <1>5, <1>6, <1>7, WorkArriving
<1>8. CASE sender.last /\ Say({e}, "canceled")
  <2>1. \E S : \E event \in {"canceled", "error"} : Say(S, event)
    BY <1>8
  <2> QED
    BY <1>2, <1>3, <1>5, <1>6, <1>8, <2>1, WorkArriving
<1> QED
  BY <1>7, <1>8

\* The loop ends, or its end goes on.
LEMMA LoopEndArriving ==
  ASSUME IInv, Fresh, SenderOnce, Arriving, PostDestroy \/ ReleaseHandle, UNCHANGED peerVars
  PROVE  SenderOnce' /\ Arriving'
<1>1. sender \in Senders /\ sender.pc # "idle" /\ UNCHANGED <<link, pay, host, heard, hist>>
  BY DEF IInv, HostInv, SenderTyped, PostDestroy, ReleaseHandle, At
<1>2. sender'.pc \in {"release", "idle"} /\ sender'.queue = sender.queue
  BY <1>1 DEF PostDestroy, ReleaseHandle, Senders
<1>3. SenderOnce' /\ \A e \in Endpoints : e \notin Continued'
  BY <1>1, <1>2 DEF SenderOnce, Unsent, Continued
<1> QED
  BY <1>1, <1>2, <1>3, WorkArriving

LEMMA ChunkDoneArriving ==
  ASSUME IInv, Fresh, SenderOnce, Arriving, ChunkDone, UNCHANGED peerVars
  PROVE  SenderOnce' /\ Arriving'
<1>1. /\ sender \in Senders /\ sender.pc = "confirm" /\ sender.left = {}
      /\ UNCHANGED <<link, pay, host, heard, hist>>
      /\ sender.pending \in Sends
  BY AtWork DEF IInv, HostInv, SenderTyped, ChunkDone, At
<1>2. /\ sender'.pc = IF sender.last /\ sender.wrote THEN "end" ELSE "top"
      /\ sender'.chunk = IF sender.last THEN sender.chunk ELSE sender.chunk + 1
      /\ sender'.queue = sender.queue /\ sender'.pending = sender.pending
  BY <1>1 DEF ChunkDone, Senders
<1>3. Available' = Available /\ Available \subseteq sender.targets /\ Available \subseteq Endpoints
  BY <1>1, <1>2, AvailableTyped DEF Available, SenderOnce, IInv, HostInv
<1>4. SenderOnce'
  BY <1>1, <1>2 DEF SenderOnce, Unsent
<1>5. \A e \in Endpoints : e \in Continued' /\ Open(e) => e \in Continued /\ NextNumber' = NextNumber
  <2>1. CASE sender.last /\ sender.wrote
    BY <1>2, <2>1 DEF Continued
  <2>2. CASE sender.last /\ ~sender.wrote
    BY <1>1, <1>2, <1>3, <2>2 DEF Continued, SenderOnce
  <2>3. CASE ~sender.last
    BY <1>1, <1>2, <1>3, <2>3 DEF Continued, NextNumber
  <2> QED
    BY <2>1, <2>2, <2>3
<1> QED
  BY <1>1, <1>2, <1>4, <1>5, WorkArriving

LEMMA StopSendingArriving ==
  ASSUME IInv, Fresh, SenderOnce, Arriving, StopSending, UNCHANGED peerVars
  PROVE  SenderOnce' /\ Arriving'
<1>1. /\ sender \in Senders /\ sender.pc = "top"
      /\ sender' = [sender EXCEPT !.pc = "end"]
      /\ UNCHANGED <<pay, host, heard>> /\ hist'.torn = hist.torn
  BY HistTorn DEF IInv, HostInv, SenderTyped, StopSending, At
<1>2. sender'.pc = "end" /\ sender'.queue = sender.queue
  BY <1>1 DEF Senders
<1>3. SenderOnce' /\ \A e \in Endpoints : e \notin Continued'
  BY <1>1, <1>2 DEF SenderOnce, Unsent, Continued
<1>4. link' = link \/ \E S : \E event \in {"canceled", "error"} : Say(S, event)
  BY DEF StopSending
<1> QED
  BY <1>1, <1>2, <1>3, <1>4, WorkArriving

LEMMA ConfirmArriving ==
  ASSUME IInv, Fresh, SenderOnce, Arriving, UNCHANGED peerVars,
         NEW e \in Endpoints, ConfirmChunk(e) \/ CheckAck(e)
  PROVE  SenderOnce' /\ Arriving'
<1>1. sender \in Senders /\ sender.pc = "confirm" /\ e \in sender.left
      /\ UNCHANGED <<host, heard, hist>>
  BY DEF IInv, HostInv, SenderTyped, ConfirmChunk, CheckAck, At
<1>2. \A k \in Sends : pay'[k].endpoints = pay[k].endpoints /\ pay'[k].status = pay[k].status
  <2> DEFINE v == pay[host.tracked].acked \ {e}
  <2>1. pay' = pay \/ pay' = [pay EXCEPT ![host.tracked].acked = v]
    BY DEF ConfirmChunk, CheckAck
  <2> HIDE DEF v
  <2> QED
    BY <2>1, SentTyped DEF Payloads
<1>3. CASE Confirmed(e)
  <2>1. link' = link \/ (sender.last /\ Say({e}, "canceled"))
    BY <1>3 DEF ConfirmChunk, CheckAck
  <2> QED
    BY <1>1, <1>2, <1>3, <2>1, ConfirmedArriving
<1>4. CASE /\ Member(host.tracked, e) /\ sender.last
           /\ sender' = [sender EXCEPT !.pc = "wait", !.waiting = e, !.awaited = host.tracked]
           /\ UNCHANGED <<link, pay>>
  <2>1. host.tracked = 1
    BY <1>4, OneSend DEF Member
  <2>2. /\ sender'.pc = "wait" /\ sender'.queue = sender.queue /\ sender'.awaited = 1
        /\ sender'.last /\ sender'.wrote = sender.wrote /\ sender'.targets = sender.targets
        /\ sender'.pending = sender.pending
    BY <1>1, <1>4, <2>1 DEF Senders
  <2>3. sender.wrote
    BY <1>1 DEF SenderOnce
  <2>4. SenderOnce'
    BY <1>1, <1>4, <2>2, <2>3 DEF SenderOnce, Unsent, Available
  <2>5. \A x \in Endpoints : x \notin Continued'
    BY <2>2 DEF Continued
  <2> QED
    BY <1>1, <1>4, <2>2, <2>4, <2>5, WorkArriving
<1> QED
  BY <1>3, <1>4 DEF ConfirmChunk, CheckAck

LEMMA WaitEndedArriving ==
  ASSUME IInv, Fresh, SenderOnce, Arriving, UNCHANGED peerVars,
         AckReceived \/ AckTimeout \/ AckInfoErased
  PROVE  SenderOnce' /\ Arriving'
<1>1. /\ sender.pc = "wait" /\ Confirmed(sender.waiting) /\ UNCHANGED <<link, host, heard>>
      /\ hist'.torn = hist.torn
  BY HistTorn DEF AckReceived, AckTimeout, AckInfoErased, At
<1>2. \A k \in Sends : pay'[k].endpoints = pay[k].endpoints /\ pay'[k].status = pay[k].status
  <2> DEFINE v == pay[sender.awaited].acked \ {sender.waiting}
  <2>1. pay' = pay \/ pay' = [pay EXCEPT ![sender.awaited].acked = v]
    BY DEF AckReceived, AckTimeout, AckInfoErased
  <2> HIDE DEF v
  <2> QED
    BY <2>1, SentTyped DEF Payloads
<1> QED
  BY <1>1, <1>2, ConfirmedArriving

\* The next chunk behind the chunks before it.
LEMMA NumberedData ==
  ASSUME NEW D \in Seq(DownFrames), NEW b \in Nat, Numbered(D, b),
         \A i \in DOMAIN D : D[i].type = "data",
         NEW f, f.type = "data", f.chunk = b + Len(D), f.send = 1
  PROVE  /\ Numbered(Append(D, f), b)
         /\ \A i \in DOMAIN Append(D, f) : Append(D, f)[i].type = "data"
         /\ Len(Append(D, f)) = Len(D) + 1
<1> DEFINE W == Append(D, f)
<1>1. /\ DOMAIN W = 1..(Len(D) + 1) /\ W[Len(D) + 1] = f /\ Len(D) \in Nat
      /\ DOMAIN D = 1..Len(D) /\ \A i \in DOMAIN D : W[i] = D[i]
      /\ Len(W) = Len(D) + 1
  OBVIOUS
<1> HIDE DEF W
<1>2. \A i \in DOMAIN W : W[i].type = "data"
  BY <1>1
<1>3. ASSUME NEW i \in DOMAIN W
      PROVE  W[i].chunk = b + i - 1 /\ W[i].send = 1 /\ \A j \in 1..i : W[j].type = "data"
  <2>1. \A j \in 1..i : W[j].type = "data"
    BY <1>1, <1>2
  <2>2. CASE i = Len(D) + 1
    <3>1. b + Len(D) = b + i - 1
      BY <1>1, <2>2
    <3> QED
      BY <1>1, <2>1, <2>2, <3>1
  <2>3. CASE i # Len(D) + 1
    <3>1. i \in DOMAIN D /\ W[i] = D[i]
      BY <1>1, <2>3
    <3> QED
      BY <1>2, <2>1, <3>1 DEF Numbered
  <2> QED
    BY <2>2, <2>3
<1>4. Numbered(W, b)
  BY <1>3 DEF Numbered
<1> QED
  BY <1>1, <1>2, <1>4 DEF W

LEMMA WriteChunkArriving ==
  ASSUME IInv, Fresh, SenderOnce, Arriving, UNCHANGED <<host, heard, peerVars>>,
         sender.pc = "write",
         hist'.torn = hist.torn,
         \A k \in Sends : pay'[k].endpoints = pay[k].endpoints /\ pay'[k].status = pay[k].status,
         NEW read \in BOOLEAN, NEW failed \in SUBSET sender.targets, WriteChunk(read, failed)
  PROVE  SenderOnce' /\ Arriving'
<1> DEFINE sent == sender.targets \ failed
           f == Data(sender.chunk, IsLast(read), sender.pending)
<1>1. /\ sender \in Senders /\ sender.targets \subseteq Endpoints /\ sender.chunk \in Nat
      /\ sender.pending = 1 /\ 1 \in Sends
  BY OneSend, PayloadTyped DEF IInv, HostInv, SenderTyped, Senders
<1>2. /\ sender'.pc = "confirm" /\ sender'.left = sent /\ (sender'.wrote <=> sent # {})
      /\ sender'.queue = sender.queue /\ sender'.pending = sender.pending
      /\ sender'.targets = sender.targets /\ sender'.chunk = sender.chunk
  <2>1. sender' = [sender EXCEPT !.pc = "confirm", !.last = IsLast(read), !.left = sent,
                                 !.wrote = sent # {}]
    BY DEF WriteChunk
  <2> HIDE DEF sent
  <2> QED
    BY <1>1, <2>1 DEF Senders
<1>3. \A e \in Endpoints :
        link'[e] = IF e \in failed THEN [link[e] EXCEPT !.broken = TRUE]
                   ELSE IF e \in sent THEN WrittenDown(link[e], f) ELSE link[e]
  BY DEF WriteChunk
<1>4. ASSUME NEW e \in failed
      PROVE  ~Open(e)' /\ LinkLeft(e)
  <2>1. e \in Endpoints /\ link'[e] = [link[e] EXCEPT !.broken = TRUE]
    BY <1>1, <1>3
  <2>2. link'[e].broken /\ link'[e].down = link[e].down /\ link'[e].peer = link[e].peer
    BY <2>1, LinkOf DEF Links
  <2> QED
    BY <2>2 DEF Open, LinkLeft, Joined
<1>5. Available' = Available
  BY <1>1, <1>2 DEF Available
<1>6. SenderOnce'
  <2>1. Available' \subseteq sender'.targets /\ ~Unsent'
    BY <1>2, <1>5 DEF SenderOnce, Unsent
  <2>2. ~sender'.wrote => sender'.left = {} /\ \A e \in sender'.targets : ~Open(e)'
    BY <1>2, <1>4
  <2> QED
    BY <1>2, <2>1, <2>2 DEF SenderOnce
<1>7. ASSUME NEW e \in Endpoints PROVE \E b \in Nat : Arrival(e, b)'
  <2>1. PICK b \in Nat : Arrival(e, b)
    BY DEF Arriving
  <2>2. ~Unsent /\ ~Unsent' /\ PeerLeft(e) /\ peer' = peer /\ (Torn(e)' <=> Torn(e))
    BY <1>2, PeersLeft DEF SenderOnce, Unsent, peerVars, Torn
  <2>3. CASE e \in failed
    <3>1. Arrival(e, b)'
      BY <1>4, <2>1, <2>2, <2>3, ArrivalLeft
    <3> QED
      BY <3>1
  <2>4. CASE e \notin failed /\ (e \notin sent \/ ~Open(e))
    <3>1. link'[e] = link[e]
      BY <1>3, <2>4 DEF WrittenDown, Open
    <3>2. LinkLeft(e) /\ ~(e \in Continued' /\ Open(e)')
      BY <1>2, <2>4, <3>1 DEF LinkLeft, Open, Joined, Continued
    <3>3. Arrival(e, b)'
      BY <2>1, <2>2, <3>2, ArrivalLeft
    <3> QED
      BY <3>3
  <2>5. CASE e \in sent /\ Open(e)
    <3>1. e \in Continued /\ NextNumber = sender.chunk
      BY <2>5 DEF Continued, NextNumber
    <3>2. link'[e].down = Append(link[e].down, f)
      BY <1>3, <2>5, LinkOf DEF WrittenDown, Open, Links
    <3>3. f.type = "data" /\ f.chunk = b + Len(link[e].down) /\ f.send = 1
      BY <1>1, <2>1, <2>5, <3>1 DEF Data, Arrival
    <3> HIDE DEF f
    <3>4. /\ Numbered(link'[e].down, b)
          /\ \A i \in DOMAIN link'[e].down : link'[e].down[i].type = "data"
          /\ Len(link'[e].down) = Len(link[e].down) + 1
      <4> DEFINE D == link[e].down
      <4>1. D \in Seq(DownFrames) /\ Numbered(D, b) /\ \A i \in DOMAIN D : D[i].type = "data"
        BY <2>1, <2>5, <3>1, LinkOf DEF Arrival
      <4>2. link'[e].down = Append(D, f) /\ f.type = "data" /\ f.chunk = b + Len(D) /\ f.send = 1
        BY <3>2, <3>3
      <4> HIDE DEF D
      <4>3. /\ Numbered(Append(D, f), b)
            /\ \A i \in DOMAIN Append(D, f) : Append(D, f)[i].type = "data"
            /\ Len(Append(D, f)) = Len(D) + 1
        BY <4>1, <4>2, NumberedData
      <4> QED
        BY <4>2, <4>3 DEF D
    <3>5. b + Len(link'[e].down) = NextNumber'
      <4>1. Len(link[e].down) \in Nat /\ b + Len(link[e].down) = sender.chunk
        BY <2>1, <2>5, <3>1, LinkOf DEF Arrival
      <4> QED
        BY <1>2, <3>4, <4>1 DEF NextNumber
    <3>6. /\ (Joined(e)' <=> Joined(e)) /\ UNCHANGED <<peerTasks, heard>> /\ Clean(e)
      BY <1>3, <2>1, <2>5, <3>1, LinkOf DEF Joined, WrittenDown, Links, Arrival, peerVars
    <3>7. Clean(e)' /\ (Untouched(e) => Untouched(e)')
      BY <2>2, <3>6 DEF Clean, Untouched
    <3>8. b = 0 => ~peer'[e].tracked /\ ~Torn(e)' /\ Untouched(e)'
      BY <2>1, <2>2, <3>7 DEF Arrival
    <3>9. Arrival(e, b)'
      BY <2>1, <2>2, <3>4, <3>5, <3>7, <3>8 DEF Arrival
    <3> QED
      BY <3>9
  <2> QED
    BY <2>3, <2>4, <2>5
<1> QED
  BY <1>6, <1>7 DEF Arriving

LEMMA DetachAndSendArriving ==
  ASSUME IInv, Fresh, SenderOnce, Arriving, DetachAndSend, UNCHANGED peerVars
  PROVE  SenderOnce' /\ Arriving'
<1>1. sender \in Senders /\ sender.pc = "write" /\ UNCHANGED <<host, heard>>
  BY DEF IInv, HostInv, SenderTyped, DetachAndSend, At
<1>2. \A k \in Sends : pay'[k].endpoints = pay[k].endpoints /\ pay'[k].status = pay[k].status
  <2> DEFINE v == pay[sender.pending].read + 1
  <2>1. pay' = pay \/ pay' = [pay EXCEPT ![sender.pending].read = v]
    BY DEF DetachAndSend
  <2> HIDE DEF v
  <2> QED
    BY <2>1, SentTyped DEF Payloads
<1>3. hist'.torn = hist.torn
  BY HistTorn DEF DetachAndSend
<1>4. CASE /\ sender' = [sender EXCEPT !.pc = "end"]
           /\ link' = link \/ \E S : \E event \in {"canceled", "error"} : Say(S, event)
  <2>1. sender'.pc = "end" /\ sender'.queue = sender.queue
    BY <1>1, <1>4 DEF Senders
  <2>2. SenderOnce' /\ \A e \in Endpoints : e \notin Continued'
    BY <1>1, <2>1 DEF SenderOnce, Unsent, Continued
  <2> QED
    BY <1>1, <1>3, <1>4, <2>1, <2>2, WorkArriving
<1>5. ASSUME NEW read \in BOOLEAN, NEW failed \in SUBSET sender.targets, WriteChunk(read, failed)
      PROVE  SenderOnce' /\ Arriving'
  BY <1>1, <1>2, <1>3, <1>5, WriteChunkArriving
<1> QED
  BY <1>4, <1>5 DEF DetachAndSend

-----------------------------------------------------------------------------
(* A peer reads a frame *)

LEMMA NumberedTail ==
  ASSUME NEW D \in Seq(DownFrames), D # <<>>, NEW b \in Nat, Numbered(D, b)
  PROVE  /\ Head(D).type = "data" =>
              Head(D).chunk = b /\ Head(D).send = 1 /\ Numbered(Tail(D), b + 1)
         /\ Head(D).type # "data" => Numbered(Tail(D), b)
         /\ \A i \in DOMAIN Tail(D) : i + 1 \in DOMAIN D /\ Tail(D)[i] = D[i + 1]
         /\ Len(Tail(D)) + 1 = Len(D) /\ Len(D) \in Nat
         /\ Head(D) = D[1] /\ 1 \in DOMAIN D
<1> DEFINE T == Tail(D)
<1>1. /\ Len(D) \in Nat /\ DOMAIN D = 1..Len(D) /\ DOMAIN T = 1..(Len(D) - 1)
      /\ \A i \in DOMAIN T : i + 1 \in DOMAIN D /\ T[i] = D[i + 1]
      /\ Len(T) + 1 = Len(D) /\ Head(D) = D[1] /\ 1 \in DOMAIN D
  OBVIOUS
<1> HIDE DEF T
<1>2. ASSUME D[1].type = "data"
      PROVE  D[1].chunk = b /\ D[1].send = 1 /\ Numbered(T, b + 1)
  <2>1. D[1].chunk = b + 1 - 1 /\ D[1].send = 1
    BY <1>1, <1>2 DEF Numbered
  <2>2. ASSUME NEW i \in DOMAIN T, T[i].type = "data"
        PROVE  /\ T[i].chunk = (b + 1) + i - 1 /\ T[i].send = 1
               /\ \A j \in 1..i : T[j].type = "data"
    <3>1. i + 1 \in DOMAIN D /\ D[i + 1].type = "data" /\ i \in Nat
      BY <1>1, <2>2
    <3>2. /\ D[i + 1].chunk = b + (i + 1) - 1 /\ D[i + 1].send = 1
          /\ \A j \in 1..(i + 1) : D[j].type = "data"
      BY <3>1 DEF Numbered
    <3>3. b + (i + 1) - 1 = (b + 1) + i - 1
      BY <3>1
    <3>4. ASSUME NEW j \in 1..i PROVE T[j].type = "data"
      <4>1. j \in DOMAIN T /\ j + 1 \in 1..(i + 1)
        BY <1>1, <3>1
      <4> QED
        BY <1>1, <3>2, <4>1
    <3> QED
      BY <1>1, <2>2, <3>2, <3>3, <3>4
  <2> QED
    BY <2>1, <2>2 DEF Numbered
<1>3. ASSUME D[1].type # "data" PROVE Numbered(T, b)
  <2>1. ASSUME NEW i \in DOMAIN T PROVE T[i].type # "data"
    <3>1. i + 1 \in DOMAIN D /\ T[i] = D[i + 1] /\ 1 \in 1..(i + 1)
      BY <1>1
    <3>2. D[i + 1].type = "data" => \A j \in 1..(i + 1) : D[j].type = "data"
      BY <3>1 DEF Numbered
    <3> QED
      BY <1>3, <3>1, <3>2
  <2> QED
    BY <2>1 DEF Numbered
<1> QED
  BY <1>1, <1>2, <1>3 DEF T

LEMMA FrameRead ==
  ASSUME IInv, NEW e \in Endpoints, PeerFrame(e)
  PROVE  /\ link'[e].down = Tail(link[e].down) /\ link[e].down # <<>>
         /\ \A x \in Endpoints : (Open(x)' <=> Open(x)) /\ (Joined(x)' <=> Joined(x))
         /\ \A x \in Endpoints : x # e => /\ link'[x] = link[x] /\ peer'[x] = peer[x]
                                          /\ peerTasks'[x] = peerTasks[x]
                                          /\ (Torn(x)' <=> Torn(x))
         /\ UNCHANGED <<hostVars, heard>>
<1> DEFINE f == Head(link[e].down)
           l == ReadDown(e)
<1>1. link[e].down # <<>> /\ UNCHANGED <<hostVars, heard>>
  BY DEF PeerFrame
<1>2. link[e] \in Links /\ DOMAIN link = Endpoints /\ DOMAIN peer = Endpoints
  BY LinkOf DEF IInv, PeerTyped
<1>3. /\ l \in Links /\ l.down = Tail(link[e].down) /\ l.host = link[e].host
      /\ l.peer = link[e].peer /\ l.broken = link[e].broken
  BY <1>1, <1>2, ReadDownTyped DEF ReadDown, Links, IInv, HostInv
<1>4. \A g : LET m == WrittenUp(l, g) IN
               /\ m.down = l.down /\ m.host = l.host /\ m.peer = l.peer /\ m.broken = l.broken
  BY <1>3 DEF WrittenUp, Links
<1>5. \E m : /\ link' = [link EXCEPT ![e] = m]
             /\ m.down = l.down /\ m.host = l.host /\ m.peer = l.peer /\ m.broken = l.broken
  <2>1. link' = [link EXCEPT ![e] = l] \/ \E g : link' = [link EXCEPT ![e] = WrittenUp(l, g)]
    BY DEF PeerFrame, AttachChunk, AttachFails, CreateFails, DropCancelled, DropUnknown,
           ProcessControl, Replied
  <2> HIDE DEF l
  <2> QED
    BY <1>4, <2>1
<1>6. peer' = peer \/ \E p : peer' = [peer EXCEPT ![e] = p]
  BY DEF PeerFrame, AttachChunk, AttachFails, CreateFails, DropCancelled, DropUnknown,
         ProcessControl, peerVars
<1>7. hist'.torn = hist.torn \/ \E k : hist'.torn = hist.torn \cup {<<k, e>>}
  <2>1. /\ \A S : [hist EXCEPT !.whole = S].torn = hist.torn
        /\ \A S : [Faulted(hist) EXCEPT !.torn = S].torn = S
    BY DEF IInv, HostInv, HistTyped, Histories, Faulted
  <2>2. CASE hist' = hist \/ hist' = Faulted(hist) \/ \E S : hist' = [hist EXCEPT !.whole = S]
    BY <2>1, <2>2, HistTorn
  <2>3. CASE \E k : hist' = [Faulted(hist) EXCEPT !.torn = @ \cup {<<k, e>>}]
    BY <2>1, <2>3, HistTorn
  <2> QED
    BY <2>2, <2>3 DEF PeerFrame, AttachChunk, AttachFails, CreateFails, DropCancelled, DropUnknown,
                      ProcessControl
<1> HIDE DEF l
<1>8. /\ link'[e].down = Tail(link[e].down)
      /\ \A x \in Endpoints : (Open(x)' <=> Open(x)) /\ (Joined(x)' <=> Joined(x))
  BY <1>2, <1>3, <1>5 DEF Open, Joined
<1>9. \A x \in Endpoints : x # e => link'[x] = link[x] /\ peer'[x] = peer[x]
                                    /\ (Torn(x)' <=> Torn(x))
  BY <1>2, <1>5, <1>6, <1>7 DEF Torn
<1>10. \A x \in Endpoints : x # e => peerTasks'[x] = peerTasks[x]
  <2>1. UNCHANGED peerTasks \/ \E tasks : Post(e, tasks)
    BY DEF PeerFrame, AttachChunk, AttachFails, CreateFails, DropCancelled, DropUnknown,
           ProcessControl, peerVars
  <2> QED
    BY <2>1 DEF Post, IInv, PeerTyped
<1> QED
  BY <1>1, <1>8, <1>9, <1>10

\* What e makes of the data frame it reads.
LEMMA DataTaken ==
  ASSUME IInv, NEW e \in Endpoints, PeerFrame(e), NEW b \in Nat, Arrival(e, b),
         Head(link[e].down).type = "data"
  PROVE  /\ peer'[e].tracked => peer'[e].send = 1
         /\ peer'[e].tracked /\ ~peer'[e].cancelled /\ ~Torn(e)' => peer'[e].got = 0..b
<1> DEFINE f == Head(link[e].down)
           p == Incoming(e, f)
           g == [p EXCEPT !.got = @ \cup {f.chunk}]
<1>1. /\ link[e].down \in Seq(DownFrames) /\ link[e].down # <<>>
      /\ peer[e] \in IncomingPayloads /\ DOMAIN peer = Endpoints
  BY LinkOf DEF PeerFrame, IInv, PeerTyped
<1>2. f.chunk = b /\ f.send = 1 /\ f \in DownFrames
  <2>1. f.chunk = b /\ f.send = 1
    BY <1>1, NumberedTail DEF Arrival
  <2> QED
    BY <1>1, <2>1, HeadTailProperties
<1>3. p \in IncomingPayloads
  BY <1>2, IncomingTyped DEF IInv
<1>4. /\ b = 0 => p.send = 1 /\ p.tracked /\ ~p.cancelled /\ p.got = {} /\ ~peer[e].tracked
      /\ b # 0 => p = peer[e]
      /\ peer[e].tracked => peer[e].send = 1
      /\ peer[e].tracked /\ ~peer[e].cancelled /\ ~Torn(e) => peer[e].got = 0..(b - 1)
  BY <1>2 DEF Incoming, Arrival
<1> HIDE DEF p
<1>5. \/ AttachChunk(e, f) \/ AttachFails(e, f) \/ CreateFails(e, f)
      \/ DropCancelled(e, f) \/ DropUnknown(e, f)
  BY DEF PeerFrame
<1> HIDE DEF f
<1>6. CASE AttachChunk(e, f)
  <2>1. /\ p.tracked /\ peer' = [peer EXCEPT ![e] = g]
        /\ hist'.torn = hist.torn
    <3>1. \A S : [hist EXCEPT !.whole = S].torn = hist.torn
      BY DEF IInv, HostInv, HistTyped, Histories
    <3> QED
      BY <1>6, <3>1 DEF AttachChunk, p
  <2>2. peer'[e] = g /\ g.send = p.send /\ g.cancelled = p.cancelled /\ g.got = p.got \cup {b}
        /\ (Torn(e)' <=> Torn(e))
    BY <1>1, <1>2, <1>3, <2>1 DEF IncomingPayloads, Torn
  <2>3. CASE b = 0
    <3>1. {} \cup {b} = 0..b
      BY <2>3
    <3> QED
      BY <1>4, <2>2, <2>3, <3>1
  <2>4. CASE b # 0
    <3>1. 0..(b - 1) \cup {b} = 0..b
      BY <2>4
    <3> HIDE DEF g
    <3> QED
      BY <1>4, <2>1, <2>2, <2>4, <3>1
  <2> QED
    BY <2>3, <2>4
<1>7. CASE AttachFails(e, f)
  <2>1. /\ p.tracked /\ peer' = [peer EXCEPT ![e] = p]
        /\ hist'.torn = hist.torn \cup {<<p.send, e>>}
    <3>1. /\ \A S : [Faulted(hist) EXCEPT !.torn = S].torn = S
          /\ Faulted(hist).torn = hist.torn
      BY DEF IInv, HostInv, HistTyped, Histories, Faulted
    <3> QED
      BY <1>7, <3>1 DEF AttachFails, p
  <2>2. peer'[e] = p /\ p.send = 1
    BY <1>1, <1>4, <2>1
  <2> QED
    BY <2>1, <2>2 DEF Torn
<1>8. CASE CreateFails(e, f)
  <2>1. peer' = peer /\ b = 0
    BY <1>2, <1>8 DEF CreateFails, peerVars
  <2> QED
    BY <1>4, <2>1
<1>9. CASE DropCancelled(e, f)
  <2>1. peer' = peer /\ p.cancelled
    BY <1>9 DEF DropCancelled, p
  <2> QED
    BY <1>4, <2>1
<1>10. CASE DropUnknown(e, f)
  <2>1. peer' = peer /\ ~p.tracked
    BY <1>10 DEF DropUnknown, peerVars, p
  <2> QED
    BY <1>4, <2>1
<1> QED
  BY <1>5, <1>6, <1>7, <1>8, <1>9, <1>10

LEMMA SaysPosted ==
  ASSUME NEW T, NEW s \in Seq(T), NEW t \in Seq(T), NEW S
  PROVE  Says(s \o t, S) <=> Says(s, S) \/ Says(t, S)
<1> DEFINE u == s \o t
<1>1. /\ DOMAIN s = 1..Len(s) /\ DOMAIN t = 1..Len(t) /\ Len(s) \in Nat /\ Len(t) \in Nat
      /\ DOMAIN u = 1..(Len(s) + Len(t))
      /\ \A j \in DOMAIN u : u[j] = IF j <= Len(s) THEN s[j] ELSE t[j - Len(s)]
  BY ConcatProperties, LenProperties
<1>2. /\ \A i \in DOMAIN u : (i \in DOMAIN s /\ u[i] = s[i])
                               \/ (i - Len(s) \in DOMAIN t /\ u[i] = t[i - Len(s)])
      /\ \A i \in DOMAIN s : i \in DOMAIN u /\ u[i] = s[i]
      /\ \A i \in DOMAIN t : i + Len(s) \in DOMAIN u /\ u[i + Len(s)] = t[i]
  <2> HIDE DEF u
  <2> DEFINE n == Len(s)
             m == Len(t)
  <2>1. /\ DOMAIN s = 1..n /\ DOMAIN t = 1..m /\ n \in Nat /\ m \in Nat /\ DOMAIN u = 1..(n + m)
        /\ \A j \in DOMAIN u : u[j] = IF j <= n THEN s[j] ELSE t[j - n]
    BY <1>1
  <2> HIDE DEF n, m
  <2>2. ASSUME NEW i \in DOMAIN u
        PROVE  (i \in DOMAIN s /\ u[i] = s[i]) \/ (i - n \in DOMAIN t /\ u[i] = t[i - n])
    BY <2>1
  <2>3. ASSUME NEW i \in DOMAIN s PROVE i \in DOMAIN u /\ u[i] = s[i]
    BY <2>1
  <2>4. ASSUME NEW i \in DOMAIN t PROVE i + n \in DOMAIN u /\ u[i + n] = t[i]
    <3>1. i + n \in DOMAIN u /\ ~(i + n <= n) /\ (i + n) - n = i
      BY <2>1
    <3> QED
      BY <2>1, <3>1
  <2> QED
    BY <2>2, <2>3, <2>4 DEF n
<1> HIDE DEF u
<1> QED
  BY <1>2 DEF Says, u

\* The tasks a frame posts: that the payload began, and an update.
LEMMA SaysUpdate ==
  ASSUME NEW p, NEW f, NEW status, NEW S, "InProgress" \notin S
  PROVE  Says(Announced(p, f) \o <<PeerUpdate(p, status)>>, S) <=> status \in S
<1> DEFINE u == PeerUpdate(p, status)
           t == OnPayload(p)
<1>1. u.status = status /\ t.status = "InProgress"
  BY DEF PeerUpdate, OnPayload
<1>2. Announced(p, f) \in {<<>>, <<t>>}
  BY DEF Announced
<1> HIDE DEF u, t
<1>3. /\ Announced(p, f) \in Seq({t, u}) /\ <<u>> \in Seq({t, u})
      /\ ~Says(Announced(p, f), S) /\ (Says(<<u>>, S) <=> status \in S)
  <2>1. <<>> \in Seq({t, u}) /\ <<t>> \in Seq({t, u}) /\ <<u>> \in Seq({t, u})
    OBVIOUS
  <2>2. ~Says(<<>>, S) /\ ~Says(<<t>>, S) /\ (Says(<<u>>, S) <=> status \in S)
    BY <1>1 DEF Says
  <2> QED
    BY <1>2, <2>1, <2>2
<1> QED
  BY <1>3, SaysPosted DEF u

\* The frame e reads, and the payload it belongs to.
LEMMA DataFrame ==
  ASSUME IInv, NEW e \in Endpoints, PeerFrame(e), NEW b \in Nat, Arrival(e, b),
         Head(link[e].down).type = "data"
  PROVE  LET f == Head(link[e].down)
             p == Incoming(e, f)
         IN /\ f \in DownFrames /\ f.chunk = b /\ f.send = 1
            /\ p \in IncomingPayloads
            /\ b = 0 => /\ p.tracked /\ ~p.cancelled /\ p.send = 1
                        /\ ~peer[e].tracked /\ ~Torn(e) /\ Untouched(e)
            /\ b # 0 => p = peer[e]
            /\ p.tracked => p.send = 1
            /\ DataIn(link[e].down) /\ Clean(e)
            /\ peerTasks[e] \in Seq(PeerTasks) /\ heard.peer[e] \in Seq(Reports)
<1> DEFINE f == Head(link[e].down)
           p == Incoming(e, f)
<1>1. link[e].down \in Seq(DownFrames) /\ link[e].down # <<>>
  BY LinkOf DEF PeerFrame
<1>2. f.chunk = b /\ f.send = 1 /\ f \in DownFrames /\ DataIn(link[e].down)
  <2>1. f.chunk = b /\ f.send = 1 /\ f = link[e].down[1] /\ 1 \in DOMAIN link[e].down
    BY <1>1, NumberedTail DEF Arrival
  <2> QED
    BY <1>1, <2>1, HeadTailProperties DEF DataIn
<1>3. p \in IncomingPayloads /\ peerTasks[e] \in Seq(PeerTasks) /\ heard.peer[e] \in Seq(Reports)
  BY <1>2, IncomingTyped DEF IInv, PeerTyped, HostInv, HeardTyped
<1>4. /\ b = 0 => /\ p.tracked /\ ~p.cancelled /\ p.send = 1
                  /\ ~peer[e].tracked /\ ~Torn(e) /\ Untouched(e)
      /\ b # 0 => p = peer[e]
      /\ peer[e].tracked => peer[e].send = 1
      /\ Clean(e)
  BY <1>2 DEF Incoming, Arrival
<1> QED
  BY <1>2, <1>3, <1>4

\* When a chunk is attached nothing else was posted, unless writing failed before.
LEMMA AttachedClean ==
  ASSUME IInv, NEW e \in Endpoints, PeerFrame(e), NEW b \in Nat, Arrival(e, b),
         Head(link[e].down).type = "data", AttachChunk(e, Head(link[e].down)),
         Joined(e), ~Torn(e)
  PROVE  ~Says(heard.peer[e], Unsuccessful) /\ ~Says(peerTasks[e], Unsuccessful)
<1> DEFINE p == Incoming(e, Head(link[e].down))
<1>1. p.tracked /\ ~p.cancelled
  BY DEF AttachChunk
<1>2. /\ b = 0 => Untouched(e)
      /\ b # 0 => p = peer[e]
      /\ Clean(e)
  BY DataFrame
<1> HIDE DEF p
<1>3. CASE b = 0
  <2>1. heard.peer[e] = <<>> /\ peerTasks[e] = <<>>
    BY <1>2, <1>3 DEF Untouched
  <2> QED
    BY <2>1 DEF Says
<1>4. CASE b # 0
  BY <1>1, <1>2, <1>4 DEF Clean
<1> QED
  BY <1>3, <1>4

LEMMA CleanRead ==
  ASSUME IInv, NEW e \in Endpoints, PeerFrame(e), NEW b \in Nat, Arrival(e, b),
         Head(link[e].down).type = "data"
  PROVE  Clean(e)'
<1> DEFINE f == Head(link[e].down)
           p == Incoming(e, f)
           g == [p EXCEPT !.got = @ \cup {f.chunk}]
           status == IF f.last THEN "Success" ELSE "InProgress"
<1> SUFFICES ASSUME Joined(e)', peer'[e].tracked, ~peer'[e].cancelled, ~Torn(e)'
             PROVE  ~Says(heard'.peer[e], Unsuccessful) /\ ~Says(peerTasks'[e], Unsuccessful)
  BY DEF Clean
<1>1. Joined(e) /\ heard' = heard
  BY FrameRead
<1>2. /\ f \in DownFrames /\ f.chunk = b /\ p \in IncomingPayloads
      /\ b = 0 => p.tracked /\ ~p.cancelled /\ ~peer[e].tracked
      /\ b # 0 => p = peer[e]
      /\ p.tracked => p.send = 1
      /\ peerTasks[e] \in Seq(PeerTasks) /\ DOMAIN peerTasks = Endpoints
  BY DataFrame DEF IInv, PeerTyped
<1>3. CASE AttachChunk(e, f)
  <2>1. /\ hist'.torn = hist.torn
        /\ Post(e, Announced(g, f) \o <<PeerUpdate(g, status)>>)
    BY <1>3 DEF AttachChunk, IInv, HostInv, HistTyped, Histories
  <2>2. ~Says(heard.peer[e], Unsuccessful) /\ ~Says(peerTasks[e], Unsuccessful)
    <3>1. ~Torn(e)
      BY <2>1 DEF Torn
    <3> QED
      BY <1>1, <1>3, <3>1, AttachedClean
  <2>3. g \in IncomingPayloads /\ status \in {"Success", "InProgress"}
    BY <1>2 DEF IncomingPayloads, DownFrames, Frames
  <2> DEFINE t == Announced(g, f) \o <<PeerUpdate(g, status)>>
  <2>4. peerTasks'[e] = peerTasks[e] \o t
    BY <1>2, <2>1 DEF Post
  <2> HIDE DEF g, status
  <2>5. t \in Seq(PeerTasks) /\ ~Says(t, Unsuccessful)
    <3>1. status \in Statuses /\ status \notin Unsuccessful /\ "InProgress" \notin Unsuccessful
      BY <2>3 DEF Statuses, Final, Unsuccessful
    <3> QED
      BY <2>3, <3>1, AnnouncedTyped, SaysUpdate
  <2> HIDE DEF t
  <2> QED
    BY <1>1, <1>2, <2>2, <2>4, <2>5, SaysPosted
<1>4. CASE AttachFails(e, f)
  <2>1. p.tracked /\ hist'.torn = hist.torn \cup {<<p.send, e>>}
    BY <1>4 DEF AttachFails, IInv, HostInv, HistTyped, Histories, Faulted
  <2> QED
    BY <1>2, <2>1 DEF Torn
<1>5. CASE CreateFails(e, f) \/ DropCancelled(e, f) \/ DropUnknown(e, f)
  <2>1. peer' = peer /\ (b = 0 \/ p.cancelled \/ ~p.tracked)
    BY <1>2, <1>5 DEF CreateFails, DropCancelled, DropUnknown, peerVars
  <2> QED
    BY <1>2, <2>1
<1> QED
  BY <1>3, <1>4, <1>5 DEF PeerFrame

LEMMA ReadArriving ==
  ASSUME IInv, NEW e \in Endpoints, PeerFrame(e), NEW b \in Nat, Arrival(e, b),
         Unsent' <=> Unsent, NextNumber' = NextNumber, Continued' \subseteq Continued
  PROVE  \E c \in Nat : Arrival(e, c)'
<1> DEFINE D == link[e].down
<1>1. /\ D \in Seq(DownFrames) /\ D # <<>> /\ link'[e].down = Tail(D)
      /\ (Open(e)' <=> Open(e)) /\ (Joined(e)' <=> Joined(e))
      /\ ~Unsent'
  BY LinkOf, FrameRead DEF Arrival
<1>2. Numbered(D, b)
  BY DEF Arrival
<1>3. CASE Head(D).type = "data"
  <2>1. Numbered(link'[e].down, b + 1)
    BY <1>1, <1>2, <1>3, NumberedTail
  <2>2. /\ peer'[e].tracked => peer'[e].send = 1
        /\ peer'[e].tracked /\ ~peer'[e].cancelled /\ ~Torn(e)' => peer'[e].got = 0..((b + 1) - 1)
    <3>1. (b + 1) - 1 = b
      OBVIOUS
    <3> QED
      BY <1>3, <3>1, DataTaken
  <2>3. Open(e)' /\ e \in Continued' =>
          /\ \A i \in DOMAIN link'[e].down : link'[e].down[i].type = "data"
          /\ (b + 1) + Len(link'[e].down) = NextNumber'
    <3> SUFFICES ASSUME Open(e)', e \in Continued'
                 PROVE  /\ \A i \in DOMAIN Tail(D) : Tail(D)[i].type = "data"
                        /\ (b + 1) + Len(Tail(D)) = NextNumber
      BY <1>1
    <3>1. (\A i \in DOMAIN D : D[i].type = "data") /\ b + Len(D) = NextNumber
      BY <1>1 DEF Arrival
    <3>2. /\ \A i \in DOMAIN Tail(D) : i + 1 \in DOMAIN D /\ Tail(D)[i] = D[i + 1]
          /\ Len(Tail(D)) + 1 = Len(D) /\ Len(Tail(D)) \in Nat
      BY <1>1, <1>2, NumberedTail
    <3>3. \A i \in DOMAIN Tail(D) : Tail(D)[i].type = "data"
      BY <3>1, <3>2
    <3>4. (b + 1) + Len(Tail(D)) = b + Len(D)
      <4> DEFINE n == Len(Tail(D))
      <4>1. n \in Nat /\ Len(D) = n + 1
        BY <3>2
      <4> HIDE DEF n, D
      <4>2. (b + 1) + n = b + Len(D)
        BY <4>1
      <4> QED
        BY <4>2 DEF n
    <3> QED
      BY <3>1, <3>3, <3>4
  <2>4. Arrival(e, b + 1)'
    <3>1. b + 1 # 0
      OBVIOUS
    <3>2. Clean(e)'
      BY <1>3, CleanRead
    <3> QED
      BY <1>1, <2>1, <2>2, <2>3, <3>1, <3>2 DEF Arrival
  <2> QED
    BY <2>4
<1>4. CASE Head(D).type # "data"
  <2>1. Numbered(link'[e].down, b) /\ ~(Open(e)' /\ e \in Continued') /\ ~DataIn(link'[e].down)
    <3>1. /\ Head(D) = D[1] /\ 1 \in DOMAIN D /\ Numbered(Tail(D), b)
          /\ \A i \in DOMAIN Tail(D) : i + 1 \in DOMAIN D /\ Tail(D)[i] = D[i + 1]
      BY <1>1, <1>2, <1>4, NumberedTail
    <3>2. Open(e) /\ e \in Continued => D[1].type = "data"
      BY <3>1 DEF Arrival
    <3>3. ~DataIn(Tail(D))
      <4> SUFFICES ASSUME NEW i \in DOMAIN Tail(D), Tail(D)[i].type = "data" PROVE FALSE
        BY DEF DataIn
      <4>1. i \in Nat \ {0}
        BY <1>1
      <4>2. 1 \in 1..(i + 1)
        BY <4>1
      <4> QED
        BY <1>2, <1>4, <3>1, <4>2 DEF Numbered
    <3> QED
      BY <1>1, <1>4, <3>1, <3>2, <3>3
  <2>2. /\ peer' = peer /\ hist' = hist /\ heard' = heard
        /\ ~peer[e].tracked => Post(e, <<>>)
    BY <1>4 DEF PeerFrame, ProcessControl
  <2>3. b = 0 => ~peer'[e].tracked /\ ~Torn(e)' /\ Untouched(e)'
    <3> SUFFICES ASSUME b = 0 PROVE ~peer[e].tracked /\ ~Torn(e) /\ Untouched(e)'
      BY <2>2 DEF Torn
    <3>1. ~peer[e].tracked /\ ~Torn(e) /\ Untouched(e)
      BY DEF Arrival
    <3>2. peerTasks[e] \in Seq(PeerTasks) /\ DOMAIN peerTasks = Endpoints
      BY DEF IInv, PeerTyped
    <3>3. peerTasks'[e] = peerTasks[e]
      BY <2>2, <3>1, <3>2 DEF Post
    <3> QED
      BY <1>1, <2>2, <3>1, <3>3 DEF Untouched
  <2>4. Arrival(e, b)'
    BY <1>1, <2>1, <2>2, <2>3 DEF Arrival, Torn
  <2> QED
    BY <2>4
<1> QED
  BY <1>3, <1>4

LEMMA PeerFrameArriving ==
  ASSUME IInv, SenderOnce, Arriving, NEW e \in Endpoints, PeerFrame(e)
  PROVE  SenderOnce' /\ Arriving'
<1>1. /\ \A x \in Endpoints : (Open(x)' <=> Open(x)) /\ (Joined(x)' <=> Joined(x))
      /\ \A x \in Endpoints : x # e => /\ link'[x] = link[x] /\ peer'[x] = peer[x]
                                       /\ peerTasks'[x] = peerTasks[x]
                                       /\ (Torn(x)' <=> Torn(x))
      /\ UNCHANGED <<hostVars, heard>>
  BY FrameRead
<1>2. SenderLeft
  BY <1>1 DEF SenderLeft, hostVars, Available
<1>3. /\ SenderOnce' /\ (Unsent' <=> Unsent)
      /\ NextNumber' = NextNumber /\ Continued' \subseteq Continued
  BY <1>1, <1>2, OnceLeft
<1>4. ASSUME NEW x \in Endpoints PROVE \E b \in Nat : Arrival(x, b)'
  <2>1. PICK b \in Nat : Arrival(x, b)
    BY DEF Arriving
  <2>2. CASE x = e
    BY <1>3, <2>1, <2>2, ReadArriving
  <2>3. CASE x # e
    <3>1. LinkLeft(x) /\ PeerLeft(x)
      BY <1>1, <2>3 DEF LinkLeft, PeerLeft
    <3>2. Arrival(x, b)'
      BY <1>3, <2>1, <3>1, ArrivalLeft
    <3> QED
      BY <3>2
  <2> QED
    BY <2>2, <2>3
<1> QED
  BY <1>3, <1>4 DEF Arriving

-----------------------------------------------------------------------------
(* Every step *)

LEMMA SendsGrow ==
  ASSUME IInv, [Next]_vars
  PROVE  Fresh' => Fresh
<1>1. host'.sends \in Nat /\ host'.sends >= host.sends /\ host.sends \in Nat
  <2>1. CASE StatusUpdate
    BY <2>1, UpdateTold, SentTyped
  <2>2. CASE ~StatusUpdate
    BY <2>2, OtherQuiet, SentTyped DEF Quiet
  <2> QED
    BY <2>1, <2>2
<1> QED
  BY <1>1 DEF Fresh

LEMMA ArrivingInv ==
  ASSUME IInv, SenderOnce, Arriving, [Next]_vars, Fresh'
  PROVE  SenderOnce' /\ Arriving'
<1>1. Fresh
  BY SendsGrow
<1>2. CASE UNCHANGED vars
  BY <1>2 DEF vars, SenderOnce, Arriving, Arrival, Unsent, Continued, NextNumber, Available, Open,
              Joined, Torn, Untouched, Clean
<1>3. CASE HostStep /\ UNCHANGED peerVars
  <2>1. CASE SendPayload
    BY <1>3, <2>1, SendPayloadArriving
  <2>2. CASE SenderStep
    BY <1>1, <1>3, <2>2, TakeSendArriving, NextChunkArriving, StopSendingArriving,
       DetachAndSendArriving, ConfirmArriving, WaitEndedArriving, ChunkDoneArriving,
       LoopEndArriving DEF SenderStep
  <2>3. CASE \/ CancelOutgoing \/ StopManager \/ HostStatusStep \/ TeardownStep
             \/ \E e \in Endpoints : HostFrame(e)
    BY <1>3, <2>3, CancelOutgoingLeft, StopManagerLeft, HostStatusStepLeft, TeardownStepLeft,
       HostFrameLeft, BystanderInv
  <2> QED
    BY <1>3, <2>1, <2>2, <2>3 DEF HostStep
<1>4. ASSUME NEW e \in Endpoints, HostConnection(e), UNCHANGED peerVars
      PROVE  SenderOnce' /\ Arriving'
  BY <1>4, HostConnectionLeft, BystanderInv
<1>5. ASSUME NEW e \in Endpoints, PeerStep(e)
      PROVE  SenderOnce' /\ Arriving'
  BY <1>5, PeerFrameArriving, SendPayloadAckLeft, PeerStatusStepLeft, CancelIncomingLeft,
     PeerConnectionLeft, BystanderInv DEF PeerStep
<1> QED
  BY <1>2, <1>3, <1>4, <1>5 DEF Next

-----------------------------------------------------------------------------
(* Acknowledgements: what posts or passes on the success of an endpoint *)

LEMMA SuccessPosted ==
  ASSUME NEW s \in Seq(HostTasks), NEW t \in Seq(HostTasks), NEW e, SuccessIn(s \o t, e)
  PROVE  SuccessIn(s, e) \/ SuccessIn(t, e)
<1> DEFINE u == s \o t
<1>1. PICK i \in DOMAIN u : e \in DOMAIN u[i].outcome /\ u[i].outcome[e] = "Success"
  BY DEF SuccessIn
<1>2. /\ DOMAIN s = 1..Len(s) /\ DOMAIN t = 1..Len(t) /\ Len(s) \in Nat /\ Len(t) \in Nat
      /\ DOMAIN u = 1..(Len(s) + Len(t))
      /\ \A j \in DOMAIN u : u[j] = IF j <= Len(s) THEN s[j] ELSE t[j - Len(s)]
  BY ConcatProperties, LenProperties
<1> HIDE DEF u
<1>3. CASE i <= Len(s)
  BY <1>1, <1>2, <1>3 DEF SuccessIn
<1>4. CASE ~(i <= Len(s))
  <2>1. i - Len(s) \in DOMAIN t /\ u[i] = t[i - Len(s)]
    BY <1>2, <1>4
  <2> QED
    BY <1>1, <2>1 DEF SuccessIn
<1> QED
  BY <1>3, <1>4

LEMMA SuccessLeft ==
  ASSUME IInv, hostTasks # <<>>, NEW e, SuccessIn(Tail(hostTasks), e)
  PROVE  SuccessIn(hostTasks, e)
<1>1. hostTasks \in Seq(HostTasks)
  BY DEF IInv, HostInv, HostTasksTyped
<1>2. PICK i \in DOMAIN Tail(hostTasks) :
        e \in DOMAIN Tail(hostTasks)[i].outcome /\ Tail(hostTasks)[i].outcome[e] = "Success"
  BY DEF SuccessIn
<1>3. i + 1 \in DOMAIN hostTasks /\ Tail(hostTasks)[i] = hostTasks[i + 1]
  BY <1>1
<1> QED
  BY <1>2, <1>3 DEF SuccessIn

LEMMA OneTask ==
  ASSUME NEW task, NEW e
  PROVE  SuccessIn(<<task>>, e) <=> e \in DOMAIN task.outcome /\ task.outcome[e] = "Success"
BY DEF SuccessIn

LEMMA NoSuccess ==
  ASSUME NEW e
  PROVE  /\ ~SuccessIn(<<>>, e)
         /\ \A k, S, status : status # "Success" => ~SuccessIn(<<Update(k, All(S, status))>>, e)
         /\ \A k, q, held : ~SuccessIn(Destroyed(k, q, held), e)
         /\ ~SuccessIn(UpdateUnavailable, e)
         /\ \A x : ~SuccessIn(<<Disconnect(x)>>, e)
         /\ \A k : ~SuccessIn(<<Destroy(k)>>, e)
<1>1. ~SuccessIn(<<>>, e)
  BY DEF SuccessIn
<1>2. ASSUME NEW k, NEW S, NEW status, status # "Success"
      PROVE  ~SuccessIn(<<Update(k, All(S, status))>>, e)
  BY <1>2, OneTask DEF Update, All
<1>3. ASSUME NEW k, NEW q, NEW held PROVE ~SuccessIn(Destroyed(k, q, held), e)
  BY <1>1, OneTask DEF Destroyed, Notify
<1>4. ~SuccessIn(UpdateUnavailable, e)
  BY <1>1, OneTask DEF UpdateUnavailable, Update, RemoteOutcome
<1>5. (\A x : ~SuccessIn(<<Disconnect(x)>>, e)) /\ \A k : ~SuccessIn(<<Destroy(k)>>, e)
  BY OneTask DEF Disconnect, Destroy
<1> QED
  BY <1>1, <1>2, <1>3, <1>4, <1>5

LEMMA SuccessOfLast ==
  ASSUME NEW x, NEW e, SuccessIn(Succeeded(x), e)
  PROVE  x = e /\ sender.last
BY OneTask DEF Succeeded, Update, All

\* What does not begin an acknowledgement of e.
LEMMA AckKept ==
  ASSUME NEW e,
         acks'[e] # <<>> => acks[e] # <<>>, Joined(e)' => Joined(e),
         AckIn(link'[e].up) => AckIn(link[e].up) \/ (acks[e] # <<>> /\ Joined(e)),
         host'.sends = host.sends,
         host.sends = 1 => /\ e \in pay'[1].acked => e \in pay[1].acked \/ AckIn(link[e].up)
                           /\ e \in pay'[1].endpoints => e \in pay[1].endpoints,
         SuccessIn(hostTasks', e) =>
           \/ SuccessIn(hostTasks, e)
           \/ host.sends = 1 /\ (e \in pay[1].acked \/ e \notin pay'[1].endpoints),
         SuccessHeard(e)' => Acknowledged(e)
  PROVE  Acknowledged(e)' => Acknowledged(e)
BY DEF Acknowledged

-----------------------------------------------------------------------------
(* Acknowledgements: the sending thread *)

\* It writes to the endpoints only, and takes no acknowledgement but to use it up.
LEMMA WorkUp ==
  ASSUME IInv, SenderStep, NEW e \in Endpoints
  PROVE  link'[e].up = link[e].up /\ link'[e].peer = link[e].peer
<1>1. link[e] \in Links
  BY LinkOf
<1>2. \A f : LET l == WrittenDown(link[e], f) IN l.up = link[e].up /\ l.peer = link[e].peer
  BY <1>1 DEF WrittenDown, Links
<1>3. CASE link' = link
  BY <1>3
<1>4. CASE \E S, event : Say(S, event)
  BY <1>2, <1>4 DEF Say
<1>5. CASE \E read \in BOOLEAN : \E failed : WriteChunk(read, failed)
  <2>1. LET l == [link[e] EXCEPT !.broken = TRUE] IN l.up = link[e].up /\ l.peer = link[e].peer
    BY <1>1 DEF Links
  <2> QED
    BY <1>2, <1>5, <2>1 DEF WriteChunk
<1>6. CASE DetachAndSend
  <2>1. \/ link' = link \/ (\E S, event : Say(S, event))
        \/ \E read \in BOOLEAN : \E failed : WriteChunk(read, failed)
    BY <1>6 DEF DetachAndSend
  <2> QED
    BY <1>3, <1>4, <1>5, <2>1
<1>7. CASE StopSending \/ \E x \in Endpoints : CheckAck(x)
  <2>1. link' = link \/ \E S, event : Say(S, event)
    BY <1>7 DEF StopSending, CheckAck
  <2> QED
    BY <1>3, <1>4, <2>1
<1> QED
  BY <1>3, <1>6, <1>7 DEF SenderStep, TakeSend, NextChunk, ConfirmChunk,
     AckReceived, AckTimeout, AckInfoErased, ChunkDone, PostDestroy, ReleaseHandle

LEMMA WorkAcked ==
  ASSUME IInv, SenderStep, NEW k \in Sends
  PROVE  pay'[k].acked \subseteq pay[k].acked /\ pay'[k].endpoints = pay[k].endpoints
<1> DEFINE read == pay[sender.pending].read + 1
           checked(x) == pay[host.tracked].acked \ {x}
           taken == pay[sender.awaited].acked \ {sender.waiting}
<1>1. \/ pay' = pay
      \/ pay' = [pay EXCEPT ![sender.pending].read = read]
      \/ \E x : pay' = [pay EXCEPT ![host.tracked].acked = checked(x)]
      \/ pay' = [pay EXCEPT ![sender.awaited].acked = taken]
  BY DEF SenderStep, TakeSend, NextChunk, StopSending, DetachAndSend, ConfirmChunk, CheckAck,
         AckReceived, AckTimeout, AckInfoErased, ChunkDone, PostDestroy, ReleaseHandle
<1>2. pay[k] \in Payloads /\ DOMAIN pay = Sends
  BY SentTyped
<1>3. CASE pay' = [pay EXCEPT ![sender.pending].read = read]
  <2> HIDE DEF read
  <2> QED
    BY <1>2, <1>3 DEF Payloads
<1>4. ASSUME NEW x, pay' = [pay EXCEPT ![host.tracked].acked = checked(x)]
      PROVE  pay'[k].acked \subseteq pay[k].acked /\ pay'[k].endpoints = pay[k].endpoints
  BY <1>2, <1>4 DEF Payloads
<1>5. CASE pay' = [pay EXCEPT ![sender.awaited].acked = taken]
  BY <1>2, <1>5 DEF Payloads
<1> QED
  BY <1>1, <1>3, <1>4, <1>5

\* Posting what is no success of e.
LEMMA PostedOther ==
  ASSUME IInv, NEW t \in Seq(HostTasks), NEW e, ~SuccessIn(t, e), SuccessIn(hostTasks \o t, e)
  PROVE  SuccessIn(hostTasks, e)
BY SuccessPosted DEF IInv, HostInv, HostTasksTyped

LEMMA AppendedOther ==
  ASSUME IInv, NEW t \in HostTasks, NEW e, ~SuccessIn(<<t>>, e), SuccessIn(Append(hostTasks, t), e)
  PROVE  SuccessIn(hostTasks, e)
<1>1. Append(hostTasks, t) = hostTasks \o <<t>>
  BY AppendIsConcat DEF IInv, HostInv, HostTasksTyped
<1>2. <<t>> \in Seq(HostTasks)
  OBVIOUS
<1> QED
  BY <1>1, <1>2, PostedOther

LEMMA OtherUpdates ==
  ASSUME NEW S \in SUBSET Endpoints, NEW k \in Sends, NEW status \in {"Failure", "Canceled", "InProgress"},
         NEW e
  PROVE  /\ Update(k, All(S, status)) \in HostTasks
         /\ <<Update(k, All(S, status))>> \in Seq(HostTasks)
         /\ ~SuccessIn(<<Update(k, All(S, status))>>, e)
<1>1. Update(k, All(S, status)) \in HostTasks
  BY AllTyped, PayloadTyped DEF Statuses, Final, Sends
<1> QED
  BY <1>1, NoSuccess

\* Of an endpoint with acknowledgements it posts a success only when it has taken
\* one, or when the endpoint is not one of the payload's any more.
LEMMA WorkSuccess ==
  ASSUME IInv, Fresh, SenderOnce, SenderStep, NEW e \in AckEnabled, SuccessIn(hostTasks', e)
  PROVE  \/ SuccessIn(hostTasks, e)
         \/ host.sends = 1 /\ (e \in pay[1].acked \/ e \notin pay[1].endpoints)
<1>1. /\ hostTasks \in Seq(HostTasks) /\ PayTyped /\ SenderTyped /\ HostTasksTyped
      /\ sender \in Senders
  BY DEF IInv, HostInv, HostTasksTyped, SenderTyped
<1>2. sender.pc # "idle" => sender.pending = 1 /\ host.sends = 1 /\ 1 \in Sends
  BY OneSend
<1>3. CASE hostTasks' = hostTasks
  BY <1>3
<1>4. CASE NextChunk
  <2>1. UpdateUnavailable \in Seq(HostTasks)
    BY <1>1, <1>2, <1>4, UpdateUnavailableTyped DEF NextChunk, At
  <2> QED
    BY <1>4, <2>1, PostedOther, NoSuccess DEF NextChunk
<1>5. CASE StopSending
  <2>1. sender.pending \in Sends
    BY <1>2, <1>5 DEF StopSending, At
  <2>2. UpdateUnavailable \in Seq(HostTasks) /\ Available \in SUBSET Endpoints
    BY <1>1, <2>1, UpdateUnavailableTyped, AvailableTyped
  <2>3. SuccessIn(hostTasks \o UpdateUnavailable, e) => SuccessIn(hostTasks, e)
    BY <2>2, PostedOther, NoSuccess
  <2>4. ASSUME NEW status \in {"Failure", "Canceled"},
               SuccessIn(hostTasks \o UpdateUnavailable
                           \o <<Update(sender.pending, All(Available, status))>>, e)
        PROVE  SuccessIn(hostTasks, e)
    <3> DEFINE t == <<Update(sender.pending, All(Available, status))>>
    <3>1. t \in Seq(HostTasks) /\ ~SuccessIn(t, e)
      BY <2>1, <2>2, OtherUpdates
    <3>2. hostTasks \o UpdateUnavailable \in Seq(HostTasks)
      BY <1>1, <2>2, PostedTyped
    <3> QED
      BY <2>3, <2>4, <3>1, <3>2, SuccessPosted
  <2> QED
    BY <1>5, <2>3, <2>4 DEF StopSending
<1>6. CASE DetachAndSend
  <2>1. sender.pending \in Sends /\ sender.targets \in SUBSET Endpoints
    BY <1>1, <1>2, <1>6 DEF DetachAndSend, At, Senders
  <2>2. CASE hostTasks' = Append(hostTasks, Update(sender.pending, All(sender.targets, "Failure")))
    BY <2>1, <2>2, OtherUpdates, AppendedOther
  <2>3. ASSUME NEW read \in BOOLEAN, NEW failed \in SUBSET sender.targets, WriteChunk(read, failed)
        PROVE  SuccessIn(hostTasks, e)
    <3> DEFINE t == <<Update(sender.pending, All(failed, "Failure"))>>
    <3>1. failed \in SUBSET Endpoints
      BY <2>1
    <3>2. t \in Seq(HostTasks) /\ ~SuccessIn(t, e)
      BY <2>1, <3>1, OtherUpdates
    <3>3. <<>> \in Seq(HostTasks) /\ ~SuccessIn(<<>>, e)
      BY NoSuccess
    <3>4. hostTasks' = hostTasks \o t \/ hostTasks' = hostTasks \o <<>>
      BY <2>3 DEF WriteChunk
    <3> HIDE DEF t
    <3>5. SuccessIn(hostTasks \o t, e) => SuccessIn(hostTasks, e)
      BY <3>2, PostedOther
    <3>6. SuccessIn(hostTasks \o <<>>, e) => SuccessIn(hostTasks, e)
      BY <3>3, PostedOther
    <3> QED
      BY <3>4, <3>5, <3>6
  <2> QED
    BY <1>6, <2>2, <2>3 DEF DetachAndSend
<1>7. ASSUME NEW x \in Endpoints, ConfirmChunk(x)
      PROVE  SuccessIn(hostTasks, e)
  <2>1. /\ ~(x = e /\ sender.last) /\ hostTasks' = hostTasks \o Succeeded(x)
        /\ sender.pending \in Sends
    BY <1>2, <1>7 DEF ConfirmChunk, At
  <2>2. Succeeded(x) \in Seq(HostTasks) /\ ~SuccessIn(Succeeded(x), e)
    BY <2>1, SucceededTyped, SuccessOfLast
  <2> QED
    BY <2>1, <2>2, PostedOther
<1>8. ASSUME NEW x \in Endpoints, CheckAck(x)
      PROVE  SuccessIn(hostTasks, e) \/ (host.sends = 1 /\ e \in pay[1].acked)
  <2>1. sender.pending \in Sends /\ host.sends = 1
    BY <1>2, <1>8 DEF CheckAck, At
  <2>2. CASE \E status \in {"Failure", "Canceled"} :
               hostTasks' = Append(hostTasks, Update(sender.pending, All({x}, status)))
    <3>1. {x} \in SUBSET Endpoints
      OBVIOUS
    <3> QED
      BY <2>1, <2>2, <3>1, OtherUpdates, AppendedOther
  <2>3. CASE /\ Member(host.tracked, x) /\ x \in pay[host.tracked].acked
             /\ hostTasks' = hostTasks \o Succeeded(x)
    <3>1. host.tracked = 1
      BY <2>3, OneSend DEF Member
    <3>2. Succeeded(x) \in Seq(HostTasks)
      BY <2>1, SucceededTyped
    <3>3. CASE x = e
      BY <2>1, <2>3, <3>1, <3>3
    <3>4. CASE x # e
      BY <2>3, <3>2, <3>4, SuccessOfLast, PostedOther
    <3> QED
      BY <3>3, <3>4
  <2> QED
    BY <1>3, <1>8, <2>2, <2>3 DEF CheckAck, RemoteOutcome
<1>9. CASE AckReceived \/ AckTimeout \/ AckInfoErased
  <2> DEFINE x == sender.waiting
  <2>1. /\ sender.pc = "wait" /\ sender.pending \in Sends /\ host.sends = 1 /\ sender.awaited = 1
        /\ x \in Endpoints /\ Released \in Seq(HostTasks) /\ Succeeded(x) \in Seq(HostTasks)
    BY <1>1, <1>2, <1>9, AwaitedTyped, SucceededTyped DEF AckReceived, AckTimeout, AckInfoErased, At,
       SenderOnce
  <2>2. SuccessIn(Released, e) => SuccessIn(hostTasks, e)
    BY DestroyedTyped, PostedOther, NoSuccess DEF Released
  <2>3. SuccessIn(Released \o Succeeded(x), e) => SuccessIn(hostTasks, e) \/ x = e
    BY <2>1, <2>2, SuccessPosted, SuccessOfLast
  <2>4. \/ hostTasks' = Released
        \/ /\ hostTasks' = Released \o Succeeded(x)
           /\ x \in pay[1].acked \/ x \notin pay[1].endpoints
    BY <1>9, <2>1 DEF AckReceived, AckTimeout, TimedOut, AckInfoErased
  <2> QED
    BY <2>1, <2>2, <2>3, <2>4
<1>10. CASE PostDestroy
  <2>1. Destroy(sender.pending) \in HostTasks /\ ~SuccessIn(<<Destroy(sender.pending)>>, e)
    BY <1>2, <1>10, OtherTasksTyped, NoSuccess DEF PostDestroy, At
  <2> QED
    BY <1>10, <2>1, AppendedOther DEF PostDestroy
<1>11. CASE ReleaseHandle
  <2> DEFINE t == Destroyed(sender.pending, host.tracked, {})
  <2>1. t \in Seq(HostTasks) /\ ~SuccessIn(t, e)
    BY DestroyedTyped, NoSuccess
  <2>2. hostTasks' = hostTasks \o t
    BY <1>11 DEF ReleaseHandle
  <2> HIDE DEF t
  <2> QED
    BY <2>1, <2>2, PostedOther
<1> QED
  BY <1>3, <1>4, <1>5, <1>6, <1>7, <1>8, <1>9, <1>10, <1>11 DEF SenderStep, TakeSend, ChunkDone

LEMMA WorkAcks ==
  ASSUME IInv, Fresh, SenderOnce, SenderStep, UNCHANGED peerVars, NEW e \in AckEnabled
  PROVE  Acknowledged(e)' => Acknowledged(e)
<1>1. UNCHANGED <<host, heard, acks>> /\ e \in Endpoints
  BY PayloadTyped DEF SenderStep, TakeSend, NextChunk, StopSending, DetachAndSend, ConfirmChunk, CheckAck,
     AckReceived, AckTimeout, AckInfoErased, ChunkDone, PostDestroy, ReleaseHandle, peerVars
<1>2. link'[e].up = link[e].up /\ (Joined(e)' => Joined(e))
  BY <1>1, WorkUp DEF Joined
<1>3. host.sends = 1 => pay'[1].acked \subseteq pay[1].acked /\ pay'[1].endpoints = pay[1].endpoints
  BY OneSend, WorkAcked
<1>4. SuccessIn(hostTasks', e) =>
        \/ SuccessIn(hostTasks, e)
        \/ host.sends = 1 /\ (e \in pay[1].acked \/ e \notin pay[1].endpoints)
  BY WorkSuccess
<1>5. SuccessHeard(e)' => Acknowledged(e)
  BY <1>1 DEF SuccessHeard, Acknowledged
<1> QED
  BY <1>1, <1>2, <1>3, <1>4, <1>5, AckKept

-----------------------------------------------------------------------------
(* Acknowledgements: the other steps of the host *)

LEMMA SendPayloadAcks ==
  ASSUME IInv, Fresh, Fresh', SendPayload, UNCHANGED peerVars, NEW e \in Endpoints
  PROVE  Acknowledged(e)' => Acknowledged(e)
<1>1. host.sends = 0 /\ host'.sends = 1 /\ 1 \in Sends
  <2>1. host.sends \in {0, 1} /\ host.sends + 1 \in Sends /\ host'.sends = host.sends + 1
    BY OneSend DEF SendPayload, IInv, HostInv, HostTyped, Hosts
  <2> QED
    BY <2>1 DEF Fresh
<1>2. UNCHANGED <<link, heard, acks>>
  BY DEF SendPayload, peerVars
<1>3. pay'[1].acked = {}
  <2>1. pay' = [pay EXCEPT ![1] = NewPayload(Endpoints)]
    BY <1>1 DEF SendPayload
  <2> QED
    BY <1>1, <2>1, SentTyped DEF NewPayload
<1>4. SuccessIn(hostTasks', e) => SuccessIn(hostTasks, e)
  <2> DEFINE t == Destroyed(host.tracked, host.sends + 1, Held)
  <2>1. t \in Seq(HostTasks) /\ ~SuccessIn(t, e) /\ hostTasks' = hostTasks \o t
    BY DestroyedTyped, NoSuccess DEF SendPayload
  <2> HIDE DEF t
  <2> QED
    BY <2>1, PostedOther
<1> QED
  BY <1>1, <1>2, <1>3, <1>4 DEF Acknowledged, SuccessHeard, Joined

\* A step that posts nothing and reports nothing.
LEMMA IdleAcks ==
  ASSUME IInv, NEW e \in Endpoints, UNCHANGED <<link, heard, acks, hostTasks>>,
         host'.sends = host.sends,
         host.sends = 1 => pay'[1].acked = pay[1].acked /\ pay'[1].endpoints = pay[1].endpoints
  PROVE  Acknowledged(e)' => Acknowledged(e)
BY AckKept DEF Acknowledged, SuccessHeard, Joined

LEMMA ClientAcks ==
  ASSUME IInv, Fresh, CancelOutgoing \/ StopManager \/ TeardownStep, UNCHANGED peerVars,
         NEW e \in Endpoints
  PROVE  Acknowledged(e)' => Acknowledged(e)
<1> DEFINE w == [pay[host.tracked] EXCEPT !.cancelled = TRUE, !.closed = TRUE]
<1>1. /\ UNCHANGED <<link, heard, acks, hostTasks>>
      /\ \/ pay' = pay
         \/ host.tracked # 0 /\ pay' = [pay EXCEPT ![host.tracked].cancelled = TRUE]
         \/ host.tracked # 0 /\ pay' = [pay EXCEPT ![host.tracked] = w]
  BY DEF CancelOutgoing, StopManager, TeardownStep, CancelAllPayloads, AwaitBarrier, JoinExecutors,
         peerVars
<1>2. host'.sends = host.sends
  BY DEF CancelOutgoing, StopManager, TeardownStep, CancelAllPayloads, AwaitBarrier, JoinExecutors,
         IInv, HostInv, HostTyped, Hosts
<1>3. ASSUME NEW k \in Sends PROVE pay'[k].acked = pay[k].acked /\ pay'[k].endpoints = pay[k].endpoints
  <2>1. pay[k] \in Payloads /\ DOMAIN pay = Sends
        /\ (host.tracked # 0 => pay[host.tracked] \in Payloads)
    BY SentTyped
  <2>2. CASE host.tracked # 0 /\ pay' = [pay EXCEPT ![host.tracked].cancelled = TRUE]
    BY <2>1, <2>2 DEF Payloads
  <2>3. CASE host.tracked # 0 /\ pay' = [pay EXCEPT ![host.tracked] = w]
    <3>1. w.acked = pay[host.tracked].acked /\ w.endpoints = pay[host.tracked].endpoints
      BY <2>1, <2>3 DEF Payloads
    <3> HIDE DEF w
    <3> QED
      BY <2>1, <2>3, <3>1
  <2> QED
    BY <1>1, <2>2, <2>3
<1> QED
  BY <1>1, <1>2, <1>3, OneSend, IdleAcks

LEMMA StatusUpdateAcks ==
  ASSUME IInv, Fresh, StatusUpdate, UNCHANGED peerVars, NEW e \in Endpoints
  PROVE  Acknowledged(e)' => Acknowledged(e)
<1> DEFINE task == Head(hostTasks)
           q == host.tracked
           S == DOMAIN task.outcome \cap pay[q].endpoints
           F == {x \in S : task.outcome[x] \in Final}
<1>1. /\ UNCHANGED <<link, acks, host>> /\ hostTasks # <<>> /\ hostTasks' = Tail(hostTasks)
      /\ ApplyUpdate(task)
  BY DEF StatusUpdate, peerVars
<1>2. hostTasks \in Seq(HostTasks)
  BY DEF IInv, HostInv, HostTasksTyped
<1>3. CASE q = 0
  <2>1. UNCHANGED <<pay, heard>>
    BY <1>1, <1>3 DEF ApplyUpdate
  <2> QED
    BY <1>1, <2>1, SuccessLeft, AckKept DEF SuccessHeard, Acknowledged, Joined
<1>4. CASE q # 0
  <2>1. Told(task, S) /\ pay' = Removed(q, F) /\ q = 1 /\ host.sends = 1 /\ 1 \in Sends
    BY <1>1, <1>4, OneSend DEF ApplyUpdate
  <2>2. pay'[1].acked = pay[1].acked /\ pay'[1].endpoints \subseteq pay[1].endpoints
    <3> HIDE DEF F, q
    <3>1. pay' = Removed(1, F)
      BY <2>1
    <3> QED
      BY <2>1, <3>1, SentTyped DEF Removed, Payloads
  <2>3. heard'.host[e] = IF e \in S /\ link[e].host # "gone"
                         THEN Append(heard.host[e], Report(task, q, task.outcome[e]))
                         ELSE heard.host[e]
    BY <2>1, SentTyped DEF Told
  <2>4. SuccessHeard(e)' => Acknowledged(e)
    <3>1. CASE heard'.host[e] = heard.host[e]
      BY <3>1 DEF SuccessHeard, Acknowledged
    <3>2. CASE heard'.host[e] # heard.host[e]
      <4> DEFINE r == Report(task, q, task.outcome[e])
                 told == Append(heard.host[e], r)
      <4>1. e \in S /\ heard'.host[e] = told /\ r.status = task.outcome[e]
        BY <2>3, <3>2 DEF Report
      <4>2. heard.host[e] \in Seq(Reports)
        BY DEF IInv, HostInv, HeardTyped
      <4>3. task = hostTasks[1] /\ 1 \in DOMAIN hostTasks
        BY <1>1, <1>2
      <4>4. r.status = "Success" => SuccessIn(hostTasks, e)
        BY <4>1, <4>3 DEF SuccessIn
      <4>5. e \in pay[1].endpoints
        BY <2>1, <4>1
      <4> HIDE DEF r
      <4>6. \A i \in DOMAIN told : told[i] = r \/ (i \in DOMAIN heard.host[e] /\ told[i] = heard.host[e][i])
        BY <4>2
      <4> QED
        BY <4>1, <4>4, <4>5, <4>6 DEF SuccessHeard, Acknowledged
    <3> QED
      BY <3>1, <3>2
  <2> QED
    BY <1>1, <2>1, <2>2, <2>4, SuccessLeft, AckKept DEF Joined
<1> QED
  BY <1>3, <1>4

LEMMA HostStatusStepAcks ==
  ASSUME IInv, Fresh, HostStatusStep, UNCHANGED peerVars, NEW e \in Endpoints
  PROVE  Acknowledged(e)' => Acknowledged(e)
<1>1. CASE StatusUpdate
  BY <1>1, StatusUpdateAcks
<1>2. CASE DestroyPendingPayload \/ NotifyShutdown
  <2> DEFINE t == Destroyed(host.tracked, 0, Held)
  <2>1. /\ UNCHANGED <<link, pay, heard, acks>> /\ hostTasks # <<>>
        /\ hostTasks' = Tail(hostTasks) \/ hostTasks' = Tail(hostTasks) \o t
    BY <1>2 DEF DestroyPendingPayload, NotifyShutdown, peerVars
  <2>2. host'.sends = host.sends
    BY <1>2 DEF DestroyPendingPayload, NotifyShutdown, IInv, HostInv, HostTyped, Hosts
  <2>3. t \in Seq(HostTasks) /\ ~SuccessIn(t, e)
    BY DestroyedTyped, NoSuccess
  <2>4. Tail(hostTasks) \in Seq(HostTasks)
    BY <2>1, FirstTaskTyped DEF IInv, HostInv
  <2> HIDE DEF t
  <2>5. SuccessIn(hostTasks', e) => SuccessIn(hostTasks, e)
    BY <2>1, <2>3, <2>4, SuccessPosted, SuccessLeft
  <2> QED
    BY <2>1, <2>2, <2>5, AckKept DEF SuccessHeard, Acknowledged, Joined
<1> QED
  BY <1>1, <1>2 DEF HostStatusStep

-----------------------------------------------------------------------------
(* Acknowledgements on their way: the links *)

LEMMA AckFrames ==
  ASSUME NEW u \in Seq(UpFrames)
  PROVE  /\ ~AckIn(<<>>)
         /\ u # <<>> => /\ Head(u).type = "ack" => AckIn(u)
                        /\ AckIn(Tail(u)) => AckIn(u)
         /\ \A rest \in InHand(u) : AckIn(rest) => AckIn(u)
         /\ \A f : f.type # "ack" /\ AckIn(Append(u, f)) => AckIn(u)
<1>1. ~AckIn(<<>>)
  BY DEF AckIn
<1>2. ASSUME u # <<>> PROVE /\ Head(u).type = "ack" => AckIn(u)
                            /\ AckIn(Tail(u)) => AckIn(u)
  <2>1. /\ 1 \in DOMAIN u /\ Head(u) = u[1]
        /\ \A i \in DOMAIN Tail(u) : i + 1 \in DOMAIN u /\ Tail(u)[i] = u[i + 1]
    BY <1>2
  <2> QED
    BY <2>1 DEF AckIn
<1>3. ASSUME NEW rest \in InHand(u), AckIn(rest) PROVE AckIn(u)
  <2>1. PICK i \in DOMAIN u \cap {1} : rest = <<u[i]>>
    BY <1>1, <1>3 DEF InHand
  <2> QED
    BY <1>3, <2>1 DEF AckIn
<1>4. ASSUME NEW f, f.type # "ack", AckIn(Append(u, f)) PROVE AckIn(u)
  <2> DEFINE v == Append(u, f)
  <2>1. \A i \in DOMAIN v : v[i] = f \/ (i \in DOMAIN u /\ v[i] = u[i])
    OBVIOUS
  <2> QED
    BY <1>4, <2>1 DEF AckIn
<1> QED
  BY <1>1, <1>2, <1>3, <1>4

\* A step that changes one link and nothing else that acknowledges.
LEMMA LinkAcks ==
  ASSUME IInv, NEW x \in Endpoints, NEW l, link' = [link EXCEPT ![x] = l],
         AckIn(l.up) => AckIn(link[x].up) \/ (acks[x] # <<>> /\ Joined(x)),
         l.peer = "connected" => Joined(x),
         UNCHANGED <<pay, host>>, heard'.host = heard.host,
         NEW e \in Endpoints, acks'[e] # <<>> => acks[e] # <<>>,
         SuccessIn(hostTasks', e) => SuccessIn(hostTasks, e)
  PROVE  Acknowledged(e)' => Acknowledged(e)
<1>1. link'[e] = link[e] \/ (e = x /\ link'[e] = l)
  BY LinkOf
<1> QED
  BY <1>1 DEF Acknowledged, SuccessHeard, Joined

LEMMA HostFrameAcks ==
  ASSUME IInv, Fresh, NEW x \in Endpoints, HostFrame(x), UNCHANGED peerVars, NEW e \in Endpoints
  PROVE  Acknowledged(e)' => Acknowledged(e)
<1> DEFINE q == host.tracked
           status == Head(link[x].up).type
           acked == pay[q].acked \cup {x}
           l == [link[x] EXCEPT !.up = Tail(link[x].up)]
<1>1. /\ UNCHANGED <<host, hostTasks, heard, acks>>
      /\ link' = [link EXCEPT ![x] = l] /\ link[x].up # <<>>
      /\ \/ pay' = pay
         \/ /\ status = "ack" /\ q # 0
            /\ pay' = [pay EXCEPT ![q].acked = acked]
         \/ pay' = [pay EXCEPT ![q].status[x] = status]
  BY DEF HostFrame, Member, peerVars
<1>2. link[x] \in Links /\ link[x].up \in Seq(UpFrames)
  BY LinkOf
<1>3. l.up = Tail(link[x].up) /\ l.peer = link[x].peer
  BY <1>2 DEF Links
<1>4. /\ link'[e].up = IF e = x THEN Tail(link[x].up) ELSE link[e].up
      /\ link'[e].peer = link[e].peer
  <2> HIDE DEF l
  <2> QED
    BY <1>1, <1>3, LinkOf
<1>5. AckIn(link'[e].up) => AckIn(link[e].up)
  BY <1>1, <1>2, <1>4, AckFrames
<1>6. ASSUME host.sends = 1
      PROVE  /\ e \in pay'[1].acked => e \in pay[1].acked \/ AckIn(link[e].up)
             /\ pay'[1].endpoints = pay[1].endpoints
  <2> HIDE DEF status, q
  <2>1. 1 \in Sends /\ pay[1] \in Payloads /\ DOMAIN pay = Sends
    BY <1>6, OneSend, SentTyped
  <2>2. CASE pay' = pay
    BY <2>2
  <2>3. CASE status = "ack" /\ q # 0 /\ pay' = [pay EXCEPT ![q].acked = acked]
    <3>1. q = 1
      BY <2>3, OneSend DEF q
    <3>2. pay'[1].acked = pay[1].acked \cup {x} /\ pay'[1].endpoints = pay[1].endpoints
      BY <2>1, <2>3, <3>1 DEF Payloads
    <3>3. AckIn(link[x].up)
      BY <1>1, <1>2, <2>3, AckFrames DEF status
    <3> QED
      BY <3>2, <3>3
  <2>4. CASE pay' = [pay EXCEPT ![q].status[x] = status]
    BY <2>1, <2>4 DEF Payloads
  <2> QED
    BY <1>1, <2>2, <2>3, <2>4 DEF q, status
<1> QED
  BY <1>1, <1>4, <1>5, <1>6, AckKept DEF SuccessHeard, Acknowledged, Joined

LEMMA HostConnectionAcks ==
  ASSUME IInv, NEW x \in Endpoints, HostConnection(x), UNCHANGED peerVars, NEW e \in Endpoints
  PROVE  Acknowledged(e)' => Acknowledged(e)
<1>1. UNCHANGED <<pay, host, heard, acks>>
  BY DEF HostConnection, HostNotices, HostLeaves, HostDisconnected, BreakLink, CloseHostEnd, peerVars
<1>2. link[x] \in Links /\ link[x].up \in Seq(UpFrames)
  BY LinkOf
<1>3. CASE CloseHostEnd(x)
  <2>1. PICK rest \in InHand(link[x].up), kept \in {link[x].down, <<>>} :
          link' = [link EXCEPT ![x] = [@ EXCEPT !.host = "leaving", !.up = rest, !.down = kept]]
    BY <1>3 DEF CloseHostEnd
  <2> DEFINE l == [link[x] EXCEPT !.host = "leaving", !.up = rest, !.down = kept]
  <2>2. l.up = rest /\ l.peer = link[x].peer /\ link' = [link EXCEPT ![x] = l]
    BY <1>2, <2>1 DEF Links
  <2>3. AckIn(l.up) => AckIn(link[x].up)
    BY <1>2, <2>2, AckFrames
  <2>4. SuccessIn(hostTasks', e) => SuccessIn(hostTasks, e)
    <3>1. Disconnect(x) \in HostTasks /\ ~SuccessIn(<<Disconnect(x)>>, e)
      BY OtherTasksTyped, NoSuccess
    <3> QED
      BY <1>3, <3>1, AppendedOther DEF CloseHostEnd
  <2> HIDE DEF l
  <2> QED
    BY <1>1, <2>2, <2>3, <2>4, LinkAcks DEF Joined
<1>4. CASE HostDisconnected(x)
  <2> DEFINE l == [link[x] EXCEPT !.host = "gone", !.up = <<>>]
  <2>1. /\ l.up = <<>> /\ l.peer = link[x].peer
        /\ link' = [link EXCEPT ![x] = l] /\ hostTasks' = hostTasks
    BY <1>2, <1>4 DEF HostDisconnected, Links
  <2> HIDE DEF l
  <2> QED
    BY <1>1, <1>2, <2>1, AckFrames, LinkAcks DEF Joined
<1>5. CASE BreakLink(x)
  <2> DEFINE l == [link[x] EXCEPT !.broken = TRUE, !.down = <<>>, !.up = <<>>]
  <2>1. /\ l.up = <<>> /\ l.peer = link[x].peer
        /\ link' = [link EXCEPT ![x] = l] /\ hostTasks' = hostTasks
    BY <1>2, <1>5 DEF BreakLink, Links
  <2> HIDE DEF l
  <2> QED
    BY <1>1, <1>2, <2>1, AckFrames, LinkAcks DEF Joined
<1> QED
  BY <1>3, <1>4, <1>5 DEF HostConnection, HostNotices, HostLeaves

LEMMA SendPayloadAckAcks ==
  ASSUME IInv, NEW x \in Endpoints, SendPayloadAck(x), NEW e \in Endpoints
  PROVE  Acknowledged(e)' => Acknowledged(e)
<1>1. /\ UNCHANGED <<pay, host, hostTasks, heard>> /\ acks[x] # <<>>
      /\ acks' = [acks EXCEPT ![x] = Tail(@)]
      /\ link' = link \/ link' = [link EXCEPT ![x] = WrittenUp(@, Ack)]
  BY DEF SendPayloadAck, hostVars
<1>2. acks'[e] # <<>> => acks[e] # <<>>
  BY <1>1 DEF IInv, PeerTyped
<1>3. CASE link' = link
  BY <1>1, <1>2, <1>3 DEF Acknowledged, SuccessHeard, Joined
<1>4. CASE link' = [link EXCEPT ![x] = WrittenUp(@, Ack)]
  <2> DEFINE l == WrittenUp(link[x], Ack)
  <2>1. /\ link' = [link EXCEPT ![x] = l] /\ l.peer = link[x].peer
        /\ l.up = link[x].up \/ Joined(x)
    BY <1>4, LinkOf DEF WrittenUp, Links, Joined
  <2> HIDE DEF l
  <2> QED
    BY <1>1, <1>2, <2>1, LinkAcks DEF Joined
<1> QED
  BY <1>1, <1>3, <1>4

\* The other steps of a peer but for the reading of a frame.
LEMMA PeerAcks ==
  ASSUME IInv, NEW x \in Endpoints, NEW e \in Endpoints,
         \/ PeerStatusStep(x) \/ CancelIncoming(x)
         \/ PeerNotices(x) \/ PeerLeaves(x) \/ PeerDisconnected(x)
  PROVE  Acknowledged(e)' => Acknowledged(e)
<1>1. UNCHANGED <<pay, host, hostTasks, acks>>
  BY DEF PeerStatusStep, CancelIncoming, PeerNotices, PeerLeaves, PeerDisconnected, ClosePeerEnd,
         hostVars, peerVars
<1>2. heard'.host = heard.host
  <2>1. UNCHANGED heard \/ PeerTold(x, Head(peerTasks[x]))
    BY DEF PeerStatusStep, CancelIncoming, PeerNotices, PeerLeaves, PeerDisconnected, ClosePeerEnd
  <2> QED
    BY <2>1, SentTyped DEF PeerTold
<1>3. link[x] \in Links /\ link[x].up \in Seq(UpFrames)
  BY LinkOf
<1>4. CASE link' = link
  BY <1>1, <1>2, <1>4 DEF Acknowledged, SuccessHeard, Joined
<1>5. CASE ClosePeerEnd(x)
  <2>1. PICK rest \in InHand(link[x].down), kept \in {link[x].up, <<>>} :
          link' = [link EXCEPT ![x] = [@ EXCEPT !.peer = "leaving", !.down = rest, !.up = kept]]
    BY <1>5 DEF ClosePeerEnd
  <2> DEFINE l == [link[x] EXCEPT !.peer = "leaving", !.down = rest, !.up = kept]
  <2>2. l.up = kept /\ l.peer = "leaving" /\ link' = [link EXCEPT ![x] = l]
    BY <1>3, <2>1 DEF Links
  <2> HIDE DEF l
  <2> QED
    BY <1>1, <1>2, <1>3, <2>2, AckFrames, LinkAcks
<1>6. CASE PeerDisconnected(x)
  <2> DEFINE l == [link[x] EXCEPT !.peer = "gone", !.down = <<>>]
  <2>1. l.up = link[x].up /\ l.peer = "gone" /\ link' = [link EXCEPT ![x] = l]
    BY <1>3, <1>6 DEF PeerDisconnected, Links
  <2> HIDE DEF l
  <2> QED
    BY <1>1, <1>2, <2>1, LinkAcks
<1> QED
  BY <1>4, <1>5, <1>6 DEF PeerStatusStep, CancelIncoming, PeerNotices, PeerLeaves

-----------------------------------------------------------------------------
(* Acknowledgements: where they begin *)

\* The last chunk is attached to all the chunks before it.
LEMMA LastAttached ==
  ASSUME IInv, NEW e \in Endpoints, PeerFrame(e), NEW b \in Nat, Arrival(e, b),
         Head(link[e].down).type = "data", Head(link[e].down).last,
         AttachChunk(e, Head(link[e].down))
  PROVE  Whole(e)' \/ Torn(e)'
<1> SUFFICES ASSUME ~Torn(e)' PROVE Whole(e)'
  OBVIOUS
<1> DEFINE f == Head(link[e].down)
           p == [Incoming(e, f) EXCEPT !.got = @ \cup {f.chunk}]
<1>1. link[e].down \in Seq(DownFrames) /\ link[e].down # <<>>
  BY LinkOf DEF PeerFrame
<1>2. f \in DownFrames /\ f.chunk = b
  BY <1>1, NumberedTail, HeadTailProperties DEF Arrival
<1>3. Incoming(e, f) \in IncomingPayloads /\ DOMAIN peer = Endpoints
  BY <1>2, IncomingTyped DEF IInv, PeerTyped
<1>4. peer' = [peer EXCEPT ![e] = p] /\ Incoming(e, f).tracked /\ ~Incoming(e, f).cancelled
  BY DEF AttachChunk
<1>5. peer'[e] = p /\ p.tracked /\ ~p.cancelled
  BY <1>3, <1>4 DEF IncomingPayloads
<1>6. p.send = 1 /\ p.got = 0..f.chunk
  BY <1>2, <1>5, DataTaken
<1>7. hist' = [hist EXCEPT !.whole = @ \cup {<<p.send, e>>}]
  BY <1>6 DEF AttachChunk
<1>8. <<p.send, e>> \in hist'.whole
  BY <1>7 DEF IInv, HostInv, HistTyped, Histories
<1> QED
  BY <1>6, <1>8 DEF Whole

\* It tells the client so.
LEMMA LastPosts ==
  ASSUME IInv, NEW e \in Endpoints, PeerFrame(e), Head(link[e].down).last,
         AttachChunk(e, Head(link[e].down))
  PROVE  Says(peerTasks'[e], {"Success"})
<1> DEFINE f == Head(link[e].down)
           p == [Incoming(e, f) EXCEPT !.got = @ \cup {f.chunk}]
           t == Announced(p, f) \o <<PeerUpdate(p, "Success")>>
<1>1. f \in DownFrames
  BY LinkOf, HeadTailProperties DEF PeerFrame
<1>2. Incoming(e, f) \in IncomingPayloads /\ DOMAIN peerTasks = Endpoints /\ peerTasks[e] \in Seq(PeerTasks)
  BY <1>1, IncomingTyped DEF IInv, PeerTyped
<1>3. p \in IncomingPayloads
  BY <1>1, <1>2 DEF IncomingPayloads, DownFrames, Frames
<1>4. peerTasks' = [peerTasks EXCEPT ![e] = @ \o t]
  BY DEF AttachChunk, Post
<1> HIDE DEF p
<1>5. t \in Seq(PeerTasks) /\ Says(t, {"Success"})
  <2>1. "Success" \in Statuses /\ "InProgress" \notin {"Success"} /\ "Success" \in {"Success"}
    BY DEF Statuses, Final
  <2> QED
    BY <1>3, <2>1, AnnouncedTyped, SaysUpdate
<1> HIDE DEF t
<1> QED
  BY <1>2, <1>4, <1>5, SaysPosted

LEMMA PeerFrameAcks ==
  ASSUME IInv, Arriving, NEW x \in Endpoints, PeerFrame(x), NEW e \in Endpoints
  PROVE  Acknowledged(e)' =>
           \/ Acknowledged(e)
           \/ /\ Whole(e)' \/ Torn(e)'
              /\ Joined(e)' /\ Says(peerTasks'[e], {"Success"})
<1> DEFINE f == Head(link[x].down)
           l == ReadDown(x)
<1>1. UNCHANGED <<pay, host, hostTasks, heard>> /\ link[x].down # <<>>
  BY DEF PeerFrame, hostVars
<1>2. l \in Links /\ l.up = link[x].up /\ l.up \in Seq(UpFrames) /\ l.peer = link[x].peer
  BY <1>1, LinkOf, ReadDownTyped DEF ReadDown, Links, IInv, HostInv
<1>3. \A event \in {"canceled", "error"} :
        /\ AckIn(WrittenUp(l, Control(event)).up) => AckIn(l.up)
        /\ WrittenUp(l, Control(event)).peer = l.peer
  <2>1. ASSUME NEW event \in {"canceled", "error"}
        PROVE  /\ Control(event).type # "ack"
               /\ WrittenUp(l, Control(event)).up \in {l.up, Append(l.up, Control(event))}
               /\ WrittenUp(l, Control(event)).peer = l.peer
    BY <1>2 DEF WrittenUp, Control, Links
  <2>2. ASSUME NEW event \in {"canceled", "error"}
        PROVE  AckIn(WrittenUp(l, Control(event)).up) => AckIn(l.up)
    <3> DEFINE c == Control(event)
               w == WrittenUp(l, c).up
    <3>1. c.type # "ack" /\ w \in {l.up, Append(l.up, c)}
      BY <2>1
    <3> HIDE DEF l, c, w
    <3>2. AckIn(Append(l.up, c)) => AckIn(l.up)
      BY <1>2, <3>1, AckFrames
    <3>3. AckIn(w) => AckIn(l.up)
      BY <3>1, <3>2
    <3> QED
      BY <3>3 DEF w, c
  <2> QED
    BY <2>1, <2>2
<1>4. \E m : /\ link' = [link EXCEPT ![x] = m] /\ (AckIn(m.up) => AckIn(link[x].up))
             /\ m.peer = link[x].peer
  <2>1. \/ link' = [link EXCEPT ![x] = l]
        \/ \E event \in {"canceled", "error"} : link' = [link EXCEPT ![x] = WrittenUp(l, Control(event))]
    BY DEF PeerFrame, AttachChunk, AttachFails, CreateFails, DropCancelled, DropUnknown,
           ProcessControl, Replied
  <2> HIDE DEF l
  <2> QED
    BY <1>2, <1>3, <2>1
<1>5. CASE acks'[e] # <<>> => acks[e] # <<>>
  BY <1>1, <1>4, <1>5, LinkAcks DEF Joined
<1>6. CASE ~(acks'[e] # <<>> => acks[e] # <<>>)
  <2>1. acks' # acks
    BY <1>6
  <2>2. f.type = "data" /\ AttachChunk(x, f) /\ f.last
    BY <2>1 DEF PeerFrame, AttachChunk, AttachFails, CreateFails, DropCancelled, DropUnknown,
                ProcessControl, AckDue, peerVars
  <2>3. x = e
    <3>1. \E i : acks' = [acks EXCEPT ![x] = Append(@, i)]
      BY <2>1, <2>2 DEF AttachChunk
    <3> QED
      BY <1>6, <3>1 DEF IInv, PeerTyped
  <2>4. PICK b \in Nat : Arrival(e, b)
    BY DEF Arriving
  <2>5. Says(peerTasks'[e], {"Success"})
    BY <2>2, <2>3, LastPosts
  <2>6. Acknowledged(e)' => Acknowledged(e) \/ Joined(e)'
    <3>1. (AckIn(link'[e].up) => AckIn(link[e].up))
      BY <1>4, LinkOf
    <3> QED
      BY <1>1, <3>1 DEF Acknowledged, SuccessHeard
  <2> QED
    BY <2>2, <2>3, <2>4, <2>5, <2>6, LastAttached
<1> QED
  BY <1>5, <1>6

\* What was received stays so.
Grown(h) == hist.whole \subseteq h.whole /\ hist.torn \subseteq h.torn

LEMMA HistGrown ==
  ASSUME IInv
  PROVE  /\ Grown(hist) /\ Grown(Faulted(hist))
         /\ \A S : /\ Grown([hist EXCEPT !.late = S])
                   /\ Grown([Faulted(hist) EXCEPT !.late = S])
                   /\ Grown([hist EXCEPT !.skipped = S])
                   /\ Grown([hist EXCEPT !.unconfirmed = S])
                   /\ Grown([Faulted(hist) EXCEPT !.truncated = S])
         /\ \A y : /\ Grown([hist EXCEPT !.whole = @ \cup {y}])
                   /\ Grown([Faulted(hist) EXCEPT !.torn = @ \cup {y}])
BY DEF Grown, IInv, HostInv, HistTyped, Histories, Faulted

LEMMA ReceivedStays ==
  ASSUME IInv, [Next]_vars, NEW e
  PROVE  (Whole(e) => Whole(e)') /\ (Torn(e) => Torn(e)')
<1> SUFFICES Grown(hist')
  BY DEF Grown, Whole, Torn
<1>2. CASE hist' \in {hist, Faulted(hist)}
  BY <1>2, HistGrown
<1>3. CASE SendPayload
  <2>1. \E S : hist' = [hist EXCEPT !.late = S]
    BY <1>3 DEF SendPayload
  <2> QED
    BY <2>1, HistGrown
<1>4. CASE TakeSend
  <2>1. hist' = hist \/ \E S : hist' = [hist EXCEPT !.skipped = S]
    BY <1>4 DEF TakeSend
  <2> QED
    BY <2>1, HistGrown
<1>5. CASE DetachAndSend
  <2>1. hist' = hist \/ \E S : hist' = [Faulted(hist) EXCEPT !.truncated = S]
    <3>1. \/ hist' = hist
          \/ \E read \in BOOLEAN :
               hist' = [Faulted(hist) EXCEPT !.truncated = @ \cup {sender.pending}]
      BY <1>5 DEF DetachAndSend
    <3>2. \/ hist' = hist
          \/ \E S : hist' = [Faulted(hist) EXCEPT !.truncated = S]
      BY <3>1
    <3> QED
      BY <3>2
  <2> QED
    BY <2>1, HistGrown
<1>6. CASE AckTimeout
  <2>1. \E S : hist' = [hist EXCEPT !.unconfirmed = S]
    BY <1>6 DEF AckTimeout
  <2> QED
    BY <2>1, HistGrown
<1>7. CASE StopSending
  <2>1. hist' \in {hist, Faulted(hist)}
    BY <1>7 DEF StopSending
  <2> QED
    BY <1>2, <2>1
<1>8. CASE HostStep
  <2>1. CASE \/ CancelOutgoing \/ StopManager \/ HostStatusStep \/ TeardownStep
             \/ \E e1 \in Endpoints : HostFrame(e1)
    <3>1. hist' \in {hist, Faulted(hist)}
      BY <2>1 DEF CancelOutgoing, StopManager, HostStatusStep, StatusUpdate, DestroyPendingPayload,
                  NotifyShutdown, TeardownStep, CancelAllPayloads, AwaitBarrier, JoinExecutors, HostFrame
    <3> QED
      BY <1>2, <3>1
  <2>2. CASE SenderStep
    <3>1. CASE \/ NextChunk \/ AckReceived \/ AckInfoErased \/ ChunkDone \/ PostDestroy \/ ReleaseHandle
               \/ \E e1 \in Endpoints : ConfirmChunk(e1) \/ CheckAck(e1)
      <4>1. hist' = hist
        BY <3>1 DEF NextChunk, AckReceived, AckInfoErased, ChunkDone, PostDestroy, ReleaseHandle,
                    ConfirmChunk, CheckAck
      <4> QED
        BY <1>2, <4>1
    <3> QED
      BY <1>4, <1>5, <1>6, <1>7, <2>2, <3>1 DEF SenderStep
  <2> QED
    BY <1>3, <1>8, <2>1, <2>2 DEF HostStep
<1>9. ASSUME NEW x \in Endpoints, HostConnection(x) PROVE Grown(hist')
  <2>1. CASE HostDisconnected(x)
    <3>1. hist' = hist \/ \E S : hist' = [Faulted(hist) EXCEPT !.late = S]
      BY <2>1 DEF HostDisconnected
    <3> QED
      BY <3>1, HistGrown
  <2>2. CASE HostNotices(x) \/ HostLeaves(x) \/ BreakLink(x)
    <3>1. hist' \in {hist, Faulted(hist)}
      BY <2>2 DEF HostNotices, HostLeaves, BreakLink
    <3> QED
      BY <1>2, <3>1
  <2> QED
    BY <1>9, <2>1, <2>2 DEF HostConnection
<1>10. ASSUME NEW x \in Endpoints, PeerStep(x) PROVE Grown(hist')
  <2>1. CASE hist' \in {hist, Faulted(hist)}
    BY <1>2, <2>1
  <2>2. CASE PeerFrame(x)
    <3> DEFINE f == Head(link[x].down)
    <3>1. CASE AttachChunk(x, f)
      <4>1. hist' = hist \/ \E y : hist' = [hist EXCEPT !.whole = @ \cup {y}]
        BY <3>1 DEF AttachChunk
      <4> QED
        BY <4>1, HistGrown
    <3>2. CASE AttachFails(x, f)
      <4>1. \E y : hist' = [Faulted(hist) EXCEPT !.torn = @ \cup {y}]
        BY <3>2 DEF AttachFails
      <4> QED
        BY <4>1, HistGrown
    <3>3. CASE CreateFails(x, f) \/ DropCancelled(x, f) \/ DropUnknown(x, f) \/ ProcessControl(x, f)
      <4>1. hist' \in {hist, Faulted(hist)}
        BY <3>3 DEF CreateFails, DropCancelled, DropUnknown, ProcessControl
      <4> QED
        BY <2>1, <4>1
    <3> QED
      BY <2>2, <3>1, <3>2, <3>3 DEF PeerFrame
  <2>3. CASE \/ SendPayloadAck(x) \/ PeerStatusStep(x) \/ CancelIncoming(x)
             \/ PeerNotices(x) \/ PeerLeaves(x) \/ PeerDisconnected(x)
    <3>1. hist' \in {hist, Faulted(hist)}
      BY <2>3 DEF SendPayloadAck, PeerStatusStep, CancelIncoming, PeerNotices, PeerLeaves,
                  PeerDisconnected
    <3> QED
      BY <2>1, <3>1
  <2> QED
    BY <1>10, <2>2, <2>3 DEF PeerStep
<1>11. CASE UNCHANGED vars
  BY <1>2, <1>11 DEF vars
<1> QED
  BY <1>8, <1>9, <1>10, <1>11 DEF Next

LEMMA AckedWholeInv ==
  ASSUME IInv, SenderOnce, Arriving, AckedWhole, [Next]_vars, Fresh'
  PROVE  AckedWhole'
<1>1. Fresh
  BY SendsGrow
<1> SUFFICES ASSUME NEW e \in AckEnabled PROVE Acknowledged(e)' => Acknowledged(e) \/ Whole(e)' \/ Torn(e)'
  BY ReceivedStays DEF AckedWhole
<1>2. e \in Endpoints
  BY PayloadTyped
<1>3. CASE UNCHANGED vars
  BY <1>3 DEF vars, Acknowledged, SuccessHeard, Joined
<1>4. CASE HostStep /\ UNCHANGED peerVars
  BY <1>1, <1>2, <1>4, SendPayloadAcks, ClientAcks, WorkAcks, HostStatusStepAcks, HostFrameAcks
     DEF HostStep
<1>5. ASSUME NEW x \in Endpoints, HostConnection(x), UNCHANGED peerVars
      PROVE  Acknowledged(e)' => Acknowledged(e)
  BY <1>2, <1>5, HostConnectionAcks
<1>6. ASSUME NEW x \in Endpoints, PeerStep(x)
      PROVE  Acknowledged(e)' => Acknowledged(e) \/ Whole(e)' \/ Torn(e)'
  BY <1>2, <1>6, PeerFrameAcks, SendPayloadAckAcks, PeerAcks DEF PeerStep
<1> QED
  BY <1>3, <1>4, <1>5, <1>6 DEF Next

LEMMA ReceiptInit == Init => ReceiptInv
<1> SUFFICES ASSUME Init PROVE SenderOnce /\ Arriving /\ AckedWhole
  BY DEF ReceiptInv
<1>1. /\ sender.queue = <<>> /\ sender.pc = "idle" /\ host.sends = 0 /\ hostTasks = <<>>
  BY DEF Init
<1>2. ASSUME NEW e \in Endpoints
      PROVE  /\ link[e].down = <<>> /\ link[e].up = <<>> /\ peer[e].tracked = FALSE
             /\ acks[e] = <<>> /\ heard.host[e] = <<>> /\ ~Torn(e) /\ Untouched(e)
  BY DEF Init, NoPayload, Torn, Untouched
<1>3. SenderOnce
  BY <1>1 DEF SenderOnce
<1>4. ASSUME NEW e \in Endpoints PROVE Arrival(e, 0)
  <2>1. Numbered(<<>>, 0) /\ e \notin Continued /\ ~DataIn(<<>>)
    BY <1>1 DEF Numbered, Continued, DataIn
  <2> QED
    BY <1>2, <2>1 DEF Arrival
<1>5. Arriving
  BY <1>4 DEF Arriving
<1>6. AckedWhole
  <2> SUFFICES ASSUME NEW e \in AckEnabled PROVE ~Acknowledged(e)
    BY DEF AckedWhole
  <2>1. e \in Endpoints
    BY PayloadTyped
  <2>2. ~AckIn(<<>>) /\ ~SuccessIn(<<>>, e)
    BY NoSuccess DEF AckIn
  <2>3. link[e].up = <<>> /\ acks[e] = <<>> /\ heard.host[e] = <<>>
    BY <1>2, <2>1
  <2>4. ~SuccessHeard(e)
    BY <2>3 DEF SuccessHeard
  <2> QED
    BY <1>1, <2>2, <2>3, <2>4 DEF Acknowledged
<1> QED
  BY <1>3, <1>5, <1>6

\* With acknowledgements the sender's client is told Success only of a payload
\* that the endpoint attached in full, or failed to write out, whatever the
\* number of endpoints and chunks and the adverse events: chunks are read in the
\* order of their numbers and none is missing, only the last one is acknowledged,
\* and only an acknowledgement makes the sender report Success
\* (ProcessDataPacket, SendPayloadReceivedAck, WaitForReceivedAck).
THEOREM SuccessIsReceived == Spec => []SuccessMeansReceived
<1>1. IInv /\ ReceiptInv /\ [Next]_vars => ReceiptInv'
  BY SendsGrow, ArrivingInv, AckedWholeInv DEF ReceiptInv
<1>2. IInv /\ HostReports /\ ReceiptInv => SuccessMeansReceived
  <2> SUFFICES ASSUME IInv, HostReports, ReceiptInv, Fresh, NEW e \in AckEnabled, NEW k \in Sends,
                      HostSaid(e, k, {"Success"})
               PROVE  <<k, e>> \in hist.whole \cup hist.torn
    BY DEF SuccessMeansReceived
  <2>1. e \in Endpoints
    BY PayloadTyped
  <2>2. PICK i \in DOMAIN heard.host[e] : heard.host[e][i].of = k /\ heard.host[e][i].status = "Success"
    BY DEF HostSaid
  <2>3. Acknowledged(e)
    BY <2>2 DEF Acknowledged, SuccessHeard
  <2>4. k = 1
    <3>1. k \in 1..host.sends
      BY <2>1, <2>2 DEF HostReports
    <3> QED
      BY <3>1, SentTyped DEF Fresh
  <2> QED
    BY <2>3, <2>4 DEF ReceiptInv, AckedWhole, Whole, Torn
<1>3. Init => HostReports /\ HostFinalOnce
  BY DEF Init, HostReports, HostFinalOnce
<1> QED
  BY <1>1, <1>2, <1>3, InitInv, NextInv, HostReportsInv, ReceiptInit, PTL DEF Spec

-----------------------------------------------------------------------------
(* What the two clients are told *)

Success == {"Success"}

-----------------------------------------------------------------------------
(* What the invariant says of a payload that e attaches *)

\* The status thread will end the payload as failed before it reports a success.
Doomed(s) == \E i \in DOMAIN s :
  /\ s[i].kind = "update" /\ s[i].status = "Failure"
  /\ \A j \in 1..i : s[j].status # "Success"

\* A success that is due is one of an update for this send, whose chunks were all
\* attached; or one of them failed, and that will be reported first.
AttachedWhole(e) ==
  /\ \A i \in DOMAIN peerTasks[e] : peerTasks[e][i].status = "Success" =>
       peerTasks[e][i].kind = "update" /\ peerTasks[e][i].send = 1
  /\ Says(peerTasks[e], Success) => Whole(e) \/ Torn(e)
  /\ Torn(e) /\ peer[e].tracked => Whole(e) \/ Doomed(peerTasks[e])
  /\ \A i \in DOMAIN heard.peer[e] : heard.peer[e][i].status = "Success" =>
       heard.peer[e][i].send = 1 /\ Whole(e)

-----------------------------------------------------------------------------
(* What it says of a payload of known size *)

LastIn(frames) == \E i \in DOMAIN frames : frames[i].last

\* A success was or will be reported to the client of e.
Reported(e) == Says(peerTasks[e], Success) \/ Says(heard.peer[e], Success)

\* A read that comes up short ends the loop; the last chunk is sent only when
\* every one was read.
ReadOut ==
  /\ 1 \in hist.truncated => ~Unsent /\ sender.pc \in {"end", "release", "idle"}
  /\ \A e \in Endpoints : LastIn(link[e].down) \/ Reported(e) =>
       ~Unsent /\ pay[1].read = Chunks /\ 1 \notin hist.truncated

-----------------------------------------------------------------------------
(* What it says of the first outcome that a receiver's client is told *)

SuccessFirst(s) == \E i \in DOMAIN s :
  s[i].status = "Success" /\ \A j \in 1..(i - 1) : s[j].status \notin Final

\* The client of e was told of success first; or of no outcome yet, and it will
\* be told of this one first, or nothing any more.
Settled(e) ==
  \/ SuccessFirst(heard.peer[e])
  \/ /\ ~Says(heard.peer[e], Final)
     /\ \/ link[e].peer = "gone"
        \/ peer[e].tracked /\ SuccessFirst(peerTasks[e])

SettledIn(e) ==
  (Joined(e) /\ Reported(e)) \/ (e \in AckEnabled /\ Acknowledged(e)) => Torn(e) \/ Settled(e)

OutcomeInv ==
  Fresh => /\ \A e \in Endpoints : AttachedWhole(e) /\ SettledIn(e)
           /\ KnownSize => ReadOut

-----------------------------------------------------------------------------
(* Sequences of frames, tasks and reports *)

\* A last chunk in a queue was there before, or is what was appended.
LEMMA LastFrames ==
  ASSUME NEW D \in Seq(DownFrames)
  PROVE  /\ \A f : LastIn(Append(D, f)) => LastIn(D) \/ f.last
         /\ \A rest \in InHand(D) : LastIn(rest) => LastIn(D)
         /\ D # <<>> => /\ LastIn(Tail(D)) => LastIn(D)
                        /\ Head(D).last => LastIn(D)
<1>1. ASSUME NEW f, LastIn(Append(D, f)), ~f.last PROVE LastIn(D)
  <2>1. PICK i \in DOMAIN Append(D, f) : Append(D, f)[i].last
    BY <1>1 DEF LastIn
  <2>2. CASE i = Len(D) + 1
    BY <1>1, <2>1, <2>2
  <2>3. CASE i # Len(D) + 1
    <3>1. i \in DOMAIN D /\ D[i] = Append(D, f)[i]
      BY <2>3
    <3> QED
      BY <2>1, <3>1 DEF LastIn
  <2> QED
    BY <2>2, <2>3
<1>2. ASSUME NEW rest \in InHand(D), LastIn(rest) PROVE LastIn(D)
  <2>1. PICK i \in DOMAIN D \cap {1} : rest = <<D[i]>>
    BY <1>2 DEF InHand, LastIn
  <2> QED
    BY <1>2, <2>1 DEF LastIn
<1>3. ASSUME D # <<>> PROVE (LastIn(Tail(D)) => LastIn(D)) /\ (Head(D).last => LastIn(D))
  <2>1. /\ \A i \in DOMAIN Tail(D) : i + 1 \in DOMAIN D /\ Tail(D)[i] = D[i + 1]
        /\ 1 \in DOMAIN D /\ Head(D) = D[1]
    BY <1>3
  <2> QED
    BY <2>1 DEF LastIn
<1> QED
  BY <1>1, <1>2, <1>3

\* What comes first stays first when more is added.
LEMMA FirstStays ==
  ASSUME NEW T, NEW s \in Seq(T), NEW t \in Seq(T)
  PROVE  /\ SuccessFirst(s) => SuccessFirst(s \o t)
         /\ Doomed(s) => Doomed(s \o t)
<1> DEFINE u == s \o t
           n == Len(s)
<1>1. /\ n \in Nat /\ DOMAIN s = 1..n
      /\ \A i \in 1..n : i \in DOMAIN u /\ u[i] = s[i]
  <2>1. /\ DOMAIN s = 1..Len(s) /\ DOMAIN t = 1..Len(t) /\ Len(s) \in Nat /\ Len(t) \in Nat
        /\ DOMAIN u = 1..(Len(s) + Len(t))
        /\ \A j \in DOMAIN u : u[j] = IF j <= Len(s) THEN s[j] ELSE t[j - Len(s)]
    BY ConcatProperties, LenProperties
  <2> HIDE DEF u
  <2> QED
    BY <2>1
<1> HIDE DEF u, n
<1>2. ASSUME NEW i \in DOMAIN s, NEW j \in 1..i PROVE u[j] = s[j] /\ i \in DOMAIN u
  BY <1>1
<1>3. ASSUME NEW i \in DOMAIN s, NEW j \in 1..(i - 1) PROVE u[j] = s[j]
  BY <1>1
<1>4. ASSUME NEW i \in DOMAIN s PROVE i \in DOMAIN u /\ u[i] = s[i]
  BY <1>1
<1>5. SuccessFirst(s) => SuccessFirst(u)
  BY <1>3, <1>4 DEF SuccessFirst
<1>6. Doomed(s) => Doomed(u)
  BY <1>2, <1>4 DEF Doomed
<1> QED
  BY <1>5, <1>6 DEF u

\* What comes first in t comes first after s when s has no outcome, or no success.
LEMMA FirstAfter ==
  ASSUME NEW T, NEW s \in Seq(T), NEW t \in Seq(T)
  PROVE  /\ ~Says(s, Final) /\ SuccessFirst(t) => SuccessFirst(s \o t)
         /\ ~Says(s, Success) /\ Doomed(t) => Doomed(s \o t)
<1> DEFINE u == s \o t
           n == Len(s)
           m == Len(t)
<1>1. /\ n \in Nat /\ DOMAIN s = 1..n /\ m \in Nat /\ DOMAIN t = 1..m /\ DOMAIN u = 1..(n + m)
      /\ \A j \in DOMAIN u : u[j] = IF j <= n THEN s[j] ELSE t[j - n]
  BY ConcatProperties, LenProperties
<1> HIDE DEF u, n, m
<1>2. ASSUME NEW i \in DOMAIN t PROVE i + n \in DOMAIN u /\ u[i + n] = t[i]
  <2>1. i + n \in DOMAIN u /\ ~(i + n <= n) /\ (i + n) - n = i
    BY <1>1
  <2> QED
    BY <1>1, <2>1
<1>3. ASSUME NEW i \in DOMAIN t, NEW j \in 1..(i + n)
      PROVE  \/ j \in DOMAIN s /\ u[j] = s[j]
             \/ j - n \in 1..i /\ u[j] = t[j - n]
  <2>1. j \in DOMAIN u
    BY <1>1
  <2> QED
    BY <1>1, <2>1
<1>4. ASSUME ~Says(s, Final), SuccessFirst(t) PROVE SuccessFirst(u)
  <2>1. PICK i \in DOMAIN t : t[i].status = "Success" /\ \A j \in 1..(i - 1) : t[j].status \notin Final
    BY <1>4 DEF SuccessFirst
  <2>2. ASSUME NEW j \in 1..((i + n) - 1) PROVE u[j].status \notin Final
    <3>1. j \in 1..(i + n) /\ j # i + n
      BY <1>1
    <3>2. CASE j \in DOMAIN s /\ u[j] = s[j]
      BY <1>4, <3>2 DEF Says
    <3>3. CASE j - n \in 1..i /\ u[j] = t[j - n]
      <4>1. j - n \in 1..(i - 1)
        BY <1>1, <3>1, <3>3
      <4> QED
        BY <2>1, <3>3, <4>1
    <3> QED
      BY <1>3, <3>1, <3>2, <3>3
  <2> QED
    BY <1>2, <2>1, <2>2 DEF SuccessFirst
<1>5. ASSUME ~Says(s, Success), Doomed(t) PROVE Doomed(u)
  <2>1. PICK i \in DOMAIN t : /\ t[i].kind = "update" /\ t[i].status = "Failure"
                              /\ \A j \in 1..i : t[j].status # "Success"
    BY <1>5 DEF Doomed
  <2>2. ASSUME NEW j \in 1..(i + n) PROVE u[j].status # "Success"
    BY <1>3, <1>5, <2>1 DEF Says, Success
  <2> QED
    BY <1>2, <2>1, <2>2 DEF Doomed
<1> QED
  BY <1>4, <1>5 DEF u

\* The first element says what it does, or what comes first follows it.
LEMMA FirstTaken ==
  ASSUME NEW T, NEW s \in Seq(T), s # <<>>
  PROVE  /\ SuccessFirst(s) => \/ Head(s).status = "Success"
                               \/ Head(s).status \notin Final /\ SuccessFirst(Tail(s))
         /\ Doomed(s) => /\ Head(s).status # "Success"
                         /\ \/ Head(s).kind = "update" /\ Head(s).status = "Failure"
                            \/ Doomed(Tail(s))
<1> DEFINE u == Tail(s)
<1>1. /\ Head(s) = s[1] /\ 1 \in DOMAIN s
      /\ \A i \in DOMAIN s : i \in Nat /\ i >= 1 /\ (i = 1 \/ (i - 1 \in DOMAIN u /\ u[i - 1] = s[i]))
      /\ \A i \in DOMAIN s : \A j \in 1..(i - 1) : u[j] = s[j + 1]
  OBVIOUS
<1> HIDE DEF u
<1>2. ASSUME NEW i \in DOMAIN s, i # 1, s[i].status = "Success",
             \A j \in 1..(i - 1) : s[j].status \notin Final
      PROVE  s[1].status \notin Final /\ SuccessFirst(u)
  <2>1. i - 1 \in DOMAIN u /\ u[i - 1] = s[i] /\ 1 \in 1..(i - 1) /\ i \in Nat
    BY <1>1, <1>2
  <2>2. ASSUME NEW j \in 1..((i - 1) - 1) PROVE u[j].status \notin Final
    <3>1. j + 1 \in 1..(i - 1) /\ j \in 1..(i - 1)
      BY <2>1
    <3> QED
      BY <1>1, <1>2, <3>1
  <2> QED
    BY <1>2, <2>1, <2>2 DEF SuccessFirst
<1>3. ASSUME NEW i \in DOMAIN s, s[i].kind = "update", s[i].status = "Failure",
             \A j \in 1..i : s[j].status # "Success"
      PROVE  s[1].status # "Success" /\ (i = 1 \/ Doomed(u))
  <2>1. 1 \in 1..i /\ i \in Nat
    BY <1>1
  <2>2. ASSUME i # 1 PROVE Doomed(u)
    <3>1. i - 1 \in DOMAIN u /\ u[i - 1] = s[i]
      BY <1>1, <2>2
    <3>2. ASSUME NEW j \in 1..(i - 1) PROVE u[j].status # "Success"
      <4>1. j + 1 \in 1..i
        BY <2>1
      <4> QED
        BY <1>1, <1>3, <4>1
    <3> QED
      BY <1>3, <3>1, <3>2 DEF Doomed
  <2> QED
    BY <1>3, <2>1, <2>2
<1> QED
  BY <1>1, <1>2, <1>3 DEF SuccessFirst, Doomed, u

-----------------------------------------------------------------------------
(* Links: a peer does not come back, and the last chunk is written once *)

\* What every step but the writing of a chunk leaves of a link.
Follows(l, m) ==
  /\ m.peer = "connected" => l.peer = "connected"
  /\ l.peer = "gone" => m.peer = "gone"
  /\ LastIn(m.down) => LastIn(l.down)

\* Writing on a link puts at most that frame on it.
LEMMA LinkWritten ==
  ASSUME NEW l \in Links
  PROVE  /\ Follows(l, l)
         /\ \A f : /\ ~f.last => Follows(l, WrittenDown(l, f))
                   /\ Follows(l, WrittenUp(l, f))
                   /\ WrittenDown(l, f).peer = l.peer
                   /\ LastIn(WrittenDown(l, f).down) => LastIn(l.down) \/ f.last
<1>1. l.down \in Seq(DownFrames)
  BY DEF Links
<1>2. ASSUME NEW f
      PROVE  /\ WrittenDown(l, f).peer = l.peer /\ WrittenUp(l, f).peer = l.peer
             /\ WrittenUp(l, f).down = l.down
             /\ WrittenDown(l, f).down \in {l.down, Append(l.down, f)}
  BY DEF WrittenDown, WrittenUp, Links
<1>3. ASSUME NEW f, LastIn(WrittenDown(l, f).down) PROVE LastIn(l.down) \/ f.last
  BY <1>1, <1>2, <1>3, LastFrames
<1> QED
  BY <1>2, <1>3 DEF Follows

\* One link changes.
LEMMA OneLinkFollows ==
  ASSUME IInv, NEW x \in Endpoints, NEW m, link' = [link EXCEPT ![x] = m], Follows(link[x], m),
         NEW e \in Endpoints
  PROVE  Follows(link[e], link'[e])
BY LinkOf, LinkWritten

\* The sender's thread writes only such frames, unless it writes a chunk.
LEMMA SenderFollows ==
  ASSUME IInv, SenderStep, ~DetachAndSend, NEW e \in Endpoints
  PROVE  Follows(link[e], link'[e])
<1>1. link[e] \in Links
  BY LinkOf
<1>2. link' = link \/ \E S, event : Say(S, event)
  <2>1. CASE StopSending \/ \E x \in Endpoints : CheckAck(x)
    BY <2>1 DEF StopSending, CheckAck
  <2> QED
    BY <2>1 DEF SenderStep, TakeSend, NextChunk, ConfirmChunk, AckReceived, AckTimeout, AckInfoErased,
                ChunkDone, PostDestroy, ReleaseHandle
<1>3. ASSUME NEW S, NEW event, Say(S, event) PROVE Follows(link[e], link'[e])
  <2> DEFINE c == Control(event)
  <2>1. ~c.last
    BY DEF Control
  <2>2. link'[e] \in {link[e], WrittenDown(link[e], c)}
    BY <1>3 DEF Say
  <2> HIDE DEF c
  <2> QED
    BY <1>1, <2>1, <2>2, LinkWritten
<1> QED
  BY <1>1, <1>2, <1>3, LinkWritten

\* So does the sender's endpoint manager thread.
LEMMA HostFollows ==
  ASSUME IInv, NEW x \in Endpoints, HostFrame(x) \/ HostConnection(x), NEW e \in Endpoints
  PROVE  Follows(link[e], link'[e])
<1>1. link[x] \in Links /\ link[x].down \in Seq(DownFrames)
  BY LinkOf
<1>2. ~LastIn(<<>>)
  BY DEF LastIn
<1>3. CASE HostFrame(x)
  <2> DEFINE m == [link[x] EXCEPT !.up = Tail(@)]
  <2>1. Follows(link[x], m) /\ link' = [link EXCEPT ![x] = m]
    BY <1>1, <1>3 DEF HostFrame, Follows, Links
  <2> HIDE DEF m
  <2> QED
    BY <2>1, OneLinkFollows
<1>4. CASE CloseHostEnd(x)
  <2>1. PICK rest \in InHand(link[x].up), kept \in {link[x].down, <<>>} :
          link' = [link EXCEPT ![x] = [@ EXCEPT !.host = "leaving", !.up = rest, !.down = kept]]
    BY <1>4 DEF CloseHostEnd
  <2> DEFINE m == [link[x] EXCEPT !.host = "leaving", !.up = rest, !.down = kept]
  <2>2. m.peer = link[x].peer /\ m.down = kept /\ link' = [link EXCEPT ![x] = m]
    BY <1>1, <2>1 DEF Links
  <2> HIDE DEF m
  <2>3. Follows(link[x], m)
    BY <1>2, <2>2 DEF Follows
  <2> QED
    BY <2>2, <2>3, OneLinkFollows
<1>5. CASE HostDisconnected(x)
  <2> DEFINE m == [link[x] EXCEPT !.host = "gone", !.up = <<>>]
  <2>1. Follows(link[x], m) /\ link' = [link EXCEPT ![x] = m]
    BY <1>1, <1>5 DEF HostDisconnected, Follows, Links
  <2> HIDE DEF m
  <2> QED
    BY <2>1, OneLinkFollows
<1>6. CASE BreakLink(x)
  <2> DEFINE m == [link[x] EXCEPT !.broken = TRUE, !.down = <<>>, !.up = <<>>]
  <2>1. m.peer = link[x].peer /\ m.down = <<>> /\ link' = [link EXCEPT ![x] = m]
    BY <1>1, <1>6 DEF BreakLink, Links
  <2> HIDE DEF m
  <2>2. Follows(link[x], m)
    BY <1>2, <2>1 DEF Follows
  <2> QED
    BY <2>1, <2>2, OneLinkFollows
<1> QED
  BY <1>3, <1>4, <1>5, <1>6 DEF HostConnection, HostNotices, HostLeaves

\* So does a receiver.
LEMMA PeerFollows ==
  ASSUME IInv, NEW x \in Endpoints, PeerStep(x), NEW e \in Endpoints
  PROVE  Follows(link[e], link'[e])
<1>1. link[x] \in Links /\ link[x].down \in Seq(DownFrames) /\ link[e] \in Links
  BY LinkOf
<1>2. ~LastIn(<<>>)
  BY DEF LastIn
<1>3. CASE PeerFrame(x)
  <2> DEFINE l == ReadDown(x)
  <2>1. link[x].down # <<>>
    BY <1>3 DEF PeerFrame
  <2>2. l \in Links /\ l.down = Tail(link[x].down) /\ l.peer = link[x].peer
    BY <1>1, <2>1, ReadDownTyped DEF ReadDown, Links, IInv, HostInv
  <2>3. link' = [link EXCEPT ![x] = l] \/ \E g : link' = [link EXCEPT ![x] = WrittenUp(l, g)]
    BY <1>3 DEF PeerFrame, AttachChunk, AttachFails, CreateFails, DropCancelled, DropUnknown,
           ProcessControl, Replied
  <2> HIDE DEF l
  <2>4. Follows(link[x], l)
    BY <1>1, <2>1, <2>2, LastFrames DEF Follows
  <2>5. ASSUME NEW g PROVE Follows(link[x], WrittenUp(l, g))
    BY <2>2, <2>4, LinkWritten DEF Follows
  <2> QED
    BY <2>3, <2>4, <2>5, OneLinkFollows
<1>4. CASE SendPayloadAck(x)
  <2> DEFINE w == WrittenUp(link[x], Ack)
  <2>1. link' = link \/ link' = [link EXCEPT ![x] = w]
    BY <1>4 DEF SendPayloadAck
  <2>2. Follows(link[x], w) /\ Follows(link[e], link[e])
    BY <1>1, LinkWritten
  <2> HIDE DEF w
  <2> QED
    BY <2>1, <2>2, OneLinkFollows
<1>5. CASE PeerStatusStep(x) \/ CancelIncoming(x)
  <2>1. link' = link
    BY <1>5 DEF PeerStatusStep, CancelIncoming
  <2> QED
    BY <1>1, <2>1, LinkWritten
<1>6. CASE ClosePeerEnd(x)
  <2>1. PICK rest \in InHand(link[x].down), kept \in {link[x].up, <<>>} :
          link' = [link EXCEPT ![x] = [@ EXCEPT !.peer = "leaving", !.down = rest, !.up = kept]]
    BY <1>6 DEF ClosePeerEnd
  <2> DEFINE m == [link[x] EXCEPT !.peer = "leaving", !.down = rest, !.up = kept]
  <2>2. m.peer = "leaving" /\ m.down = rest /\ link' = [link EXCEPT ![x] = m]
    BY <1>1, <2>1 DEF Links
  <2>3. link[x].peer = "connected"
    BY <1>6 DEF ClosePeerEnd
  <2> HIDE DEF m
  <2>4. Follows(link[x], m)
    BY <1>1, <2>1, <2>2, <2>3, LastFrames DEF Follows
  <2> QED
    BY <2>2, <2>4, OneLinkFollows
<1>7. CASE PeerDisconnected(x)
  <2> DEFINE m == [link[x] EXCEPT !.peer = "gone", !.down = <<>>]
  <2>1. m.peer = "gone" /\ m.down = <<>> /\ link' = [link EXCEPT ![x] = m]
    BY <1>1, <1>7 DEF PeerDisconnected, Links
  <2> HIDE DEF m
  <2>2. Follows(link[x], m)
    BY <1>2, <2>1 DEF Follows
  <2> QED
    BY <2>1, <2>2, OneLinkFollows
<1> QED
  BY <1>3, <1>4, <1>5, <1>6, <1>7 DEF PeerStep, PeerNotices, PeerLeaves

\* Only the writing of a chunk can add a last one, and it changes no end.
LEMMA LinkStep ==
  ASSUME IInv, [Next]_vars, NEW e \in Endpoints
  PROVE  /\ Joined(e)' => Joined(e)
         /\ link[e].peer = "gone" => link'[e].peer = "gone"
         /\ ~DetachAndSend => (LastIn(link'[e].down) => LastIn(link[e].down))
<1>1. link[e] \in Links
  BY LinkOf
<1>2. CASE DetachAndSend
  <2>1. link'[e].peer = link[e].peer
    BY <1>2, WorkUp DEF SenderStep
  <2> QED
    BY <1>2, <2>1 DEF Joined
<1>3. CASE ~DetachAndSend
  <2>1. ASSUME link' = link PROVE Follows(link[e], link'[e])
    BY <1>1, <2>1, LinkWritten
  <2>2. Follows(link[e], link'[e])
    <3>1. CASE HostStep
      <4>1. link' = link \/ SenderStep \/ \E x \in Endpoints : HostFrame(x)
        <5>1. HostStatusStep \/ TeardownStep => link' = link
          BY DEF HostStatusStep, StatusUpdate, DestroyPendingPayload, NotifyShutdown, TeardownStep,
                 CancelAllPayloads, AwaitBarrier, JoinExecutors
        <5>2. SendPayload \/ CancelOutgoing \/ StopManager => link' = link
          BY DEF SendPayload, CancelOutgoing, StopManager
        <5> QED
          BY <3>1, <5>1, <5>2 DEF HostStep
      <4> QED
        BY <1>3, <2>1, <4>1, SenderFollows, HostFollows
    <3>2. CASE UNCHANGED vars
      BY <2>1, <3>2 DEF vars
    <3> QED
      BY <3>1, <3>2, HostFollows, PeerFollows DEF Next
  <2> QED
    BY <1>3, <2>2 DEF Follows, Joined
<1> QED
  BY <1>2, <1>3

-----------------------------------------------------------------------------
(* What a step changes of the payload of e and of what its client is told *)


\* Only a receiver's reader is cut short.
LEMMA HostTorn ==
  ASSUME IInv, HostStep \/ \E x \in Endpoints : HostConnection(x)
  PROVE  hist'.torn = hist.torn
<1>1. hist' \in {hist, Faulted(hist)} => hist'.torn = hist.torn
  BY HistTorn
<1>2. CASE SendPayload \/ TakeSend \/ AckTimeout
  <2>1. CASE SendPayload
    <3>1. \E S : hist' = [hist EXCEPT !.late = S]
      BY <2>1 DEF SendPayload
    <3> QED
      BY <3>1, HistTorn
  <2>2. CASE TakeSend
    <3>1. hist' = hist \/ \E S : hist' = [hist EXCEPT !.skipped = S]
      BY <2>2 DEF TakeSend
    <3> QED
      BY <3>1, HistTorn
  <2>3. CASE AckTimeout
    <3>1. \E S : hist' = [hist EXCEPT !.unconfirmed = S]
      BY <2>3 DEF AckTimeout
    <3> QED
      BY <3>1, HistTorn
  <2> QED
    BY <1>2, <2>1, <2>2, <2>3
<1>3. CASE DetachAndSend
  <2>1. hist' = hist \/ \E S : hist' = [Faulted(hist) EXCEPT !.truncated = S]
    <3>1. \/ hist' = hist
          \/ \E read \in BOOLEAN :
               hist' = [Faulted(hist) EXCEPT !.truncated = @ \cup {sender.pending}]
      BY <1>3 DEF DetachAndSend
    <3> QED
      BY <3>1
  <2> QED
    BY <2>1, HistTorn
<1>4. CASE \/ NextChunk \/ StopSending \/ AckReceived \/ AckInfoErased \/ ChunkDone \/ PostDestroy
           \/ ReleaseHandle \/ \E e \in Endpoints : ConfirmChunk(e) \/ CheckAck(e)
  BY <1>1, <1>4 DEF NextChunk, StopSending, AckReceived, AckInfoErased, ChunkDone, PostDestroy,
                    ReleaseHandle, ConfirmChunk, CheckAck
<1>5. CASE \/ CancelOutgoing \/ StopManager \/ HostStatusStep \/ TeardownStep
           \/ \E e \in Endpoints : HostFrame(e)
  BY <1>1, <1>5 DEF CancelOutgoing, StopManager, HostStatusStep, StatusUpdate, DestroyPendingPayload,
                    NotifyShutdown, TeardownStep, CancelAllPayloads, AwaitBarrier, JoinExecutors, HostFrame
<1>6. ASSUME NEW x \in Endpoints, HostConnection(x) PROVE hist'.torn = hist.torn
  <2>1. hist' \in {hist, Faulted(hist)} \/ \E S : hist' = [Faulted(hist) EXCEPT !.late = S]
    BY <1>6 DEF HostConnection, HostNotices, HostLeaves, HostDisconnected, BreakLink
  <2> QED
    BY <1>1, <2>1, HistTorn
<1> QED
  BY <1>2, <1>3, <1>4, <1>5, <1>6 DEF HostStep, SenderStep

\* A step that neither reads a frame of e nor tells its client may only announce
\* the end of the connection there.
LEMMA Elsewhere ==
  ASSUME IInv, [Next]_vars, NEW e \in Endpoints, ~PeerFrame(e), ~PeerStatusStep(e)
  PROVE  /\ Torn(e)' <=> Torn(e)
         /\ peer'[e].tracked = peer[e].tracked
         /\ heard'.peer[e] = heard.peer[e]
         /\ \/ peerTasks'[e] = peerTasks[e]
            \/ peerTasks'[e] = peerTasks[e] \o <<PeerDisconnect>> /\ ~Joined(e)'
<1>1. /\ peer[e] \in IncomingPayloads /\ DOMAIN peer = Endpoints
      /\ DOMAIN peerTasks = Endpoints /\ DOMAIN link = Endpoints
  BY LinkOf DEF IInv, PeerTyped
<1>2. heard'.peer[e] = heard.peer[e]
  BY QuietForPeers DEF PeerQuiet
<1>3. CASE UNCHANGED vars
  BY <1>3 DEF vars, Torn
<1>4. CASE (HostStep \/ \E x \in Endpoints : HostConnection(x)) /\ UNCHANGED peerVars
  BY <1>2, <1>4, HostTorn DEF peerVars, Torn
<1>5. ASSUME NEW x \in Endpoints, PeerFrame(x)
      PROVE  (Torn(e)' <=> Torn(e)) /\ peer'[e].tracked = peer[e].tracked /\ peerTasks'[e] = peerTasks[e]
  BY <1>5, FrameRead
<1>6. ASSUME NEW x \in Endpoints, PeerStatusStep(x)
      PROVE  (Torn(e)' <=> Torn(e)) /\ peer'[e].tracked = peer[e].tracked /\ peerTasks'[e] = peerTasks[e]
  <2>1. x # e /\ hist' = hist
    BY <1>6 DEF PeerStatusStep
  <2>2. \/ peer' = peer
        \/ peer' = [peer EXCEPT ![x].tracked = StillTracked(Head(peerTasks[x]).status)]
        \/ peer' = [peer EXCEPT ![x].member = FALSE]
    BY <1>6 DEF PeerStatusStep
  <2>3. peer'[e] = peer[e]
    BY <1>1, <2>1, <2>2
  <2> QED
    BY <1>6, <2>1, <2>3, StatusStepQuiet DEF Torn
<1>7. ASSUME NEW x \in Endpoints, SendPayloadAck(x) \/ CancelIncoming(x) \/ PeerDisconnected(x)
      PROVE  (Torn(e)' <=> Torn(e)) /\ peer'[e].tracked = peer[e].tracked /\ peerTasks'[e] = peerTasks[e]
  <2>1. hist'.torn = hist.torn /\ peerTasks' = peerTasks
    BY <1>7, HistTorn DEF SendPayloadAck, CancelIncoming, PeerDisconnected, peerVars
  <2>2. peer' = peer \/ peer' = [peer EXCEPT ![x].cancelled = TRUE]
    BY <1>7 DEF SendPayloadAck, CancelIncoming, PeerDisconnected, peerVars
  <2>3. peer'[e].tracked = peer[e].tracked
    BY <1>1, <2>2 DEF IncomingPayloads
  <2> QED
    BY <2>1, <2>3 DEF Torn
<1>8. ASSUME NEW x \in Endpoints, PeerNotices(x) \/ PeerLeaves(x)
      PROVE  /\ Torn(e)' <=> Torn(e)
             /\ peer'[e].tracked = peer[e].tracked
             /\ \/ peerTasks'[e] = peerTasks[e]
                \/ peerTasks'[e] = peerTasks[e] \o <<PeerDisconnect>> /\ ~Joined(e)'
  <2>1. hist'.torn = hist.torn /\ peer' = peer /\ ClosePeerEnd(x)
    BY <1>8, HistTorn DEF PeerNotices, PeerLeaves, ClosePeerEnd
  <2>2. peerTasks' = [peerTasks EXCEPT ![x] = @ \o <<PeerDisconnect>>]
    BY <2>1 DEF ClosePeerEnd, Post
  <2>3. link'[x].peer # "connected"
    <3>1. PICK rest \in InHand(link[x].down), kept \in {link[x].up, <<>>} :
            link' = [link EXCEPT ![x] = [@ EXCEPT !.peer = "leaving", !.down = rest, !.up = kept]]
      BY <2>1 DEF ClosePeerEnd
    <3> DEFINE m == [link[x] EXCEPT !.peer = "leaving", !.down = rest, !.up = kept]
    <3>2. m.peer = "leaving" /\ link' = [link EXCEPT ![x] = m]
      BY <3>1, LinkOf DEF Links
    <3> HIDE DEF m
    <3> QED
      BY <1>1, <3>2
  <2>4. CASE x = e
    BY <1>1, <2>1, <2>2, <2>3, <2>4 DEF Joined, Torn
  <2>5. CASE x # e
    BY <1>1, <2>1, <2>2, <2>5 DEF Torn
  <2> QED
    BY <2>4, <2>5
<1>9. ASSUME NEW x \in Endpoints, PeerStep(x)
      PROVE  /\ Torn(e)' <=> Torn(e)
             /\ peer'[e].tracked = peer[e].tracked
             /\ \/ peerTasks'[e] = peerTasks[e]
                \/ peerTasks'[e] = peerTasks[e] \o <<PeerDisconnect>> /\ ~Joined(e)'
  BY <1>5, <1>6, <1>7, <1>8, <1>9 DEF PeerStep
<1> QED
  BY <1>2, <1>3, <1>4, <1>9 DEF Next

\* What the status thread of e does with the first task.
LEMMA FirstTold ==
  ASSUME IInv, NEW e \in Endpoints, PeerStatusStep(e)
  PROVE  LET t == Head(peerTasks[e]) IN
         /\ peerTasks[e] # <<>> /\ peerTasks[e] \in Seq(PeerTasks) /\ heard.peer[e] \in Seq(Reports)
         /\ peerTasks'[e] = Tail(peerTasks[e])
         /\ Torn(e)' <=> Torn(e)
         /\ link' = link
         /\ peer'[e].tracked => peer[e].tracked
         /\ peer[e].tracked /\ ~peer'[e].tracked => t.kind = "update" /\ t.status \in Final
         /\ peer[e].tracked /\ t.kind = "update" /\ t.status \in Final => ~peer'[e].tracked
         /\ \/ heard'.peer[e] = heard.peer[e]
               /\ ~(peer[e].tracked /\ t.kind = "update" /\ link[e].peer # "gone")
            \/ /\ peer[e].tracked /\ link[e].peer # "gone"
               /\ \E r \in Reports : /\ heard'.peer[e] = Append(heard.peer[e], r)
                                     /\ r.send = t.send /\ r.status = t.status
<1> DEFINE t == Head(peerTasks[e])
           r == [kind |-> t.kind, of |-> peer[e].inst, send |-> t.send, status |-> t.status]
<1>1. /\ peer[e] \in IncomingPayloads /\ DOMAIN peer = Endpoints /\ DOMAIN peerTasks = Endpoints
      /\ heard = [host |-> heard.host, peer |-> heard.peer] /\ DOMAIN heard.peer = Endpoints
      /\ t \in PeerTasks /\ peer[e].inst \in Nat
      /\ peerTasks[e] \in Seq(PeerTasks) /\ heard.peer[e] \in Seq(Reports)
  BY PeerTaskOf DEF IInv, PeerTyped, HostInv, HeardTyped, IncomingPayloads, PeerStatusStep
<1>2. /\ peerTasks[e] # <<>> /\ peerTasks' = [peerTasks EXCEPT ![e] = Tail(@)]
      /\ link' = link /\ hist' = hist
  BY DEF PeerStatusStep
<1>3. r \in Reports /\ r.send = t.send /\ r.status = t.status
  BY <1>1 DEF Reports, PeerTasks
<1>4. PeerTold(e, t) =>
        \/ link[e].peer = "gone" /\ heard'.peer[e] = heard.peer[e]
        \/ link[e].peer # "gone" /\ heard'.peer[e] = Append(heard.peer[e], r)
  BY <1>1 DEF PeerTold
<1>5. CASE (t.kind = "payload" \/ ~peer[e].tracked) /\ UNCHANGED <<peer, heard>>
  BY <1>1, <1>2, <1>5 DEF Torn
<1>6. CASE t.kind = "update" /\ peer[e].tracked /\ PeerTold(e, t)
           /\ peer' = [peer EXCEPT ![e].tracked = StillTracked(t.status)]
  <2> DEFINE tracked == StillTracked(t.status)
  <2>1. tracked <=> t.status \notin Final
    BY DEF StillTracked
  <2>2. peer'[e].tracked = tracked
    <3> HIDE DEF tracked
    <3>1. peer' = [peer EXCEPT ![e].tracked = tracked]
      BY <1>6 DEF tracked
    <3> QED
      BY <1>1, <3>1 DEF IncomingPayloads
  <2> HIDE DEF r, tracked
  <2> QED
    BY <1>1, <1>2, <1>3, <1>4, <1>6, <2>1, <2>2 DEF Torn
<1>7. CASE /\ t.kind = "disconnect" /\ peer[e].tracked
           /\ \/ PeerTold(e, t) /\ peer' = [peer EXCEPT ![e].member = FALSE]
              \/ UNCHANGED <<peer, heard>>
  <2>1. peer'[e].tracked = peer[e].tracked
    BY <1>1, <1>7 DEF IncomingPayloads
  <2> HIDE DEF r
  <2> QED
    BY <1>1, <1>2, <1>3, <1>4, <1>7, <2>1 DEF Torn
<1> QED
  BY <1>5, <1>6, <1>7 DEF PeerStatusStep

-----------------------------------------------------------------------------
(* What the reading of a frame of e adds *)

\* A new incoming payload is announced before anything else of it.
LEMMA AnnouncedFirst ==
  ASSUME NEW p \in IncomingPayloads, NEW f
  PROVE  /\ Announced(p, f) \in Seq(PeerTasks)
         /\ \A i \in DOMAIN Announced(p, f) : Announced(p, f)[i].status = "InProgress"
<1> DEFINE o == OnPayload(p)
           a == Announced(p, f)
<1>1. o \in PeerTasks /\ o.status = "InProgress"
  BY PeerTaskTyped DEF OnPayload
<1>2. a = <<>> \/ a = <<o>>
  BY DEF Announced
<1> HIDE DEF o, a
<1>3. <<>> \in Seq(PeerTasks) /\ <<o>> \in Seq(PeerTasks)
  BY <1>1
<1>4. a \in Seq(PeerTasks) /\ \A i \in DOMAIN a : a[i].status = "InProgress"
  <2>1. CASE a = <<>>
    BY <1>3, <2>1
  <2>2. CASE a = <<o>>
    <3>1. DOMAIN a = {1} /\ a[1] = o
      BY <2>2
    <3> QED
      BY <1>1, <1>3, <2>2, <3>1
  <2> QED
    BY <1>2, <2>1, <2>2
<1> QED
  BY <1>4 DEF a

\* The tasks t that it posts, of which the last may be the outcome.
LEMMA FramePosts ==
  ASSUME IInv, NEW e \in Endpoints, PeerFrame(e), NEW b \in Nat, Arrival(e, b)
  PROVE  \E t \in Seq(PeerTasks) :
           /\ peerTasks[e] \in Seq(PeerTasks) /\ peerTasks'[e] = peerTasks[e] \o t
           /\ Says(t, Success) => /\ Head(link[e].down).type = "data"
                                  /\ Head(link[e].down).last /\ AttachChunk(e, Head(link[e].down))
                                  /\ SuccessFirst(t) /\ peer'[e].tracked
           /\ \A i \in DOMAIN t : t[i].status = "Success" => t[i].kind = "update" /\ t[i].send = 1
           /\ Torn(e) => Torn(e)'
           /\ Torn(e)' => Torn(e) \/ (Doomed(t) /\ ~Says(t, Success))
           /\ peer[e].tracked => peer'[e].tracked
           /\ Torn(e) /\ peer'[e].tracked => peer[e].tracked
<1> DEFINE f == Head(link[e].down)
           p == Incoming(e, f)
           old == peerTasks[e]
<1>1. /\ link[e].down \in Seq(DownFrames) /\ link[e].down # <<>> /\ f \in DownFrames
      /\ DOMAIN peerTasks = Endpoints /\ DOMAIN peer = Endpoints /\ old \in Seq(PeerTasks)
      /\ peer[e] \in IncomingPayloads
  BY LinkOf, HeadTailProperties DEF PeerFrame, IInv, PeerTyped
<1>2. /\ \A S : [hist EXCEPT !.whole = S].torn = hist.torn
      /\ \A S : [Faulted(hist) EXCEPT !.torn = S].torn = S
      /\ Faulted(hist).torn = hist.torn
  BY DEF IInv, HostInv, HistTyped, Histories, Faulted
<1>3. ASSUME NEW t \in Seq(PeerTasks), Post(e, t) PROVE peerTasks'[e] = old \o t
  BY <1>1, <1>3 DEF Post
<1>4. ASSUME UNCHANGED <<peer, peerTasks>>, hist'.torn = hist.torn
      PROVE  /\ <<>> \in Seq(PeerTasks) /\ peerTasks'[e] = old \o <<>> /\ ~Says(<<>>, Success)
             /\ DOMAIN <<>> = {} /\ peer'[e] = peer[e] /\ (Torn(e)' <=> Torn(e))
  BY <1>1, <1>4 DEF Says, Torn
<1>5. ASSUME NEW q \in IncomingPayloads, NEW status \in Statuses \ Success
      PROVE  /\ <<PeerUpdate(q, status)>> \in Seq(PeerTasks)
             /\ ~Says(<<PeerUpdate(q, status)>>, Success)
             /\ \A i \in DOMAIN <<PeerUpdate(q, status)>> : <<PeerUpdate(q, status)>>[i].status # "Success"
  <2>1. PeerUpdate(q, status) \in PeerTasks /\ PeerUpdate(q, status).status = status
    BY PeerTaskTyped DEF PeerUpdate
  <2> QED
    BY <2>1 DEF Says, Success
<1>6. CASE f.type # "data"
  <2>1. ProcessControl(e, f)
    BY <1>6 DEF PeerFrame
  <2> DEFINE status == IF f.type = "canceled" THEN "Canceled" ELSE "Failure"
             t == IF peer[e].tracked THEN <<PeerUpdate(peer[e], status)>> ELSE <<>>
  <2>2. peer' = peer /\ hist' = hist /\ Post(e, t)
    BY <2>1 DEF ProcessControl
  <2>3. status \in Statuses \ Success
    BY DEF Statuses, Final, Success
  <2> HIDE DEF status
  <2>4. t \in Seq(PeerTasks) /\ ~Says(t, Success) /\ \A i \in DOMAIN t : t[i].status # "Success"
    BY <1>1, <1>5, <2>3 DEF Says
  <2> HIDE DEF t
  <2> QED
    BY <1>1, <1>3, <2>2, <2>4 DEF Torn
<1>7. CASE f.type = "data"
  <2>1. /\ f.chunk = b /\ p \in IncomingPayloads
        /\ b = 0 => p.tracked /\ ~p.cancelled /\ p.send = 1 /\ ~peer[e].tracked /\ ~Torn(e)
        /\ b # 0 => p = peer[e]
        /\ p.tracked => p.send = 1
    BY <1>7, DataFrame
  <2>2. CASE AttachChunk(e, f)
    <3> DEFINE g == [p EXCEPT !.got = @ \cup {f.chunk}]
               status == IF f.last THEN "Success" ELSE "InProgress"
               a == Announced(g, f)
               u == PeerUpdate(g, status)
               t == a \o <<u>>
    <3>1. /\ peer' = [peer EXCEPT ![e] = g] /\ Post(e, t) /\ p.tracked
          /\ hist'.torn = hist.torn
      BY <1>2, <2>2 DEF AttachChunk
    <3>2. g \in IncomingPayloads /\ g.tracked = p.tracked /\ g.send = p.send
      BY <1>1, <2>1 DEF IncomingPayloads, DownFrames, Frames
    <3>3. status \in Statuses /\ "InProgress" \notin Success
      BY DEF Statuses, Final, Success
    <3> HIDE DEF g, status
    <3>4. t \in Seq(PeerTasks) /\ (Says(t, Success) <=> status \in Success)
      BY <3>2, <3>3, AnnouncedTyped, SaysUpdate
    <3>5. /\ a \in Seq(PeerTasks) /\ <<u>> \in Seq(PeerTasks)
          /\ u.status = status /\ u.kind = "update" /\ u.send = 1
          /\ \A i \in DOMAIN a : a[i].status = "InProgress"
      <4>1. u \in PeerTasks
        BY <3>2, <3>3, PeerTaskTyped
      <4>2. u.status = status /\ u.kind = "update" /\ u.send = 1
        BY <2>1, <3>1, <3>2 DEF PeerUpdate
      <4>3. a \in Seq(PeerTasks) /\ \A i \in DOMAIN a : a[i].status = "InProgress"
        BY <3>2, AnnouncedFirst
      <4> HIDE DEF u, a
      <4> QED
        BY <4>1, <4>2, <4>3
    <3> HIDE DEF a, u
    <3>6. ASSUME NEW i \in DOMAIN t PROVE t[i] = u \/ t[i].status = "InProgress"
      <4>1. (i \in DOMAIN a /\ t[i] = a[i]) \/ t[i] = u
        BY <3>5
      <4> QED
        BY <3>5, <4>1
    <3>7. Says(t, Success) => f.last /\ SuccessFirst(t)
      <4>1. ASSUME Says(t, Success) PROVE status = "Success" /\ f.last
        BY <3>4, <4>1 DEF Success, status
      <4>2. ~Says(a, Final)
        BY <3>5 DEF Says, Final
      <4>3. u.status = "Success" => SuccessFirst(<<u>>)
        BY DEF SuccessFirst
      <4> QED
        BY <3>5, <4>1, <4>2, <4>3, FirstAfter
    <3>8. \A i \in DOMAIN t : t[i].status = "Success" => t[i].kind = "update" /\ t[i].send = 1
      BY <3>5, <3>6
    <3> HIDE DEF t
    <3>9. peer'[e].tracked /\ peerTasks'[e] = old \o t /\ (Torn(e)' <=> Torn(e))
      BY <1>1, <1>3, <3>1, <3>2, <3>4 DEF Torn
    <3>10. Torn(e) => peer[e].tracked
      BY <2>1, <3>1
    <3> QED
      BY <1>1, <1>7, <2>2, <3>4, <3>7, <3>8, <3>9, <3>10
  <2>3. CASE AttachFails(e, f)
    <3> DEFINE a == Announced(p, f)
               u == PeerUpdate(p, "Failure")
               t == a \o <<u>>
    <3>1. /\ peer' = [peer EXCEPT ![e] = p] /\ Post(e, t) /\ p.tracked
          /\ hist'.torn = hist.torn \cup {<<p.send, e>>}
      BY <1>2, <2>3 DEF AttachFails
    <3>2. "Failure" \in Statuses /\ "Failure" \notin Success /\ "InProgress" \notin Success
      BY DEF Statuses, Final, Success
    <3>3. t \in Seq(PeerTasks) /\ ~Says(t, Success)
      BY <2>1, <3>2, AnnouncedTyped, SaysUpdate
    <3>4. Doomed(t)
      <4>1. u \in PeerTasks
        BY <2>1, <3>2, PeerTaskTyped
      <4>2. u.status = "Failure" /\ u.kind = "update"
        BY DEF PeerUpdate
      <4>3. a \in Seq(PeerTasks) /\ \A i \in DOMAIN a : a[i].status = "InProgress"
        BY <2>1, AnnouncedFirst
      <4> HIDE DEF u, a
      <4>4. <<u>> \in Seq(PeerTasks) /\ ~Says(a, Success)
        BY <4>1, <4>3 DEF Says, Success
      <4>5. Doomed(<<u>>)
        BY <4>2 DEF Doomed
      <4> QED
        BY <4>3, <4>4, <4>5, FirstAfter
    <3>5. \A i \in DOMAIN t : t[i].status # "Success"
      BY <3>3 DEF Says, Success
    <3> HIDE DEF t
    <3>6. /\ peer'[e].tracked /\ peerTasks'[e] = old \o t /\ (Torn(e) => Torn(e)')
          /\ Torn(e) => peer[e].tracked
      BY <1>1, <1>3, <2>1, <3>1, <3>3 DEF Torn
    <3> QED
      BY <1>1, <3>3, <3>4, <3>5, <3>6
  <2>4. CASE CreateFails(e, f) \/ DropUnknown(e, f)
    <3>1. UNCHANGED <<peer, peerTasks>> /\ hist'.torn = hist.torn
      BY <1>2, <2>4 DEF CreateFails, DropUnknown, peerVars
    <3> QED
      BY <1>1, <1>4, <3>1
  <2>5. CASE DropCancelled(e, f)
    <3> DEFINE t == <<PeerUpdate(p, "Canceled")>>
    <3>1. peer' = peer /\ hist' = hist /\ Post(e, t)
      BY <2>5 DEF DropCancelled
    <3>2. "Canceled" \in Statuses \ Success
      BY DEF Statuses, Final, Success
    <3>3. t \in Seq(PeerTasks) /\ ~Says(t, Success) /\ \A i \in DOMAIN t : t[i].status # "Success"
      BY <1>5, <2>1, <3>2
    <3> HIDE DEF t
    <3> QED
      BY <1>1, <1>3, <3>1, <3>3 DEF Torn
  <2> QED
    BY <1>7, <2>2, <2>3, <2>4, <2>5 DEF PeerFrame
<1> QED
  BY <1>6, <1>7

\* Every task in u is one of s or t.
From(u, s, t) ==
  \A i \in DOMAIN u : (\E j \in DOMAIN s : u[i] = s[j]) \/ (\E j \in DOMAIN t : u[i] = t[j])

\* Tasks posted behind a queue are found from there on.
LEMMA PostedFrom ==
  ASSUME NEW T, NEW s \in Seq(T), NEW t \in Seq(T)
  PROVE  From(s \o t, s, t)
<1> DEFINE u == s \o t
<1>1. /\ DOMAIN s = 1..Len(s) /\ DOMAIN t = 1..Len(t) /\ Len(s) \in Nat /\ Len(t) \in Nat
      /\ DOMAIN u = 1..(Len(s) + Len(t))
      /\ \A j \in DOMAIN u : u[j] = IF j <= Len(s) THEN s[j] ELSE t[j - Len(s)]
  BY ConcatProperties, LenProperties
<1> HIDE DEF u
<1>2. ASSUME NEW i \in DOMAIN u
      PROVE  (\E j \in DOMAIN s : u[i] = s[j]) \/ (\E j \in DOMAIN t : u[i] = t[j])
  <2>1. CASE i <= Len(s)
    <3>1. i \in DOMAIN s /\ u[i] = s[i]
      BY <1>1, <2>1
    <3> QED
      BY <3>1
  <2>2. CASE ~(i <= Len(s))
    <3>1. i - Len(s) \in DOMAIN t /\ u[i] = t[i - Len(s)]
      BY <1>1, <2>2
    <3> QED
      BY <3>1
  <2> QED
    BY <2>1, <2>2
<1> QED
  BY <1>2 DEF From, u

\* The end of the connection is no success.
LEMMA DisconnectSays ==
  /\ <<PeerDisconnect>> \in Seq(PeerTasks) /\ ~Says(<<PeerDisconnect>>, Success)
  /\ \A i \in DOMAIN <<PeerDisconnect>> : <<PeerDisconnect>>[i].status # "Success"
<1> DEFINE d == PeerDisconnect
<1>1. d \in PeerTasks /\ d.status # "Success"
  BY DEF PeerDisconnect, PeerTasks, Kinds, Statuses, Final
<1> HIDE DEF d
<1>2. <<d>> \in Seq(PeerTasks) /\ ~Says(<<d>>, Success) /\ \A i \in DOMAIN <<d>> : <<d>>[i].status # "Success"
  BY <1>1 DEF Says, Success
<1> QED
  BY <1>2 DEF d

-----------------------------------------------------------------------------
(* Success is reported only of a payload that was attached in full *)

\* A payload attached in full stays so unless a frame is read.
LEMMA AttachedKept ==
  ASSUME IInv, [Next]_vars, NEW e \in Endpoints, AttachedWhole(e), ~PeerFrame(e)
  PROVE  AttachedWhole(e)'
<1>1. Whole(e) => Whole(e)'
  BY ReceivedStays
<1>2. CASE PeerStatusStep(e)
  <2> DEFINE s == peerTasks[e]
             t == Head(s)
             told == heard'.peer[e]
  <2>1. /\ s # <<>> /\ s \in Seq(PeerTasks) /\ heard.peer[e] \in Seq(Reports)
        /\ peerTasks'[e] = Tail(s) /\ (Torn(e)' <=> Torn(e))
        /\ peer'[e].tracked => peer[e].tracked
        /\ peer[e].tracked /\ t.kind = "update" /\ t.status \in Final => ~peer'[e].tracked
    BY <1>2, FirstTold
  <2>2. \/ told = heard.peer[e]
        \/ /\ peer[e].tracked
           /\ \E r \in Reports : /\ told = Append(heard.peer[e], r)
                                 /\ r.send = t.send /\ r.status = t.status
    BY <1>2, FirstTold
  <2>3. /\ 1 \in DOMAIN s /\ t = s[1]
        /\ \A i \in DOMAIN Tail(s) : i + 1 \in DOMAIN s /\ Tail(s)[i] = s[i + 1]
    BY <2>1
  <2>4. Says(s, Success) <=> t.status = "Success" \/ Says(Tail(s), Success)
    BY <2>1, SaysHead DEF Success
  <2>5. Doomed(s) => /\ t.status # "Success"
                     /\ (t.kind = "update" /\ t.status = "Failure") \/ Doomed(Tail(s))
    BY <2>1, FirstTaken
  <2>6. /\ \A i \in DOMAIN s : s[i].status = "Success" => s[i].kind = "update" /\ s[i].send = 1
        /\ Says(s, Success) => Whole(e) \/ Torn(e)
        /\ Torn(e) /\ peer[e].tracked => Whole(e) \/ Doomed(s)
        /\ \A i \in DOMAIN heard.peer[e] : heard.peer[e][i].status = "Success" =>
             heard.peer[e][i].send = 1 /\ Whole(e)
    BY DEF AttachedWhole
  <2> HIDE DEF s, t
  <2>7. \A i \in DOMAIN peerTasks'[e] : peerTasks'[e][i].status = "Success" =>
          peerTasks'[e][i].kind = "update" /\ peerTasks'[e][i].send = 1
    BY <2>1, <2>3, <2>6
  <2>8. Says(peerTasks'[e], Success) => Whole(e)' \/ Torn(e)'
    BY <1>1, <2>1, <2>4, <2>6
  <2>9. Torn(e)' /\ peer'[e].tracked => Whole(e)' \/ Doomed(peerTasks'[e])
    BY <1>1, <2>1, <2>5, <2>6 DEF Final
  <2>10. \A i \in DOMAIN told : told[i].status = "Success" => told[i].send = 1 /\ Whole(e)'
    <3>1. CASE told = heard.peer[e]
      BY <1>1, <2>6, <3>1
    <3>2. ASSUME NEW r \in Reports, told = Append(heard.peer[e], r), peer[e].tracked,
                 r.send = t.send, r.status = t.status,
                 NEW i \in DOMAIN told, told[i].status = "Success"
          PROVE  told[i].send = 1 /\ Whole(e)'
      <4>1. (i \in DOMAIN heard.peer[e] /\ told[i] = heard.peer[e][i]) \/ told[i] = r
        BY <2>1, <3>2
      <4>2. t.status = "Success" => t.send = 1 /\ Whole(e)
        BY <2>3, <2>4, <2>5, <2>6, <3>2
      <4> HIDE DEF told
      <4> QED
        BY <1>1, <2>6, <3>2, <4>1, <4>2
    <3> QED
      BY <2>2, <3>1, <3>2
  <2> QED
    BY <2>7, <2>8, <2>9, <2>10 DEF AttachedWhole
<1>3. CASE ~PeerStatusStep(e)
  <2> DEFINE s == peerTasks[e]
             d == <<PeerDisconnect>>
  <2>1. /\ Torn(e)' <=> Torn(e)
        /\ peer'[e].tracked = peer[e].tracked
        /\ heard'.peer[e] = heard.peer[e]
        /\ peerTasks'[e] = s \/ peerTasks'[e] = s \o d
    BY <1>3, Elsewhere
  <2>2. CASE peerTasks'[e] = s
    BY <1>1, <2>1, <2>2 DEF AttachedWhole
  <2>3. CASE peerTasks'[e] = s \o d
    <3>1. s \in Seq(PeerTasks) /\ d \in Seq(PeerTasks) /\ ~Says(d, Success)
          /\ \A i \in DOMAIN d : d[i].status # "Success"
      BY DisconnectSays DEF IInv, PeerTyped
    <3> HIDE DEF d
    <3>2. \A i \in DOMAIN (s \o d) : (s \o d)[i].status = "Success" =>
            \E j \in DOMAIN s : (s \o d)[i] = s[j]
      BY <3>1
    <3>3. (Says(s \o d, Success) => Says(s, Success)) /\ (Doomed(s) => Doomed(s \o d))
      BY <3>1, SaysPosted, FirstStays
    <3> DEFINE u == s \o d
    <3>4. /\ \A i \in DOMAIN u : u[i].status = "Success" => \E j \in DOMAIN s : u[i] = s[j]
          /\ Says(u, Success) => Says(s, Success)
          /\ Doomed(s) => Doomed(u)
          /\ peerTasks'[e] = u
      BY <2>3, <3>2, <3>3
    <3> HIDE DEF u
    <3> QED
      BY <1>1, <2>1, <3>4 DEF AttachedWhole
  <2> QED
    BY <2>1, <2>2, <2>3
<1> QED
  BY <1>2, <1>3

\* A frame read leaves it in full: the bytes arrive in order.
LEMMA AttachedRead ==
  ASSUME IInv, [Next]_vars, NEW e \in Endpoints, AttachedWhole(e), PeerFrame(e),
         NEW b \in Nat, Arrival(e, b)
  PROVE  AttachedWhole(e)'
<1> DEFINE s == peerTasks[e]
           f == Head(link[e].down)
<1>1. Whole(e) => Whole(e)'
  BY ReceivedStays
<1>2. PICK t \in Seq(PeerTasks) :
        /\ s \in Seq(PeerTasks) /\ peerTasks'[e] = s \o t
        /\ Says(t, Success) => f.type = "data" /\ f.last /\ AttachChunk(e, f)
        /\ \A i \in DOMAIN t : t[i].status = "Success" => t[i].kind = "update" /\ t[i].send = 1
        /\ Torn(e) => Torn(e)'
        /\ Torn(e)' => Torn(e) \/ (Doomed(t) /\ ~Says(t, Success))
        /\ Torn(e) /\ peer'[e].tracked => peer[e].tracked
  BY FramePosts
<1>3. heard' = heard
  BY FrameRead
<1>4. Says(t, Success) => Whole(e)' \/ Torn(e)'
  BY <1>2, LastAttached
<1> DEFINE u == s \o t
<1>5. /\ From(u, s, t)
      /\ Says(u, Success) <=> Says(s, Success) \/ Says(t, Success)
      /\ Doomed(s) => Doomed(u)
      /\ ~Says(s, Success) /\ Doomed(t) => Doomed(u)
      /\ peerTasks'[e] = u
  <2>1. From(u, s, t)
    BY <1>2, PostedFrom
  <2>2. Says(u, Success) <=> Says(s, Success) \/ Says(t, Success)
    BY <1>2, SaysPosted
  <2>3. Doomed(s) => Doomed(u)
    BY <1>2, FirstStays
  <2>4. ~Says(s, Success) /\ Doomed(t) => Doomed(u)
    BY <1>2, FirstAfter
  <2>5. peerTasks'[e] = u
    BY <1>2
  <2> HIDE DEF u
  <2> QED
    BY <2>1, <2>2, <2>3, <2>4, <2>5
<1> HIDE DEF u, f
<1>6. /\ \A i \in DOMAIN s : s[i].status = "Success" => s[i].kind = "update" /\ s[i].send = 1
      /\ Says(s, Success) => Whole(e) \/ Torn(e)
      /\ Torn(e) /\ peer[e].tracked => Whole(e) \/ Doomed(s)
  BY DEF AttachedWhole
<1>7. \A i \in DOMAIN u : u[i].status = "Success" => u[i].kind = "update" /\ u[i].send = 1
  BY <1>2, <1>5, <1>6 DEF From
<1>8. Says(u, Success) => Whole(e)' \/ Torn(e)'
  BY <1>1, <1>2, <1>4, <1>5, <1>6
<1>9. Torn(e)' /\ peer'[e].tracked => Whole(e)' \/ Doomed(u)
  BY <1>1, <1>2, <1>5, <1>6
<1> QED
  BY <1>1, <1>3, <1>5, <1>7, <1>8, <1>9 DEF AttachedWhole

\* So every step keeps it.
LEMMA AttachedInv ==
  ASSUME IInv, Arriving, [Next]_vars, NEW e \in Endpoints, AttachedWhole(e)
  PROVE  AttachedWhole(e)'
BY AttachedKept, AttachedRead DEF Arriving

-----------------------------------------------------------------------------
(* The last chunk of a payload of known size: what other steps leave *)

Ended == sender.pc \in {"end", "release", "idle"}

\* Other notes in the history leave whether the file was cut short.
LEMMA HistTruncated ==
  ASSUME IInv
  PROVE  /\ Faulted(hist).truncated = hist.truncated
         /\ \A S : /\ [Faulted(hist) EXCEPT !.late = S].truncated = hist.truncated
                   /\ [hist EXCEPT !.late = S].truncated = hist.truncated
                   /\ [hist EXCEPT !.skipped = S].truncated = hist.truncated
                   /\ [hist EXCEPT !.unconfirmed = S].truncated = hist.truncated
         /\ \A y : /\ [hist EXCEPT !.whole = @ \cup {y}].truncated = hist.truncated
                   /\ [Faulted(hist) EXCEPT !.torn = @ \cup {y}].truncated = hist.truncated
BY DEF IInv, HostInv, HistTyped, Histories, Faulted

\* Steps of others leave the sender's thread, and what it has read.
LEMMA OthersLeave ==
  ASSUME IInv, [Next]_vars, ~SenderStep, ~SendPayload
  PROVE  /\ sender' = sender /\ host'.sends = host.sends
         /\ \A k \in Sends : pay'[k].read = pay[k].read
         /\ hist'.truncated = hist.truncated
<1>1. hist' \in {hist, Faulted(hist)} => hist'.truncated = hist.truncated
  BY HistTruncated
<1>2. pay' = pay => \A k \in Sends : pay'[k].read = pay[k].read
  OBVIOUS
<1>3. CASE UNCHANGED vars
  BY <1>3 DEF vars
<1>4. CASE CancelOutgoing \/ StopManager \/ TeardownStep
  <2> DEFINE w == [pay[host.tracked] EXCEPT !.cancelled = TRUE, !.closed = TRUE]
  <2>1. /\ sender' = sender /\ hist' \in {hist, Faulted(hist)}
        /\ \/ pay' = pay
           \/ host.tracked # 0 /\ pay' = [pay EXCEPT ![host.tracked].cancelled = TRUE]
           \/ host.tracked # 0 /\ pay' = [pay EXCEPT ![host.tracked] = w]
    BY <1>4 DEF CancelOutgoing, StopManager, TeardownStep, CancelAllPayloads, AwaitBarrier, JoinExecutors
  <2>2. host'.sends = host.sends
    BY <1>4 DEF CancelOutgoing, StopManager, TeardownStep, CancelAllPayloads, AwaitBarrier, JoinExecutors,
                IInv, HostInv, HostTyped, Hosts
  <2>3. ASSUME NEW k \in Sends PROVE pay'[k].read = pay[k].read
    <3>1. pay[k] \in Payloads /\ DOMAIN pay = Sends /\ (host.tracked # 0 => pay[host.tracked] \in Payloads)
      BY SentTyped
    <3>2. CASE host.tracked # 0 /\ pay' = [pay EXCEPT ![host.tracked].cancelled = TRUE]
      BY <3>1, <3>2 DEF Payloads
    <3>3. CASE host.tracked # 0 /\ pay' = [pay EXCEPT ![host.tracked] = w]
      <4>1. w.read = pay[host.tracked].read
        BY <3>1, <3>3 DEF Payloads
      <4> HIDE DEF w
      <4> QED
        BY <3>1, <3>3, <4>1
    <3> QED
      BY <2>1, <3>2, <3>3
  <2> QED
    BY <1>1, <2>1, <2>2, <2>3
<1>5. CASE HostStatusStep
  <2> DEFINE q == host.tracked
             S == DOMAIN Head(hostTasks).outcome \cap pay[q].endpoints
             F == {e \in S : Head(hostTasks).outcome[e] \in Final}
  <2>1. /\ sender' = sender /\ hist' = hist
        /\ pay' = pay \/ (q # 0 /\ pay' = Removed(q, F))
    BY <1>5 DEF HostStatusStep, StatusUpdate, ApplyUpdate, DestroyPendingPayload, NotifyShutdown
  <2>2. host'.sends = host.sends
    BY <1>5 DEF HostStatusStep, StatusUpdate, DestroyPendingPayload, NotifyShutdown,
                IInv, HostInv, HostTyped, Hosts
  <2>3. ASSUME NEW k \in Sends, q # 0, pay' = Removed(q, F) PROVE pay'[k].read = pay[k].read
    <3> HIDE DEF F
    <3>1. q \in Sends
      BY <2>3, SentTyped
    <3> QED
      BY <2>3, <3>1, SentTyped DEF Removed, Payloads
  <2> HIDE DEF F, q
  <2> QED
    BY <1>1, <1>2, <2>1, <2>2, <2>3
<1>6. ASSUME NEW x \in Endpoints, HostFrame(x)
      PROVE  /\ sender' = sender /\ host'.sends = host.sends
             /\ \A k \in Sends : pay'[k].read = pay[k].read
             /\ hist'.truncated = hist.truncated
  <2> DEFINE q == host.tracked
             status == Head(link[x].up).type
             acked == pay[q].acked \cup {x}
  <2>1. /\ UNCHANGED <<host, sender, hist>>
        /\ \/ pay' = pay
           \/ pay' = [pay EXCEPT ![q].acked = acked]
           \/ pay' = [pay EXCEPT ![q].status[x] = status]
    BY <1>6 DEF HostFrame
  <2> HIDE DEF q, status, acked
  <2>2. ASSUME NEW k \in Sends PROVE pay'[k].read = pay[k].read
    <3>1. pay[k] \in Payloads /\ DOMAIN pay = Sends
      BY SentTyped
    <3> QED
      BY <2>1, <3>1 DEF Payloads
  <2> QED
    BY <2>1, <2>2
<1>7. ASSUME NEW x \in Endpoints, HostConnection(x)
      PROVE  UNCHANGED <<pay, host, sender>> /\ hist'.truncated = hist.truncated
  <2>1. /\ UNCHANGED <<pay, host, sender>>
        /\ hist' \in {hist, Faulted(hist)} \/ \E S : hist' = [Faulted(hist) EXCEPT !.late = S]
    BY <1>7 DEF HostConnection, HostNotices, HostLeaves, HostDisconnected, BreakLink, CloseHostEnd
  <2> QED
    BY <1>1, <2>1, HistTruncated
<1>8. ASSUME NEW x \in Endpoints, PeerStep(x)
      PROVE  UNCHANGED <<pay, host, sender>> /\ hist'.truncated = hist.truncated
  <2>1. UNCHANGED <<pay, host, sender>>
    BY <1>8 DEF PeerStep, PeerFrame, SendPayloadAck, PeerStatusStep, CancelIncoming, PeerNotices,
           PeerLeaves, PeerDisconnected, ClosePeerEnd, hostVars
  <2>2. CASE PeerFrame(x)
    <3> DEFINE f == Head(link[x].down)
    <3>1. CASE AttachChunk(x, f)
      <4>1. hist' = hist \/ \E y : hist' = [hist EXCEPT !.whole = @ \cup {y}]
        BY <3>1 DEF AttachChunk
      <4>2. ASSUME NEW y, hist' = [hist EXCEPT !.whole = @ \cup {y}]
            PROVE  hist'.truncated = hist.truncated
        BY <4>2, HistTruncated
      <4> QED
        BY <2>1, <4>1, <4>2
    <3>2. CASE AttachFails(x, f)
      <4>1. \E y : hist' = [Faulted(hist) EXCEPT !.torn = @ \cup {y}]
        BY <3>2 DEF AttachFails
      <4> QED
        BY <2>1, <4>1, HistTruncated
    <3>3. CASE CreateFails(x, f) \/ DropCancelled(x, f) \/ DropUnknown(x, f) \/ ProcessControl(x, f)
      BY <1>1, <2>1, <3>3 DEF CreateFails, DropCancelled, DropUnknown, ProcessControl
    <3> QED
      BY <2>2, <3>1, <3>2, <3>3 DEF PeerFrame
  <2>3. CASE ~PeerFrame(x)
    <3>1. hist' \in {hist, Faulted(hist)}
      BY <1>8, <2>3 DEF PeerStep, SendPayloadAck, PeerStatusStep, CancelIncoming, PeerNotices, PeerLeaves,
                  PeerDisconnected
    <3> QED
      BY <1>1, <2>1, <3>1
  <2> QED
    BY <2>2, <2>3
<1> QED
  BY <1>2, <1>3, <1>4, <1>5, <1>6, <1>7, <1>8 DEF Next, HostStep

\* The executor, which has taken the send and does not write a chunk now.
LEMMA WorkLeaves ==
  ASSUME IInv, SenderStep, ~DetachAndSend, sender.queue = <<>>
  PROVE  /\ sender'.queue = <<>> /\ (Ended => Ended') /\ host'.sends = host.sends
         /\ \A k \in Sends : pay'[k].read = pay[k].read
         /\ hist'.truncated = hist.truncated
<1>1. sender \in Senders /\ host' = host /\ ~TakeSend
  BY DEF IInv, HostInv, SenderTyped, SenderStep, TakeSend, NextChunk, StopSending, DetachAndSend,
         ConfirmChunk, CheckAck, AckReceived, AckTimeout, AckInfoErased, ChunkDone, PostDestroy, ReleaseHandle
<1>2. sender'.queue = <<>> /\ (Ended => Ended')
  <2>1. CASE NextChunk \/ StopSending \/ ChunkDone
    BY <1>1, <2>1 DEF NextChunk, StopSending, ChunkDone, At, Ended, Senders
  <2>2. CASE PostDestroy \/ ReleaseHandle
    BY <1>1, <2>2 DEF PostDestroy, ReleaseHandle, At, Ended, Senders
  <2>3. ASSUME NEW x, Confirmed(x), ~Ended PROVE sender'.queue = <<>> /\ (Ended => Ended')
    BY <1>1, <2>3 DEF Confirmed, Senders
  <2>4. CASE AckReceived \/ AckTimeout \/ AckInfoErased
    BY <2>3, <2>4 DEF AckReceived, AckTimeout, AckInfoErased, At, Ended
  <2>5. ASSUME NEW x \in Endpoints, ConfirmChunk(x) \/ CheckAck(x)
        PROVE  sender'.queue = <<>> /\ (Ended => Ended')
    <3>1. ~Ended
      BY <2>5 DEF ConfirmChunk, CheckAck, At, Ended
    <3>2. Confirmed(x) \/ sender' = [sender EXCEPT !.pc = "wait", !.waiting = x, !.awaited = host.tracked]
      BY <2>5 DEF ConfirmChunk, CheckAck
    <3> QED
      BY <1>1, <2>3, <3>1, <3>2 DEF Senders
  <2> QED
    BY <1>1, <2>1, <2>2, <2>4, <2>5 DEF SenderStep
<1>3. ASSUME NEW k \in Sends PROVE pay'[k].read = pay[k].read
  <2> DEFINE checked(x) == pay[host.tracked].acked \ {x}
             taken == pay[sender.awaited].acked \ {sender.waiting}
  <2>1. pay[k] \in Payloads /\ DOMAIN pay = Sends
    BY SentTyped
  <2>2. \/ pay' = pay
        \/ \E x : pay' = [pay EXCEPT ![host.tracked].acked = checked(x)]
        \/ pay' = [pay EXCEPT ![sender.awaited].acked = taken]
    BY DEF SenderStep, TakeSend, NextChunk, StopSending, ConfirmChunk, CheckAck,
           AckReceived, AckTimeout, AckInfoErased, ChunkDone, PostDestroy, ReleaseHandle
  <2>3. ASSUME NEW x, pay' = [pay EXCEPT ![host.tracked].acked = checked(x)]
        PROVE  pay'[k].read = pay[k].read
    BY <2>1, <2>3 DEF Payloads
  <2>4. CASE pay' = [pay EXCEPT ![sender.awaited].acked = taken]
    BY <2>1, <2>4 DEF Payloads
  <2> QED
    BY <2>2, <2>3, <2>4
<1>4. hist'.truncated = hist.truncated
  <2>1. CASE AckTimeout
    <3>1. \E S : hist' = [hist EXCEPT !.unconfirmed = S]
      BY <2>1 DEF AckTimeout
    <3> QED
      BY <3>1, HistTruncated
  <2>2. CASE ~AckTimeout
    <3>1. hist' \in {hist, Faulted(hist)}
      BY <1>1, <2>2 DEF SenderStep, NextChunk, StopSending, ConfirmChunk, CheckAck,
           AckReceived, AckInfoErased, ChunkDone, PostDestroy, ReleaseHandle
    <3> QED
      BY <3>1, HistTruncated
  <2> QED
    BY <2>1, <2>2
<1> QED
  BY <1>1, <1>2, <1>3, <1>4

-----------------------------------------------------------------------------
(* The last chunk of a payload of known size: how it is written and read *)

\* A chunk that is written is the last one when nothing was read for it.
LEMMA LastWritten ==
  ASSUME IInv, NEW read \in BOOLEAN, NEW failed, WriteChunk(read, failed), NEW e \in Endpoints,
         LastIn(link'[e].down)
  PROVE  LastIn(link[e].down) \/ ~read
<1> DEFINE c == Data(sender.chunk, IsLast(read), sender.pending)
           m == [link[e] EXCEPT !.broken = TRUE]
<1>1. link[e] \in Links
  BY LinkOf
<1>2. link'[e] \in {link[e], WrittenDown(link[e], c), m}
  BY DEF WriteChunk
<1>3. m.down = link[e].down /\ (c.last => ~read)
  BY <1>1 DEF Links, Data, IsLast
<1> HIDE DEF c, m
<1> QED
  BY <1>1, <1>2, <1>3, LinkWritten

\* Only a frame that is read begins the report of a success.
LEMMA ReportedKept ==
  ASSUME IInv, [Next]_vars, NEW e \in Endpoints, ~PeerFrame(e), Reported(e)'
  PROVE  Reported(e)
<1>1. CASE PeerStatusStep(e)
  BY <1>1, StatusStepSays DEF Reported
<1>2. CASE ~PeerStatusStep(e)
  <2> DEFINE d == <<PeerDisconnect>>
  <2>1. /\ heard'.peer[e] = heard.peer[e]
        /\ peerTasks'[e] = peerTasks[e] \/ peerTasks'[e] = peerTasks[e] \o d
    BY <1>2, Elsewhere
  <2>2. peerTasks[e] \in Seq(PeerTasks) /\ d \in Seq(PeerTasks) /\ ~Says(d, Success)
    BY DisconnectSays DEF IInv, PeerTyped
  <2> HIDE DEF d
  <2>3. Says(peerTasks[e] \o d, Success) => Says(peerTasks[e], Success)
    BY <2>2, SaysPosted
  <2> QED
    BY <2>1, <2>3 DEF Reported
<1> QED
  BY <1>1, <1>2

\* A success that is reported comes with a last chunk.
LEMMA ReportedFrom ==
  ASSUME IInv, Arriving, [Next]_vars, NEW e \in Endpoints, Reported(e)'
  PROVE  Reported(e) \/ LastIn(link[e].down)
<1>1. CASE PeerFrame(e)
  <2>1. PICK b \in Nat : Arrival(e, b)
    BY DEF Arriving
  <2>2. PICK t \in Seq(PeerTasks) :
          /\ peerTasks[e] \in Seq(PeerTasks) /\ peerTasks'[e] = peerTasks[e] \o t
          /\ Says(t, Success) => Head(link[e].down).last
    BY <1>1, <2>1, FramePosts
  <2>3. Says(peerTasks'[e], Success) => Says(peerTasks[e], Success) \/ Says(t, Success)
    BY <2>2, SaysPosted
  <2>4. Head(link[e].down).last => LastIn(link[e].down)
    BY <1>1, LinkOf, LastFrames DEF PeerFrame
  <2> QED
    BY <1>1, <2>2, <2>3, <2>4, FrameRead DEF Reported, hostVars
<1> QED
  BY <1>1, ReportedKept

\* A chunk written is the last one only if the file has been read to its size.
LEMMA WriteReadOut ==
  ASSUME IInv, Fresh, KnownSize, SenderOnce, ReadOut, DetachAndSend,
         Arriving, [Next]_vars
  PROVE  ReadOut'
<1>1. /\ sender.pc = "write" /\ ~Unsent /\ 1 \notin hist.truncated
      /\ sender.pending = 1 /\ host.sends = 1 /\ 1 \in Sends
  <2>1. sender.pc = "write"
    BY DEF DetachAndSend, At
  <2>2. ~Unsent /\ 1 \notin hist.truncated
    BY <2>1 DEF SenderOnce, ReadOut
  <2>3. sender.pending = 1 /\ host.sends = 1 /\ 1 \in Sends
    BY <2>1, OneSend
  <2> QED
    BY <2>1, <2>2, <2>3
<1>2. /\ sender \in Senders /\ pay[1] \in Payloads /\ DOMAIN pay = Sends
      /\ sender.chunk \in Nat /\ pay[1].read \in 0..Chunks /\ sender.chunk <= pay[1].read
      /\ Chunks \in Nat /\ hist \in Histories
  BY <1>1, SentTyped, PayloadTyped DEF IInv, HostInv, SenderTyped, Senders, Payloads, ChunksRead, HistTyped
<1>3. host' = host
  BY DEF DetachAndSend
<1>4. ASSUME sender'.queue = sender.queue PROVE ~Unsent'
  BY <1>1, <1>3, <1>4 DEF Unsent
<1>5. ASSUME NEW e \in Endpoints PROVE Reported(e)' => Reported(e) \/ LastIn(link[e].down)
  BY ReportedFrom
<1>6. CASE host.shutdown
  <2>1. sender' = [sender EXCEPT !.pc = "end"] /\ UNCHANGED <<link, pay, hist>>
    BY <1>6 DEF DetachAndSend
  <2>2. sender'.queue = sender.queue
    BY <1>2, <2>1 DEF Senders
  <2> QED
    BY <1>1, <1>4, <1>5, <2>1, <2>2 DEF ReadOut
<1>7. CASE ~host.shutdown
  <2>1. PICK read \in BOOLEAN, failed \in SUBSET sender.targets :
          /\ read => CanRead
          /\ pay' = IF read THEN [pay EXCEPT ![sender.pending].read = @ + 1] ELSE pay
          /\ \/ (read = CanRead) /\ UNCHANGED hist
             \/ /\ CanRead /\ ~read
                /\ hist' = [Faulted(hist) EXCEPT !.truncated = @ \cup {sender.pending}]
          /\ \/ /\ IsShort(read)
                /\ Say(sender.targets, "error")
                /\ sender' = [sender EXCEPT !.pc = "end"]
             \/ /\ ~IsShort(read)
                /\ WriteChunk(read, failed)
    BY <1>7 DEF DetachAndSend
  <2>2. CanRead => pay[1].read < Chunks
    BY <1>1 DEF CanRead
  <2>3. IsShort(read) <=> ~read /\ sender.chunk < Chunks
    BY DEF IsShort
  <2>4. ~read => pay' = pay
    BY <2>1
  <2>5. CASE IsShort(read)
    <3>1. Say(sender.targets, "error") /\ sender' = [sender EXCEPT !.pc = "end"]
      BY <2>1, <2>5
    <3>2. sender'.queue = sender.queue /\ sender'.pc = "end"
      BY <1>2, <3>1 DEF Senders
    <3>3. ASSUME NEW e \in Endpoints PROVE LastIn(link'[e].down) => LastIn(link[e].down)
      <4> DEFINE c == Control("error")
      <4>1. link[e] \in Links /\ ~c.last
        BY LinkOf DEF Control
      <4>2. link'[e] \in {link[e], WrittenDown(link[e], c)}
        BY <3>1 DEF Say
      <4> HIDE DEF c
      <4> QED
        BY <4>1, <4>2, LinkWritten
    <3>4. ASSUME NEW e \in Endpoints, LastIn(link'[e].down) \/ Reported(e)'
          PROVE  ~Unsent' /\ pay'[1].read = Chunks /\ 1 \notin hist'.truncated
      <4>1. pay[1].read = Chunks
        BY <1>5, <3>3, <3>4 DEF ReadOut
      <4>2. hist' = hist /\ pay' = pay
        BY <1>2, <2>1, <2>2, <2>3, <2>5, <4>1
      <4> QED
        BY <1>1, <1>4, <3>2, <4>1, <4>2
    <3> QED
      BY <1>4, <3>2, <3>4 DEF ReadOut
  <2>6. CASE ~IsShort(read)
    <3>1. WriteChunk(read, failed)
      BY <2>1, <2>6
    <3>2. hist' = hist
      BY <1>2, <2>1, <2>2, <2>3, <2>6
    <3>3. sender'.queue = sender.queue
      BY <1>2, <3>1 DEF WriteChunk, Senders
    <3>4. ASSUME NEW e \in Endpoints, LastIn(link'[e].down) \/ Reported(e)'
          PROVE  ~Unsent' /\ pay'[1].read = Chunks /\ 1 \notin hist'.truncated
      <4>1. CASE LastIn(link[e].down) \/ Reported(e)
        <5>1. pay[1].read = Chunks
          BY <4>1 DEF ReadOut
        <5>2. ~read
          BY <1>2, <2>1, <2>2, <5>1
        <5> QED
          BY <1>1, <1>4, <2>4, <3>2, <3>3, <5>1, <5>2
      <4>2. CASE ~LastIn(link[e].down) /\ ~Reported(e)
        <5>1. ~read
          BY <1>5, <3>1, <3>4, <4>2, LastWritten
        <5>2. pay[1].read = Chunks
          BY <1>2, <2>3, <2>6, <5>1
        <5> QED
          BY <1>1, <1>4, <2>4, <3>2, <3>3, <5>1, <5>2
      <4> QED
        BY <4>1, <4>2
    <3> QED
      BY <1>1, <3>2, <3>4 DEF ReadOut
  <2> QED
    BY <2>5, <2>6
<1> QED
  BY <1>6, <1>7

\* So every step keeps it.
LEMMA ReadOutInv ==
  ASSUME IInv, KnownSize, SenderOnce, Arriving, ReadOut, [Next]_vars, Fresh'
  PROVE  ReadOut'
<1>1. Fresh
  BY SendsGrow
<1>2. CASE DetachAndSend
  BY <1>1, <1>2, WriteReadOut
<1>3. CASE SendPayload
  <2>1. host.sends = 0
    <3>1. host.sends \in {0, 1} /\ host'.sends = host.sends + 1
      BY <1>1, <1>3, OneSend DEF SendPayload, IInv, HostInv, HostTyped, Hosts
    <3> QED
      BY <3>1 DEF Fresh
  <2>2. Unsent
    BY <2>1 DEF Unsent
  <2>3. 1 \notin hist.truncated /\ \A e \in Endpoints : ~LastIn(link[e].down) /\ ~Reported(e)
    BY <2>2 DEF ReadOut
  <2>4. hist'.truncated = hist.truncated
    <3>1. \E S : hist' = [hist EXCEPT !.late = S]
      BY <1>3 DEF SendPayload
    <3> QED
      BY <3>1, HistTruncated
  <2>5. \A e \in Endpoints : ~LastIn(link'[e].down) /\ ~Reported(e)'
    BY <1>3, <2>3, ReportedFrom DEF SendPayload
  <2> QED
    BY <2>3, <2>4, <2>5 DEF ReadOut
<1>4. CASE ~DetachAndSend /\ ~SendPayload
  <2>1. ASSUME ~Unsent
        PROVE  /\ ~Unsent' /\ pay'[1].read = pay[1].read /\ hist'.truncated = hist.truncated
               /\ Ended => Ended'
    <3>1. sender.queue = <<>> /\ host.sends = 1 /\ 1 \in Sends
      BY <1>1, <2>1, OneSend DEF Unsent
    <3>2. CASE SenderStep
      BY <1>4, <3>1, <3>2, WorkLeaves DEF Unsent
    <3>3. CASE ~SenderStep
      BY <1>4, <3>1, <3>3, OthersLeave DEF Unsent, Ended
    <3> QED
      BY <3>2, <3>3
  <2>2. CASE Unsent
    <3>1. 1 \notin hist.truncated /\ \A e \in Endpoints : ~LastIn(link[e].down) /\ ~Reported(e)
      BY <2>2 DEF ReadOut
    <3>2. \A e \in Endpoints : ~LastIn(link'[e].down) /\ ~Reported(e)'
      BY <1>4, <3>1, ReportedFrom, LinkStep
    <3>3. hist'.truncated = hist.truncated
      <4>1. CASE SenderStep
        <5>1. sender.pc = "idle"
          BY <2>2 DEF SenderOnce
        <5>2. TakeSend
          BY <4>1, <5>1 DEF SenderStep, NextChunk, StopSending, DetachAndSend, ConfirmChunk, CheckAck,
               AckReceived, AckTimeout, AckInfoErased, ChunkDone, PostDestroy, ReleaseHandle, At
        <5>3. hist' = hist \/ \E S : hist' = [hist EXCEPT !.skipped = S]
          BY <5>2 DEF TakeSend
        <5> QED
          BY <5>3, HistTruncated
      <4>2. CASE ~SenderStep
        BY <1>4, <4>2, OthersLeave
      <4> QED
        BY <4>1, <4>2
    <3> QED
      BY <3>1, <3>2, <3>3 DEF ReadOut
  <2>3. CASE ~Unsent
    <3>1. /\ ~Unsent' /\ pay'[1].read = pay[1].read /\ hist'.truncated = hist.truncated
          /\ Ended => Ended'
      BY <2>1, <2>3
    <3>2. \A e \in Endpoints : LastIn(link'[e].down) \/ Reported(e)' => LastIn(link[e].down) \/ Reported(e)
      BY <1>4, ReportedFrom, LinkStep
    <3> QED
      BY <3>1, <3>2 DEF ReadOut, Ended
  <2> QED
    BY <2>2, <2>3
<1> QED
  BY <1>2, <1>3, <1>4

-----------------------------------------------------------------------------
(* The first outcome that a receiver's client is told *)

\* A report behind a first outcome does not change it; a Success may be the first.
LEMMA AppendedFirst ==
  ASSUME NEW s \in Seq(Reports), NEW r \in Reports
  PROVE  /\ SuccessFirst(s) => SuccessFirst(Append(s, r))
         /\ ~Says(s, Final) /\ r.status = "Success" => SuccessFirst(Append(s, r))
<1> DEFINE t == <<r>>
<1>1. t \in Seq(Reports) /\ Append(s, r) = s \o t
  BY AppendIsConcat
<1>2. r.status = "Success" => SuccessFirst(t)
  BY DEF SuccessFirst
<1> HIDE DEF t
<1> QED
  BY <1>1, <1>2, FirstStays, FirstAfter

\* A report made to the receiver's client keeps what is known of its first outcome.
LEMMA SettledTold ==
  ASSUME IInv, NEW e \in Endpoints, PeerStatusStep(e), AttachedWhole(e), Settled(e)
  PROVE  Settled(e)'
<1> DEFINE t == Head(peerTasks[e])
           Same == /\ heard'.peer[e] = heard.peer[e]
                   /\ ~(peer[e].tracked /\ t.kind = "update" /\ link[e].peer # "gone")
           Hears(r) == /\ heard'.peer[e] = Append(heard.peer[e], r)
                       /\ r.send = t.send /\ r.status = t.status
<1>1. /\ peerTasks[e] # <<>> /\ peerTasks[e] \in Seq(PeerTasks) /\ heard.peer[e] \in Seq(Reports)
      /\ peerTasks'[e] = Tail(peerTasks[e]) /\ link' = link
      /\ peer[e].tracked /\ ~peer'[e].tracked => t.kind = "update" /\ t.status \in Final
      /\ \/ Same
         \/ /\ peer[e].tracked /\ link[e].peer # "gone"
            /\ \E r \in Reports : Hears(r)
  BY FirstTold
<1>2. CASE SuccessFirst(heard.peer[e])
  BY <1>1, <1>2, AppendedFirst DEF Settled
<1>3. CASE link[e].peer = "gone" /\ ~Says(heard.peer[e], Final)
  BY <1>1, <1>3 DEF Settled
<1>4. CASE /\ ~Says(heard.peer[e], Final) /\ link[e].peer # "gone"
           /\ peer[e].tracked /\ SuccessFirst(peerTasks[e])
  <2>1. CASE t.status = "Success"
    <3>1. 1 \in DOMAIN peerTasks[e] /\ t = peerTasks[e][1]
      BY <1>1
    <3>2. t.kind = "update"
      BY <2>1, <3>1 DEF AttachedWhole
    <3>3. PICK r \in Reports : Hears(r)
      BY <1>1, <1>4, <3>2
    <3>4. SuccessFirst(Append(heard.peer[e], r))
      BY <1>1, <1>4, <2>1, <3>3, AppendedFirst
    <3> QED
      BY <3>3, <3>4 DEF Settled
  <2>2. CASE t.status \notin Final /\ SuccessFirst(Tail(peerTasks[e]))
    <3>1. peer'[e].tracked
      BY <1>1, <1>4, <2>2
    <3>2. ~Says(heard'.peer[e], Final)
      <4>1. CASE heard'.peer[e] = heard.peer[e]
        BY <1>4, <4>1
      <4>2. ASSUME NEW r \in Reports, Hears(r) PROVE ~Says(heard'.peer[e], Final)
        BY <1>1, <1>4, <2>2, <4>2, SaysAppended
      <4> QED
        BY <1>1, <4>1, <4>2
    <3> QED
      BY <1>1, <2>2, <3>1, <3>2 DEF Settled
  <2> QED
    BY <1>1, <1>4, <2>1, <2>2, FirstTaken
<1> QED
  BY <1>2, <1>3, <1>4 DEF Settled

\* So does every other step, as long as nothing new is posted.
LEMMA SettledStays ==
  ASSUME IInv, Arriving, [Next]_vars, NEW e \in Endpoints, AttachedWhole(e), Settled(e)
  PROVE  Settled(e)'
<1>1. link[e].peer = "gone" => link'[e].peer = "gone"
  BY LinkStep
<1>2. CASE PeerStatusStep(e)
  BY <1>2, SettledTold
<1>3. ASSUME heard'.peer[e] = heard.peer[e], peer[e].tracked => peer'[e].tracked,
             NEW t \in Seq(PeerTasks), peerTasks'[e] = peerTasks[e] \o t
      PROVE  Settled(e)'
  <2>1. SuccessFirst(peerTasks[e]) => SuccessFirst(peerTasks'[e])
    <3>1. peerTasks[e] \in Seq(PeerTasks)
      BY DEF IInv, PeerTyped
    <3> QED
      BY <1>3, <3>1, FirstStays
  <2> QED
    BY <1>1, <1>3, <2>1 DEF Settled
<1>4. CASE PeerFrame(e)
  <2>1. PICK b \in Nat : Arrival(e, b)
    BY DEF Arriving
  <2>2. \E t \in Seq(PeerTasks) : peerTasks'[e] = peerTasks[e] \o t /\ (peer[e].tracked => peer'[e].tracked)
    BY <1>4, <2>1, FramePosts
  <2>3. heard' = heard
    BY <1>4, FrameRead
  <2> QED
    BY <1>3, <2>2, <2>3
<1>5. CASE ~PeerFrame(e) /\ ~PeerStatusStep(e)
  <2> DEFINE d == <<PeerDisconnect>>
  <2>1. d \in Seq(PeerTasks)
    BY DisconnectSays
  <2>2. /\ peer'[e].tracked = peer[e].tracked /\ heard'.peer[e] = heard.peer[e]
        /\ peerTasks'[e] = peerTasks[e] \/ peerTasks'[e] = peerTasks[e] \o d
    BY <1>5, Elsewhere
  <2> HIDE DEF d
  <2>3. CASE peerTasks'[e] = peerTasks[e]
    BY <1>1, <2>2, <2>3 DEF Settled
  <2> QED
    BY <1>3, <2>1, <2>2, <2>3
<1> QED
  BY <1>2, <1>4, <1>5

\* The success that is posted with the last chunk is the first outcome.
LEMMA SettledByLast ==
  ASSUME IInv, Arriving, NEW e \in Endpoints, PeerFrame(e), Joined(e), ~Reported(e), Reported(e)'
  PROVE  Torn(e)' \/ Settled(e)'
<1> SUFFICES ASSUME ~Torn(e)' PROVE Settled(e)'
  OBVIOUS
<1>1. PICK b \in Nat : Arrival(e, b)
  BY DEF Arriving
<1>2. PICK t \in Seq(PeerTasks) :
        /\ peerTasks[e] \in Seq(PeerTasks) /\ peerTasks'[e] = peerTasks[e] \o t
        /\ Says(t, Success) => /\ Head(link[e].down).type = "data"
                               /\ AttachChunk(e, Head(link[e].down))
                               /\ SuccessFirst(t) /\ peer'[e].tracked
        /\ Torn(e) => Torn(e)'
  BY <1>1, FramePosts
<1>3. heard' = heard
  BY FrameRead
<1>4. Says(t, Success)
  BY <1>2, <1>3, SaysPosted DEF Reported
<1>5. ~Says(heard.peer[e], Unsuccessful) /\ ~Says(peerTasks[e], Unsuccessful)
  BY <1>1, <1>2, <1>4, AttachedClean
<1>6. ~Says(heard.peer[e], Final) /\ ~Says(peerTasks[e], Final)
  BY <1>5 DEF Reported, Says, Success, Unsuccessful, Final
<1>7. SuccessFirst(peerTasks'[e])
  BY <1>2, <1>4, <1>6, FirstAfter
<1> QED
  BY <1>2, <1>3, <1>4, <1>6, <1>7 DEF Settled

\* An acknowledgement begins with the report of a success.
LEMMA AckBegins ==
  ASSUME IInv, SenderOnce, Arriving, [Next]_vars, Fresh', NEW e \in AckEnabled, Acknowledged(e)'
  PROVE  Acknowledged(e) \/ (Joined(e)' /\ Reported(e)')
<1>1. Fresh
  BY SendsGrow
<1>2. e \in Endpoints
  BY PayloadTyped
<1>3. CASE UNCHANGED vars
  BY <1>3 DEF vars, Acknowledged, SuccessHeard, Joined
<1>4. CASE HostStep /\ UNCHANGED peerVars
  BY <1>1, <1>2, <1>4, SendPayloadAcks, ClientAcks, WorkAcks, HostStatusStepAcks, HostFrameAcks
     DEF HostStep
<1>5. ASSUME NEW x \in Endpoints, HostConnection(x), UNCHANGED peerVars
      PROVE  Acknowledged(e)
  BY <1>2, <1>5, HostConnectionAcks
<1>6. ASSUME NEW x \in Endpoints, PeerStep(x)
      PROVE  Acknowledged(e) \/ (Joined(e)' /\ Says(peerTasks'[e], {"Success"}))
  BY <1>2, <1>6, PeerFrameAcks, SendPayloadAckAcks, PeerAcks DEF PeerStep
<1> QED
  BY <1>3, <1>4, <1>5, <1>6 DEF Next, Reported, Success

\* So every step keeps it.
LEMMA SettledInv ==
  ASSUME IInv, SenderOnce, Arriving, [Next]_vars, Fresh', NEW e \in Endpoints,
         AttachedWhole(e), SettledIn(e)
  PROVE  SettledIn(e)'
<1>1. CASE Torn(e) \/ Settled(e)
  BY <1>1, ReceivedStays, SettledStays DEF SettledIn
<1>2. CASE ~Torn(e) /\ ~Settled(e)
  <2>1. ~(Joined(e) /\ Reported(e)) /\ ~(e \in AckEnabled /\ Acknowledged(e))
    BY <1>2 DEF SettledIn
  <2>2. ASSUME Joined(e)', Reported(e)' PROVE Torn(e)' \/ Settled(e)'
    <3>1. Joined(e) /\ ~Reported(e)
      BY <2>1, <2>2, LinkStep
    <3>2. PeerFrame(e)
      BY <2>2, <3>1, ReportedKept
    <3> QED
      BY <2>2, <3>1, <3>2, SettledByLast
  <2>3. ASSUME e \in AckEnabled, Acknowledged(e)' PROVE Joined(e)' /\ Reported(e)'
    BY <2>1, <2>3, AckBegins
  <2> QED
    BY <2>2, <2>3 DEF SettledIn
<1> QED
  BY <1>1, <1>2

-----------------------------------------------------------------------------
(* Theorems *)

\* At first nothing is sent.
LEMMA OutcomeInit == Init => OutcomeInv
<1> SUFFICES ASSUME Init PROVE OutcomeInv
  OBVIOUS
<1>1. host.sends = 0 /\ hist.truncated = {}
  BY DEF Init
<1>2. ASSUME NEW e \in Endpoints
      PROVE  /\ link[e].down = <<>> /\ peer[e].tracked = FALSE /\ peerTasks[e] = <<>>
             /\ heard.peer[e] = <<>>
  BY <1>1 DEF Init, NoPayload
<1>3. ~LastIn(<<>>) /\ ~Says(<<>>, Success)
  BY DEF LastIn, Says
<1>4. ASSUME NEW e \in Endpoints PROVE ~Reported(e) /\ ~LastIn(link[e].down) /\ AttachedWhole(e)
  <2>1. ~Reported(e) /\ ~LastIn(link[e].down)
    BY <1>2, <1>3 DEF Reported
  <2>2. \A i \in DOMAIN <<>> : FALSE
    OBVIOUS
  <2>3. AttachedWhole(e)
    BY <1>2, <1>3, <2>2 DEF AttachedWhole
  <2> QED
    BY <2>1, <2>3
<1>5. ASSUME NEW e \in Endpoints, e \in AckEnabled PROVE ~Acknowledged(e)
  <2>1. ~AckIn(<<>>) /\ ~SuccessIn(<<>>, e)
    BY NoSuccess DEF AckIn
  <2>2. link[e].up = <<>> /\ acks[e] = <<>> /\ heard.host[e] = <<>> /\ hostTasks = <<>>
    BY <1>5 DEF Init
  <2>3. ~SuccessHeard(e)
    BY <2>2 DEF SuccessHeard
  <2> QED
    BY <1>1, <2>1, <2>2, <2>3 DEF Acknowledged
<1>6. ReadOut
  BY <1>1, <1>4 DEF ReadOut
<1> QED
  BY <1>4, <1>5, <1>6 DEF OutcomeInv, SettledIn

\* Every step keeps the invariant, with those of the earlier modules.
LEMMA OutcomeNext == IInv /\ ReceiptInv /\ OutcomeInv /\ [Next]_vars => OutcomeInv'
<1> SUFFICES ASSUME IInv, ReceiptInv, OutcomeInv, [Next]_vars, Fresh'
             PROVE  /\ \A e \in Endpoints : AttachedWhole(e)' /\ SettledIn(e)'
                    /\ KnownSize => ReadOut'
  BY DEF OutcomeInv
<1>1. /\ Fresh /\ SenderOnce /\ Arriving
      /\ \A e \in Endpoints : AttachedWhole(e) /\ SettledIn(e)
      /\ KnownSize => ReadOut
  BY SendsGrow DEF ReceiptInv, OutcomeInv
<1>2. ASSUME NEW e \in Endpoints PROVE AttachedWhole(e)' /\ SettledIn(e)'
  BY <1>1, AttachedInv, SettledInv
<1> QED
  BY <1>1, <1>2, ReadOutInv

\* A receiver's client is told Success only of a payload whose every chunk it
\* attached, and of a payload of known size only if the sender read it to its
\* end: the last chunk comes after all the others, the reader reports a success
\* with no other chunk (ProcessDataPacket), a failure to attach one is reported
\* before and makes the status thread forget the payload, and a read that comes
\* up short ends the loop before a last chunk is made (DetachNextChunk).
THEOREM IncomingSuccessIsWhole == Spec => []PeerSuccessWhole
<1>1. IInv /\ ReceiptInv /\ [Next]_vars => ReceiptInv'
  BY SendsGrow, ArrivingInv, AckedWholeInv DEF ReceiptInv
<1>2. OutcomeInv => PeerSuccessWhole
  <2> SUFFICES ASSUME OutcomeInv, Fresh, NEW e \in Endpoints, NEW k \in Sends,
                      PeerSaid(e, k, Success)
               PROVE  <<k, e>> \in hist.whole /\ (KnownSize => k \notin hist.truncated)
    BY DEF PeerSuccessWhole, Success
  <2>1. AttachedWhole(e) /\ (KnownSize => ReadOut)
    BY DEF OutcomeInv
  <2>2. PICK i \in DOMAIN heard.peer[e] :
          heard.peer[e][i].send = k /\ heard.peer[e][i].status = "Success"
    BY DEF PeerSaid, Success
  <2>3. k = 1 /\ Whole(e)
    BY <2>1, <2>2 DEF AttachedWhole
  <2>4. Reported(e)
    BY <2>2 DEF Reported, Says, Success
  <2> QED
    BY <2>1, <2>3, <2>4 DEF Whole, ReadOut
<1> QED
  BY <1>1, <1>2, InitInv, NextInv, ReceiptInit, OutcomeInit, OutcomeNext, PTL DEF Spec

\* With acknowledgements the two clients do not disagree, unless attaching failed
\* at the receiver: when the sender's client is told Success, the first outcome
\* that the receiver's is told, if any, is Success.  The acknowledgement is queued
\* with the report of the success (ProcessDataPacket, SendPayloadReceivedAck),
\* and up to then the reader, the client and the end of the connection have
\* reported no other outcome of a payload that still takes chunks.
THEOREM ClientsAgree == Spec => []OutcomeAgreement
<1>1. IInv /\ ReceiptInv /\ [Next]_vars => ReceiptInv'
  BY SendsGrow, ArrivingInv, AckedWholeInv DEF ReceiptInv
<1>2. IInv /\ HostReports /\ OutcomeInv => OutcomeAgreement
  <2> SUFFICES ASSUME IInv, HostReports, OutcomeInv, Fresh, NEW e \in AckEnabled, NEW k \in Sends,
                      HostSaid(e, k, Success), <<k, e>> \notin hist.torn, PeerSaid(e, k, Final)
               PROVE  SuccessFirst(heard.peer[e])
    BY DEF OutcomeAgreement, Success, SuccessFirst
  <2>1. e \in Endpoints
    BY PayloadTyped
  <2>2. PICK i \in DOMAIN heard.host[e] :
          heard.host[e][i].of = k /\ heard.host[e][i].status = "Success"
    BY DEF HostSaid, Success
  <2>3. Acknowledged(e)
    BY <2>2 DEF Acknowledged, SuccessHeard
  <2>4. k = 1
    <3>1. k \in 1..host.sends
      BY <2>1, <2>2 DEF HostReports
    <3> QED
      BY <3>1, SentTyped DEF Fresh
  <2>5. Settled(e)
    BY <2>1, <2>3, <2>4 DEF OutcomeInv, SettledIn, Torn
  <2>6. Says(heard.peer[e], Final)
    BY DEF PeerSaid, Says
  <2> QED
    BY <2>5, <2>6 DEF Settled
<1>3. Init => HostReports /\ HostFinalOnce
  BY DEF Init, HostReports, HostFinalOnce
<1> QED
  BY <1>1, <1>2, <1>3, InitInv, NextInv, HostReportsInv, ReceiptInit, OutcomeInit, OutcomeNext,
     PTL DEF Spec

=============================================================================
