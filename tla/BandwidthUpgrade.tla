-------------------------- MODULE BandwidthUpgrade --------------------------
(***************************************************************************)
(* Bandwidth upgrade of one connection (connections/implementation/        *)
(* bwu_manager): the BwuManager threads of the two devices, together with  *)
(* the workers of EndpointWorkers, over the channels of EndpointChannels.  *)
(*                                                                         *)
(* A BwuManager runs everything on one serial executor; a handler that     *)
(* writes to or reads from a channel may block that thread, so such a      *)
(* handler is split there and bwu[p].pc says where it stands.              *)
(*                                                                         *)
(* Flags at their defaults: support_multiple_bwu_mediums and               *)
(* enable_async_bandwidth_upgrade on, dynamic role switch off.             *)
(***************************************************************************)
EXTENDS EndpointWorkers

CONSTANTS
    Requesters,         \* devices whose client asks for an upgrade
    MaxRequests,        \* bound per device: such requests
    WifiLan,            \* Medium::WIFI_LAN
    WifiHotspot,        \* Medium::WIFI_HOTSPOT
    EncryptUpgraded,    \* FALSE when both devices support disabling encryption
    IntroductionAck     \* FALSE when the offering device is of a version that does
                        \* not acknowledge CLIENT_INTRODUCTION

ASSUME UpgradeTyped ==
    /\ Requesters \subseteq Peers
    /\ MaxRequests \in Nat
    /\ EncryptUpgraded \in BOOLEAN
    /\ IntroductionAck \in BOOLEAN
    /\ WifiLan # None

VARIABLES
    mgr,       \* mgr[p]: BwuManager's maps, at this endpoint's key
    bwu,       \* bwu[p]: where p's BwuManager thread stands in a handler
    opened,    \* upgrade channels offered so far
    requests   \* requests[p]: upgrades p's client has asked for

vars == <<channelVars, link, faults, conn, workerVars, tasks, hist,
          mgr, bwu, opened, requests>>

Managers ==
    [inProgress : BOOLEAN,            \* in_progress_upgrades_
     previous : Channels \cup {None}, \* previous_endpoint_channels_
     upgraded : BOOLEAN,              \* successfully_upgraded_endpoints_
     medium : Mediums \cup {None},    \* endpoint_id_to_bwu_medium_
     listening : SUBSET Channels,     \* offers of handlers not yet reverted
     retry : BOOLEAN]                 \* retry_upgrade_alarms_, not yet fired

\* pc is the next step of the handler; chan and old are the new and the prior
\* channel it has in hand.
Threads ==
    [pc : {"idle", "safe", "finish"}, chan : {None}, old : {None}]
    \cup [pc : {"ack", "fail", "replace"}, chan : Channels, old : {None}]
    \cup [pc : {"path", "last"}, chan : Channels, old : Channels]
    \cup [pc : {"disconnect", "drain"}, chan : {None}, old : Channels]

TypeOK ==
    /\ ChannelsTypeOK
    /\ WorkersTypeOK
    /\ mgr \in [Peers -> Managers]
    /\ bwu \in [Peers -> Threads]
    /\ \A p \in Peers : bwu[p].pc = "safe" => mgr[p].previous # None
    /\ opened \in 0..MaxAttempts
    /\ requests \in [Peers -> 0..MaxRequests]

Init ==
    /\ ChannelsInit
    /\ WorkersInit
    /\ mgr = [p \in Peers |->
                [inProgress |-> FALSE, previous |-> None, upgraded |-> FALSE,
                 medium |-> None, listening |-> {}, retry |-> FALSE]]
    /\ bwu = [p \in Peers |-> [pc |-> "idle", chan |-> None, old |-> None]]
    /\ opened = 0
    /\ requests = [p \in Peers |-> 0]

-----------------------------------------------------------------------------
(* The thread *)

\* The thread is free and its next task is of this kind.
Task(p, kind) ==
    /\ bwu[p].pc = "idle"
    /\ tasks[p] # << >>
    /\ Head(tasks[p]).kind = kind

Arg(p) == Head(tasks[p]).arg

TakeTask(p) == tasks' = [tasks EXCEPT ![p] = Tail(@)]

At(p, pc, c, old) == bwu' = [bwu EXCEPT ![p] = [pc |-> pc, chan |-> c, old |-> old]]
Idle(p) == At(p, "idle", None, None)

ManagerOf(p, m) == mgr' = [mgr EXCEPT ![p] = m]

MediumOf(p) == IF conn[p].active = None THEN None ELSE link[conn[p].active].medium

\* A station that joins a hotspot loses its Wi-Fi LAN.
BlockedByWifiLan(p, medium) == MediumOf(p) = WifiLan /\ medium = WifiHotspot

\* ChooseBestUpgradeMedium among the mediums S, whose availability on this
\* device at this moment is arbitrary.
Choices(current, S) ==
    IF current = None THEN S \cup {None} ELSE (S \cap {current}) \cup {None}

AllUpgradeMediums == {UpgradeMediums[i] : i \in DOMAIN UpgradeMediums}
Untried(medium) ==
    {UpgradeMediums[j] : j \in {j \in DOMAIN UpgradeMediums :
        \E i \in DOMAIN UpgradeMediums : i < j /\ UpgradeMediums[i] = medium}}

\* RevertBwuMediumForEndpoint, with the service id of an initiator.
Reverted(m) ==
    [m EXCEPT !.medium = None,
              !.listening = {c \in @ : link[c].medium # m.medium}]

\* RevertBwuMediumForEndpoint with the service id of p's channel c, an initiator's
\* on the upgraded channels p has accepted.
RevertedFor(p, c, m) ==
    IF p = Advertiser /\ c # 0 THEN Reverted(m) ELSE [m EXCEPT !.medium = None]

\* TryNextBestUpgradeMediums(S): m is BwuManager's state, q the queue, before.
TryNextBest(p, m, S, q) ==
    /\ Unlocked(p)
    /\ \E next \in Choices(m.medium, S) :
           LET stuck == next \in {MediumOf(p), None}
           IN  \/ /\ stuck /\ MediumOf(p) # WifiLan
                  /\ ManagerOf(p, [m EXCEPT !.retry = TRUE])
                  /\ tasks' = [tasks EXCEPT ![p] = q]
               \/ /\ next = None /\ MediumOf(p) = WifiLan
                  /\ ManagerOf(p, m)
                  /\ tasks' = [tasks EXCEPT ![p] = q]
               \/ /\ next # None /\ (~stuck \/ MediumOf(p) = WifiLan)
                  /\ ManagerOf(p, [m EXCEPT !.medium = next])
                  /\ tasks' = [tasks EXCEPT ![p] =
                                  Append(q, [kind |-> "INIT", arg |-> next])]

\* (In a mutant the failed upgrade stays in progress.)
UpgradeFailureInProgress(p, m, medium, q) ==
    TryNextBest(p, IF m.medium = None THEN m ELSE Reverted(m), Untried(medium), q)

\* ProcessUpgradeFailureEvent
UpgradeFailure(p, m, medium, q) ==
    LET cleared == [m EXCEPT !.inProgress = FALSE]
    IN  TryNextBest(p, IF m.medium = None THEN cleared ELSE Reverted(cleared),
                    Untried(medium), q)

-----------------------------------------------------------------------------
(* Offering an upgrade *)

\* The client, or EvaluateConnectionResult, calls InitiateBwuForEndpoint: the
\* medium is chosen on the caller's thread.
RequestUpgrade(p) ==
    /\ p \in Requesters
    /\ requests[p] < MaxRequests
    /\ conn[p].connected
    /\ requests' = [requests EXCEPT ![p] = @ + 1]
    /\ \E m \in Choices(mgr[p].medium, AllUpgradeMediums) :
          tasks' = [tasks EXCEPT ![p] = Post(p, "INIT", m)]
    /\ UNCHANGED <<channelVars, link, faults, conn, workerVars, hist, mgr, bwu, opened>>

\* The task of InitiateBwuForEndpoint, up to the write.
InitiateUpgrade(p) ==
    LET medium == Arg(p)
        set == [mgr[p] EXCEPT !.medium = medium]
        started == [set EXCEPT !.retry = FALSE]
        c == opened + 1
        blocked == BlockedByWifiLan(p, medium)
        refused == medium = None \/ mgr[p].inProgress
        useless == conn[p].active = None \/ medium = MediumOf(p)
    IN  /\ Task(p, "INIT")
        /\ Unlocked(p)
        /\ \/ /\ blocked
              /\ TakeTask(p)
              /\ UNCHANGED <<mgr, bwu, link, opened, faults>>
           \/ /\ ~blocked /\ refused
              /\ ManagerOf(p, set)
              /\ TakeTask(p)
              /\ UNCHANGED <<bwu, link, opened, faults>>
           \/ /\ ~blocked /\ ~refused /\ useless
              /\ ManagerOf(p, started)
              /\ TakeTask(p)
              /\ UNCHANGED <<bwu, link, opened, faults>>
           \/ /\ ~blocked /\ ~refused /\ ~useless
              /\ c <= MaxAttempts
              /\ ManagerOf(p, [started EXCEPT !.listening = @ \cup {c}])
              /\ opened' = c
              /\ link' = [link EXCEPT ![c].medium = medium]
              /\ At(p, "path", c, conn[p].active)
              /\ TakeTask(p)
              /\ UNCHANGED faults
           \/ /\ ~blocked /\ ~refused /\ ~useless
              /\ IF c > MaxAttempts THEN UNCHANGED faults ELSE Adverse("initialise")
              /\ UpgradeFailure(p, started, medium, Tail(tasks[p]))
              /\ UNCHANGED <<bwu, link, opened>>
        /\ UNCHANGED <<channelVars, conn, workerVars, hist, requests>>

\* ... the write of UPGRADE_PATH_AVAILABLE, and what follows.
WritePath(p) ==
    LET c == bwu[p].chan
    IN  /\ bwu[p].pc = "path"
        /\ \/ /\ Written(p, bwu[p].old, "PATH", c)
              /\ ManagerOf(p, [mgr[p] EXCEPT !.inProgress = TRUE])
              /\ UNCHANGED tasks
           \/ /\ WriteFailed(p, bwu[p].old)
              /\ UpgradeFailure(p, mgr[p], link[c].medium, tasks[p])
        /\ Idle(p)
        /\ UNCHANGED <<chan, link, faults, conn, workerVars, hist, opened, requests>>

\* UPGRADE_FAILURE from the other device.
ProcessUpgradeFailure(p) ==
    /\ Task(p, "FAIL")
    /\ conn[p].connected
    /\ UpgradeFailure(p, mgr[p], link[Arg(p)].medium, Tail(tasks[p]))
    /\ UNCHANGED <<channelVars, link, faults, conn, workerVars, hist, bwu, opened, requests>>

RetryAlarm(p) ==
    /\ mgr[p].retry
    /\ mgr' = [mgr EXCEPT ![p].retry = FALSE]
    /\ tasks' = [tasks EXCEPT ![p] = Post(p, "RETRY", None)]
    /\ UNCHANGED <<channelVars, link, faults, conn, workerVars, hist, bwu, opened, requests>>

RetryUpgrade(p) ==
    /\ Task(p, "RETRY")
    /\ \/ /\ ~conn[p].connected
          /\ TakeTask(p)
          /\ UNCHANGED mgr
       \/ /\ conn[p].connected
          /\ TryNextBest(p, mgr[p], AllUpgradeMediums, Tail(tasks[p]))
    /\ UNCHANGED <<channelVars, link, faults, conn, workerVars, hist, bwu, opened, requests>>

-----------------------------------------------------------------------------
(* Joining the offered channel *)

\* ProcessBwuPathAvailableEventInternal, with m for BwuManager's state: what it
\* checks before it connects (the offer must still stand), ...
CanJoin(p, c, m) ==
    /\ m.medium = link[c].medium
    /\ conn[p].active # None
    /\ c \in mgr[Other(p)].listening

\* ... the socket connects and CLIENT_INTRODUCTION is written; then the
\* acknowledgement is awaited, if the offer promised one, ...
Join(p, c, m) ==
    /\ CanJoin(p, c, m)
    /\ Sent(p, c, "INTRO", 0)
    /\ link' = [link EXCEPT ![c].dialled = TRUE]
    /\ IF IntroductionAck
       THEN ManagerOf(p, m) /\ At(p, "ack", c, None)
       ELSE ManagerOf(p, [m EXCEPT !.inProgress = TRUE]) /\ At(p, "replace", c, None)
    /\ TakeTask(p)
    /\ UNCHANGED <<chan, faults>>

\* ... or one of these fails.
JoinFails(p, c, m) ==
    /\ IF CanJoin(p, c, m) THEN Adverse("connect") ELSE UNCHANGED faults
    /\ ManagerOf(p, m)
    /\ At(p, "fail", c, None)
    /\ TakeTask(p)
    /\ UNCHANGED <<channelVars, link>>

\* An offer during an upgrade: the devices are out of step, both channels close.
CloseAllChannels(p) ==
    /\ chan' = [chan EXCEPT ![p] = [x \in Channels |->
         IF x \in {mgr[p].previous, conn[p].active}
         THEN [@[x] EXCEPT !.closed = TRUE, !.paused = FALSE]
         ELSE @[x]]]
    /\ mgr' = [mgr EXCEPT ![p].previous = None]
    /\ TakeTask(p)
    /\ UNCHANGED <<bwu, net, seq, link, faults>>

\* ProcessBwuPathAvailableEvent, up to the write of its answer.
ProcessPath(p) ==
    LET c == Arg(p)
        medium == link[c].medium
        mine == IF mgr[p].medium = None THEN [mgr[p] EXCEPT !.medium = medium]
                ELSE mgr[p]
    IN  /\ Task(p, "PATH")
        /\ Unlocked(p)
        /\ \/ /\ ~conn[p].connected \/ BlockedByWifiLan(p, medium)
              /\ At(p, "fail", c, None)
              /\ TakeTask(p)
              /\ UNCHANGED <<mgr, channelVars, link, faults>>
           \/ /\ conn[p].connected /\ ~BlockedByWifiLan(p, medium)
              /\ \/ /\ p = Advertiser       \* an incoming connection: ignored
                    /\ TakeTask(p)
                    /\ UNCHANGED <<mgr, bwu, channelVars, link, faults>>
                 \/ p = Discoverer /\ mgr[p].inProgress /\ CloseAllChannels(p)
                 \/ /\ p = Discoverer /\ ~mgr[p].inProgress
                    /\ Join(p, c, mine) \/ JoinFails(p, c, mine)
        /\ UNCHANGED <<conn, workerVars, hist, opened, requests>>

\* The accept loop of the Advertiser's handler (only the Discoverer joins) hands
\* the socket to BwuManager; one not yet accepted when listening stops is dropped.
Accept(c) ==
    LET p == Advertiser
    IN  /\ link[c].dialled
        /\ link' = [link EXCEPT ![c].dialled = FALSE]
        /\ \/ /\ c \in mgr[p].listening
              /\ tasks' = [tasks EXCEPT ![p] = Post(p, "INCOMING", c)]
              /\ UNCHANGED chan
           \/ /\ c \notin mgr[p].listening
              /\ chan' = Closed(p, c)
              /\ UNCHANGED tasks
        /\ UNCHANGED <<net, seq, faults, conn, workerVars, hist, mgr, bwu, opened, requests>>

\* ReadClientIntroductionAckFrame: the acknowledgement, or an error or timeout.
AwaitAck(p) ==
    LET c == bwu[p].chan
    IN  /\ bwu[p].pc = "ack"
        /\ \/ /\ CanRead(p, c)
              /\ net' = Popped(p, c)
              /\ mgr' = [mgr EXCEPT ![p].inProgress = TRUE]
              /\ At(p, "replace", c, None)
              /\ UNCHANGED <<chan, faults>>
           \/ /\ IF ReadFails(p, c) THEN UNCHANGED faults ELSE Adverse("read alarm")
              /\ chan' = Closed(p, c)
              /\ At(p, "fail", c, None)
              /\ UNCHANGED <<net, mgr>>
        /\ UNCHANGED <<seq, link, conn, workerVars, tasks, hist, opened, requests>>

\* RunUpgradeFailedProtocol
WriteFailure(p) ==
    LET a == conn[p].active
    IN  /\ bwu[p].pc = "fail"
        /\ Unlocked(p)
        /\ \/ /\ a = None
              /\ UNCHANGED <<channelVars, mgr>>
           \/ /\ a # None
              /\ Written(p, a, "FAIL", bwu[p].chan)
              /\ ManagerOf(p, [RevertedFor(p, a, mgr[p]) EXCEPT !.inProgress = FALSE])
              /\ UNCHANGED chan
           \/ /\ a # None
              /\ WriteFailed(p, a)
              /\ chan' = Closed(p, a)
              /\ UNCHANGED mgr
        /\ Idle(p)
        /\ UNCHANGED <<link, faults, conn, workerVars, tasks, hist, opened, requests>>

IntroductionAnswer ==
    IF IntroductionAck THEN <<[kind |-> "ACK", seq |-> 0, arg |-> 0]>> ELSE << >>

\* OnIncomingConnection: read CLIENT_INTRODUCTION, acknowledge it.
IncomingConnection(p) ==
    LET c == Arg(p)
        q == Other(p)
    IN  /\ Task(p, "INCOMING")
        /\ TakeTask(p)
        /\ \/ /\ CanRead(p, c)
              /\ net' = [net EXCEPT ![q][c] = Tail(@), ![p][c] = @ \o IntroductionAnswer]
              /\ \/ /\ mgr[p].inProgress
                    /\ mgr' = [mgr EXCEPT ![p].retry = FALSE]
                    /\ At(p, "replace", c, None)
                    /\ UNCHANGED chan
                 \/ /\ ~mgr[p].inProgress      \* the channel is dropped
                    /\ chan' = Closed(p, c)
                    /\ UNCHANGED <<mgr, bwu>>
              /\ UNCHANGED faults
           \/ /\ IF Down(p, c) THEN UNCHANGED faults ELSE Adverse("read alarm")
              /\ chan' = Closed(p, c)
              /\ UNCHANGED <<net, mgr, bwu>>
        /\ UNCHANGED <<seq, link, conn, workerVars, hist, opened, requests>>

-----------------------------------------------------------------------------
(* Switching over: RunUpgradeProtocol and the two shutdown frames *)

\* (In a mutant the new channel is not paused.)
PreparedUnpaused(p, c) == [chan EXCEPT ![p][c].crypt = EncryptUpgraded]

\* chan once c is registered in place of the prior channel.
Prepared(p, c) ==
    [chan EXCEPT ![p][c] = [@ EXCEPT !.paused = TRUE, !.crypt = EncryptUpgraded]]

\* The new channel becomes the active one, paused until the old is drained.
ReplaceChannel(p) ==
    LET c == bwu[p].chan
        old == conn[p].active
    IN  /\ bwu[p].pc = "replace"
        /\ Unlocked(p)
        /\ \/ /\ old = None                    \* the new channel is dropped
              /\ chan' = Closed(p, c)
              /\ Idle(p)
              /\ UNCHANGED conn
           \/ /\ old # None
              /\ chan' = Prepared(p, c)
              /\ conn' = [conn EXCEPT ![p].active = c]
              /\ At(p, "last", c, old)
        /\ UNCHANGED <<net, seq, link, faults, workerVars, tasks, hist, mgr, opened, requests>>

\* (Mutants: the prior channel is not remembered; the prior channel is shut
\* down without the peer's LAST.)
PriorForgotten(m, old) == [m EXCEPT !.upgraded = FALSE]
AfterLastShutDown(p) == At(p, "disconnect", None, bwu[p].old)

\* previous_endpoint_channels_ and successfully_upgraded_endpoints_ after LAST.
WithPrior(m, old) ==
    [m EXCEPT !.previous = IF @ = None THEN old ELSE @, !.upgraded = FALSE]

\* The peer's LAST may have come first.
AfterLast(p) == IF mgr[p].upgraded THEN At(p, "safe", None, None) ELSE Idle(p)

WriteLast(p) ==
    LET old == bwu[p].old
    IN  /\ bwu[p].pc = "last"
        /\ \/ /\ Written(p, old, "LAST", 0)
              /\ ManagerOf(p, WithPrior(mgr[p], old))
              /\ AfterLast(p)
           \/ /\ WriteFailed(p, old)
              /\ Idle(p)
              /\ UNCHANGED mgr
        /\ UNCHANGED <<chan, link, faults, conn, workerVars, tasks, hist, opened, requests>>

\* (In a mutant nobody asks whether an upgrade is in progress.)
ExpectedAlways(p) == conn[p].connected

\* A shutdown frame of the prior channel matches a connection and an upgrade.
Expected(p) == conn[p].connected /\ mgr[p].inProgress

DropFrame(p) ==
    /\ \/ (Task(p, "LAST") \/ Task(p, "SAFE")) /\ ~Expected(p)
       \/ Task(p, "FAIL") /\ ~conn[p].connected
    /\ TakeTask(p)
    /\ UNCHANGED <<channelVars, link, faults, conn, workerVars, hist, mgr, bwu,
                   opened, requests>>

\* ProcessLastWriteToPriorChannelEvent
ProcessLast(p) ==
    /\ Task(p, "LAST")
    /\ Expected(p)
    /\ TakeTask(p)
    /\ IF mgr[p].previous = None
       THEN mgr' = [mgr EXCEPT ![p].upgraded = TRUE] /\ UNCHANGED bwu
       ELSE At(p, "safe", None, None) /\ UNCHANGED mgr
    /\ UNCHANGED <<channelVars, link, faults, conn, workerVars, hist, opened, requests>>

WriteSafe(p) ==
    LET old == mgr[p].previous
    IN  /\ bwu[p].pc = "safe"
        /\ \/ /\ Written(p, old, "SAFE", 0)
              /\ hist' = [hist EXCEPT ![p].safe = @ \cup {old}]
              /\ UNCHANGED <<chan, mgr>>
           \/ /\ WriteFailed(p, old)
              /\ chan' = Closed(p, old)
              /\ mgr' = [mgr EXCEPT ![p].previous = None]
              /\ UNCHANGED hist
        /\ Idle(p)
        /\ UNCHANGED <<link, faults, conn, workerVars, tasks, opened, requests>>

\* ProcessSafeToClosePriorChannelEvent, in five steps: the prior channel stops
\* encrypting, ...
ProcessSafe(p) ==
    LET old == mgr[p].previous
    IN  /\ Task(p, "SAFE")
        /\ Expected(p)
        /\ TakeTask(p)
        /\ IF old = None THEN UNCHANGED <<chan, mgr, bwu>>
           ELSE /\ mgr' = [mgr EXCEPT ![p].previous = None]
                /\ chan' = Unencrypted(p, old)
                /\ At(p, "disconnect", None, old)
        /\ UNCHANGED <<net, seq, link, faults, conn, workerVars, hist, opened, requests>>

\* ... a DISCONNECTION is written on it, in clear, ...
WriteDisconnection(p) ==
    LET old == bwu[p].old
    IN  /\ bwu[p].pc = "disconnect"
        /\ Written(p, old, "DISC", 0) \/ WriteFailed(p, old)
        /\ At(p, "drain", None, old)
        /\ UNCHANGED <<chan, link, faults, conn, workerVars, tasks, hist, mgr, opened, requests>>

\* ... one frame is read from it, once the reader is out of reader_mutex_, or
\* the read fails; it is closed, ...
DrainPrior(p) ==
    LET old == bwu[p].old
    IN  /\ bwu[p].pc = "drain"
        /\ ~(reader[p].pc = "read" /\ reader[p].chan = old)
        /\ \/ CanRead(p, old) /\ net' = Popped(p, old)
           \/ ReadFails(p, old) /\ UNCHANGED net
        /\ chan' = Closed(p, old)
        /\ At(p, "finish", None, None)
        /\ UNCHANGED <<seq, link, faults, conn, workerVars, tasks, hist, mgr, opened, requests>>

\* ... and the writers waiting on the new channel are released.
ResumeUpgraded(p) ==
    LET c == conn[p].active
    IN  /\ bwu[p].pc = "finish"
        /\ Unlocked(p)
        /\ IF c = None THEN UNCHANGED <<chan, mgr, hist>>
           ELSE /\ chan' = Resumed(p, c)
                /\ mgr' = [mgr EXCEPT ![p].inProgress = FALSE]
                /\ hist' = [hist EXCEPT ![p].notified = @ \cup {c}]
        /\ Idle(p)
        /\ UNCHANGED <<net, seq, link, faults, conn, workerVars, tasks, opened, requests>>

\* (In a mutant the upgrade stays in progress.)
ForgottenHalf(m) ==
    [m EXCEPT !.medium = None, !.previous = None, !.upgraded = FALSE, !.retry = FALSE]

\* BwuManager's maps without the endpoint.
Forgotten(m) ==
    [m EXCEPT !.medium = None, !.inProgress = FALSE, !.previous = None,
              !.upgraded = FALSE, !.retry = FALSE]

\* BwuManager::OnEndpointDisconnect
EndpointDisconnected(p) ==
    LET old == mgr[p].previous
    IN  /\ Task(p, "OVER")
        /\ TakeTask(p)
        /\ chan' = IF old = None THEN chan ELSE Closed(p, old)
        /\ ManagerOf(p, Forgotten(RevertedFor(p, Arg(p), mgr[p])))
        /\ conn' = [conn EXCEPT ![p].em = IF @ = "removing" THEN "cleaned" ELSE @]
        /\ UNCHANGED <<net, seq, link, faults, workerVars, hist, bwu, opened, requests>>

-----------------------------------------------------------------------------

ThreadStep(p) ==
    \/ InitiateUpgrade(p) \/ WritePath(p) \/ ProcessUpgradeFailure(p)
    \/ RetryUpgrade(p) \/ ProcessPath(p) \/ AwaitAck(p) \/ WriteFailure(p)
    \/ IncomingConnection(p) \/ ReplaceChannel(p) \/ WriteLast(p)
    \/ DropFrame(p) \/ ProcessLast(p) \/ WriteSafe(p) \/ ProcessSafe(p)
    \/ WriteDisconnection(p) \/ DrainPrior(p) \/ ResumeUpgraded(p)
    \/ EndpointDisconnected(p)

Next ==
    \/ \E p \in Peers : ThreadStep(p) \/ RequestUpgrade(p) \/ RetryAlarm(p)
    \/ \E c \in Channels : Accept(c)
    \/ WorkersNext /\ UNCHANGED <<mgr, bwu, opened, requests>>

Spec == Init /\ [][Next]_vars

\* Every thread gets to run: executors, readers and writers are OS threads, the
\* KeepAlive worker and the retry alarm wait for a timer.
Fairness ==
    /\ \A p \in Peers :
          /\ WF_vars(ThreadStep(p))
          /\ WF_vars(RetryAlarm(p))
          /\ WF_vars(ReaderStep(p) /\ UNCHANGED <<mgr, bwu, opened, requests>>)
          /\ WF_vars(KeeperStep(p) /\ UNCHANGED <<mgr, bwu, opened, requests>>)
          /\ WF_vars(WriterStep(p) /\ UNCHANGED <<mgr, bwu, opened, requests>>)
          /\ WF_vars(RemoveStep(p) /\ UNCHANGED <<mgr, bwu, opened, requests>>)
          /\ WF_vars(OnConnectionAccepted(p) /\ UNCHANGED <<mgr, bwu, opened, requests>>)
    /\ \A c \in Channels : WF_vars(Accept(c))

FairSpec == Spec /\ Fairness

-----------------------------------------------------------------------------
(* Properties *)

\* The endpoint is registered and its removal has not begun.
Registered(p) == conn[p].em = "up"
AllLinksUp == \A c \in Channels : ~link[c].broken

\* The numbers of the encrypted frames in a queue, and whether they come in order.
Numbers(q) == {q[i].seq : i \in DOMAIN q} \ {0}
Increasing(q) ==
    \A i, j \in DOMAIN q : i < j /\ q[i].seq # 0 /\ q[j].seq # 0 => q[i].seq < q[j].seq
Before(S, T) == \A m \in S, n \in T : m < n

\* While the endpoint is registered, encrypted frames in flight are numbered in
\* the order they were written on each channel, all of a prior channel's before
\* any of the active one's, and those of two prior channels do not alternate.
\* This is what RunUpgradeProtocol pauses the new channel for
\* (bwu_manager.cc:757): the reader can take one channel after the other.
WireOrder ==
    \A p \in Peers : Registered(p) =>
        LET frames(c) == Numbers(net[p][c])
        IN  /\ \A c \in Channels : Increasing(net[p][c])
            /\ \A c \in Channels \ {conn[p].active} : Before(frames(c), frames(conn[p].active))
            /\ \A c, d \in Channels :
                  c # d => Before(frames(c), frames(d)) \/ Before(frames(d), frames(c))

SomeoneLate == \E p \in Peers : hist[p].late

\* With working transports a reader meets a frame its context cannot decode
\* only if a worker went on writing on a prior channel after that device's
\* SAFE_TO_CLOSE_PRIOR_CHANNEL (the channel it fetched in EndpointManager was
\* stale), or a device is removing the endpoint.
DesyncOnlyAfterLateWrite ==
    AllLinksUp => \A p \in Peers :
        hist[p].desync => SomeoneLate \/ \E q \in Peers : ~Registered(q)

Received(p) == {hist[p].got[i] : i \in DOMAIN hist[p].got}

InFlight(p, n) ==
    \E c \in Channels :
        /\ ~chan[Other(p)][c].closed
        /\ \E i \in DOMAIN net[p][c] : net[p][c][i].kind = "DATA" /\ net[p][c][i].arg = n

\* Closing the prior channel loses nothing: a payload frame written on it
\* before SAFE_TO_CLOSE_PRIOR_CHANNEL, or on the upgraded channel, is received
\* or still readable ("there can be no data loss", bwu_manager.cc:1345).
NoDataLoss ==
    AllLinksUp /\ (\A p \in Peers : Registered(p) /\ ~hist[p].late) =>
        \A p \in Peers : \A n \in hist[p].intime :
            InFlight(p, n) \/ n \in Received(Other(p))

\* When a device reports the upgrade to its client (OnBandwidthChanged), the
\* other device has registered the same channel, or already dropped the endpoint.
NotifiedImpliesPeerSwitched ==
    \A p \in Peers : \A c \in hist[p].notified :
        conn[Other(p)].active = c \/ ~Registered(Other(p))

Settled ==
    /\ \A p \in Peers : Registered(p) /\ bwu[p].pc = "idle" /\ tasks[p] = << >>
                        /\ ~mgr[p].inProgress
    /\ \A p \in Peers, c \in Channels :
          net[p][c] # << >> => chan[Other(p)][c].closed

\* Once no upgrade is under way, the two devices use the same channel and
\* neither has left its writers waiting.
SettledAgreement ==
    Settled => /\ conn[Advertiser].active = conn[Discoverer].active
               /\ \A p \in Peers : ~chan[p][conn[p].active].paused

Gone(p) == conn[p].active = None
OverIn(q) == \E i \in DOMAIN q : q[i].kind = "OVER"
Clean(p) == ~mgr[p].inProgress /\ mgr[p].previous = None /\ ~mgr[p].upgraded

\* Once BwuManager::OnEndpointDisconnect has run for a removed endpoint, nothing
\* that was still queued or arrives later - frames of the prior channel, a failed
\* attempt, the retry alarm, a request of the client - starts an upgrade again: a
\* later connection to the same endpoint id would find it in progress.
NothingLeft ==
    \A p \in Peers : Gone(p) /\ ~OverIn(tasks[p]) => Clean(p)

\* An upgrade that has begun ends (in_progress_upgrades_ is cleared), unless a
\* late write disturbed the shutdown of the prior channel.
UpgradeEnds ==
    \A p \in Peers : mgr[p].inProgress ~> ~mgr[p].inProgress \/ SomeoneLate

\* A writer that waits on a paused channel is released, with the same proviso.
PauseEnds ==
    \A p \in Peers, c \in Channels :
        chan[p][c].paused ~> ~chan[p][c].paused \/ SomeoneLate

\* A payload written before the prior channel's shutdown arrives.
DataArrives ==
    \A p \in Peers : \A n \in 1..MaxPayloads[p] :
        n \in hist[p].intime ~>
            n \in Received(Other(p)) \/ SomeoneLate

\* The same without the proviso: the prior channel may be closed "regardless of
\* whether the EndpointChannel allows reads of queued, unread data" after that,
\* and "there can be no data loss" (bwu_manager.cc:1345).
NoDataLossRegardless ==
    AllLinksUp /\ (\A p \in Peers : Registered(p)) =>
        \A p \in Peers : \A n \in hist[p].intime \cup hist[p].overdue :
            InFlight(p, n) \/ n \in Received(Other(p))

\* An offer made before the other device reports the connection is answered:
\* the advertising side "could have chance to initialize another upgrade flow
\* again" (bwu_manager.cc:574), which in_progress_upgrades_ forbids until then.
PathAnswered == mgr[Advertiser].inProgress ~> ~mgr[Advertiser].inProgress

\* The serial thread always comes back from the handler it is in, though it
\* writes on channels that only the same thread resumes.  (Not if the peer gave
\* up waiting for an acknowledgement that this device did send.)
ThreadReturns == \A p \in Peers : bwu[p].pc # "idle" ~> bwu[p].pc = "idle"

=============================================================================
