# A verification project for Nearby Connections

This directory specifies, in TLA+, the core of Google Nearby Connections as it
stands in `src/connections/implementation/`: the endpoint channels between two
devices, the threads that use them, the bandwidth upgrade that moves a live
connection from one radio to another, how a connection is established, and how a
payload is transferred over it. TLC checks bounded instances; TLAPS proves
the theorems listed below for every instance. `PROJECT.json` maps every
definition to the source lines it stands for.

Contents: [the system](#the-system), [hard behaviours](#where-it-is-hard),
[modules](#modules), [correspondence](#correspondence-with-the-code),
[abstractions](#abstractions), [runs](#runs), [fairness](#fairness),
[proofs](#proofs), [disagreements found](#disagreements-with-the-comments),
[other behaviour met](#other-behaviour-met), [not modelled](#not-modelled), [plan](#plan).

## The system

An app on each device uses `Core`; `ServiceControllerRouter` serialises its calls
and hands them to `OfflineServiceController`, which owns the managers below. All
paths are under `src/connections/implementation/` unless they start with `src/`.

| component | state it keeps | operations | talks to | what makes it correct |
|---|---|---|---|---|
| `BaseEndpointChannel` | `is_paused_`, `is_closed_`, `crypto_context_`, reader and writer | Read, Write, Pause, Resume, Close, Enable/DisableEncryption | the radio; called by every worker | frames reach the wire in the order they were numbered; a paused writer is released |
| `EndpointChannelManager` | one active channel and one UKEY2 context per endpoint | Register, Replace, Encrypt, Get, Unregister | `BwuManager`, `EndpointManager` | one context is shared by old and new channel; an unregistered channel is closed |
| `EndpointManager` | a reader, a keep-alive worker and executors per endpoint; frame processors | Register, Discard, Unregister, SendTransferFrameBytes, the worker loops | every frame processor | a worker follows the connection to the next channel; removal tells every processor once |
| `BwuManager` | `in_progress_upgrades_`, `previous_endpoint_channels_`, `successfully_upgraded_endpoints_`, `endpoint_id_to_bwu_medium_`, retry alarms | Initiate, PATH_AVAILABLE, introduction, LAST_WRITE, SAFE_TO_CLOSE, UPGRADE_FAILURE, retry, disconnect | the peer's `BwuManager` by frames; the two managers above | both devices switch to the same channel, nothing is lost or reordered, every attempt ends |
| BWU handlers (`base_bwu_handler`, `mediums/*_bwu_handler`) | services that listen per medium | initialise, create channel, revert | `BwuManager` | what was initialised is reverted |
| `PayloadManager` | pending payloads, their offsets and endpoints | send loop, chunk and control packets, cancel, acknowledgement | `EndpointManager` | a payload reaches exactly one final status on each side |
| `BasePcpHandler`, `encryption_runner` | pending connections, accept/reject answers | request, incoming connection, tie break, accept, reject | `EndpointManager`, `ClientProxy` | both sides agree on the outcome; each request is answered once |
| `ClientProxy` | what the client knows: advertising, discovery, connections and their status | the callbacks to the app | everything | callbacks come in the order initiated, accepted or rejected, disconnected |
| P2P handlers, `PcpManager` | discovered and lost endpoints, advertising state | start/stop advertising, discovery, connect | `mediums/` | found and lost alternate per endpoint |
| `offline_frames`, its validator, advertisement encodings | none | build, parse, check | - | round trip |
| `mediums/`, `src/internal/platform/` | sockets, radios, executors, locks | drivers | the OS | - |
| analytics, `src/connections/{c,dart,swift,file_share}`, `src/sharing/` | logs, wrappers, an application on top | - | `Core` | - |

How they meet: frames are read by `EndpointManager`'s reader and handed to the
frame processor of their type. `BwuManager` posts each to its serial executor;
`PayloadManager` processes them on the reader's thread. Payload threads write
with `SendTransferFrameBytes`. All of them ask `EndpointChannelManager` for the
active channel, get a `shared_ptr`, and use it *after* its lock is released.

## Where it is hard

* Two channels, one UKEY2 context. The context numbers encrypted frames and its
  decoder takes only the next number. During an upgrade frames are written on the
  old and the new channel by several threads; a frame read out of order, or one
  the peer never reads, ends decryption for good. The code's answer is to pause
  the new channel until the old one is drained (`bwu_manager.cc:757-764`).
* A stale channel. Between `GetChannelForEndpoint` and `Write` a worker may lose
  its channel to a replacement, a shutdown, a close.
* One serial thread that blocks. `BwuManager` writes and reads inside tasks; a
  write on a paused channel waits for a `Resume` this very thread should do.
* Timeouts that race answers. The introduction and its acknowledgement have read
  alarms; a device that gives up may have been acknowledged.
* Removal at any time, with a lock held over a 500 ms sleep, a bounded wait for
  the frame processors, and tasks still queued for the endpoint.
* The window in which one client has been told of the connection and the other not.
* Everything is keyed by an endpoint id or a payload id, never by the connection or
  the transfer. Both ids are used again: a second connection to the endpoint, a
  resumed file. What was queued for the first may then meet the second.
* Four threads wait for one another without a timeout: the client's router, the
  PcpHandler thread, the endpoint manager thread, the reader of the connection.
* A payload's outcome is computed by the sending thread from what it was told, by
  the readers from what they receive, and by the end of the connection; the client
  hears whichever reaches the status thread first, and should hear nothing more.

`PROJECT.json` lists each hazard at its line, with the properties that watch it or
the reason none does yet.

## Modules

| module | models | |
|---|---|---|
| `EndpointChannels` | the channels between two devices: flags, frames in flight, the two devices' sequence numbers, transport failures | `base_endpoint_channel`, `endpoint_channel_manager`'s encryption |
| `EndpointWorkers` | extends it by the reader, the keep-alive worker, a payload thread, and the removal of the endpoint | `endpoint_manager`, `endpoint_channel_manager` |
| `BandwidthUpgrade` | extends it by the two `BwuManager` threads; the full specification and its properties | `bwu_manager` |
| `PayloadStream` | abstract specification: what a connection promises to the clients | - |
| `UpgradeStream` | the refinement mapping from `BandwidthUpgrade` to `PayloadStream` | - |
| `MCBandwidthUpgrade` | constants for TLC | - |
| `BandwidthUpgradeProofs` | `TypeCorrect`, `NothingLeftBehind`, `UpgradedAfterPrior` | - |
| `HandoverInvariant` | the invariant of both devices through an upgrade (`Handover`), and the steps that do not switch channels | - |
| `HandoverProofs` | the steps that do; `StaysDecodable`, `SettlesInAgreement`, `NothingLost`, `ReceivedInOrder` | - |
| `PayloadStreamProofs` | `ArriveInOrder`, `NoneLost` | - |
| `OutgoingPayloads` | the sending half of a payload transfer: the client's calls, the send loop, the status update thread, the end of the manager | `payload_manager` |
| `PayloadManager` | extends it by the receiving half on every endpoint; the full specification and its properties | `payload_manager`, `client_proxy` |
| `MCPayloadManager` | constants for TLC | - |
| `PayloadManagerProofs` | `TypeCorrect`, `OneOutcome`, `OneIncomingOutcome` | - |
| `PayloadOutcomeProofs` | `SuccessIsReceived`, `IncomingSuccessIsWhole`, `ClientsAgree` | - |
| `PcpConnection` | both devices from the request of a connection to its result and its end | `base_pcp_handler`, `encryption_runner`, `endpoint_manager`, `client_proxy` |
| `MCPcpConnection` | constants for TLC | - |
| `PcpConnectionProofs` | `TypesHold`, `ClientsHearInOrder` | - |
| `ChannelLocks` | one channel of one device under all the threads that use it, mutex by mutex | `base_endpoint_channel` |
| `MCChannelLocks` | constants for TLC | - |
| `ChannelLocksProofs` | `TypeCorrect`, `NoneSleeps`, `ClosedStaysOpen`, `NothingEarly`, `WrittenInOrder`, `ReadInOrder` | - |

The first three specifications meet at the connection. `PcpConnection` ends where
`BandwidthUpgrade` begins: both clients accepted, the channel registered and
encrypted. `PayloadManager` assumes of a connection what `PayloadStream` promises
and `UpgradeStream` shows `BandwidthUpgrade` to implement: frames arrive in order,
none twice, and none is lost unless the connection ends (its links are FIFO queues
that a break or a close empties). They are not checked as one state machine: the
upgrade alone has millions of states. `ChannelLocks` looks inside the channel that
`EndpointChannels` takes as given: there a Write, a Read or a Close is one step.

## Correspondence with the code

Both devices, called after the side they took when they connected (`Advertiser`
accepted, `Discoverer` requested), run the same modules. A channel is a number: 0
is the channel of the connection, `n` the one the `n`-th upgrade attempt offers;
each device has its own object for it.

| variable | code |
|---|---|
| `chan[p][c]` | `is_paused_`, `is_closed_`, `crypto_context_` of p's `BaseEndpointChannel` for c |
| `net[p][c]` | bytes p wrote to c's socket that the peer has not read |
| `seq[p]` | the counters in p's `EncryptionContext`, which all its channels share |
| `link[c]` | medium of c; whether the socket failed; whether it is connected but not yet accepted (`dialled`) |
| `conn[p].active` | `EndpointData::channel`; `None` once it is unregistered |
| `conn[p].connected` | `ClientProxy::IsConnectedToEndpoint` |
| `conn[p].em` | the endpoint manager thread: `closing` while `RemoveEndpoint` holds the channel manager's lock, `removing` while it waits for the frame processors, `cleaned` when `BwuManager` has answered, `gone` |
| `reader`, `keeper`, `writer` | the thread's position and the channel it holds; `failed` is `last_failed_medium` |
| `tasks[p]` | the queue of `BwuManager::serial_executor_` |
| `mgr[p]` | `BwuManager`'s maps at the key of this endpoint |
| `bwu[p]` | where the task that is running stands: a task is one action up to a read or write that may block, and one action for each such call |
| `hist[p]` | history only: no guard reads it |

One upgrade, in the model's actions (A advertiser, D discoverer):

```
A RequestUpgrade, InitiateUpgrade, WritePath     InitiateBwuForEndpoint
D ReaderFrame, ProcessPath (Join), AwaitAck      ProcessBwuPathAvailableEvent
A Accept                                         the handler's accept loop
A IncomingConnection                             OnIncomingConnection
both ReplaceChannel, WriteLast                   RunUpgradeProtocol
both ReaderFrame, ProcessLast, WriteSafe         ProcessLastWriteToPriorChannelEvent
both ReaderFrame, ProcessSafe, WriteDisconnection,
     DrainPrior, ResumeUpgraded                  ProcessSafeToClosePriorChannelEvent
```

Failures go through `WriteFailure` (`RunUpgradeFailedProtocol`),
`ProcessUpgradeFailure`, `RetryAlarm` and `RetryUpgrade`; the end through
`BeginRemoval`, `RemoveEndpoint`, `EndpointDisconnected`, `Disconnected`.

The initial state of `BandwidthUpgrade` is an encrypted connection on channel 0. `InitiallyConnected`
says whose client has been told: with the advertiser alone, the model starts in
the window between `EncryptChannelForEndpoint` and the discoverer's
`OnConnectionAccepted` (`base_pcp_handler.cc:2467-2507`), which
`OnConnectionAccepted` closes.

A payload transfer has one host and one or several endpoints (phones). All sends
carry one payload id; a send is named by its number, `k`.

| variable | code |
|---|---|
| `link[e]` | the frames each way, whether the transport broke, and the state of both ends: `leaving` from the close of the channel until `ClientProxy::OnDisconnected`, then `gone` |
| `pay[k]` | the `PendingPayload` of send k: its `EndpointInfo`s with their status and acknowledgement, `is_locally_canceled_`, whether it is closed, how far it was read |
| `host` | what `pending_payloads_` holds at the id (`tracked`), `shutdown_`, `shutdown_barrier_` |
| `sender` | the executor of the payload's type: the queue of sends and the position in `SendPayloadLoop`; `pending` and `awaited` are the payloads it holds a handle to |
| `hostTasks`, `peerTasks[e]` | the queues of `payload_status_update_executor_` |
| `acks[e]` | the queue of `send_payload_ack_executor_` |
| `peer[e]` | the incoming `PendingPayload` at the id; `inst` numbers them |
| `heard` | history: what each client was told |
| `hist` | bounds and history: no guard of the code reads it |

One transfer: `SendPayload`, `TakeSend`; per chunk `NextChunk` (the top of
`SendPayloadLoop`: who is still there, cancellation, failures), `DetachAndSend`,
then for each endpoint `ConfirmChunk` or `CheckAck` with `AckReceived`,
`AckTimeout` or `AckInfoErased`; `ChunkDone`; at the end `PostDestroy` and
`ReleaseHandle`. At the endpoint `PeerFrame` (`ProcessDataPacket`,
`ProcessControlPacket`), `SendPayloadAck` and `PeerStatusStep`; back at the host
`HostFrame` and `StatusUpdate`. `CloseHostEnd` and `HostDisconnected` are the two
halves of `EndpointManager::RemoveEndpoint` around `OnEndpointDisconnect`.

In `PcpConnection` a channel is named by the request that opened it.

| variable | code |
|---|---|
| `chan[k]` | the nonce of request k, the ends that are open, the frames in flight |
| `dev[d].call` | the client's call that has not returned (`ServiceControllerRouter` makes one at a time) |
| `dev[d].client` | `ClientProxy`'s `Connection` for the endpoint: what both sides answered; `told` is the history of its callbacks |
| `dev[d].pending` | `pending_connections_` at the endpoint; `own` until the channel has moved to `EndpointManager`, `waits` while the caller of `RequestConnection` waits for its result |
| `dev[d].pcp`, `em` | the queues of the PcpHandler thread and of the endpoint manager thread |
| `dev[d].blocked` | the PcpHandler thread waits in `RegisterEndpoint` |
| `dev[d].phase` | how far the endpoint manager thread is in `RemoveEndpoint` |
| `dev[d].active`, `reader` | the channel in `EndpointChannelManager`; the reader of the registered endpoint, `waiting` in `OnIncomingFrame` for the PcpHandler thread |
| `dev[d].crypt[r]` | `EncryptionRunner`'s client and server executors |
| `dev[d].alarm` | `pending_alarms_`: the delayed close of a rejected connection |
| `dev[d].crashed` | the process ended in a null dereference |
| `hist` | bounds and history; `crossed` are channels hit by the clean-up of another, `silent` those whose handshake ended without a callback |

In `ChannelLocks` there is one channel, from the upgrade that brings it in paused
to the next upgrade or the removal that ends it.

| variable | code |
|---|---|
| `chan` | `is_paused_`, `is_closed_`, whether `crypto_context_` is set |
| `io` | whether `reader_` and `writer_` are open; whether the transport failed |
| `ctx` | the two counters of the UKEY2 context |
| `wire` | what the transport took, in parts (the length and the message), and the frames it holds for this device |
| `peer` | how much the peer has encrypted, and how far it is in giving up the channel |
| `pc[t]`, `arg[t]` | where thread t is in Write, Read or Close, and its frame. Who holds a mutex follows from `pc` (`WriterHolders`, `CryptoHolders`, `ReaderHolders`) |
| `calls`, `life` | writes each worker has made; how far `BwuManager` and the removal are with the channel |
| `hist` | history: what Read returned, whether it lost a frame, how many numbers went to frames that Write refused |

A write: `WriterCalls` (the pause check; `waiting` is the condition variable's
queue), `Woken`, `LockWriter`, `LockToEncode`, `Encode`, `WriteHeader`, `WriteBody`
or `WriteFails`. A read: `ReaderCalls` or `Drain`, `LockReader`, `TakeFrame` or
`ReadFails`, `LockToDecode`, `Decode`. A close: `CallClose`, `CloseReader`,
`CloseWriter`, which take no mutex.

## Abstractions

The upgrade:

* Write takes the pause check, the encoding and the send in one step.
  `writer_mutex_` covers the last two, and `WireInOrder` of `ChannelLocks` shows
  that nothing comes between a number and its frame. The pause check comes before
  them: a writer that has passed it may be overtaken. A channel is paused only
  before any other thread can see it (`HeldBack`), so that this matters for a close
  only, where a released writer may still write before the close reaches the
  transport; in `EndpointChannels` that write fails.
* A read takes the frame and decodes it in one step. The only other user of the
  decoder is the drain of a prior channel, after encryption was switched off there
  (`DecodedInOrder` of `ChannelLocks`).
* A failed write has used up its sequence number, as `EncodeMessageToPeer` has.
* What the other end had queued when it closed may or may not be readable:
  transports differ, as the code's own comment says.
* A channel whose other end is closed accepts writes until a write fails.
* Which mediums are available at a moment is arbitrary, and so is the point at
  which a timer fires.
* `ReplaceChannel` takes the two lookups of the active channel in one step. A
  removal in between makes `ReplaceChannelForEndpoint` return without effect.
* Waiting for the worker threads when an endpoint's state is deleted is left out.
* Flags have their defaults: `support_multiple_bwu_mediums`,
  `enable_async_bandwidth_upgrade` and `kFilterUnconfirmedEndpointFrames` on (the
  last is a constant), safe-to-disconnect and dynamic role switch off (a close may
  come at any moment anyway; what is lost is the exchange before it). Whether the
  offering device acknowledges CLIENT_INTRODUCTION is the constant
  `IntroductionAck`; without it a device can read the other's LAST_WRITE before it
  has replaced its own channel.
* The accept loop may hand a connected socket to `BwuManager` at any later time;
  once listening has stopped the socket is dropped.
* `ConditionVariable::Notify` wakes every waiter, as the platform implementations do.

Payloads:

* One payload id. Updates for all endpoints that became unavailable are one task
  (`UpdateUnavailable`), where the code posts one for each; they concern different
  endpoints, and nothing is posted between them but by other threads.
* Detaching a chunk and writing it to all endpoints are one step; each write fails
  or not by itself, and must fail once this end is closed or broken. A failed write
  counts as a broken link, because the code discards the endpoint.
* Chunk sizes and offsets are chunk numbers; a read that fails looks like the end
  of the data, as `DetachNextChunk` makes it. The throttle of progress updates
  between the first and the last chunk is left out.
* A reader may have one frame in hand when its channel is closed.
* `StopManager` sets `shutdown_` and unregisters the frame processor in one step.
  The executors run what is queued before they are joined.
* Undefined behaviour is a choice: an acknowledgement task whose payload is
  destroyed may send an acknowledgement or not (`SendPayloadAck`), a wait on an
  `EndpointInfo` that was erased may end either way (`AckInfoErased`).

Establishment:

* The peer advertises and accepts any channel. A request that cannot be written is
  one that could not connect.
* A server's first read is one step with its start; a handshake that sees an end
  of the channel fails.
* The frame DISCONNECTION is folded into the close of the channel. The keep-alive
  worker, safe-to-disconnect and V3 requests are left out.
* The 11 s bound on the wait for frame processors matters only when the PcpHandler
  thread is blocked: only then may it expire (`StopAwaiting`).
* Every timer may fire at any time, also just after what it guards has been read.

One channel, lock by lock:

* `is_paused_mutex_` is never held across a wait but by the condition variable, and
  what runs under it is one step. The other three mutexes are held over several.
* The peer is the frames it writes: encrypted, in order, then its LAST_WRITE, its
  consent once it has this device's LAST_WRITE, and a last frame in clear; or a
  DISCONNECTION at any moment. What it encrypts on other channels is left out.
* The transport takes a frame in two parts, takes any part late or never, and may
  fail at any moment. A write into a closed one fails.
* The counters start at 0 for this channel: those of the channel before it go on.
* Whether a frame is above `max_allowed_read_bytes_` is a choice for the writers in
  `Oversized`.

Bounds, all of them constants. Upgrade: `MaxAttempts` upgrade channels (at the bound, a
medium fails to initialise), `MaxFaults` adverse events (broken transport, failed
connection, expired read alarm, keep-alive timeout, bounded wait expired, client
leaving; `FaultKinds` says which of them may happen), `MaxPayloads` and
`MaxKeepAlives` frames per device, `MaxRequests`
requests of a client. Payloads: `Chunks`, `MaxSends`, `MaxTasks` (how many status
tasks the sending thread may let queue up before it starts another chunk),
`MaxFaults` and `FaultKinds`. Establishment: `Callers` (who requests, and how
often), `Nonces`, `MaxFaults` and `Kinds`. One channel: `MaxWrites` per writer and
`MaxIncoming` payload frames of the peer.

## Runs

`Payload`, `TwoPhones` and `SilentTimeout` instantiate `MCPayloadManager`,
`Establish` and `Deadlock` `MCPcpConnection`, `Locks` `MCChannelLocks`, the others
`MCBandwidthUpgrade`. `CHECK_DEADLOCK FALSE` everywhere: a connection with no work
left, or one that is removed, stops. What is proved for all constants is checked in
one run only.

| run | instance | checks | shows |
|---|---|---|---|
| `Upgrade` | filter off, D's client not yet told, 2 mediums, 2 attempts, 1 payload frame from A, no faults; fair | `NoDataLoss`, `SettledAgreement`, `UpgradeEnds`, `PauseEnds`, `ThreadReturns`, `DataArrives`, `StreamSpec` | the protocol under every interleaving; an early offer is refused and tried again |
| `Retry` | both clients ask, 2 mediums, 2 attempts, 1 failed attempt or keep-alive timeout, new channel in clear | `NotifiedImpliesPeerSwitched`, `NothingLeft` | next medium, retry alarm, crossing offers, a removal at any point |
| `Faults` | 1 attempt, 1 payload frame from A, 1 fault anywhere but a keep-alive timeout | `WireOrder`, `StreamSpec` | failures at every step |
| `EarlyLast` | 1 attempt, the introduction not acknowledged, a keep-alive from A, a payload frame from D | `TypeOK`, `WireOrder`, `DesyncOnlyAfterLateWrite`, `StreamSpec` | a LAST_WRITE that overtakes the channel replacement; workers on stale channels |
| `Payload` | 1 endpoint with acknowledgement, a file of 1 chunk (and its empty last one), 1 send, 2 faults of any kind; fair | `TypeOK`, `HostFinalOnce`, `PeerSuccessWhole`, `OutcomeAgreement`, `EveryoneTold`, `IncomingEnds`, `TeardownEnds` | outcomes of a transfer, whatever two things go wrong |
| `TwoPhones` | 2 endpoints, one with acknowledgement, an empty stream, 2 sends with one id, 1 fault | `SuccessMeansReceived`, `PeerFinalOnce` | one endpoint's trouble and a reused id do not disturb the other's outcome |
| `Establish` | both devices request, nonces equal or the second larger, 1 fault, timeout, disconnection or rejection | `TypeOK`, `OneResult`, `ResultAgreement`, `ResultTold`, `CallsReturn`, `PendingEnds`, `TieResolved`, `NoOrphan` | simultaneous connection, and its end at any point |
| `Locks` | 2 writers with 1 write each (any frame may be too long), 1 payload frame from the peer; writers symmetric | `TypeOK`, `WireInOrder`, `NoLostWakeup`, `HeldBack`, `ClosedNotPaused`, `DecodedInOrder`, `CallsReturn`, `DecodingEnds` | the order the mutexes give, pause, resume and close under all of them |
| `LossRegardless`, `FilteredPath`, `SilentTimeout`, `Deadlock` | see below | one property each | expected violations |

What the properties say, in short:

* `WireOrder`: while the endpoint is registered, encrypted frames in flight are
  numbered in order on each channel, all of a prior channel's before any of the
  active one's, and those of two prior channels do not alternate: a reader can take
  one channel after the other. It breaks if the new channel is not paused, or resumed
  too early.
* `DesyncOnlyAfterLateWrite`: a decoder meets a number it cannot take only because
  a worker wrote on a prior channel after SAFE_TO_CLOSE, or an endpoint is being
  removed. It excludes every other way two threads might disturb the context.
* `NoDataLoss`: what was written on the prior channel before SAFE_TO_CLOSE, or on
  the new one, is received or still readable. It is
  checked where one client asks: an offer that arrives during an upgrade makes the
  code close both channels (`bwu_manager.cc:864-891`), and what is queued is lost
  with the connection.
* `NotifiedImpliesPeerSwitched`: when the client hears `OnBandwidthChanged`, the
  peer has switched to that channel or dropped the endpoint.
* `SettledAgreement`: when no upgrade is under way both devices use the same
  channel, and it is not paused.
* `NothingLeft`: see the proof below.
* `StreamSpec`: the connection implements `PayloadStream`. Frames arrive in order
  and none twice, faults or not. Losses need an excuse: a broken transport, a
  removed endpoint, or a late write.
* `ThreadReturns`: whenever the serial `BwuManager` thread is inside a task, the
  task comes to its end. Without faults; see below for a lost acknowledgement.
* `UpgradeEnds`, `PauseEnds`, `DataArrives`: progress, with the proviso that no
  worker wrote late. The proviso is needed: a late frame may be the one the drain
  reads in place of the peer's SAFE_TO_CLOSE.
* `HostFinalOnce`, `PeerFinalOnce`: a client hears one outcome of a payload. For a
  receiver there is an exception, which the property states exactly.
* `SuccessMeansReceived`, `PeerSuccessWhole`, `OutcomeAgreement`: Success means
  that the data was attached in full, at the device that says so or, with
  acknowledgements, at the other; and then both clients hear Success.
* `EveryoneTold`, `IncomingEnds`, `TeardownEnds`: an outcome comes, a payload that
  starts to arrive ends, the destructor's wait ends. Their provisos are the ways in
  which the code does not do so; see below.
* `OneResult`, `ResultAgreement`: the callbacks of a connection come in order and
  once, and the two clients do not hear opposite results.
* `ResultTold`, `CallsReturn`, `PendingEnds`, `NoOrphan`, `TieResolved`: what must
  have happened when nothing is left to do. Every behaviour of `PcpConnection` is
  finite (requests, answers and faults are bounded, every other step uses up a
  task, a frame or a thread), so that eventually P is: P holds in every state
  without a step of the system. `InTheEnd` says this, as an invariant.
* `WireInOrder`: what the transport of a channel takes are whole frames, the two
  parts of one Write next to each other, with growing numbers. No number is missing
  but one of a frame that was refused for its size.
* `HeldBack`: no number is taken and nothing is written on a new channel before it
  is resumed, removed or closed.
* `NoLostWakeup`, `ClosedNotPaused`: who sleeps sleeps on a paused channel, and a
  closed channel is not paused. `CallsReturn` of `ChannelLocks`: when the threads have
  done what they can without the transport, every call on a closed channel has
  returned. `DecodingEnds`: nor does a Write that is stuck keep a Read, which has its
  frame, from returning.
* `DecodedInOrder`: the reader and the draining Read pass frames on in the order the
  peer encoded them, and neither loses one.

Why the bounds are enough to be worth checking. Upgrade: one attempt contains every
interleaving of the two devices' eight threads over both channels, since at most
two channels are in use at a time; two attempts add a prior channel that is itself
an upgraded one, offers that cross, and an attempt after a failed one; one fault at
any point covers every handler's error path. One payload frame may be written in
time or late. What these bounds do not show: two faults in one upgrade, three
successive channels, and two payload frames on either side of a switch. Where
transports work and no acknowledgement is lost, the proofs show the last two.

Payloads: with one data chunk and the empty last one, a transfer has a first, a
last and a truncated form; two faults let each error path meet a disconnection, a
cancellation or a shutdown. Two sends with one id exercise every look-up by the id.
Two endpoints with two sends and links that break are too many states, so `TwoPhones`
leaves the connection's faults to `Payload` (`OneTransfer`).

Establishment: with a request on each side the two devices have up to two channels
at once, in both roles; one fault at any point covers every error path. A tie needs
both calls before either is served, so that the first nonce's being the larger one is
the mirror image of the second's. Three
requests, where a clean-up may hit a connection that is two requests younger, are
beyond exhaustive checking.

One channel: two writers and the `BwuManager` thread are three writers on one
channel, a fourth is the removal; the reader and the drain are two readers. A second
write per writer meets the same mutexes in the same order; the proofs cover it.

## Fairness

`FairSpec` asks weak fairness of each thread's steps: the two `BwuManager`
threads, readers, keep-alive workers, payload threads, the removal, the retry
alarm, the accept loop and the client's report of the connection. Each is an OS thread or a timer of
its own, and its next step stays enabled until it is taken, or until another thread
closes or pauses the channel it would use. Nothing that is adverse is fair, nor is
a client's request. Weak fairness suffices: no thread needs a lock others keep
taking for ever.

`PayloadManager`'s `FairSpec` asks the same of the executor of the payload's type,
the status threads, the readers, the acknowledgement executors, the workers that
notice a closed connection, and the removal and teardown threads. The client and
everything adverse (`Fault`) is not fair. `PcpConnection` needs no fairness, as its
liveness is stated in states in which nothing is left to do; those take for granted
that each thread goes on, that alarms fire and that a client answers. The same holds
of `ChannelLocks`, with less granted: its `InTheEnd` are the states in which no thread
can go on inside a call; neither the transport nor any caller need ever act.

## Proofs

Proved by TLAPS from the named assumptions on the constants only: `PeersDistinct`,
`MediumsTyped`, `BoundsTyped`, `NoneIsNoChannel`, `WorkersTyped`, `UpgradeTyped`,
`PayloadTyped`, `ThreadsDistinct`, `ConstantsAssumption`; the four theorems of
`HandoverProofs` have hypotheses, given there. No bound is fixed. Every
inductive invariant was checked by TLC on a run's instance before it was proved.

`BandwidthUpgradeProofs`:

* `TypeCorrect == Spec => []TypeOK`. More than sorts: the entry in
  `EndpointChannelManager` exists exactly while the endpoint manager thread has not
  removed it; a handler holds the channels its next step dereferences; and the
  thread is about to write SAFE_TO_CLOSE only if `previous_endpoint_channels_`
  still has the channel. One lemma per action, each on lemmas about what the
  operators return.
* `NothingLeftBehind == Spec => []NothingLeft`. After
  `BwuManager::OnEndpointDisconnect` for a removed endpoint, no queued task, late
  frame, half-finished handler, retry alarm or request makes an upgrade in
  progress, or leaves a prior channel, for a later connection to the same endpoint
  id. `NothingLeft` is not inductive: a thread that is half way through an attempt
  would finish it. `OverInv` adds that once the endpoint is gone and its OVER task
  done, the thread is idle or about to report a failure (which it cannot: there is
  no channel). It is inductive because tasks are processed in order - an OVER
  queued cannot be overtaken - and because every handler looks up the active
  channel before it starts.

* `UpgradedAfterPrior == Spec => []WireOrder`. The numbers come from one counter, so
  that the order can only break where two channels can be written on with encryption
  at the same time. `OneWritable` says that there is at most one, and that what is in
  flight on it was numbered last. It is inductive only with what keeps the others
  from being written on: a channel that is not the active one is in clear, paused or
  closed, but for the prior channel between its replacement and the resumption of
  the new one, which is halted so long (`NewHalted`); and the `BwuManager` thread
  knows this of the channel it has in hand, through every step of `RunUpgradeProtocol`
  and of `ProcessSafeToClosePriorChannelEvent` (`ThreadKnows`): it resumes the new
  channel only when no channel is left on which a worker could take a number. A removal may
  resume a paused channel in the midst of this; then the endpoint is no longer
  registered and the property asks nothing.
  The other half is that a device registers each channel once, before which it has
  not touched it (`OffersInv`). This is a fact about the offer: it is in one
  place at a time, about to be written, in a frame on one channel, in the discoverer's
  queue, then in its task, in the accept loop, in the advertiser's queue and in its
  task. So a channel that is closed or has gone through its life does not come back
  as a new, open one.

`HandoverInvariant` and `HandoverProofs`, for any number of successive upgrades,
payload and keep-alive frames and requests. Hypotheses:

* `Undisturbed`, of the constants: requests for an upgrade come from the
  advertiser, as `EvaluateConnectionResult` and the retry alarm make them, and the
  read alarms do not fire (any other fault may happen, as often as it likes). Runs
  `Upgrade` and `EarlyLast` are instances. Both parts are needed: see "Other
  behaviour met" for what happens otherwise.
* `Fine`, of the state: no transport has broken, both endpoints are registered, and
  nobody has written on a prior channel after SAFE_TO_CLOSE. The
  properties make these provisos themselves, but for `SettledAgreement`, to which
  the theorem adds the transports and the late writes (it speaks of registered
  endpoints). Once `Fine` is false, nothing is claimed.
* `Reported`, for losses only: with the filter for unconfirmed endpoints, the
  connection was reported to both clients. Otherwise the filter drops DATA.

The theorems:

* `StaysDecodable == Spec => []DesyncOnlyAfterLateWrite`, `SettlesInAgreement`
  (`SettledAgreement`, as long as transports work and nobody wrote late).
  Neither is inductive, since both relate the two devices. `HandoverInv` says where
  each is in `RunUpgradeProtocol` and `ProcessSafeToClosePriorChannelEvent` (`Stage`:
  at ease, halting, told, agreed, ending, finishing) and which pairs are possible:
  a device has told the other (LAST_WRITE), and the other has agreed (SAFE_TO_CLOSE),
  exactly if that frame is in flight, in the queue of the other's `BwuManager`, in its
  hands, or processed, and in only one of these. An offer is likewise in one place.
  The frames in flight on the one channel that a device may encrypt on are numbered
  without a gap, from the next one its peer expects; nothing else that can be decoded
  is in flight. When both sides have agreed, the prior channel holds clear
  frames only, so that the drain takes nothing that matters, and a device resumes
  the new channel when the peer has no numbered frame left to read on the old one.
* `NothingLost == Spec => []NoDataLoss`. `DataInv` adds that a payload frame written in
  time is received or is in flight on a channel the peer will still read. It is kept
  because a channel is closed only when it is `Spent`: the closing device has read
  the other's SAFE_TO_CLOSE there, behind which only DISCONNECTIONs come.
* `ReceivedInOrder == Spec => [](Fine => Stream!InOrder)`. `LineInv` adds that the
  payload frames in flight come in order across all channels, those of a channel
  offered earlier first, and are all later than those received, in whatever thread a
  frame is read; and that the loops move only to channels offered later.

`PayloadStreamProofs`:

* `ArriveInOrder`, `NoneLost`: in `PayloadStream` frames arrive in order, none
  twice, and none is lost without an excuse. With `StreamSpec` these carry over to
  `BandwidthUpgrade`, after faults too. That step is model-checked; `NothingLost` and
  `ReceivedInOrder` prove the two facts of `BandwidthUpgrade` without it, for
  working transports.

`PayloadManagerProofs`:

* `TypeCorrect == Spec => []TypeOK`. The barrier stays 0 or 1; the executor waits
  exactly for an endpoint of a payload it holds. A chunk number stays within
  `Chunks` only because no chunk is written before those ahead of it are read or
  the payload is closed (`ChunksRead`), which is why the invariant proved is
  stronger than the types.
* `OneOutcome == Spec => []HostFinalOnce`. A report alone does not say that it is
  the last one. `HostReports` adds what makes it so: a payload that was told an
  outcome for an endpoint no longer has that endpoint, and reports are of payloads
  that were sent. Removed endpoints never come back, except in a payload that
  nothing was said about yet.
* `OneIncomingOutcome == Spec => []PeerFinalOnce`. `PeerReports` adds that an
  incoming payload of which an outcome was told is no longer tracked, or, if that
  outcome was its disconnection, has no endpoint; and that numbers of incoming
  payloads grow.

`PayloadOutcomeProofs`, with the invariants of `PayloadManagerProofs`:

* `SuccessIsReceived == Spec => []SuccessMeansReceived`. The property relates what
  one client hears to what the other device did, so its invariant `ReceiptInv`
  follows the payload all the way there and the acknowledgement all the way back.
  `SenderOnce`: one send is one loop of the executor, and a chunk goes to every
  endpoint that can still be sent to. `Arriving`: for some number of chunks that
  the endpoint has read, the data frames in flight to it are numbered from there
  on, and the sender continues where they end; what the endpoint assembles is then
  all chunks below that number. The number exists but is no variable of the code,
  so the invariant says that there is one. `AckedWhole`: wherever an acknowledgement
  is - in the executor, on the wire, noted at the sender, in a task for the client,
  or told as Success - the endpoint had attached everything or an attachment failed
  there. The property is about a payload id that is used once; with a second send
  the numbering starts again while old frames are in flight, and the code does not
  tell them apart.

* `IncomingSuccessIsWhole == Spec => []PeerSuccessWhole`. `AttachedWhole`: a success
  that is queued for the receiver's client is of an update of this send, and the
  endpoint has attached everything; if attaching failed, the failure is ahead of it
  in the queue, and ends the tracking. `ReadOut`: the last chunk of a payload of
  known size is sent only when all was read, and a read that came up short has ended
  the loop.
* `ClientsAgree == Spec => []OutcomeAgreement`. `SettledIn`: once the endpoint has
  acknowledged, or has a success to report while it is connected, its client was told
  of it first, or was told nothing final yet and has the success as the first of
  what is queued for it, or it is gone and is told nothing any more. `AckedWhole` of
  the first of these takes the acknowledgement back to the sender's client.

`PcpConnectionProofs`, for any callers, nonces and faults:

* `TypesHold == Spec => []TypeOK`, with the types of every table and queue, and
  that the PcpHandler thread is blocked exactly while a registration is queued for
  the endpoint manager.
* `ClientsHearInOrder == Spec => []OneResult`. The callbacks are made by three
  threads, from tables that go by the endpoint id; the exception is a connection
  that the clean-up of another has hit (`hist.crossed`). What keeps the rest in
  order, per device (`DeviceOK`): the client's entry is the connection it was told
  of last (`Current`); as long as that has no result it is pending under the same
  channel, or its clean-up is queued ahead of any registration of a newer one
  (`Settled`, `Leaving`); a registration that has begun finds no entry of another
  connection (`Replaced`); a removal reports the end of what was accepted, and only of
  that (`Removing`). That a connection is reported once needs both devices and the
  requests: `Fresh` says that a request's task is in one queue, on the caller's side or on
  the other, and that a channel whose task still waits is in no table, no handshake
  and no report.

`ChannelLocksProofs`, for any number of writers and writes:

* `TypeCorrect == Spec => []TypeOK`, of which the point is the mutual exclusion: no
  two threads are in sections of one mutex.
* `NoneSleeps`, `ClosedStaysOpen`, `NothingEarly`: `LifeInv` ties what `BwuManager`
  and the removal have done to what the threads can be doing. Before the channel is
  registered no worker is inside a call; once it is registered and until it is
  resumed, a worker inside Write is waiting; nobody closes or removes a channel that
  is not registered, and nobody pauses it afterwards.
* `WrittenInOrder == Spec => []WireInOrder`. The order is that of the numbers, taken
  under one mutex, and of the frames, written in two parts under another. `NumberInv`
  counts both: while the channel is encrypted, twice the numbers taken are the parts
  written, plus what the one thread past `writer_mutex_` still has to write, plus
  twice the numbers that were refused. `WriterInv` says that the frame such a thread
  holds is the next one. Both hold only as long as the transport is writable: a frame
  that fails half way is the last.
* `ReadInOrder == Spec => []DecodedInOrder`. `Read` gives up `reader_mutex_` before it
  takes `crypto_mutex_`, so that two threads in `Read` could decode in another order
  than they took the frames. The mutexes do not prevent it; the protocol does. The
  one other reader is the draining `Read` of `BwuManager`, and it comes after the
  peer's SAFE_TO_CLOSE was decoded, which is the last frame the peer encrypts there
  (`SafeInv`, `DrainInv`): the drain has only frames in clear to take. `FlowInv`
  accounts for every frame: decoded, in the reader's hand, or on the wire, in order.

Only model-checked, and why. Liveness under fairness (`UpgradeEnds`, `PauseEnds`,
`ThreadReturns`, `DataArrives`, `EveryoneTold`, `IncomingEnds`, `TeardownEnds`) and
what is said with `ENABLED` of the states in which nothing is left to do
(`ResultTold`, `CallsReturn`, `PendingEnds`, `TieResolved`, `NoOrphan`,
`DecodingEnds`) are out of the prover's reach. `StreamSpec` as a refinement holds
after broken transports, removals and late writes too, and says there that what still
arrives is in order; `HandoverInv` ends with those. `NotifiedImpliesPeerSwitched`
speaks of the last upgrade a client was told of and holds within the bounds of
`Retry`; with a second upgrade after a successful one the peer may have gone on to a
later channel, so that it is no theorem as it stands. `ResultAgreement` is checked
with two requests and was simulated with four.

## Disagreements with the comments

* `LossRegardless`: `bwu_manager.cc:1345` says the prior channel may be closed
  after SAFE_TO_CLOSE so that "there can be no data loss". A payload thread that
  fetched that channel before the switch can still write on it after its own
  device's SAFE_TO_CLOSE; the write succeeds, and the peer's one draining `Read()`
  takes the frame and discards it, or the close does.
* `FilteredPath`: `bwu_manager.cc:571-574` answers an early offer with a failure so
  that the advertiser can try again. With `kFilterUnconfirmedEndpointFrames` on,
  the reader discards the offer first and the advertiser's upgrade stays in
  progress for the life of the connection.
* `SilentTimeout`: `service_controller_router.cc:342-345` says that failures after a
  payload is queued are returned to the client as an update. When the wait for
  PAYLOAD_RECEIVED_ACK times out (`payload_manager.cc:961`, 1 s by default),
  `SendPayloadLoop` goes on to the next endpoint without an update, and the
  payload is destroyed: the client never hears how it ended.
* `Deadlock`: `endpoint_manager.cc:550-551` says that the workers of a connection
  that is replaced terminate soon. The reader may be waiting, without a timeout,
  for the PcpHandler thread (`OnIncomingFrame`), which is waiting in
  `RegisterEndpoint` for the endpoint manager thread, which is waiting for the
  reader.

## Other behaviour met

What the models reproduce and the properties therefore except by name. No comment
promises otherwise, so that these are no runs of their own.

* After UPGRADE_FAILURE the next medium is tried (`bwu_manager.cc:1439`). If the
  discoverer gave up waiting for an acknowledgement that the advertiser did send,
  the advertiser has already switched; the next offer is written on its paused, dead
  new channel and the serial thread does not return. With `MaxFaults = 1` TLC finds
  `ThreadReturns` violated in this way, and the two devices on different channels
  (hence the hypotheses of `SettlesInAgreement`).
* If the discoverer's client requests an upgrade too, an offer that crosses makes
  the code close both channels, the active one with data in flight
  (`CloseAllChannels`): a loss `NoDataLoss` does not except.
* A request during an attempt overwrites the endpoint's medium
  (`bwu_manager.cc:253`) before it is refused, so that the failure of the attempt
  does not revert its own handler. Its accept loop goes on, and may deliver the
  abandoned socket after the next attempt's channel was registered: the advertiser
  then registers it as the active channel, from 0 to 2 to 1, when the
  discoverer has closed 1. TLC finds it with two requests, two attempts and one lost
  acknowledgement.
* The discoverer's entry of the medium stays after an upgrade. A second successful
  upgrade needs a failure in between, which resets it.
* A prior channel that is not encrypted may be closed by its reader, on the peer's
  DISCONNECTION, before this device has processed the peer's SAFE_TO_CLOSE.
* A frame that Write refuses for its size has used up a number of the context
  (`base_endpoint_channel.cc:200-215`): what is written between the refusal and the
  removal of the endpoint that follows it, its DISCONNECTION and keep-alives, cannot
  be decrypted (`hist.refused`). A BYTES payload is one chunk, whatever its size.
* A crash in a plain tie break (`PcpConnection`, `OnEncryptionFailure`): the failure
  of a superseded channel is logged with the name of the pending one
  (`base_pcp_handler.cc:866-870`), which is null once the registration has moved it
  to `EndpointManager`. It takes no fault: A gives up its request for B's, whose
  handshake is over before A handles the failure of its own. Similarly, both answers may meet a pending connection that
  has not been through its handshake and has no UKEY2 context (`Evaluated`).
* A handshake whose channel is closed when its thread takes it ends without a
  callback (`encryption_runner.cc:98`): the pending connection and the caller of
  `RequestConnection` wait (`hist.silent`).
* Clean-ups go by endpoint id: a failed request, a delayed close or a removal may
  take a newer connection to the endpoint with it (`hist.crossed`).
* The client's entry goes by endpoint id, too. When a clean-up has taken the
  connection that a client was told of but left its entry, the answer the client then gives
  is applied to, and written on, the connection that has taken its place, of
  which it was not told (`Misled`). It takes three requests, the second
  of which fails, and a disconnection; with `Callers` Bob, Alice, Bob and two faults
  (`connect` and `leave`) TLC finds it.
* An attach error at the receiver does not wake a sender that already waits for the
  acknowledgement; the last chunk may still be attached and acknowledged, and the
  sender hears Success (`hist.torn`).
* An incoming payload stays tracked after `OnEndpointDisconnect`; a frame the reader
  has in hand is reported after the failure (`PeerFinalOnce`).
* A send that is queued when the manager shuts down returns without posting the
  destruction that `CancelAllPayloads` waits for: the destructor waits for ever
  (`hist.skipped`).
* A payload id that is used again takes the status updates, the acknowledgement and
  the end of the earlier payload (`Fresh`; the comment at `payload_manager.cc:1655`
  says the newer one is preferred).
* `ProcessPayloadAckPacket` logs that it ignores an acknowledgement of an incoming
  payload, but does not return (`payload_manager.cc:1433`); without effect here, as
  each device of the model has payloads of one direction.

## Not modelled

See `components` in `PROJECT.json`. Left out for good: drivers, encodings,
generated and third-party code, bindings, Nearby Sharing. Left out of the modelled
components: `WIFI_DIRECT`'s group-owner rule, Apple's BLE scanning pause, dynamic
role switch, packet sizes, analytics.

## Plan

Done: the upgrade (`EndpointChannels`, `EndpointWorkers`, `BandwidthUpgrade` and
its refinement of `PayloadStream`), payload transfer (`OutgoingPayloads`,
`PayloadManager`), establishment (`PcpConnection`), the channel's locks
(`ChannelLocks`), and the theorems above. What
would come next, in order of importance:

1. Proofs: `StreamSpec` after a fault, where devices may be left on different
   channels and only the order of what still arrives is claimed; `ResultAgreement`.
2. `SafeToDisconnect`: the acknowledgement exchange of DISCONNECTION, the single
   wait on the condition variable, the blocked endpoint manager thread. Off by
   default.
3. `BwuHandlers`: what a handler has initialised is reverted; several endpoints.
