-------------------------- MODULE OutgoingPayloads --------------------------
(***************************************************************************)
(* The sending half of PayloadManager on one device, the host, and its     *)
(* connections to the endpoints of a payload.  Four threads: the client's  *)
(* (SendPayload, CancelPayload), the executor of the payload's type, the   *)
(* status update thread, and the readers of the connections.               *)
(*                                                                         *)
(* All payloads sent here carry one payload id, which the client may use   *)
(* again (a resumed file does): a send is named by its number.             *)
(***************************************************************************)
EXTENDS Integers, Sequences, FiniteSets

CONSTANTS
  Endpoints,   \* the endpoints a payload is sent to
  AckEnabled,  \* those with the payload-received-ack feature, for this type
  KnownSize,   \* a file (its size is known) or a stream
  Chunks,      \* data chunks of the payload; one empty LAST_CHUNK follows them
  MaxSends,    \* bound: sends with this payload id
  MaxTasks,    \* bound: tasks the sending thread lets queue up on the status thread
  MaxFaults,   \* bound: adverse events in a behaviour
  FaultKinds,  \* which adverse events these may be
  None

Sends == 1..MaxSends

ASSUME PayloadTyped ==
  /\ AckEnabled \subseteq Endpoints
  /\ KnownSize \in BOOLEAN
  /\ Chunks \in Nat /\ MaxSends \in Nat /\ MaxTasks \in Nat /\ MaxFaults \in Nat
  /\ None \notin Endpoints

VARIABLES
  link,       \* per endpoint: frames each way, the state of its two ends
  pay,        \* per send: its PendingPayload
  host,       \* PendingPayloads::pending_payloads_ at the id, and the shutdown
  sender,     \* the executor thread of this payload type
  hostTasks,  \* the queue of payload_status_update_executor_
  heard,      \* history: what each client was told, per endpoint
  hist        \* history and bounds: no guard of the code reads it

Final == {"Success", "Failure", "Canceled"}
Ends == {"connected", "leaving", "gone"}

Data(chunk, last, send) == [type |-> "data", chunk |-> chunk, last |-> last, send |-> send]
Control(event) == [type |-> event, chunk |-> 0, last |-> FALSE, send |-> 0]
Ack == Control("ack")

Fault(kind) == /\ kind \in FaultKinds
               /\ hist.faults < MaxFaults
Faulted(h) == [h EXCEPT !.faults = @ + 1]

-----------------------------------------------------------------------------
(* Connections.  An end is "leaving" from the close of its channel until    *)
(* the client forgets the endpoint (OnDisconnected), then "gone".           *)

\* The endpoints to which a write must fail, and those to which it may.
Unwritable == {e \in Endpoints : link[e].host # "connected" \/ link[e].broken}
Doubtful == Unwritable \cup {e \in Endpoints : link[e].peer # "connected"}

\* What link l becomes when a frame is written towards the peer.
WrittenDown(l, frame) ==
  IF l.host = "connected" /\ l.peer = "connected" /\ ~l.broken
  THEN [l EXCEPT !.down = Append(@, frame)] ELSE l

WrittenUp(l, frame) ==
  IF l.host = "connected" /\ l.peer = "connected" /\ ~l.broken
  THEN [l EXCEPT !.up = Append(@, frame)] ELSE l

\* SendControlMessage.
SaidNothing(S, event) == link' = link
Say(S, event) ==
  link' = [e \in Endpoints |-> IF e \in S THEN WrittenDown(link[e], Control(event)) ELSE link[e]]

\* The frame a reader may have in hand when its channel is closed.
InHand(frames) == {<<>>} \cup {<<frames[i]>> : i \in DOMAIN frames \cap {1}}

\* Adverse: the transport breaks; what is in flight is lost.
BreakLink(e) ==
  /\ Fault("link")
  /\ ~link[e].broken
  /\ link' = [link EXCEPT ![e] = [@ EXCEPT !.broken = TRUE, !.down = <<>>, !.up = <<>>]]
  /\ hist' = Faulted(hist)
  /\ UNCHANGED <<pay, host, sender, hostTasks, heard>>

-----------------------------------------------------------------------------
(* Tasks of the status update thread, in order of their posting.            *)

\* An update for a set of endpoints: the outcome of each, "InProgress" or final.
Update(send, outcome) == [kind |-> "update", send |-> send, outcome |-> outcome]
Disconnect(e) == [kind |-> "disconnect", send |-> 0, outcome |-> [x \in {e} |-> "Failure"]]
Destroy(send) == [kind |-> "destroy", send |-> send, outcome |-> [x \in {} |-> "Failure"]]
Notify == [kind |-> "notify", send |-> 0, outcome |-> [x \in {} |-> "Failure"]]

All(S, status) == [e \in S |-> status]

\* A PendingPayload is destroyed when it is neither tracked nor one of those the
\* executor holds a handle to; its destructor posts NotifyShutdown.
DestroyedTracked(send, tracked, held) ==
  IF send # 0 /\ tracked # send /\ held # {} /\ send \notin held THEN <<Notify>> ELSE <<>>
Destroyed(send, tracked, held) ==
  IF send # 0 /\ tracked # send /\ send \notin held THEN <<Notify>> ELSE <<>>

Held == {sender.pending, sender.awaited}

\* The status of endpoint e in send k, as the client will see it.
RemoteOutcome(k, e) == IF pay[k].status[e] = "canceled" THEN "Canceled" ELSE "Failure"

\* PendingPayload::GetEndpoint, for the payload found by the id.
Member(k, e) == k # 0 /\ e \in pay[k].endpoints

NewPayload(S) ==
  [endpoints |-> S, status |-> [e \in Endpoints |-> "available"], acked |-> {},
   cancelled |-> FALSE, closed |-> FALSE, read |-> 0]

-----------------------------------------------------------------------------
(* The client. *)

\* To all endpoints, as long as one of them is still connected.  A newer payload
\* with the same id replaces the one that is tracked.
SendPayload ==
  LET k == host.sends + 1
      late == {e \in Endpoints : link[e].host # "connected"}
  IN /\ k \in Sends
     /\ ~host.shutdown
     /\ \E e \in Endpoints : link[e].host # "gone"
     /\ pay' = [pay EXCEPT ![k] = NewPayload(Endpoints)]
     /\ host' = [host EXCEPT !.tracked = k, !.sends = k]
     /\ sender' = [sender EXCEPT !.queue = Append(@, k)]
     /\ hostTasks' = hostTasks \o Destroyed(host.tracked, k, Held)
     /\ hist' = [hist EXCEPT !.late = @ \cup late]
     /\ UNCHANGED <<link, heard>>

\* Only marks the payload: the sending thread sees it before its next chunk.
CancelOutgoing ==
  /\ Fault("cancel outgoing")
  /\ host.tracked # 0
  /\ pay' = [pay EXCEPT ![host.tracked].cancelled = TRUE]
  /\ hist' = Faulted(hist)
  /\ UNCHANGED <<link, host, sender, hostTasks, heard>>

-----------------------------------------------------------------------------
(* The executor of the payload type. *)

At(pc) == sender.pc = pc

\* GetPayload goes by the id: a queued send may find a newer payload, or none.
TakeSend ==
  /\ At("idle")
  /\ sender.queue # <<>>
  /\ LET rest == [sender EXCEPT !.queue = Tail(@)] IN
     \/ /\ host.shutdown
        /\ sender' = rest
        /\ hist' = [hist EXCEPT !.skipped = @ \cup {Head(sender.queue)}]
     \/ /\ ~host.shutdown /\ host.tracked = 0
        /\ sender' = rest
        /\ hist' = [hist EXCEPT !.skipped = @ \cup {Head(sender.queue)}]
     \/ /\ ~host.shutdown /\ host.tracked # 0
        /\ sender' = [rest EXCEPT !.pc = "top", !.pending = host.tracked, !.chunk = 0]
        /\ UNCHANGED hist
  /\ UNCHANGED <<link, pay, host, hostTasks, heard>>

\* The endpoints of the payload being sent, by what the peers said of them.
Available == {e \in pay[sender.pending].endpoints : pay[sender.pending].status[e] = "available"}
Unavailable == pay[sender.pending].endpoints \ Available

UpdateNobody == <<>>
UpdateUnavailable ==
  IF Unavailable = {} THEN <<>>
  ELSE <<Update(sender.pending, [e \in Unavailable |-> RemoteOutcome(sender.pending, e)])>>

\* Top of SendPayloadLoop, for a loop that goes on to the next chunk ...
NextChunk ==
  /\ At("top")
  /\ ~host.shutdown
  /\ Len(hostTasks) < MaxTasks
  /\ Available # {}
  /\ ~pay[sender.pending].cancelled
  /\ hostTasks' = hostTasks \o UpdateUnavailable
  /\ sender' = [sender EXCEPT !.pc = "write", !.targets = Available]
  /\ UNCHANGED <<link, pay, host, heard, hist>>

\* ... and for one that ends: shutdown, nobody left, cancelled, or the resume
\* offset cannot be skipped to.
StopSending ==
  /\ At("top")
  /\ sender' = [sender EXCEPT !.pc = "end"]
  /\ \/ /\ host.shutdown
        /\ UNCHANGED <<link, hostTasks, hist>>
     \/ /\ ~host.shutdown /\ Available = {}
        /\ hostTasks' = hostTasks \o UpdateUnavailable
        /\ UNCHANGED <<link, hist>>
     \/ /\ ~host.shutdown /\ Available # {} /\ pay[sender.pending].cancelled
        /\ hostTasks' = hostTasks \o UpdateUnavailable
                          \o <<Update(sender.pending, All(Available, "Canceled"))>>
        /\ Say(Available, "canceled")
        /\ UNCHANGED hist
     \/ /\ ~host.shutdown /\ Available # {} /\ ~pay[sender.pending].cancelled
        /\ sender.chunk = 0 /\ Fault("skip")
        /\ hostTasks' = hostTasks \o UpdateUnavailable
                          \o <<Update(sender.pending, All(Available, "Failure"))>>
        /\ Say(Available, "error")
        /\ hist' = Faulted(hist)
  /\ UNCHANGED <<pay, host, heard>>

\* DetachNextChunk of a payload that is closed, or cannot be read, is empty.
CanRead == pay[sender.pending].read < Chunks /\ ~pay[sender.pending].closed

\* An empty chunk is the last one, unless a known size says that more is due.
IsLast(read) == ~read
NeverShort(read) == FALSE

IsShort(read) == ~read /\ KnownSize /\ sender.chunk < Chunks

\* Writes the chunk; failed are the endpoints whose write failed, which are
\* discarded (their connection counts as broken from here on).
WriteChunk(read, failed) ==
  LET sent == sender.targets \ failed IN
  /\ sender' = [sender EXCEPT !.pc = "confirm", !.last = IsLast(read), !.left = sent,
                              !.wrote = sent # {}]
  /\ link' = [e \in Endpoints |->
                IF e \in failed THEN [link[e] EXCEPT !.broken = TRUE]
                ELSE IF e \in sent
                     THEN WrittenDown(link[e], Data(sender.chunk, IsLast(read), sender.pending))
                     ELSE link[e]]
  /\ hostTasks' = hostTasks \o (IF failed = {} THEN <<>>
                                ELSE <<Update(sender.pending, All(failed, "Failure"))>>)

DetachAndSend ==
  /\ At("write")
  /\ \/ /\ host.shutdown
        /\ sender' = [sender EXCEPT !.pc = "end"]
        /\ UNCHANGED <<link, pay, hostTasks, hist>>
     \/ /\ ~host.shutdown
        /\ \E read \in BOOLEAN, failed \in SUBSET sender.targets :
             /\ read => CanRead
             /\ pay' = IF read THEN [pay EXCEPT ![sender.pending].read = @ + 1] ELSE pay
             /\ \/ (read = CanRead) /\ UNCHANGED hist
                \/ /\ CanRead /\ ~read /\ Fault("read")
                   /\ hist' = [Faulted(hist) EXCEPT !.truncated = @ \cup {sender.pending}]
             /\ \/ /\ IsShort(read) /\ failed = {}
                   /\ hostTasks' = Append(hostTasks,
                                     Update(sender.pending, All(sender.targets, "Failure")))
                   /\ Say(sender.targets, "error")
                   /\ sender' = [sender EXCEPT !.pc = "end"]
                \/ /\ ~IsShort(read)
                   /\ sender.targets \cap Unwritable \subseteq failed
                   /\ failed \subseteq Doubtful
                   /\ WriteChunk(read, failed)
  /\ UNCHANGED <<host, heard>>

\* What follows a chunk that was written, for one endpoint after the other.
Succeeded(e) == <<Update(sender.pending, All({e}, IF sender.last THEN "Success" ELSE "InProgress"))>>

Confirmed(e) ==
  sender' = [sender EXCEPT !.pc = "confirm", !.left = @ \ {e}, !.waiting = None, !.awaited = 0]

\* No acknowledgement to wait for.
ConfirmChunk(e) ==
  /\ At("confirm") /\ e \in sender.left
  /\ ~(sender.last /\ e \in AckEnabled)
  /\ hostTasks' = hostTasks \o Succeeded(e)
  /\ Confirmed(e)
  /\ UNCHANGED <<link, pay, host, heard, hist>>

\* WaitForReceivedAck up to the wait.  It looks the payload up by its id again.
CheckAck(e) ==
  LET q == host.tracked IN
  /\ At("confirm") /\ e \in sender.left
  /\ sender.last /\ e \in AckEnabled
  /\ \/ /\ ~Member(q, e)
        /\ Confirmed(e)
        /\ UNCHANGED <<link, pay, hostTasks>>
     \/ /\ Member(q, e)
        /\ pay[q].cancelled
        /\ Confirmed(e)
        /\ hostTasks' = Append(hostTasks, Update(sender.pending, All({e}, "Canceled")))
        /\ Say({e}, "canceled")
        /\ UNCHANGED pay
     \/ /\ Member(q, e)
        /\ ~pay[q].cancelled /\ pay[q].status[e] # "available"
        /\ Confirmed(e)
        /\ hostTasks' = Append(hostTasks, Update(sender.pending, All({e}, RemoteOutcome(q, e))))
        /\ UNCHANGED <<link, pay>>
     \/ /\ Member(q, e)
        /\ ~pay[q].cancelled /\ pay[q].status[e] = "available" /\ e \in pay[q].acked
        /\ Confirmed(e)
        /\ hostTasks' = hostTasks \o Succeeded(e)
        /\ pay' = [pay EXCEPT ![q].acked = @ \ {e}]
        /\ UNCHANGED link
     \/ /\ Member(q, e)
        /\ ~pay[q].cancelled /\ pay[q].status[e] = "available" /\ e \notin pay[q].acked
        /\ sender' = [sender EXCEPT !.pc = "wait", !.waiting = e, !.awaited = q]
        /\ UNCHANGED <<link, pay, hostTasks>>
  /\ UNCHANGED <<host, heard, hist>>

\* What the release of the handle of the wait posts, before anything else.
Released == hostTasks \o Destroyed(sender.awaited, host.tracked, {sender.pending})

\* The wait on the EndpointInfo's condition: the acknowledgement wakes it.
AckReceived ==
  LET e == sender.waiting IN
  /\ At("wait")
  /\ e \in pay[sender.awaited].endpoints
  /\ e \in pay[sender.awaited].acked
  /\ hostTasks' = Released \o Succeeded(e)
  /\ Confirmed(e)
  /\ pay' = [pay EXCEPT ![sender.awaited].acked = @ \ {e}]
  /\ UNCHANGED <<link, host, heard, hist>>

TimedOutAsAcked == Released \o Succeeded(sender.waiting)

\* The wait times out: nothing is posted for this endpoint.
TimedOut == Released

AckTimeout ==
  LET e == sender.waiting IN
  /\ At("wait")
  /\ e \in pay[sender.awaited].endpoints
  /\ e \notin pay[sender.awaited].acked
  /\ hostTasks' = TimedOut
  /\ Confirmed(e)
  /\ hist' = [hist EXCEPT !.unconfirmed = @ \cup {<<sender.pending, e>>}]
  /\ UNCHANGED <<link, pay, host, heard>>

\* Undefined behaviour: the EndpointInfo was erased under the wait, which then
\* reads freed memory.
AckInfoErased ==
  LET e == sender.waiting IN
  /\ At("wait")
  /\ e \notin pay[sender.awaited].endpoints
  /\ Confirmed(e)
  /\ hostTasks' \in {Released, Released \o Succeeded(e)}
  /\ UNCHANGED <<link, pay, host, heard, hist>>

\* All endpoints done.  If every write failed the loop goes on, even after the
\* last chunk, until the status thread has removed the endpoints.
ChunkDone ==
  /\ At("confirm")
  /\ sender.left = {}
  /\ sender' = [sender EXCEPT !.pc = IF sender.last /\ sender.wrote THEN "end" ELSE "top",
                              !.chunk = IF sender.last THEN @ ELSE @ + 1]
  /\ UNCHANGED <<link, pay, host, hostTasks, heard, hist>>

\* End of the loop: "destroy-payload" is posted, then the handle is released.
PostDestroy ==
  /\ At("end")
  /\ hostTasks' = Append(hostTasks, Destroy(sender.pending))
  /\ sender' = [sender EXCEPT !.pc = "release"]
  /\ UNCHANGED <<link, pay, host, heard, hist>>

ReleaseHandle ==
  /\ At("release")
  /\ hostTasks' = hostTasks \o Destroyed(sender.pending, host.tracked, {})
  /\ sender' = [sender EXCEPT !.pc = "idle", !.pending = 0]
  /\ UNCHANGED <<link, pay, host, heard, hist>>

-----------------------------------------------------------------------------
(* The status update thread. *)

Report(task, of, status) ==
  [kind |-> task.kind, of |-> of, send |-> task.send, status |-> status]

\* ClientProxy passes an update on only while it is connected to the endpoint.
Told(task, S) ==
  heard' = [heard EXCEPT !.host = [e \in Endpoints |->
              IF e \in S /\ link[e].host # "gone"
              THEN Append(heard.host[e], Report(task, host.tracked, task.outcome[e]))
              ELSE heard.host[e]]]

\* RemoveEndpoints, and Close when none is left.
RemovedNone(q, S) == [pay EXCEPT ![q].closed = @ \/ pay[q].endpoints \subseteq S]
Removed(q, S) ==
  [pay EXCEPT ![q].endpoints = @ \ S, ![q].closed = @ \/ pay[q].endpoints \subseteq S]

\* Endpoints of an update, of which only those still tracked hear of it; a
\* final outcome ends the tracking of the endpoint.
ApplyUpdate(task) ==
  IF host.tracked = 0
  THEN UNCHANGED <<pay, heard>>
  ELSE LET q == host.tracked
           S == DOMAIN task.outcome \cap pay[q].endpoints
       IN /\ Told(task, S)
          /\ pay' = Removed(q, {e \in S : task.outcome[e] \in Final})

StatusUpdate ==
  /\ hostTasks # <<>>
  /\ Head(hostTasks).kind \in {"update", "disconnect"}
  /\ ApplyUpdate(Head(hostTasks))
  /\ hostTasks' = Tail(hostTasks)
  /\ UNCHANGED <<link, host, sender, hist>>

DestroyPendingPayload ==
  /\ hostTasks # <<>>
  /\ Head(hostTasks).kind = "destroy"
  /\ host' = [host EXCEPT !.tracked = 0]
  /\ hostTasks' = Tail(hostTasks) \o Destroyed(host.tracked, 0, Held)
  /\ UNCHANGED <<link, pay, sender, heard, hist>>

\* The latch counts down to zero and no further.
CountedBelow(n) == n - 1
CountedDown(n) == IF n > 0 THEN n - 1 ELSE 0

NotifyShutdown ==
  /\ hostTasks # <<>>
  /\ Head(hostTasks).kind = "notify"
  /\ host' = [host EXCEPT !.barrier = IF host.shutdown THEN CountedDown(@) ELSE @]
  /\ hostTasks' = Tail(hostTasks)
  /\ UNCHANGED <<link, pay, sender, heard, hist>>

-----------------------------------------------------------------------------
(* Frames from the peers, and the end of a connection. *)

HostFrame(e) ==
  LET f == Head(link[e].up)
      q == host.tracked
      handled == ~host.shutdown /\ link[e].host # "gone" /\ Member(q, e)
  IN /\ link[e].up # <<>>
     /\ link' = [link EXCEPT ![e].up = Tail(@)]
     /\ \/ ~handled /\ UNCHANGED pay
        \/ handled /\ f.type = "ack" /\ pay' = [pay EXCEPT ![q].acked = @ \cup {e}]
        \/ handled /\ f.type # "ack" /\ pay' = [pay EXCEPT ![q].status[e] = f.type]
     /\ UNCHANGED <<host, sender, hostTasks, heard, hist>>

\* The channel closes and, unless the manager is shut down, a task is posted.
CloseHostEnd(e) ==
  /\ link[e].host = "connected"
  /\ \E rest \in InHand(link[e].up), kept \in {link[e].down, <<>>} :
       link' = [link EXCEPT ![e] = [@ EXCEPT !.host = "leaving", !.up = rest, !.down = kept]]
  /\ hostTasks' = IF host.shutdown THEN hostTasks ELSE Append(hostTasks, Disconnect(e))
  /\ UNCHANGED <<pay, host, sender, heard>>

\* A worker found the connection broken, or closed by the peer.
HostNotices(e) ==
  /\ link[e].broken \/ (link[e].peer # "connected" /\ link[e].up = <<>>)
  /\ CloseHostEnd(e)
  /\ UNCHANGED hist

HostLeaves(e) ==
  /\ Fault("leave")
  /\ CloseHostEnd(e)
  /\ hist' = Faulted(hist)

\* The endpoint manager has waited for the status thread: ClientProxy forgets
\* the endpoint.  The wait is bounded.
HostDisconnected(e) ==
  /\ link[e].host = "leaving"
  /\ link' = [link EXCEPT ![e] = [@ EXCEPT !.host = "gone", !.up = <<>>]]
  /\ \/ /\ Disconnect(e) \notin {hostTasks[i] : i \in DOMAIN hostTasks}
        /\ UNCHANGED hist
     \/ /\ Fault("barrier")
        /\ hist' = [Faulted(hist) EXCEPT !.late = @ \cup {e}]
  /\ UNCHANGED <<pay, host, sender, hostTasks, heard>>

-----------------------------------------------------------------------------
(* The end of the manager: OfflineServiceController::Stop, ~PayloadManager. *)

StopManager ==
  /\ Fault("stop")
  /\ ~host.shutdown
  /\ host' = [host EXCEPT !.shutdown = TRUE]
  /\ hist' = Faulted(hist)
  /\ UNCHANGED <<link, pay, sender, hostTasks, heard>>

\* Counts the payloads to wait for: those that are tracked.
CancelAllPayloads ==
  /\ host.shutdown /\ host.teardown = "up"
  /\ \/ /\ host.tracked = 0
        /\ host' = [host EXCEPT !.teardown = "joining"]
        /\ UNCHANGED pay
     \/ /\ host.tracked # 0
        /\ host' = [host EXCEPT !.teardown = "awaiting", !.barrier = 1]
        /\ pay' = [pay EXCEPT ![host.tracked] = [@ EXCEPT !.cancelled = TRUE, !.closed = TRUE]]
  /\ UNCHANGED <<link, sender, hostTasks, heard, hist>>

AwaitBarrier ==
  /\ host.teardown = "awaiting" /\ host.barrier = 0
  /\ host' = [host EXCEPT !.teardown = "joining"]
  /\ UNCHANGED <<link, pay, sender, hostTasks, heard, hist>>

\* The executors are shut down once their threads have returned.
JoinExecutors ==
  /\ host.teardown = "joining"
  /\ At("idle") /\ sender.queue = <<>> /\ hostTasks = <<>>
  /\ host' = [host EXCEPT !.teardown = "down", !.tracked = 0]
  /\ UNCHANGED <<link, pay, sender, hostTasks, heard, hist>>

-----------------------------------------------------------------------------
SenderStep ==
  \/ TakeSend \/ NextChunk \/ StopSending \/ DetachAndSend
  \/ (\E e \in Endpoints : ConfirmChunk(e) \/ CheckAck(e))
  \/ AckReceived \/ AckTimeout \/ AckInfoErased \/ ChunkDone \/ PostDestroy \/ ReleaseHandle

HostStatusStep == StatusUpdate \/ DestroyPendingPayload \/ NotifyShutdown

TeardownStep == CancelAllPayloads \/ AwaitBarrier \/ JoinExecutors

=============================================================================
