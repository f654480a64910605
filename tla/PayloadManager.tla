--------------------------- MODULE PayloadManager ---------------------------
(***************************************************************************)
(* Payload transfer from one device to several: the host's sending half    *)
(* (OutgoingPayloads) and the receiving half of PayloadManager on each     *)
(* endpoint, with three threads each: the reader of the connection, the    *)
(* status update thread and the acknowledgement executor.                  *)
(***************************************************************************)
EXTENDS OutgoingPayloads

VARIABLES
  peer,       \* per endpoint: the incoming PendingPayload at the id
  peerTasks,  \* the queue of its payload_status_update_executor_
  acks        \* the queue of its send_payload_ack_executor_

hostVars == <<pay, host, sender, hostTasks>>
peerVars == <<peer, peerTasks, acks>>
vars == <<link, pay, host, sender, hostTasks, heard, hist, peer, peerTasks, acks>>

\* inst numbers the incoming payloads; send and got are history: which send
\* this is, and which of its chunks were attached.
NoPayload == [inst |-> 0, send |-> 0, tracked |-> FALSE, member |-> FALSE,
              cancelled |-> FALSE, got |-> {}]

Init ==
  /\ link = [e \in Endpoints |-> [down |-> <<>>, up |-> <<>>, host |-> "connected",
                                  peer |-> "connected", broken |-> FALSE]]
  /\ pay = [k \in Sends |-> NewPayload({})]
  /\ host = [tracked |-> 0, sends |-> 0, shutdown |-> FALSE, teardown |-> "up", barrier |-> 0]
  /\ sender = [pc |-> "idle", queue |-> <<>>, pending |-> 0, chunk |-> 0, targets |-> {},
               left |-> {}, last |-> FALSE, wrote |-> FALSE, waiting |-> None, awaited |-> 0]
  /\ hostTasks = <<>>
  /\ heard = [host |-> [e \in Endpoints |-> <<>>], peer |-> [e \in Endpoints |-> <<>>]]
  /\ hist = [faults |-> 0, skipped |-> {}, truncated |-> {}, unconfirmed |-> {},
             late |-> {}, whole |-> {}, torn |-> {}]
  /\ peer = [e \in Endpoints |-> NoPayload]
  /\ peerTasks = [e \in Endpoints |-> <<>>]
  /\ acks = [e \in Endpoints |-> <<>>]

-----------------------------------------------------------------------------
(* Tasks of a peer's status update thread. *)

PeerUpdate(p, status) == [kind |-> "update", inst |-> p.inst, send |-> p.send, status |-> status]
OnPayload(p) == [kind |-> "payload", inst |-> p.inst, send |-> p.send, status |-> "InProgress"]
PeerDisconnect == [kind |-> "disconnect", inst |-> 0, send |-> 0, status |-> "Failure"]

Post(e, tasks) == peerTasks' = [peerTasks EXCEPT ![e] = @ \o tasks]

\* The link after frame f was read from it and reply, if any, was written.
ReadDown(e) == [link[e] EXCEPT !.down = Tail(@)]
Replied(e, l) == link' = [link EXCEPT ![e] = l]

-----------------------------------------------------------------------------
(* The reader: ProcessDataPacket and ProcessControlPacket. *)

\* The first chunk starts a payload and replaces one with the same id.
Incoming(e, f) ==
  IF f.chunk = 0
  THEN [inst |-> peer[e].inst + 1, send |-> f.send, tracked |-> TRUE, member |-> TRUE,
        cancelled |-> FALSE, got |-> {}]
  ELSE peer[e]

Announced(p, f) == IF f.chunk = 0 THEN <<OnPayload(p)>> ELSE <<>>

AckDueAlways(e, f) == e \in AckEnabled
AckDue(e, f) == f.last /\ e \in AckEnabled

\* The chunk is attached; the last one is acknowledged.
AttachChunk(e, f) ==
  LET p == [Incoming(e, f) EXCEPT !.got = @ \cup {f.chunk}] IN
  /\ Incoming(e, f).tracked /\ ~Incoming(e, f).cancelled
  /\ peer' = [peer EXCEPT ![e] = p]
  /\ acks' = IF AckDue(e, f) THEN [acks EXCEPT ![e] = Append(@, p.inst)] ELSE acks
  /\ Post(e, Announced(p, f) \o <<PeerUpdate(p, IF f.last THEN "Success" ELSE "InProgress")>>)
  /\ hist' = IF f.last /\ p.got = 0..f.chunk
             THEN [hist EXCEPT !.whole = @ \cup {<<p.send, e>>}] ELSE hist
  /\ Replied(e, ReadDown(e))

\* Writing the data out failed.  Later chunks still find the payload until the
\* status thread has destroyed it.
AttachFails(e, f) ==
  LET p == Incoming(e, f) IN
  /\ p.tracked /\ ~p.cancelled /\ ~f.last
  /\ Fault("attach")
  /\ peer' = [peer EXCEPT ![e] = p]
  /\ Post(e, Announced(p, f) \o <<PeerUpdate(p, "Failure")>>)
  /\ hist' = [Faulted(hist) EXCEPT !.torn = @ \cup {<<p.send, e>>}]
  /\ Replied(e, WrittenUp(ReadDown(e), Control("error")))
  /\ UNCHANGED acks

\* The incoming payload could not be created.
CreateFails(e, f) ==
  /\ f.chunk = 0
  /\ Fault("create")
  /\ hist' = Faulted(hist)
  /\ Replied(e, WrittenUp(ReadDown(e), Control("error")))
  /\ UNCHANGED peerVars

\* The client cancelled it: each further chunk reports and answers so.
DropCancelled(e, f) ==
  LET p == Incoming(e, f) IN
  /\ p.tracked /\ p.cancelled
  /\ Post(e, <<PeerUpdate(p, "Canceled")>>)
  /\ Replied(e, WrittenUp(ReadDown(e), Control("canceled")))
  /\ UNCHANGED <<peer, acks, hist>>

DropUnknown(e, f) ==
  /\ ~Incoming(e, f).tracked
  /\ Replied(e, ReadDown(e))
  /\ UNCHANGED <<peerVars, hist>>

ProcessControl(e, f) ==
  /\ Post(e, IF peer[e].tracked
             THEN <<PeerUpdate(peer[e], IF f.type = "canceled" THEN "Canceled" ELSE "Failure")>>
             ELSE <<>>)
  /\ Replied(e, ReadDown(e))
  /\ UNCHANGED <<peer, acks, hist>>

\* A frame is handled while the client is connected to the host.
PeerFrame(e) ==
  /\ link[e].down # <<>>
  /\ link[e].peer # "gone"
  /\ LET f == Head(link[e].down) IN
       IF f.type = "data"
       THEN \/ AttachChunk(e, f) \/ AttachFails(e, f) \/ CreateFails(e, f)
            \/ DropCancelled(e, f) \/ DropUnknown(e, f)
       ELSE ProcessControl(e, f)
  /\ UNCHANGED <<hostVars, heard>>

-----------------------------------------------------------------------------
(* The acknowledgement executor.  Its task has a reference to the payload but *)
(* no handle: once the payload is destroyed, reading its id is undefined.     *)

Alive(e, i) ==
  \/ peer[e].tracked /\ peer[e].inst = i
  \/ \E j \in DOMAIN peerTasks[e] : peerTasks[e][j].kind = "payload" /\ peerTasks[e][j].inst = i

SendPayloadAck(e) ==
  /\ acks[e] # <<>>
  /\ acks' = [acks EXCEPT ![e] = Tail(@)]
  /\ \/ link' = [link EXCEPT ![e] = WrittenUp(@, Ack)]
     \/ ~Alive(e, Head(acks[e])) /\ UNCHANGED link
  /\ UNCHANGED <<hostVars, heard, hist, peer, peerTasks>>

-----------------------------------------------------------------------------
(* The status update thread.  It goes by the id, and does not ask whether the *)
(* endpoint is still one of the payload's.                                    *)

PeerTold(e, t) ==
  heard' = IF link[e].peer # "gone"
           THEN [heard EXCEPT !.peer[e] = Append(@, [kind |-> t.kind, of |-> peer[e].inst,
                                                     send |-> t.send, status |-> t.status])]
           ELSE heard

TrackedCancelled(status) == status \notin {"Success", "Failure"}
StillTracked(status) == status \notin Final

PeerStatusStep(e) ==
  LET t == Head(peerTasks[e]) IN
  /\ peerTasks[e] # <<>>
  /\ peerTasks' = [peerTasks EXCEPT ![e] = Tail(@)]
  /\ \/ /\ t.kind = "payload" \/ ~peer[e].tracked
        /\ UNCHANGED <<peer, heard>>
     \/ /\ t.kind = "update" /\ peer[e].tracked
        /\ PeerTold(e, t)
        /\ peer' = [peer EXCEPT ![e].tracked = StillTracked(t.status)]
     \/ /\ t.kind = "disconnect" /\ peer[e].tracked
        /\ peer[e].member
        /\ PeerTold(e, t)
        /\ peer' = [peer EXCEPT ![e].member = FALSE]
     \/ /\ t.kind = "disconnect" /\ peer[e].tracked
        /\ ~peer[e].member
        /\ UNCHANGED <<peer, heard>>
  /\ UNCHANGED <<hostVars, link, hist, acks>>

-----------------------------------------------------------------------------
(* The client of a peer, and the end of the connection there. *)

CancelIncoming(e) ==
  /\ Fault("cancel incoming")
  /\ peer[e].tracked
  /\ peer' = [peer EXCEPT ![e].cancelled = TRUE]
  /\ hist' = Faulted(hist)
  /\ UNCHANGED <<hostVars, link, heard, peerTasks, acks>>

ClosePeerEnd(e) ==
  /\ link[e].peer = "connected"
  /\ \E rest \in InHand(link[e].down), kept \in {link[e].up, <<>>} :
       link' = [link EXCEPT ![e] = [@ EXCEPT !.peer = "leaving", !.down = rest, !.up = kept]]
  /\ Post(e, <<PeerDisconnect>>)
  /\ UNCHANGED <<hostVars, heard, peer, acks>>

PeerNotices(e) ==
  /\ link[e].broken \/ (link[e].host # "connected" /\ link[e].down = <<>>)
  /\ ClosePeerEnd(e)
  /\ UNCHANGED hist

PeerLeaves(e) ==
  /\ Fault("leave")
  /\ ClosePeerEnd(e)
  /\ hist' = Faulted(hist)

PeerDisconnected(e) ==
  /\ link[e].peer = "leaving"
  /\ link' = [link EXCEPT ![e] = [@ EXCEPT !.peer = "gone", !.down = <<>>]]
  /\ \/ /\ PeerDisconnect \notin {peerTasks[e][i] : i \in DOMAIN peerTasks[e]}
        /\ UNCHANGED hist
     \/ /\ Fault("barrier")
        /\ hist' = Faulted(hist)
  /\ UNCHANGED <<hostVars, heard, peerVars>>

-----------------------------------------------------------------------------
HostStep ==
  \/ SendPayload \/ CancelOutgoing \/ StopManager
  \/ SenderStep \/ HostStatusStep \/ TeardownStep
  \/ \E e \in Endpoints : HostFrame(e)

HostConnection(e) == HostNotices(e) \/ HostLeaves(e) \/ HostDisconnected(e) \/ BreakLink(e)

PeerStep(e) ==
  \/ PeerFrame(e) \/ SendPayloadAck(e) \/ PeerStatusStep(e) \/ CancelIncoming(e)
  \/ PeerNotices(e) \/ PeerLeaves(e) \/ PeerDisconnected(e)

Next ==
  \/ HostStep /\ UNCHANGED peerVars
  \/ \E e \in Endpoints : HostConnection(e) /\ UNCHANGED peerVars
  \/ \E e \in Endpoints : PeerStep(e)

Spec == Init /\ [][Next]_vars

\* Each thread's next step is taken unless another thread disables it.
FairSpec ==
  /\ Spec
  /\ WF_vars(SenderStep /\ UNCHANGED peerVars)
  /\ WF_vars(HostStatusStep /\ UNCHANGED peerVars)
  /\ WF_vars(TeardownStep /\ UNCHANGED peerVars)
  /\ \A e \in Endpoints :
       /\ WF_vars(HostFrame(e) /\ UNCHANGED peerVars)
       /\ WF_vars(HostNotices(e) /\ UNCHANGED peerVars)
       /\ WF_vars(HostDisconnected(e) /\ UNCHANGED peerVars)
       /\ WF_vars(PeerFrame(e))
       /\ WF_vars(SendPayloadAck(e))
       /\ WF_vars(PeerStatusStep(e))
       /\ WF_vars(PeerNotices(e))
       /\ WF_vars(PeerDisconnected(e))

-----------------------------------------------------------------------------
(* Properties. *)

Statuses == Final \cup {"InProgress"}
Kinds == {"update", "disconnect", "destroy", "notify", "payload"}

Frames(types) == [type : types, chunk : 0..Chunks, last : BOOLEAN, send : Nat]
DownFrames == Frames({"data", "canceled", "error"})
UpFrames == Frames({"ack", "canceled", "error"})
Reports == [kind : Kinds, of : Nat, send : Nat, status : Statuses]
PeerTasks == [kind : Kinds, inst : Nat, send : Nat, status : Statuses]
Outcomes == UNION {[S -> Statuses] : S \in SUBSET Endpoints}
HostTasks == [kind : Kinds, send : Nat, outcome : Outcomes]
Tracked == 0..MaxSends

Links == [down : Seq(DownFrames), up : Seq(UpFrames), host : Ends, peer : Ends, broken : BOOLEAN]
Payloads == [endpoints : SUBSET Endpoints,
             status : [Endpoints -> {"available", "canceled", "error"}],
             acked : SUBSET Endpoints, cancelled : BOOLEAN, closed : BOOLEAN, read : 0..Chunks]
Hosts == [tracked : Tracked, sends : Tracked, shutdown : BOOLEAN,
          teardown : {"up", "awaiting", "joining", "down"}, barrier : {0, 1}]
Senders == [pc : {"idle", "top", "write", "confirm", "wait", "end", "release"},
            queue : Seq(Sends), pending : Tracked, chunk : 0..Chunks,
            targets : SUBSET Endpoints, left : SUBSET Endpoints, last : BOOLEAN,
            wrote : BOOLEAN, waiting : Endpoints \cup {None}, awaited : Tracked]
IncomingPayloads == [inst : Nat, send : Nat, tracked : BOOLEAN, member : BOOLEAN,
                     cancelled : BOOLEAN, got : SUBSET (0..Chunks)]

Histories == [faults : Nat, skipped : SUBSET Sends, truncated : SUBSET Sends,
              unconfirmed : SUBSET (Sends \X Endpoints), late : SUBSET Endpoints,
              whole : SUBSET (Nat \X Endpoints), torn : SUBSET (Nat \X Endpoints)]

LinkTyped == link \in [Endpoints -> Links]
PayTyped == pay \in [Sends -> Payloads]
HostTyped == host \in Hosts /\ host.tracked <= host.sends
SenderTyped ==
  /\ sender \in Senders
  /\ sender.pc = "idle" <=> sender.pending = 0
  /\ sender.pc = "wait" <=> sender.awaited # 0
  /\ sender.pc = "wait" <=> sender.waiting # None
HostTasksTyped == hostTasks \in Seq(HostTasks)
HeardTyped == heard \in [host : [Endpoints -> Seq(Reports)], peer : [Endpoints -> Seq(Reports)]]
HistTyped == hist \in Histories
PeerTyped ==
  /\ peer \in [Endpoints -> IncomingPayloads]
  /\ peerTasks \in [Endpoints -> Seq(PeerTasks)]
  /\ acks \in [Endpoints -> Seq(Nat)]

\* Every variable has its type; the tracked payload is one that was sent.
TypeOK ==
  /\ LinkTyped /\ PayTyped /\ HostTyped /\ SenderTyped /\ HostTasksTyped
  /\ HeardTyped /\ HistTyped /\ PeerTyped

HostSaid(e, k, S) == \E i \in DOMAIN heard.host[e] :
                       heard.host[e][i].of = k /\ heard.host[e][i].status \in S
PeerSaid(e, k, S) == \E i \in DOMAIN heard.peer[e] :
                       heard.peer[e][i].send = k /\ heard.peer[e][i].status \in S

\* The sender's client is told at most one outcome per payload and endpoint, and
\* nothing after it, although the sending thread, the readers and the end of the
\* connection all report (SendClientCallbacksForFinishedOutgoingPayload,
\* HandleSuccessfulOutgoingChunk, OnEndpointDisconnect).
HostFinalOnce ==
  \A e \in Endpoints : \A i, j \in DOMAIN heard.host[e] :
    i < j /\ heard.host[e][i].of = heard.host[e][j].of => heard.host[e][i].status \notin Final

\* The payload id was never used again.
Fresh == host.sends <= 1

\* With acknowledgements, the sender's client is told Success only of a payload
\* that the endpoint attached in full (WaitForReceivedAck), unless attaching
\* failed there: a PAYLOAD_ERROR does not wake a sender that waits already, and
\* the last chunk may still be attached and acknowledged.
SuccessMeansReceived ==
  Fresh => \A e \in AckEnabled, k \in Sends :
             HostSaid(e, k, {"Success"}) => <<k, e>> \in hist.whole \cup hist.torn

\* A receiver's client is told Success only of a payload whose every chunk was
\* attached, and of a payload of known size only if it was read to its end.
PeerSuccessWhole ==
  Fresh => \A e \in Endpoints, k \in Sends :
             PeerSaid(e, k, {"Success"}) =>
               <<k, e>> \in hist.whole /\ (KnownSize => k \notin hist.truncated)

\* With acknowledgements the two clients do not disagree: when the sender's is
\* told Success, the receiver's first outcome is no other.
OutcomeAgreement ==
  Fresh => \A e \in AckEnabled, k \in Sends :
             /\ HostSaid(e, k, {"Success"})
             /\ <<k, e>> \notin hist.torn
             /\ PeerSaid(e, k, Final)
             => \E i \in DOMAIN heard.peer[e] :
                  /\ heard.peer[e][i].status = "Success"
                  /\ \A j \in 1..(i - 1) : heard.peer[e][j].status \notin Final

\* A receiver's client hears of a payload again after its outcome only when that
\* was the end of the connection: OnEndpointDisconnect does not stop tracking an
\* incoming payload, and the reader may have a frame of it in hand.
PeerFinalOnce ==
  \A e \in Endpoints : \A i, j \in DOMAIN heard.peer[e] :
    /\ i < j
    /\ heard.peer[e][i].of = heard.peer[e][j].of
    /\ heard.peer[e][i].status \in Final
    => heard.peer[e][i].kind = "disconnect" /\ heard.peer[e][j].kind = "update"

\* Of every send the client is told an outcome for every endpoint, unless the id
\* was used again, the manager stopped, the endpoint was already being forgotten
\* (or was, before its disconnection was processed), or its acknowledgement
\* never came (see EveryoneToldRegardless).
OutcomeDue(e, k) ==
  /\ Fresh /\ host.sends = k
  /\ ~host.shutdown
  /\ e \notin hist.late
  /\ <<k, e>> \notin hist.unconfirmed

EveryoneTold ==
  \A e \in Endpoints, k \in Sends : OutcomeDue(e, k) ~> (HostSaid(e, k, Final) \/ ~OutcomeDue(e, k))

\* The promise of ServiceControllerRouter::SendPayload: failures after it has
\* queued the request are returned to the client as a PayloadTransferUpdate.
EveryoneToldRegardless ==
  \A e \in Endpoints, k \in Sends :
    (Fresh /\ host.sends = k /\ ~host.shutdown /\ e \notin hist.late) ~>
      (HostSaid(e, k, Final) \/ host.shutdown \/ ~Fresh \/ e \in hist.late)

\* A payload that starts to arrive ends, at the latest with the connection.
IncomingEnds ==
  \A e \in Endpoints :
    peer[e].tracked ~> (~peer[e].tracked \/ link[e].peer = "gone" \/ host.shutdown \/ ~Fresh)

\* ~PayloadManager waits for the payloads it counted: the wait ends, unless the
\* task of a queued send returned at once because of the shutdown, and so did
\* not post the destruction that is waited for.
TeardownEnds ==
  (host.teardown = "awaiting") ~> (host.teardown # "awaiting" \/ hist.skipped # {})

=============================================================================
