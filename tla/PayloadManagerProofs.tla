------------------------ MODULE PayloadManagerProofs ------------------------
(***************************************************************************)
(* Theorems of PayloadManager, for every value of its constants: its type  *)
(* invariant, and that a client is told one outcome per payload and        *)
(* endpoint.                                                               *)
(***************************************************************************)
EXTENDS PayloadManager, TLAPS, SequenceTheorems

USE DEF Sends, Tracked

\* A chunk is numbered by the chunks that were read before it: the number stays
\* within Chunks because no more can be read.
ChunksRead ==
  /\ sender.pending <= host.sends
  /\ sender.pending # 0 =>
       /\ sender.chunk <= pay[sender.pending].read
       /\ sender.pc \in {"confirm", "wait"} /\ ~sender.last => sender.chunk < pay[sender.pending].read

\* What the steps of the host and its connections keep, and all of it.
HostInv ==
  /\ LinkTyped /\ PayTyped /\ HostTyped /\ SenderTyped /\ HostTasksTyped
  /\ HeardTyped /\ HistTyped /\ ChunksRead
IInv == HostInv /\ PeerTyped

LEMMA InitInv == Init => IInv
<1> SUFFICES ASSUME Init PROVE IInv
  OBVIOUS
<1> USE PayloadTyped DEF Init
<1>1. LinkTyped
  BY DEF LinkTyped, Links, Ends
<1>2. PayTyped
  BY DEF PayTyped, Payloads, NewPayload
<1>3. HostTyped /\ SenderTyped
  BY DEF HostTyped, Hosts, SenderTyped, Senders
<1>4. HostTasksTyped /\ HeardTyped /\ HistTyped
  BY DEF HostTasksTyped, HeardTyped, HistTyped, Histories
<1>5. PeerTyped
  BY DEF PeerTyped, IncomingPayloads, NoPayload
<1>6. ChunksRead
  BY DEF ChunksRead
<1> QED
  BY <1>1, <1>2, <1>3, <1>4, <1>5, <1>6 DEF IInv, HostInv

-----------------------------------------------------------------------------
(* Frames on a link *)

\* A control frame has its type both ways.
LEMMA ControlTyped ==
  ASSUME NEW event \in {"canceled", "error", "ack"}
  PROVE  /\ Control(event) \in UpFrames
         /\ event # "ack" => Control(event) \in DownFrames
BY PayloadTyped DEF Control, UpFrames, DownFrames, Frames

\* Writing a frame keeps the link's type.
LEMMA WrittenDownTyped ==
  ASSUME NEW l \in Links, NEW f \in DownFrames
  PROVE  WrittenDown(l, f) \in Links
<1>1. Append(l.down, f) \in Seq(DownFrames)
  BY DEF Links
<1> QED
  BY <1>1 DEF WrittenDown, Links

LEMMA WrittenUpTyped ==
  ASSUME NEW l \in Links, NEW f \in UpFrames
  PROVE  WrittenUp(l, f) \in Links
<1>1. Append(l.up, f) \in Seq(UpFrames)
  BY DEF Links
<1> QED
  BY <1>1 DEF WrittenUp, Links

\* So does SendControlMessage.
LEMMA SayTyped ==
  ASSUME LinkTyped, NEW S, NEW event \in {"canceled", "error"}, Say(S, event)
  PROVE  LinkTyped'
<1>1. ASSUME NEW e \in Endpoints PROVE WrittenDown(link[e], Control(event)) \in Links
  BY ControlTyped, WrittenDownTyped DEF LinkTyped
<1> QED
  BY <1>1 DEF Say, LinkTyped

LEMMA EmptyTyped == <<>> \in Seq(UpFrames) /\ <<>> \in Seq(DownFrames)
OBVIOUS

\* The frame in hand when a channel closes.
LEMMA InHandTyped ==
  ASSUME NEW F, NEW s \in Seq(F), NEW rest \in InHand(s)
  PROVE  rest \in Seq(F)
<1>1. CASE rest = <<>>
  BY <1>1
<1>2. CASE rest # <<>>
  <2>1. PICK i \in DOMAIN s \cap {1} : rest = <<s[i]>>
    BY <1>2 DEF InHand
  <2>2. s[i] \in F
    BY <2>1
  <2> QED
    BY <2>1, <2>2
<1> QED
  BY <1>1, <1>2

-----------------------------------------------------------------------------
(* Tasks of the host's status thread *)

LEMMA UpdateTyped ==
  ASSUME NEW S \in SUBSET Endpoints, NEW send \in Nat, NEW outcome \in [S -> Statuses]
  PROVE  Update(send, outcome) \in HostTasks
BY DEF Update, HostTasks, Outcomes, Kinds

LEMMA AllTyped ==
  ASSUME NEW S \in SUBSET Endpoints, NEW send \in Nat, NEW status \in Statuses
  PROVE  Update(send, All(S, status)) \in HostTasks
<1>1. All(S, status) \in [S -> Statuses]
  BY DEF All
<1> QED
  BY <1>1, UpdateTyped

LEMMA OtherTasksTyped ==
  /\ \A e \in Endpoints : Disconnect(e) \in HostTasks
  /\ \A send \in Nat : Destroy(send) \in HostTasks
  /\ Notify \in HostTasks
<1>1. ASSUME NEW S \in SUBSET Endpoints
      PROVE  [x \in S |-> "Failure"] \in Outcomes
  <2>1. [x \in S |-> "Failure"] \in [S -> Statuses]
    BY DEF Statuses, Final
  <2> QED
    BY <2>1 DEF Outcomes
<1>2. ASSUME NEW e \in Endpoints PROVE Disconnect(e) \in HostTasks
  <2>1. [x \in {e} |-> "Failure"] \in Outcomes
    BY <1>1
  <2> QED
    BY <2>1 DEF Disconnect, HostTasks, Kinds
<1>3. [x \in {} |-> "Failure"] \in Outcomes
  BY <1>1
<1> QED
  BY <1>2, <1>3 DEF Destroy, Notify, HostTasks, Kinds

LEMMA DestroyedTyped ==
  ASSUME NEW send, NEW tracked, NEW held
  PROVE  Destroyed(send, tracked, held) \in Seq(HostTasks)
BY OtherTasksTyped DEF Destroyed

\* Posting behind what is queued.
LEMMA PostedTyped ==
  ASSUME HostTasksTyped, NEW tasks \in Seq(HostTasks)
  PROVE  hostTasks \o tasks \in Seq(HostTasks)
BY ConcatProperties DEF HostTasksTyped

-----------------------------------------------------------------------------
(* History, and the parts of records *)

LEMMA FaultedTyped == HistTyped => Faulted(hist) \in Histories
<1> SUFFICES ASSUME HistTyped PROVE [hist EXCEPT !.faults = hist.faults + 1] \in Histories
  BY DEF Faulted
<1>1. hist \in Histories /\ hist.faults + 1 \in Nat
  BY DEF HistTyped, Histories
<1> QED
  BY <1>1 DEF Histories

-----------------------------------------------------------------------------
(* The client *)

LEMMA SendPayloadInv ==
  ASSUME HostInv, SendPayload
  PROVE  HostInv'
<1> DEFINE k == host.sends + 1
<1> USE DEF HostInv
<1>1. k \in Sends /\ k \in Tracked /\ host.sends \in Nat
  BY DEF SendPayload, HostTyped, Hosts
<1>2. PayTyped'
  <2>1. NewPayload(Endpoints) \in Payloads
    BY PayloadTyped DEF NewPayload, Payloads
  <2> QED
    BY <2>1 DEF PayTyped, SendPayload
<1>3. HostTyped'
  <2>1. host' = [host EXCEPT !.tracked = k, !.sends = k]
    BY DEF SendPayload
  <2>2. host' \in Hosts /\ host'.tracked = k /\ host'.sends = k
    BY <1>1, <2>1 DEF HostTyped, Hosts
  <2> QED
    BY <1>1, <2>2 DEF HostTyped
<1>4. SenderTyped'
  <2>1. Append(sender.queue, k) \in Seq(Sends)
    BY <1>1 DEF SenderTyped, Senders
  <2> QED
    BY <2>1 DEF SenderTyped, Senders, SendPayload
<1>5. HostTasksTyped'
  BY DestroyedTyped, PostedTyped DEF SendPayload, HostTasksTyped
<1>6. HistTyped'
  BY DEF HistTyped, Histories, SendPayload
<1>7. ChunksRead'
  BY <1>1 DEF ChunksRead, SendPayload, PayTyped, SenderTyped, Senders, HostTyped, Hosts
<1>8. LinkTyped' /\ HeardTyped'
  BY DEF SendPayload, LinkTyped, HeardTyped
<1> QED
  BY <1>2, <1>3, <1>4, <1>5, <1>6, <1>7, <1>8

LEMMA CancelOutgoingInv ==
  ASSUME HostInv, CancelOutgoing
  PROVE  HostInv'
<1> USE DEF HostInv
<1>1. host.tracked \in Sends
  <2>1. host.tracked \in 0..MaxSends /\ host.tracked # 0
    BY DEF CancelOutgoing, HostTyped, Hosts
  <2> QED
    BY <2>1, PayloadTyped
<1>2. PayTyped'
  BY <1>1 DEF PayTyped, Payloads, CancelOutgoing
<1>3. ChunksRead'
  <2>1. \A k \in Sends : pay'[k].read = pay[k].read
    BY <1>1 DEF CancelOutgoing, PayTyped, Payloads
  <2>2. sender.pending \in Tracked /\ UNCHANGED <<sender, host>>
    BY DEF CancelOutgoing, SenderTyped, Senders
  <2> QED
    BY <2>1, <2>2, PayloadTyped DEF ChunksRead
<1>4. HistTyped'
  BY FaultedTyped DEF CancelOutgoing, HistTyped
<1>5. LinkTyped' /\ HostTyped' /\ SenderTyped' /\ HostTasksTyped' /\ HeardTyped'
  BY DEF CancelOutgoing, LinkTyped, HostTyped, SenderTyped, HostTasksTyped, HeardTyped
<1> QED
  BY <1>2, <1>3, <1>4, <1>5

-----------------------------------------------------------------------------
(* The sending thread *)

LEMMA TakeSendInv ==
  ASSUME HostInv, TakeSend
  PROVE  HostInv'
<1> USE DEF HostInv
<1>1. /\ Tail(sender.queue) \in Seq(Sends) /\ Head(sender.queue) \in Sends
      /\ sender.pc = "idle"
  BY HeadTailProperties DEF TakeSend, At, SenderTyped, Senders
<1> DEFINE rest == [sender EXCEPT !.queue = Tail(@)]
<1>2. /\ host.tracked \in Tracked /\ host.sends \in Nat /\ host.tracked <= host.sends
      /\ 0 \in 0..Chunks
  BY PayloadTyped DEF HostTyped, Hosts
<1>3. SenderTyped' /\ ChunksRead'
  <2>1. CASE sender' = rest
    <3>1. SenderTyped'
      BY <1>1, <2>1 DEF SenderTyped, Senders
    <3>2. ChunksRead'
      BY <1>1, <1>2, <2>1 DEF ChunksRead, SenderTyped, Senders, TakeSend
    <3> QED
      BY <3>1, <3>2
  <2>2. CASE /\ host.tracked # 0
             /\ sender' = [rest EXCEPT !.pc = "top", !.pending = host.tracked, !.chunk = 0]
    <3>1. SenderTyped'
      BY <1>1, <1>2, <2>2 DEF SenderTyped, Senders
    <3>2. /\ sender'.pending = host.tracked /\ sender'.chunk = 0 /\ sender'.pc = "top"
          /\ UNCHANGED <<host, pay>>
      BY <2>2 DEF SenderTyped, Senders, TakeSend
    <3>3. pay[host.tracked].read \in Nat
      BY <1>2, <2>2, PayloadTyped DEF PayTyped, Payloads
    <3> QED
      BY <1>2, <3>1, <3>2, <3>3 DEF ChunksRead
  <2> QED
    BY <2>1, <2>2 DEF TakeSend
<1>4. HistTyped'
  BY <1>1 DEF TakeSend, HistTyped, Histories
<1>5. LinkTyped' /\ PayTyped' /\ HostTyped' /\ HostTasksTyped' /\ HeardTyped'
  BY DEF TakeSend, LinkTyped, PayTyped, HostTyped, HostTasksTyped, HeardTyped
<1> QED
  BY <1>3, <1>4, <1>5

\* While it is at work it has a payload.
LEMMA AtWork ==
  ASSUME SenderTyped, sender.pc # "idle"
  PROVE  sender.pending \in Sends
BY DEF SenderTyped, Senders

LEMMA AvailableTyped ==
  ASSUME PayTyped, sender.pending \in Sends
  PROVE  Available \in SUBSET Endpoints /\ Unavailable \in SUBSET Endpoints
BY DEF Available, Unavailable, PayTyped, Payloads

LEMMA UpdateUnavailableTyped ==
  ASSUME PayTyped, sender.pending \in Sends
  PROVE  UpdateUnavailable \in Seq(HostTasks)
<1>1. ASSUME NEW e PROVE RemoteOutcome(sender.pending, e) \in Statuses
  BY DEF RemoteOutcome, Statuses, Final
<1>2. [e \in Unavailable |-> RemoteOutcome(sender.pending, e)] \in [Unavailable -> Statuses]
  BY <1>1
<1>3. Update(sender.pending, [e \in Unavailable |-> RemoteOutcome(sender.pending, e)]) \in HostTasks
  BY <1>2, AvailableTyped, UpdateTyped
<1> QED
  BY <1>3 DEF UpdateUnavailable

LEMMA NextChunkInv ==
  ASSUME HostInv, NextChunk
  PROVE  HostInv'
<1> USE DEF HostInv
<1>1. sender.pending \in Sends
  BY AtWork DEF NextChunk, At
<1>2. HostTasksTyped'
  BY <1>1, UpdateUnavailableTyped, PostedTyped DEF NextChunk, HostTasksTyped
<1>3. SenderTyped'
  BY <1>1, AvailableTyped DEF NextChunk, At, SenderTyped, Senders
<1>4. ChunksRead'
  BY <1>1 DEF NextChunk, ChunksRead, SenderTyped, Senders
<1>5. LinkTyped' /\ PayTyped' /\ HostTyped' /\ HeardTyped' /\ HistTyped'
  BY DEF NextChunk, LinkTyped, PayTyped, HostTyped, HeardTyped, HistTyped
<1> QED
  BY <1>2, <1>3, <1>4, <1>5

LEMMA StopSendingInv ==
  ASSUME HostInv, StopSending
  PROVE  HostInv'
<1> USE DEF HostInv
<1>1. sender.pending \in Sends
  BY AtWork DEF StopSending, At
<1>2. SenderTyped'
  BY <1>1 DEF StopSending, At, SenderTyped, Senders
<1>3. ChunksRead'
  BY <1>1 DEF StopSending, ChunksRead, SenderTyped, Senders
<1>4. PayTyped' /\ HostTyped' /\ HeardTyped'
  BY DEF StopSending, PayTyped, HostTyped, HeardTyped
<1>5. HistTyped'
  BY FaultedTyped DEF StopSending, HistTyped
<1>6. LinkTyped'
  BY SayTyped DEF StopSending, LinkTyped
<1>7. HostTasksTyped'
  <2>1. hostTasks \o UpdateUnavailable \in Seq(HostTasks)
    BY <1>1, UpdateUnavailableTyped, PostedTyped
  <2>2. \A status \in Statuses : <<Update(sender.pending, All(Available, status))>> \in Seq(HostTasks)
    BY <1>1, AvailableTyped, AllTyped
  <2>3. \A status \in Statuses :
          hostTasks \o UpdateUnavailable \o <<Update(sender.pending, All(Available, status))>>
            \in Seq(HostTasks)
    BY <2>1, <2>2, ConcatProperties
  <2>4. "Canceled" \in Statuses /\ "Failure" \in Statuses
    BY DEF Statuses, Final
  <2> QED
    BY <2>1, <2>3, <2>4 DEF StopSending, HostTasksTyped
<1> QED
  BY <1>2, <1>3, <1>4, <1>5, <1>6, <1>7

\* Writing a chunk: what it makes of the links, the queue and the sender.
LEMMA WriteChunkInv ==
  ASSUME LinkTyped, SenderTyped, HostTasksTyped, sender.pc = "write",
         NEW read \in BOOLEAN, NEW failed \in SUBSET sender.targets, WriteChunk(read, failed)
  PROVE  /\ LinkTyped' /\ SenderTyped' /\ HostTasksTyped'
         /\ sender'.pc = "confirm" /\ sender'.last = ~read
         /\ sender'.pending = sender.pending /\ sender'.chunk = sender.chunk
<1>1. sender.pending \in Sends /\ sender.targets \in SUBSET Endpoints /\ sender.chunk \in 0..Chunks
  BY AtWork DEF SenderTyped, Senders
<1>2. SenderTyped' /\ sender'.pc = "confirm" /\ sender'.last = ~read
      /\ sender'.pending = sender.pending /\ sender'.chunk = sender.chunk
  BY <1>1 DEF WriteChunk, IsLast, SenderTyped, Senders
<1>3. LinkTyped'
  <2>1. Data(sender.chunk, IsLast(read), sender.pending) \in DownFrames
    BY <1>1 DEF Data, DownFrames, Frames, IsLast
  <2>2. ASSUME NEW e \in Endpoints
        PROVE  /\ [link[e] EXCEPT !.broken = TRUE] \in Links
               /\ WrittenDown(link[e], Data(sender.chunk, IsLast(read), sender.pending)) \in Links
               /\ link[e] \in Links
    <3>1. link[e] \in Links
      BY DEF LinkTyped
    <3>2. [link[e] EXCEPT !.broken = TRUE] \in Links
      BY <3>1 DEF Links
    <3> QED
      BY <2>1, <3>1, <3>2, WrittenDownTyped
  <2> QED
    BY <2>2 DEF WriteChunk, LinkTyped
<1>4. HostTasksTyped'
  <2>1. failed \in SUBSET Endpoints /\ "Failure" \in Statuses
    BY <1>1 DEF Statuses, Final
  <2>2. Update(sender.pending, All(failed, "Failure")) \in HostTasks
    BY <1>1, <2>1, AllTyped
  <2>3. (IF failed = {} THEN <<>> ELSE <<Update(sender.pending, All(failed, "Failure"))>>)
          \in Seq(HostTasks)
    BY <2>2
  <2> QED
    BY <2>3, PostedTyped DEF WriteChunk, HostTasksTyped
<1> QED
  BY <1>2, <1>3, <1>4

LEMMA DetachAndSendInv ==
  ASSUME HostInv, DetachAndSend
  PROVE  HostInv'
<1> USE DEF HostInv
<1>1. /\ sender.pc = "write" /\ sender.pending \in Sends
      /\ sender.targets \in SUBSET Endpoints
      /\ HostTyped' /\ HeardTyped' /\ UNCHANGED host
  BY AtWork DEF DetachAndSend, At, SenderTyped, Senders, HostTyped, HeardTyped
<1>2. CASE /\ sender' = [sender EXCEPT !.pc = "end"]
           /\ UNCHANGED <<link, pay, hostTasks, hist>>
  <2>1. SenderTyped'
    BY <1>1, <1>2 DEF SenderTyped, Senders
  <2>2. ChunksRead'
    BY <1>1, <1>2 DEF ChunksRead, SenderTyped, Senders
  <2> QED
    BY <1>1, <1>2, <2>1, <2>2 DEF LinkTyped, PayTyped, HostTasksTyped, HistTyped
<1>3. CASE ~host.shutdown
  <2>1. PICK read \in BOOLEAN, failed \in SUBSET sender.targets :
          /\ read => CanRead
          /\ pay' = IF read THEN [pay EXCEPT ![sender.pending].read = @ + 1] ELSE pay
          /\ \/ UNCHANGED hist
             \/ hist' = [Faulted(hist) EXCEPT !.truncated = @ \cup {sender.pending}]
          /\ \/ /\ hostTasks' = Append(hostTasks,
                                   Update(sender.pending, All(sender.targets, "Failure")))
                /\ Say(sender.targets, "error")
                /\ sender' = [sender EXCEPT !.pc = "end"]
             \/ WriteChunk(read, failed)
    BY <1>3 DEF DetachAndSend
  <2>2. PayTyped' /\ pay'[sender.pending].read = pay[sender.pending].read + (IF read THEN 1 ELSE 0)
    <3>1. pay[sender.pending].read \in 0..Chunks
      BY <1>1 DEF PayTyped, Payloads
    <3>2. CASE read
      <4>1. pay[sender.pending].read + 1 \in 0..Chunks
        BY <2>1, <3>1, <3>2, PayloadTyped DEF CanRead
      <4>2. pay' = [pay EXCEPT ![sender.pending].read = pay[sender.pending].read + 1]
        BY <2>1, <3>2
      <4> QED
        BY <1>1, <3>2, <4>1, <4>2 DEF PayTyped, Payloads
    <3>3. CASE ~read
      BY <2>1, <3>1, <3>3, PayloadTyped DEF PayTyped
    <3> QED
      BY <3>2, <3>3
  <2>3. HistTyped'
    <3>1. Faulted(hist) \in Histories
      BY FaultedTyped
    <3>2. [Faulted(hist) EXCEPT !.truncated = @ \cup {sender.pending}] \in Histories
      BY <1>1, <3>1 DEF Histories
    <3> QED
      BY <2>1, <3>2 DEF HistTyped
  <2>4. /\ LinkTyped' /\ SenderTyped' /\ HostTasksTyped' /\ sender'.pending = sender.pending
        /\ sender'.chunk = sender.chunk
        /\ \/ sender'.pc = "end"
           \/ sender'.pc = "confirm" /\ sender'.last = ~read
    <3>1. CASE WriteChunk(read, failed)
      BY <1>1, <3>1, WriteChunkInv
    <3>2. CASE /\ hostTasks' = Append(hostTasks,
                                Update(sender.pending, All(sender.targets, "Failure")))
               /\ Say(sender.targets, "error")
               /\ sender' = [sender EXCEPT !.pc = "end"]
      <4>1. LinkTyped'
        BY <3>2, SayTyped
      <4>2. SenderTyped' /\ sender'.pending = sender.pending /\ sender'.chunk = sender.chunk
            /\ sender'.pc = "end"
        BY <1>1, <3>2 DEF SenderTyped, Senders
      <4>3. Update(sender.pending, All(sender.targets, "Failure")) \in HostTasks
        BY <1>1, AllTyped DEF Statuses, Final
      <4>4. HostTasksTyped'
        BY <3>2, <4>3 DEF HostTasksTyped
      <4> QED
        BY <4>1, <4>2, <4>4
    <3> QED
      BY <2>1, <3>1, <3>2
  <2>5. ChunksRead'
    <3>1. pay[sender.pending].read \in Nat /\ sender.chunk \in Nat /\ sender.pending # 0
      BY <1>1, PayloadTyped DEF PayTyped, Payloads, SenderTyped, Senders
    <3>2. sender.pending <= host.sends /\ sender.chunk <= pay[sender.pending].read
      BY <3>1 DEF ChunksRead
    <3>3. CASE read
      BY <1>1, <2>2, <2>4, <3>1, <3>2, <3>3 DEF ChunksRead
    <3>4. CASE ~read
      <4>1. sender'.pc \in {"confirm", "wait"} => sender'.last
        BY <2>4, <3>4
      <4> QED
        BY <1>1, <2>2, <2>4, <3>1, <3>2, <3>4, <4>1 DEF ChunksRead
    <3> QED
      BY <3>3, <3>4
  <2> QED
    BY <1>1, <2>2, <2>3, <2>4, <2>5
<1> QED
  BY <1>2, <1>3 DEF DetachAndSend

\* One endpoint is done with.
LEMMA ConfirmedInv ==
  ASSUME SenderTyped, ChunksRead, sender.pc \in {"confirm", "wait"}, NEW e, Confirmed(e),
         \A k \in Sends : pay'[k].read = pay[k].read, UNCHANGED host
  PROVE  SenderTyped' /\ ChunksRead' /\ sender'.last = sender.last /\ sender'.pc = "confirm"
<1>1. sender.pending \in Sends
  BY AtWork
<1>2. SenderTyped'
  <2>1. sender \in Senders
    BY DEF SenderTyped
  <2>2. /\ sender' \in Senders /\ sender'.pc = "confirm" /\ sender'.pending = sender.pending
        /\ sender'.waiting = None /\ sender'.awaited = 0
    <3>1. sender.left \ {e} \in SUBSET Endpoints /\ 0 \in Tracked
      BY <2>1, PayloadTyped DEF Senders
    <3>2. sender' = [sender EXCEPT !.pc = "confirm", !.left = sender.left \ {e},
                                   !.waiting = None, !.awaited = 0]
      BY DEF Confirmed
    <3> QED
      BY <2>1, <3>1, <3>2 DEF Senders
  <2> QED
    BY <1>1, <2>2 DEF SenderTyped
<1>3. /\ sender'.pending = sender.pending /\ sender'.last = sender.last
      /\ sender'.chunk = sender.chunk /\ sender'.pc = "confirm"
  BY DEF Confirmed, SenderTyped, Senders
<1> QED
  BY <1>1, <1>2, <1>3 DEF ChunksRead

LEMMA SucceededTyped ==
  ASSUME sender.pending \in Sends, NEW e \in Endpoints
  PROVE  Succeeded(e) \in Seq(HostTasks)
<1>1. \A status \in Statuses : Update(sender.pending, All({e}, status)) \in HostTasks
  BY AllTyped
<1> QED
  BY <1>1 DEF Succeeded, Statuses, Final

LEMMA ConfirmChunkInv ==
  ASSUME HostInv, NEW e \in Endpoints, ConfirmChunk(e)
  PROVE  HostInv'
<1> USE DEF HostInv
<1>1. sender.pc = "confirm" /\ Confirmed(e) /\ UNCHANGED <<link, pay, host, heard, hist>>
      /\ hostTasks' = hostTasks \o Succeeded(e)
  BY DEF ConfirmChunk, At
<1>2. SenderTyped' /\ ChunksRead'
  BY <1>1, ConfirmedInv
<1>3. HostTasksTyped'
  BY <1>1, AtWork, SucceededTyped, PostedTyped DEF HostTasksTyped
<1> QED
  BY <1>1, <1>2, <1>3 DEF LinkTyped, PayTyped, HostTyped, HeardTyped, HistTyped

\* Taking the acknowledgement changes nothing else of a payload.
LEMMA TakenTyped ==
  ASSUME PayTyped, NEW q \in Sends, NEW S, pay' = [pay EXCEPT ![q].acked = @ \ S]
  PROVE  PayTyped' /\ \A k \in Sends : pay'[k].read = pay[k].read
BY DEF PayTyped, Payloads

LEMMA CheckAckInv ==
  ASSUME HostInv, NEW e \in Endpoints, CheckAck(e)
  PROVE  HostInv'
<1> DEFINE q == host.tracked
<1> USE DEF HostInv
<1>1. /\ sender.pc = "confirm" /\ sender.last /\ sender.pending \in Sends
      /\ UNCHANGED <<host, heard, hist>>
  BY AtWork DEF CheckAck, At
<1>2. Member(q, e) => q \in Sends
  BY PayloadTyped DEF Member, HostTyped, Hosts
<1>3. ASSUME NEW status \in Statuses
      PROVE  Append(hostTasks, Update(sender.pending, All({e}, status))) \in Seq(HostTasks)
  <2>1. Update(sender.pending, All({e}, status)) \in HostTasks
    BY <1>1, AllTyped
  <2> QED
    BY <2>1 DEF HostTasksTyped
<1>4. hostTasks \o Succeeded(e) \in Seq(HostTasks)
  BY <1>1, SucceededTyped, PostedTyped
<1>5. "Canceled" \in Statuses /\ RemoteOutcome(q, e) \in Statuses
  BY DEF RemoteOutcome, Statuses, Final
<1>6. CASE Confirmed(e)
  <2>1. /\ PayTyped' /\ \A k \in Sends : pay'[k].read = pay[k].read
    BY <1>2, <1>6, TakenTyped DEF CheckAck, PayTyped, Confirmed
  <2>2. SenderTyped' /\ ChunksRead'
    BY <1>1, <1>6, <2>1, ConfirmedInv
  <2>3. HostTasksTyped'
    BY <1>3, <1>4, <1>5 DEF CheckAck, HostTasksTyped
  <2>4. LinkTyped'
    BY SayTyped DEF CheckAck, LinkTyped
  <2> QED
    BY <1>1, <2>1, <2>2, <2>3, <2>4 DEF HostTyped, HeardTyped, HistTyped
<1>7. CASE /\ Member(q, e)
           /\ sender' = [sender EXCEPT !.pc = "wait", !.waiting = e, !.awaited = q]
           /\ UNCHANGED <<link, pay, hostTasks>>
  <2>1. SenderTyped'
    <3>1. sender \in Senders /\ q \in Tracked /\ q # 0 /\ e # None
      BY <1>2, <1>7, PayloadTyped DEF SenderTyped
    <3>2. /\ sender' \in Senders /\ sender'.pc = "wait" /\ sender'.pending = sender.pending
          /\ sender'.waiting = e /\ sender'.awaited = q
      BY <1>7, <3>1 DEF Senders
    <3> QED
      BY <1>1, <3>1, <3>2 DEF SenderTyped
  <2>2. ChunksRead'
    BY <1>1, <1>7 DEF ChunksRead, SenderTyped, Senders
  <2> QED
    BY <1>1, <1>7, <2>1, <2>2 DEF LinkTyped, PayTyped, HostTyped, HostTasksTyped, HeardTyped, HistTyped
<1> QED
  BY <1>6, <1>7 DEF CheckAck

\* The end of a wait, whatever it posts.
LEMMA WaitEndedInv ==
  ASSUME HostInv, sender.pc = "wait", Confirmed(sender.waiting), HostTasksTyped', PayTyped',
         \A k \in Sends : pay'[k].read = pay[k].read, UNCHANGED <<link, host, heard>>, HistTyped'
  PROVE  HostInv'
<1> USE DEF HostInv
<1>1. SenderTyped' /\ ChunksRead'
  BY ConfirmedInv
<1> QED
  BY <1>1 DEF LinkTyped, HostTyped, HeardTyped

LEMMA AwaitedTyped ==
  ASSUME SenderTyped, HostTasksTyped, sender.pc = "wait"
  PROVE  /\ sender.waiting \in Endpoints /\ sender.awaited \in Sends /\ sender.pending \in Sends
         /\ Released \in Seq(HostTasks)
         /\ Released \o Succeeded(sender.waiting) \in Seq(HostTasks)
<1>1. /\ sender.waiting \in Endpoints /\ sender.awaited \in Sends /\ sender.pending \in Sends
  BY AtWork DEF SenderTyped, Senders
<1>2. Released \in Seq(HostTasks)
  BY DestroyedTyped, PostedTyped DEF Released
<1>3. Released \o Succeeded(sender.waiting) \in Seq(HostTasks)
  BY <1>1, <1>2, SucceededTyped, ConcatProperties
<1> QED
  BY <1>1, <1>2, <1>3

LEMMA AckReceivedInv ==
  ASSUME HostInv, AckReceived
  PROVE  HostInv'
<1> USE DEF HostInv
<1>1. /\ sender.pc = "wait" /\ Confirmed(sender.waiting)
      /\ pay' = [pay EXCEPT ![sender.awaited].acked = @ \ {sender.waiting}]
      /\ hostTasks' = Released \o Succeeded(sender.waiting)
      /\ UNCHANGED <<link, host, heard, hist>>
  BY DEF AckReceived, At
<1>2. PayTyped' /\ \A k \in Sends : pay'[k].read = pay[k].read
  BY <1>1, AwaitedTyped, TakenTyped
<1>3. HostTasksTyped' /\ HistTyped'
  BY <1>1, AwaitedTyped DEF HostTasksTyped, HistTyped
<1> QED
  BY <1>1, <1>2, <1>3, WaitEndedInv

LEMMA AckTimeoutInv ==
  ASSUME HostInv, AckTimeout
  PROVE  HostInv'
<1> USE DEF HostInv
<1>1. /\ sender.pc = "wait" /\ Confirmed(sender.waiting) /\ UNCHANGED <<link, pay, host, heard>>
      /\ hostTasks' = Released
      /\ hist' = [hist EXCEPT !.unconfirmed = @ \cup {<<sender.pending, sender.waiting>>}]
  BY DEF AckTimeout, At, TimedOut
<1>2. PayTyped' /\ HostTasksTyped'
  BY <1>1, AwaitedTyped DEF PayTyped, HostTasksTyped
<1>3. HistTyped'
  <2>1. <<sender.pending, sender.waiting>> \in Sends \X Endpoints
    BY <1>1, AwaitedTyped
  <2> QED
    BY <1>1, <2>1 DEF HistTyped, Histories
<1> QED
  BY <1>1, <1>2, <1>3, WaitEndedInv

LEMMA AckInfoErasedInv ==
  ASSUME HostInv, AckInfoErased
  PROVE  HostInv'
<1> USE DEF HostInv
<1>1. /\ sender.pc = "wait" /\ Confirmed(sender.waiting)
      /\ UNCHANGED <<link, pay, host, heard, hist>>
      /\ hostTasks' \in {Released, Released \o Succeeded(sender.waiting)}
  BY DEF AckInfoErased, At
<1>2. PayTyped' /\ HostTasksTyped' /\ HistTyped'
  BY <1>1, AwaitedTyped DEF PayTyped, HostTasksTyped, HistTyped
<1> QED
  BY <1>1, <1>2, WaitEndedInv

LEMMA ChunkDoneInv ==
  ASSUME HostInv, ChunkDone
  PROVE  HostInv'
<1> USE DEF HostInv
<1>1. /\ sender.pc = "confirm" /\ sender.pending \in Sends
      /\ UNCHANGED <<link, pay, host, hostTasks, heard, hist>>
  BY AtWork DEF ChunkDone, At
<1> DEFINE pc == IF sender.last /\ sender.wrote THEN "end" ELSE "top"
           chunk == IF sender.last THEN sender.chunk ELSE sender.chunk + 1
<1>2. sender' = [sender EXCEPT !.pc = pc, !.chunk = chunk]
  BY DEF ChunkDone
<1>3. /\ sender \in Senders /\ sender.chunk \in 0..Chunks
      /\ pay[sender.pending].read \in 0..Chunks
      /\ pc \in {"end", "top"}
  BY <1>1 DEF SenderTyped, Senders, PayTyped, Payloads
<1>4. chunk \in 0..Chunks /\ chunk <= pay[sender.pending].read
  BY <1>1, <1>3, PayloadTyped DEF ChunksRead
<1>5. /\ sender' \in Senders /\ sender'.pc = pc /\ sender'.chunk = chunk
      /\ sender'.pending = sender.pending /\ sender'.awaited = sender.awaited
      /\ sender'.waiting = sender.waiting
  BY <1>2, <1>3, <1>4 DEF Senders
<1>6. SenderTyped'
  BY <1>1, <1>3, <1>5 DEF SenderTyped
<1>7. ChunksRead'
  BY <1>1, <1>3, <1>4, <1>5 DEF ChunksRead
<1> QED
  BY <1>1, <1>6, <1>7 DEF LinkTyped, PayTyped, HostTyped, HostTasksTyped, HeardTyped, HistTyped

LEMMA PostDestroyInv ==
  ASSUME HostInv, PostDestroy
  PROVE  HostInv'
<1> USE DEF HostInv
<1>1. /\ sender.pc = "end" /\ sender.pending \in Sends
      /\ UNCHANGED <<link, pay, host, heard, hist>>
  BY AtWork DEF PostDestroy, At
<1>2. SenderTyped' /\ ChunksRead'
  BY <1>1 DEF PostDestroy, SenderTyped, Senders, ChunksRead
<1>3. HostTasksTyped'
  BY <1>1, OtherTasksTyped DEF PostDestroy, HostTasksTyped
<1> QED
  BY <1>1, <1>2, <1>3 DEF LinkTyped, PayTyped, HostTyped, HeardTyped, HistTyped

LEMMA ReleaseHandleInv ==
  ASSUME HostInv, ReleaseHandle
  PROVE  HostInv'
<1> USE DEF HostInv
<1>1. /\ sender.pc = "release" /\ UNCHANGED <<link, pay, host, heard, hist>>
  BY DEF ReleaseHandle, At
<1>2. SenderTyped' /\ ChunksRead'
  <2>1. sender \in Senders /\ 0 \in Tracked /\ host.sends \in Nat
    BY PayloadTyped DEF SenderTyped, HostTyped, Hosts
  <2>2. /\ sender' \in Senders /\ sender'.pc = "idle" /\ sender'.pending = 0
        /\ sender'.awaited = sender.awaited /\ sender'.waiting = sender.waiting
    BY <2>1 DEF ReleaseHandle, Senders
  <2> QED
    BY <1>1, <2>1, <2>2 DEF SenderTyped, ChunksRead
<1>3. HostTasksTyped'
  BY DestroyedTyped, PostedTyped DEF ReleaseHandle, HostTasksTyped
<1> QED
  BY <1>1, <1>2, <1>3 DEF LinkTyped, PayTyped, HostTyped, HeardTyped, HistTyped

LEMMA SenderStepInv ==
  ASSUME HostInv, SenderStep
  PROVE  HostInv'
BY TakeSendInv, NextChunkInv, StopSendingInv, DetachAndSendInv, ConfirmChunkInv, CheckAckInv,
   AckReceivedInv, AckTimeoutInv, AckInfoErasedInv, ChunkDoneInv, PostDestroyInv, ReleaseHandleInv
   DEF SenderStep

-----------------------------------------------------------------------------
(* The host's status thread *)

LEMMA FirstTaskTyped ==
  ASSUME HostTasksTyped, hostTasks # <<>>
  PROVE  Head(hostTasks) \in HostTasks /\ Tail(hostTasks) \in Seq(HostTasks)
BY HeadTailProperties DEF HostTasksTyped

\* Who is removed, and closing, changes nothing else of a payload.
LEMMA RemovedTyped ==
  ASSUME PayTyped, NEW q \in Sends, NEW S, pay' = Removed(q, S)
  PROVE  PayTyped' /\ \A k \in Sends : pay'[k].read = pay[k].read
<1>1. pay[q] \in Payloads /\ pay[q].endpoints \ S \in SUBSET Endpoints
  BY DEF PayTyped, Payloads
<1>2. \A k \in Sends : k # q => pay'[k] = pay[k]
  BY DEF Removed, PayTyped
<1>3. pay'[q] \in Payloads /\ pay'[q].read = pay[q].read
  BY <1>1 DEF Removed, PayTyped, Payloads
<1>4. DOMAIN pay' = Sends /\ pay' = [k \in Sends |-> pay'[k]]
  BY DEF Removed, PayTyped
<1> QED
  BY <1>2, <1>3, <1>4 DEF PayTyped

\* An endpoint of an outcome has a status there.
LEMMA OutcomeTyped ==
  ASSUME NEW outcome \in Outcomes
  PROVE  \A e \in DOMAIN outcome : e \in Endpoints /\ outcome[e] \in Statuses
<1>1. PICK S \in SUBSET Endpoints : outcome \in [S -> Statuses]
  BY DEF Outcomes
<1> QED
  BY <1>1

LEMMA ToldTyped ==
  ASSUME HeardTyped, HostTyped, NEW task \in HostTasks, NEW S \in SUBSET DOMAIN task.outcome,
         Told(task, S)
  PROVE  HeardTyped'
<1>1. ASSUME NEW e \in Endpoints
      PROVE  (IF e \in S /\ link[e].host # "gone"
              THEN Append(heard.host[e], Report(task, host.tracked, task.outcome[e]))
              ELSE heard.host[e]) \in Seq(Reports)
  <2>1. heard.host[e] \in Seq(Reports)
    BY DEF HeardTyped
  <2>2. CASE e \in S
    <3>1. task.outcome[e] \in Statuses /\ task.send \in Nat /\ task.kind \in Kinds
      BY <2>2, OutcomeTyped DEF HostTasks
    <3>2. host.tracked \in Nat
      BY PayloadTyped DEF HostTyped, Hosts
    <3>3. Report(task, host.tracked, task.outcome[e]) \in Reports
      BY <3>1, <3>2 DEF Report, Reports
    <3> QED
      BY <2>1, <3>3
  <2> QED
    BY <2>1, <2>2
<1> QED
  BY <1>1 DEF Told, HeardTyped

LEMMA StatusUpdateInv ==
  ASSUME HostInv, StatusUpdate
  PROVE  HostInv'
<1> DEFINE task == Head(hostTasks)
           q == host.tracked
           S == DOMAIN task.outcome \cap pay[q].endpoints
<1> USE DEF HostInv
<1>1. /\ hostTasks # <<>> /\ ApplyUpdate(task) /\ hostTasks' = Tail(hostTasks)
      /\ UNCHANGED <<link, host, sender, hist>>
  BY DEF StatusUpdate
<1>2. task \in HostTasks /\ HostTasksTyped'
  BY <1>1, FirstTaskTyped DEF HostTasksTyped
<1>3. PayTyped' /\ HeardTyped' /\ \A k \in Sends : pay'[k].read = pay[k].read
  <2>1. CASE q = 0
    BY <1>1, <2>1 DEF ApplyUpdate, PayTyped, HeardTyped
  <2>2. CASE q # 0
    <3>1. q \in Sends
      BY <2>2, PayloadTyped DEF HostTyped, Hosts
    <3>2. Told(task, S) /\ pay' = Removed(q, {e \in S : task.outcome[e] \in Final})
      BY <1>1, <2>2 DEF ApplyUpdate
    <3> QED
      BY <1>2, <3>1, <3>2, RemovedTyped, ToldTyped
  <2> QED
    BY <2>1, <2>2
<1>4. ChunksRead'
  <2>1. sender.pending # 0 => sender.pending \in Sends
    BY PayloadTyped DEF SenderTyped, Senders
  <2> QED
    BY <1>1, <1>3, <2>1 DEF ChunksRead
<1> QED
  BY <1>1, <1>2, <1>3, <1>4 DEF LinkTyped, HostTyped, SenderTyped, HistTyped

LEMMA DestroyPendingPayloadInv ==
  ASSUME HostInv, DestroyPendingPayload
  PROVE  HostInv'
<1> USE DEF HostInv
<1>1. /\ hostTasks # <<>> /\ UNCHANGED <<link, pay, sender, heard, hist>>
      /\ host' = [host EXCEPT !.tracked = 0]
      /\ hostTasks' = Tail(hostTasks) \o Destroyed(host.tracked, 0, Held)
  BY DEF DestroyPendingPayload
<1>2. HostTasksTyped'
  BY <1>1, FirstTaskTyped, DestroyedTyped, ConcatProperties DEF HostTasksTyped
<1>3. HostTyped' /\ ChunksRead'
  <2>1. host \in Hosts /\ 0 \in Tracked
    BY PayloadTyped DEF HostTyped
  <2>2. host' \in Hosts /\ host'.tracked = 0 /\ host'.sends = host.sends /\ host.sends \in Nat
    BY <1>1, <2>1 DEF Hosts
  <2> QED
    BY <1>1, <2>2 DEF HostTyped, ChunksRead
<1> QED
  BY <1>1, <1>2, <1>3 DEF LinkTyped, PayTyped, SenderTyped, HeardTyped, HistTyped

\* A step that changes no more of the host than its shutdown.
LEMMA ShutdownTyped ==
  ASSUME HostTyped, ChunksRead, UNCHANGED <<sender, pay>>,
         NEW h \in Hosts, host' = h, h.sends = host.sends, h.tracked \in {0, host.tracked}
  PROVE  HostTyped' /\ ChunksRead'
BY PayloadTyped DEF HostTyped, Hosts, ChunksRead

LEMMA NotifyShutdownInv ==
  ASSUME HostInv, NotifyShutdown
  PROVE  HostInv'
<1> USE DEF HostInv
<1>1. /\ hostTasks # <<>> /\ UNCHANGED <<link, pay, sender, heard, hist>>
      /\ host' = [host EXCEPT !.barrier = IF host.shutdown THEN CountedDown(@) ELSE @]
      /\ hostTasks' = Tail(hostTasks)
  BY DEF NotifyShutdown
<1>2. HostTasksTyped'
  BY <1>1, FirstTaskTyped DEF HostTasksTyped
<1>3. HostTyped' /\ ChunksRead'
  <2>1. host \in Hosts /\ CountedDown(host.barrier) \in {0, 1}
    BY DEF HostTyped, Hosts, CountedDown
  <2>2. host' \in Hosts /\ host'.sends = host.sends /\ host'.tracked = host.tracked
    BY <1>1, <2>1 DEF Hosts
  <2> QED
    BY <1>1, <2>2, ShutdownTyped
<1> QED
  BY <1>1, <1>2, <1>3 DEF LinkTyped, PayTyped, SenderTyped, HeardTyped, HistTyped

LEMMA HostStatusStepInv ==
  ASSUME HostInv, HostStatusStep
  PROVE  HostInv'
BY StatusUpdateInv, DestroyPendingPayloadInv, NotifyShutdownInv DEF HostStatusStep

-----------------------------------------------------------------------------
(* Frames, the end of a connection, and the end of the manager *)

LEMMA HostFrameInv ==
  ASSUME HostInv, NEW e \in Endpoints, HostFrame(e)
  PROVE  HostInv'
<1> DEFINE f == Head(link[e].up)
           q == host.tracked
<1> USE DEF HostInv
<1>1. /\ link[e].up # <<>> /\ link[e] \in Links
      /\ link' = [link EXCEPT ![e].up = Tail(@)]
      /\ UNCHANGED <<host, sender, hostTasks, heard, hist>>
  BY DEF HostFrame, LinkTyped
<1>2. f \in UpFrames /\ Tail(link[e].up) \in Seq(UpFrames)
  BY <1>1, HeadTailProperties DEF Links
<1>3. LinkTyped'
  BY <1>1, <1>2 DEF LinkTyped, Links
<1>4. PayTyped' /\ \A k \in Sends : pay'[k].read = pay[k].read
  <2>1. CASE UNCHANGED pay
    BY <2>1 DEF PayTyped
  <2>2. CASE Member(q, e) /\ pay' = [pay EXCEPT ![q].acked = @ \cup {e}]
    <3>1. q \in Sends
      BY <2>2, PayloadTyped DEF Member, HostTyped, Hosts
    <3> QED
      BY <2>2, <3>1 DEF PayTyped, Payloads
  <2>3. CASE Member(q, e) /\ f.type # "ack" /\ pay' = [pay EXCEPT ![q].status[e] = f.type]
    <3>1. q \in Sends
      BY <2>3, PayloadTyped DEF Member, HostTyped, Hosts
    <3>2. f.type \in {"available", "canceled", "error"}
      BY <1>2, <2>3 DEF UpFrames, Frames
    <3> QED
      BY <2>3, <3>1, <3>2 DEF PayTyped, Payloads
  <2> QED
    BY <2>1, <2>2, <2>3 DEF HostFrame
<1>5. ChunksRead'
  <2>1. sender.pending # 0 => sender.pending \in Sends
    BY PayloadTyped DEF SenderTyped, Senders
  <2> QED
    BY <1>1, <1>4, <2>1 DEF ChunksRead
<1> QED
  BY <1>1, <1>3, <1>4, <1>5 DEF HostTyped, SenderTyped, HostTasksTyped, HeardTyped, HistTyped

LEMMA CloseHostEndTyped ==
  ASSUME HostInv, NEW e \in Endpoints, CloseHostEnd(e), HistTyped'
  PROVE  HostInv'
<1> USE DEF HostInv
<1>1. LinkTyped'
  <2>1. PICK rest \in InHand(link[e].up), kept \in {link[e].down, <<>>} :
          link' = [link EXCEPT ![e] = [@ EXCEPT !.host = "leaving", !.up = rest, !.down = kept]]
    BY DEF CloseHostEnd
  <2>2. link[e] \in Links /\ link[e].up \in Seq(UpFrames) /\ link[e].down \in Seq(DownFrames)
    BY DEF LinkTyped, Links
  <2>3. rest \in Seq(UpFrames)
    BY <2>2, InHandTyped
  <2>4. kept \in Seq(DownFrames)
    BY <2>2, EmptyTyped
  <2>5. [link[e] EXCEPT !.host = "leaving", !.up = rest, !.down = kept] \in Links
    BY <2>2, <2>3, <2>4 DEF Links, Ends
  <2> QED
    BY <2>1, <2>5 DEF LinkTyped
<1>2. HostTasksTyped'
  BY OtherTasksTyped DEF CloseHostEnd, HostTasksTyped
<1>3. PayTyped' /\ HostTyped' /\ SenderTyped' /\ HeardTyped' /\ ChunksRead'
  BY DEF CloseHostEnd, PayTyped, HostTyped, SenderTyped, HeardTyped, ChunksRead
<1> QED
  BY <1>1, <1>2, <1>3

LEMMA HostConnectionInv ==
  ASSUME HostInv, NEW e \in Endpoints, HostConnection(e)
  PROVE  HostInv'
<1> USE DEF HostInv
<1>1. CASE HostNotices(e)
  BY <1>1, CloseHostEndTyped DEF HostNotices, HistTyped
<1>2. CASE HostLeaves(e)
  BY <1>2, CloseHostEndTyped, FaultedTyped DEF HostLeaves, HistTyped
<1>3. CASE HostDisconnected(e)
  <2>1. UNCHANGED <<pay, host, sender, hostTasks, heard>>
        /\ link' = [link EXCEPT ![e] = [@ EXCEPT !.host = "gone", !.up = <<>>]]
    BY <1>3 DEF HostDisconnected
  <2>2. LinkTyped'
    <3>1. [link[e] EXCEPT !.host = "gone", !.up = <<>>] \in Links
      BY EmptyTyped DEF LinkTyped, Links, Ends
    <3> QED
      BY <2>1, <3>1 DEF LinkTyped
  <2>3. HistTyped'
    <3>1. Faulted(hist) \in Histories
      BY FaultedTyped
    <3>2. [Faulted(hist) EXCEPT !.late = @ \cup {e}] \in Histories
      BY <3>1 DEF Histories
    <3> QED
      BY <1>3, <3>2 DEF HostDisconnected, HistTyped
  <2> QED
    BY <2>1, <2>2, <2>3 DEF PayTyped, HostTyped, SenderTyped, HostTasksTyped, HeardTyped, ChunksRead
<1>4. CASE BreakLink(e)
  <2>1. UNCHANGED <<pay, host, sender, hostTasks, heard>>
        /\ link' = [link EXCEPT ![e] = [@ EXCEPT !.broken = TRUE, !.down = <<>>, !.up = <<>>]]
    BY <1>4 DEF BreakLink
  <2>2. LinkTyped'
    <3>1. [link[e] EXCEPT !.broken = TRUE, !.down = <<>>, !.up = <<>>] \in Links
      BY EmptyTyped DEF LinkTyped, Links
    <3> QED
      BY <2>1, <3>1 DEF LinkTyped
  <2>3. HistTyped'
    BY <1>4, FaultedTyped DEF BreakLink, HistTyped
  <2> QED
    BY <2>1, <2>2, <2>3 DEF PayTyped, HostTyped, SenderTyped, HostTasksTyped, HeardTyped, ChunksRead
<1> QED
  BY <1>1, <1>2, <1>3, <1>4 DEF HostConnection

LEMMA StopManagerInv ==
  ASSUME HostInv, StopManager
  PROVE  HostInv'
<1> USE DEF HostInv
<1>1. [host EXCEPT !.shutdown = TRUE] \in Hosts
  BY DEF HostTyped, Hosts
<1>2. HostTyped' /\ ChunksRead'
  BY <1>1, ShutdownTyped DEF StopManager, HostTyped, Hosts
<1>3. HistTyped'
  BY FaultedTyped DEF StopManager, HistTyped
<1> QED
  BY <1>2, <1>3 DEF StopManager, LinkTyped, PayTyped, SenderTyped, HostTasksTyped, HeardTyped

LEMMA TeardownStepInv ==
  ASSUME HostInv, TeardownStep
  PROVE  HostInv'
<1> USE DEF HostInv
<1>1. UNCHANGED <<link, sender, hostTasks, heard, hist>>
  BY DEF TeardownStep, CancelAllPayloads, AwaitBarrier, JoinExecutors
<1>2. PayTyped' /\ \A k \in Sends : pay'[k].read = pay[k].read
  <2>1. CASE UNCHANGED pay
    BY <2>1 DEF PayTyped
  <2>2. CASE /\ host.tracked # 0
             /\ pay' = [pay EXCEPT ![host.tracked] = [@ EXCEPT !.cancelled = TRUE, !.closed = TRUE]]
    <3>1. host.tracked \in Sends
      BY <2>2, PayloadTyped DEF HostTyped, Hosts
    <3>2. [pay[host.tracked] EXCEPT !.cancelled = TRUE, !.closed = TRUE] \in Payloads
      BY <3>1 DEF PayTyped, Payloads
    <3> QED
      BY <2>2, <3>1, <3>2 DEF PayTyped, Payloads
  <2> QED
    BY <2>1, <2>2 DEF TeardownStep, CancelAllPayloads, AwaitBarrier, JoinExecutors
<1>3. /\ host' \in Hosts /\ host'.sends = host.sends /\ host'.tracked \in {0, host.tracked}
  <2>1. host \in Hosts /\ 0 \in Tracked
    BY PayloadTyped DEF HostTyped
  <2> QED
    BY <2>1 DEF TeardownStep, CancelAllPayloads, AwaitBarrier, JoinExecutors, Hosts
<1>4. HostTyped'
  BY <1>3, PayloadTyped DEF HostTyped, Hosts
<1>5. ChunksRead'
  <2>1. sender.pending # 0 => sender.pending \in Sends
    BY PayloadTyped DEF SenderTyped, Senders
  <2> QED
    BY <1>1, <1>2, <1>3, <2>1 DEF ChunksRead
<1> QED
  BY <1>1, <1>2, <1>4, <1>5 DEF LinkTyped, SenderTyped, HostTasksTyped, HeardTyped, HistTyped

LEMMA HostStepInv ==
  ASSUME HostInv, HostStep
  PROVE  HostInv'
BY SendPayloadInv, CancelOutgoingInv, StopManagerInv, SenderStepInv, HostStatusStepInv,
   TeardownStepInv, HostFrameInv DEF HostStep

-----------------------------------------------------------------------------
(* The peers *)

\* What a peer leaves alone of the host.
LEMMA HostKept ==
  ASSUME HostInv, LinkTyped', HistTyped', UNCHANGED <<hostVars, heard>>
  PROVE  HostInv'
BY DEF HostInv, hostVars, PayTyped, HostTyped, SenderTyped, HostTasksTyped, HeardTyped, ChunksRead

LEMMA RepliedTyped ==
  ASSUME LinkTyped, NEW e \in Endpoints, NEW l \in Links, Replied(e, l)
  PROVE  LinkTyped'
BY DEF Replied, LinkTyped

LEMMA PostTyped ==
  ASSUME PeerTyped, NEW e \in Endpoints, NEW tasks \in Seq(PeerTasks), Post(e, tasks)
  PROVE  peerTasks' \in [Endpoints -> Seq(PeerTasks)]
<1>1. peerTasks[e] \in Seq(PeerTasks)
  BY DEF PeerTyped
<1>2. peerTasks[e] \o tasks \in Seq(PeerTasks)
  BY <1>1, ConcatProperties
<1> QED
  BY <1>2 DEF Post, PeerTyped

LEMMA PeerTaskTyped ==
  ASSUME NEW p \in IncomingPayloads
  PROVE  /\ \A status \in Statuses : PeerUpdate(p, status) \in PeerTasks
         /\ OnPayload(p) \in PeerTasks
         /\ PeerDisconnect \in PeerTasks
BY DEF IncomingPayloads, PeerUpdate, OnPayload, PeerDisconnect, PeerTasks, Kinds, Statuses, Final

LEMMA IncomingTyped ==
  ASSUME PeerTyped, NEW e \in Endpoints, NEW f \in DownFrames
  PROVE  Incoming(e, f) \in IncomingPayloads
BY DEF PeerTyped, Incoming, IncomingPayloads, DownFrames, Frames

LEMMA AnnouncedTyped ==
  ASSUME NEW p \in IncomingPayloads, NEW f, NEW status \in Statuses
  PROVE  Announced(p, f) \o <<PeerUpdate(p, status)>> \in Seq(PeerTasks)
<1>1. PeerUpdate(p, status) \in PeerTasks /\ OnPayload(p) \in PeerTasks
  BY PeerTaskTyped
<1>2. Announced(p, f) \in Seq(PeerTasks) /\ <<PeerUpdate(p, status)>> \in Seq(PeerTasks)
  BY <1>1 DEF Announced
<1> QED
  BY <1>2, ConcatProperties

\* The reply to a frame that was read.
LEMMA ReadDownTyped ==
  ASSUME LinkTyped, NEW e \in Endpoints, link[e].down # <<>>
  PROVE  /\ Head(link[e].down) \in DownFrames
         /\ ReadDown(e) \in Links
         /\ \A event \in {"canceled", "error"} :
              WrittenUp(ReadDown(e), Control(event)) \in Links
<1>1. link[e] \in Links /\ link[e].down \in Seq(DownFrames)
  BY DEF LinkTyped, Links
<1>2. Head(link[e].down) \in DownFrames /\ Tail(link[e].down) \in Seq(DownFrames)
  BY <1>1, HeadTailProperties
<1>3. ReadDown(e) \in Links
  BY <1>1, <1>2 DEF ReadDown, Links
<1> QED
  BY <1>2, <1>3, ControlTyped, WrittenUpTyped

LEMMA AttachChunkInv ==
  ASSUME IInv, NEW e \in Endpoints, link[e].down # <<>>,
         AttachChunk(e, Head(link[e].down)), UNCHANGED <<hostVars, heard>>
  PROVE  IInv'
<1> DEFINE f == Head(link[e].down)
           p == [Incoming(e, f) EXCEPT !.got = @ \cup {f.chunk}]
<1> USE DEF IInv, HostInv
<1>1. f \in DownFrames /\ f.chunk \in 0..Chunks /\ ReadDown(e) \in Links
  BY ReadDownTyped DEF DownFrames, Frames
<1>2. p \in IncomingPayloads /\ p.inst \in Nat /\ p.send \in Nat
  <2>1. Incoming(e, f) \in IncomingPayloads
    BY <1>1, IncomingTyped
  <2> QED
    BY <1>1, <2>1 DEF IncomingPayloads
<1>3. LinkTyped'
  BY <1>1, RepliedTyped DEF AttachChunk
<1>4. HistTyped'
  <2>1. hist' = hist \/ hist' = [hist EXCEPT !.whole = @ \cup {<<p.send, e>>}]
    BY DEF AttachChunk
  <2> QED
    BY <1>2, <2>1 DEF HistTyped, Histories
<1>5. HostInv'
  BY <1>3, <1>4, HostKept
<1>6. peer' \in [Endpoints -> IncomingPayloads]
  BY <1>2 DEF AttachChunk, PeerTyped
<1>7. peerTasks' \in [Endpoints -> Seq(PeerTasks)]
  <2>1. (IF f.last THEN "Success" ELSE "InProgress") \in Statuses
    BY DEF Statuses, Final
  <2> HIDE DEF p
  <2>2. Announced(p, f) \o <<PeerUpdate(p, IF f.last THEN "Success" ELSE "InProgress")>>
          \in Seq(PeerTasks)
    BY <1>2, <2>1, AnnouncedTyped
  <2> QED
    BY <2>2, PostTyped DEF AttachChunk, p
<1>8. acks' \in [Endpoints -> Seq(Nat)]
  <2>1. acks' = acks \/ acks' = [acks EXCEPT ![e] = Append(@, p.inst)]
    BY DEF AttachChunk
  <2> HIDE DEF p
  <2>2. acks[e] \in Seq(Nat)
    BY DEF PeerTyped
  <2>3. Append(acks[e], p.inst) \in Seq(Nat)
    BY <1>2, <2>2
  <2> QED
    BY <2>1, <2>3 DEF PeerTyped
<1> QED
  BY <1>5, <1>6, <1>7, <1>8 DEF PeerTyped

LEMMA AttachFailsInv ==
  ASSUME IInv, NEW e \in Endpoints, link[e].down # <<>>,
         AttachFails(e, Head(link[e].down)), UNCHANGED <<hostVars, heard>>
  PROVE  IInv'
<1> DEFINE f == Head(link[e].down)
           p == Incoming(e, f)
<1> USE DEF IInv, HostInv
<1>1. f \in DownFrames /\ WrittenUp(ReadDown(e), Control("error")) \in Links
  BY ReadDownTyped
<1>2. p \in IncomingPayloads /\ p.send \in Nat
  BY <1>1, IncomingTyped DEF IncomingPayloads
<1>3. LinkTyped'
  BY <1>1, RepliedTyped DEF AttachFails
<1>4. HistTyped'
  <2>1. Faulted(hist) \in Histories
    BY FaultedTyped
  <2>2. hist' = [Faulted(hist) EXCEPT !.torn = @ \cup {<<p.send, e>>}]
    BY DEF AttachFails
  <2> QED
    BY <1>2, <2>1, <2>2 DEF HistTyped, Histories
<1>5. HostInv'
  BY <1>3, <1>4, HostKept
<1>6. peer' \in [Endpoints -> IncomingPayloads] /\ acks' = acks
  BY <1>2 DEF AttachFails, PeerTyped
<1>7. peerTasks' \in [Endpoints -> Seq(PeerTasks)]
  <2>1. Announced(p, f) \o <<PeerUpdate(p, "Failure")>> \in Seq(PeerTasks)
    BY <1>2, AnnouncedTyped DEF Statuses, Final
  <2> QED
    BY <2>1, PostTyped DEF AttachFails
<1> QED
  BY <1>5, <1>6, <1>7 DEF PeerTyped

LEMMA OtherFrameInv ==
  ASSUME IInv, NEW e \in Endpoints, link[e].down # <<>>, UNCHANGED <<hostVars, heard>>,
         \/ CreateFails(e, Head(link[e].down)) \/ DropCancelled(e, Head(link[e].down))
         \/ DropUnknown(e, Head(link[e].down)) \/ ProcessControl(e, Head(link[e].down))
  PROVE  IInv'
<1> DEFINE f == Head(link[e].down)
           p == Incoming(e, f)
<1> USE DEF IInv, HostInv
<1>1. /\ f \in DownFrames /\ ReadDown(e) \in Links
      /\ WrittenUp(ReadDown(e), Control("error")) \in Links
      /\ WrittenUp(ReadDown(e), Control("canceled")) \in Links
  BY ReadDownTyped
<1>2. p \in IncomingPayloads /\ peer[e] \in IncomingPayloads
  BY <1>1, IncomingTyped DEF PeerTyped
<1>3. LinkTyped'
  BY <1>1, RepliedTyped DEF CreateFails, DropCancelled, DropUnknown, ProcessControl
<1>4. HistTyped'
  BY FaultedTyped DEF CreateFails, DropCancelled, DropUnknown, ProcessControl, HistTyped
<1>5. HostInv'
  BY <1>3, <1>4, HostKept
<1>6. UNCHANGED <<peer, acks>>
  BY DEF CreateFails, DropCancelled, DropUnknown, ProcessControl, peerVars
<1>7. peerTasks' \in [Endpoints -> Seq(PeerTasks)]
  <2>1. CASE UNCHANGED peerTasks
    BY <2>1 DEF PeerTyped
  <2>2. CASE DropCancelled(e, f)
    <3>1. <<PeerUpdate(p, "Canceled")>> \in Seq(PeerTasks)
      BY <1>2, PeerTaskTyped DEF Statuses, Final
    <3> QED
      BY <2>2, <3>1, PostTyped DEF DropCancelled
  <2>3. CASE ProcessControl(e, f)
    <3> DEFINE status == IF f.type = "canceled" THEN "Canceled" ELSE "Failure"
    <3>1. status \in Statuses
      BY DEF Statuses, Final
    <3> HIDE DEF status
    <3>2. PeerUpdate(peer[e], status) \in PeerTasks
      BY <1>2, <3>1, PeerTaskTyped
    <3>3. (IF peer[e].tracked THEN <<PeerUpdate(peer[e], status)>> ELSE <<>>) \in Seq(PeerTasks)
      BY <3>2
    <3> QED
      BY <2>3, <3>3, PostTyped DEF ProcessControl, status
  <2> QED
    BY <2>1, <2>2, <2>3 DEF CreateFails, DropUnknown, peerVars
<1> QED
  BY <1>5, <1>6, <1>7 DEF PeerTyped

LEMMA PeerFrameInv ==
  ASSUME IInv, NEW e \in Endpoints, PeerFrame(e)
  PROVE  IInv'
BY AttachChunkInv, AttachFailsInv, OtherFrameInv DEF PeerFrame

LEMMA SendPayloadAckInv ==
  ASSUME IInv, NEW e \in Endpoints, SendPayloadAck(e)
  PROVE  IInv'
<1> USE DEF IInv, HostInv
<1>1. LinkTyped'
  <2>1. Ack \in UpFrames /\ link[e] \in Links
    BY ControlTyped DEF Ack, LinkTyped
  <2>2. WrittenUp(link[e], Ack) \in Links
    BY <2>1, WrittenUpTyped
  <2> QED
    BY <2>2 DEF SendPayloadAck, LinkTyped
<1>2. HostInv'
  BY <1>1, HostKept DEF SendPayloadAck, HistTyped
<1>3. acks' \in [Endpoints -> Seq(Nat)]
  <2>1. acks[e] \in Seq(Nat) /\ acks[e] # <<>>
    BY DEF SendPayloadAck, PeerTyped
  <2>2. Tail(acks[e]) \in Seq(Nat)
    BY <2>1, HeadTailProperties
  <2> QED
    BY <2>2 DEF SendPayloadAck, PeerTyped
<1> QED
  BY <1>2, <1>3 DEF SendPayloadAck, PeerTyped

LEMMA PeerTaskOf ==
  ASSUME PeerTyped, NEW e \in Endpoints, peerTasks[e] # <<>>
  PROVE  Head(peerTasks[e]) \in PeerTasks /\ Tail(peerTasks[e]) \in Seq(PeerTasks)
BY HeadTailProperties DEF PeerTyped

LEMMA PeerToldTyped ==
  ASSUME HeardTyped, PeerTyped, NEW e \in Endpoints, NEW t \in PeerTasks, PeerTold(e, t)
  PROVE  HeardTyped'
<1>1. t.kind \in Kinds /\ t.send \in Nat /\ t.status \in Statuses /\ peer[e].inst \in Nat
  BY DEF PeerTasks, PeerTyped, IncomingPayloads
<1>2. [kind |-> t.kind, of |-> peer[e].inst, send |-> t.send, status |-> t.status] \in Reports
  BY <1>1 DEF Reports
<1>3. Append(heard.peer[e], [kind |-> t.kind, of |-> peer[e].inst, send |-> t.send,
                             status |-> t.status]) \in Seq(Reports)
  BY <1>2 DEF HeardTyped
<1> QED
  BY <1>3 DEF PeerTold, HeardTyped

LEMMA PeerStatusStepInv ==
  ASSUME IInv, NEW e \in Endpoints, PeerStatusStep(e)
  PROVE  IInv'
<1> DEFINE t == Head(peerTasks[e])
<1> USE DEF IInv, HostInv
<1>1. /\ peerTasks[e] # <<>> /\ UNCHANGED <<hostVars, link, hist, acks>>
      /\ peerTasks' = [peerTasks EXCEPT ![e] = Tail(@)]
  BY DEF PeerStatusStep
<1>2. t \in PeerTasks /\ peerTasks' \in [Endpoints -> Seq(PeerTasks)]
  BY <1>1, PeerTaskOf DEF PeerTyped
<1>3. HeardTyped'
  BY <1>2, PeerToldTyped DEF PeerStatusStep, HeardTyped
<1>4. peer' \in [Endpoints -> IncomingPayloads]
  <2> DEFINE tracked == StillTracked(t.status)
  <2>1. tracked \in BOOLEAN
    BY DEF StillTracked
  <2>2. \/ peer' = peer
        \/ peer' = [peer EXCEPT ![e].tracked = tracked]
        \/ peer' = [peer EXCEPT ![e].member = FALSE]
    BY DEF PeerStatusStep
  <2> HIDE DEF tracked
  <2>3. [peer EXCEPT ![e].tracked = tracked] \in [Endpoints -> IncomingPayloads]
    BY <2>1 DEF PeerTyped, IncomingPayloads
  <2>4. [peer EXCEPT ![e].member = FALSE] \in [Endpoints -> IncomingPayloads]
    BY DEF PeerTyped, IncomingPayloads
  <2> QED
    BY <2>2, <2>3, <2>4 DEF PeerTyped
<1>5. LinkTyped' /\ PayTyped' /\ HostTyped' /\ SenderTyped' /\ HostTasksTyped' /\ HistTyped'
      /\ ChunksRead'
  BY <1>1 DEF hostVars, LinkTyped, PayTyped, HostTyped, SenderTyped, HostTasksTyped, HistTyped,
              ChunksRead
<1> QED
  BY <1>1, <1>2, <1>3, <1>4, <1>5 DEF PeerTyped

LEMMA ClosePeerEndInv ==
  ASSUME IInv, NEW e \in Endpoints, ClosePeerEnd(e), HistTyped'
  PROVE  IInv'
<1> USE DEF IInv, HostInv
<1>1. LinkTyped'
  <2>1. PICK rest \in InHand(link[e].down), kept \in {link[e].up, <<>>} :
          link' = [link EXCEPT ![e] = [@ EXCEPT !.peer = "leaving", !.down = rest, !.up = kept]]
    BY DEF ClosePeerEnd
  <2>2. link[e] \in Links /\ link[e].up \in Seq(UpFrames) /\ link[e].down \in Seq(DownFrames)
    BY DEF LinkTyped, Links
  <2>3. rest \in Seq(DownFrames)
    BY <2>2, InHandTyped
  <2>4. kept \in Seq(UpFrames)
    BY <2>2, EmptyTyped
  <2>5. [link[e] EXCEPT !.peer = "leaving", !.down = rest, !.up = kept] \in Links
    BY <2>2, <2>3, <2>4 DEF Links, Ends
  <2> QED
    BY <2>1, <2>5 DEF LinkTyped
<1>2. HostInv'
  BY <1>1, HostKept DEF ClosePeerEnd
<1>3. <<PeerDisconnect>> \in Seq(PeerTasks)
  BY PeerTaskTyped DEF PeerTyped
<1>4. peerTasks' \in [Endpoints -> Seq(PeerTasks)]
  BY <1>3, PostTyped DEF ClosePeerEnd
<1> QED
  BY <1>2, <1>4 DEF ClosePeerEnd, PeerTyped

LEMMA PeerStepInv ==
  ASSUME IInv, NEW e \in Endpoints, PeerStep(e)
  PROVE  IInv'
<1> USE DEF IInv, HostInv
<1>1. CASE CancelIncoming(e)
  <2>1. HostInv'
    BY <1>1, HostKept, FaultedTyped DEF CancelIncoming, LinkTyped, HistTyped
  <2> QED
    BY <1>1, <2>1 DEF CancelIncoming, PeerTyped, IncomingPayloads
<1>2. CASE PeerNotices(e)
  BY <1>2, ClosePeerEndInv DEF PeerNotices, HistTyped
<1>3. CASE PeerLeaves(e)
  BY <1>3, ClosePeerEndInv, FaultedTyped DEF PeerLeaves, HistTyped
<1>4. CASE PeerDisconnected(e)
  <2>1. link' = [link EXCEPT ![e] = [@ EXCEPT !.peer = "gone", !.down = <<>>]]
        /\ UNCHANGED <<hostVars, heard, peerVars>>
    BY <1>4 DEF PeerDisconnected
  <2>2. LinkTyped'
    <3>1. [link[e] EXCEPT !.peer = "gone", !.down = <<>>] \in Links
      BY EmptyTyped DEF LinkTyped, Links, Ends
    <3> QED
      BY <2>1, <3>1 DEF LinkTyped
  <2>3. HistTyped'
    BY <1>4, FaultedTyped DEF PeerDisconnected, HistTyped
  <2>4. HostInv'
    BY <2>1, <2>2, <2>3, HostKept
  <2> QED
    BY <2>1, <2>4 DEF peerVars, PeerTyped
<1> QED
  BY <1>1, <1>2, <1>3, <1>4, PeerFrameInv, SendPayloadAckInv, PeerStatusStepInv DEF PeerStep

-----------------------------------------------------------------------------
LEMMA NextInv == IInv /\ [Next]_vars => IInv'
<1> SUFFICES ASSUME IInv, [Next]_vars PROVE IInv'
  OBVIOUS
<1>1. CASE HostStep /\ UNCHANGED peerVars
  BY <1>1, HostStepInv DEF IInv, PeerTyped, peerVars
<1>2. ASSUME NEW e \in Endpoints, HostConnection(e), UNCHANGED peerVars PROVE IInv'
  BY <1>2, HostConnectionInv DEF IInv, PeerTyped, peerVars
<1>3. ASSUME NEW e \in Endpoints, PeerStep(e) PROVE IInv'
  BY <1>3, PeerStepInv
<1>4. CASE UNCHANGED vars
  <2>1. HostInv'
    BY <1>4, HostKept DEF IInv, HostInv, vars, hostVars, LinkTyped, HistTyped
  <2> QED
    BY <1>4, <2>1 DEF IInv, vars, PeerTyped
<1> QED
  BY <1>1, <1>2, <1>3, <1>4 DEF Next

\* Every reachable state is well typed, whatever the number of endpoints, sends,
\* chunks and faults: the chunk number of the sending thread never passes the
\* chunks of the payload (SendPayloadLoop), the barrier never leaves 0 and 1
\* (NotifyShutdown), and what waits, waits for an endpoint of a payload.
THEOREM TypeCorrect == Spec => []TypeOK
<1>1. IInv => TypeOK
  BY DEF IInv, HostInv, TypeOK
<1> QED
  BY <1>1, InitInv, NextInv, PTL DEF Spec

-----------------------------------------------------------------------------
(* One outcome for the sender's client *)

\* A report is of a send that was made, and once it was an outcome the endpoint
\* is no longer one of the payload's: no later task can report of it.
HostReports ==
  \A e \in Endpoints : \A i \in DOMAIN heard.host[e] :
    /\ heard.host[e][i].of \in 1..host.sends
    /\ heard.host[e][i].status \in Final => e \notin pay[heard.host[e][i].of].endpoints

\* A step that reports nothing, and adds no endpoint to a payload.
Quiet ==
  /\ heard'.host = heard.host
  /\ host'.sends \in Nat /\ host'.sends >= host.sends
  /\ \A k \in 1..host.sends : pay'[k].endpoints = pay[k].endpoints

LEMMA SentTyped ==
  ASSUME IInv
  PROVE  /\ host.sends \in Nat /\ 1..host.sends \subseteq Sends /\ DOMAIN pay = Sends
         /\ sender.pending # 0 => sender.pending \in Sends
         /\ sender.awaited # 0 => sender.awaited \in Sends
         /\ host.tracked # 0 => host.tracked \in Sends
         /\ \A k \in Sends : pay[k] \in Payloads
         /\ heard = [host |-> heard.host, peer |-> heard.peer]
BY PayloadTyped DEF IInv, HostInv, HostTyped, Hosts, SenderTyped, Senders, PayTyped, HeardTyped

\* The other fields of a payload leave its endpoints alone.
LEMMA FieldKept ==
  ASSUME PayTyped, NEW q, NEW v, NEW e,
         \/ pay' = pay
         \/ pay' = [pay EXCEPT ![q].read = v]
         \/ pay' = [pay EXCEPT ![q].acked = v]
         \/ pay' = [pay EXCEPT ![q].status[e] = v]
  PROVE  \A k \in Sends : pay'[k].endpoints = pay[k].endpoints
<1> SUFFICES ASSUME NEW k \in Sends
             PROVE  pay'[k].endpoints = pay[k].endpoints
  OBVIOUS
<1>1. k \in DOMAIN pay /\ pay[k] \in Payloads
  BY DEF PayTyped
<1>2. CASE k = q
  BY <1>1, <1>2 DEF Payloads
<1>3. CASE k # q
  BY <1>1, <1>3
<1> QED
  BY <1>2, <1>3

LEMMA SenderQuiet ==
  ASSUME IInv, SenderStep
  PROVE  Quiet
<1>1. UNCHANGED <<host, heard>>
  BY DEF SenderStep, TakeSend, NextChunk, StopSending, DetachAndSend, ConfirmChunk, CheckAck,
         AckReceived, AckTimeout, AckInfoErased, ChunkDone, PostDestroy, ReleaseHandle
<1>2. \A k \in Sends : pay'[k].endpoints = pay[k].endpoints
  <2>1. CASE UNCHANGED pay
    BY <2>1
  <2>2. CASE DetachAndSend
    <3> DEFINE v == pay[sender.pending].read + 1
    <3>1. pay' = pay \/ pay' = [pay EXCEPT ![sender.pending].read = v]
      BY <2>2 DEF DetachAndSend
    <3> HIDE DEF v
    <3> QED
      BY <3>1, FieldKept DEF IInv, HostInv
  <2>3. ASSUME NEW e \in Endpoints, CheckAck(e)
        PROVE  \A k \in Sends : pay'[k].endpoints = pay[k].endpoints
    <3> DEFINE v == pay[host.tracked].acked \ {e}
    <3>1. pay' = pay \/ pay' = [pay EXCEPT ![host.tracked].acked = v]
      BY <2>3 DEF CheckAck
    <3> HIDE DEF v
    <3> QED
      BY <3>1, FieldKept DEF IInv, HostInv
  <2>4. CASE AckReceived
    <3> DEFINE v == pay[sender.awaited].acked \ {sender.waiting}
    <3>1. pay' = [pay EXCEPT ![sender.awaited].acked = v]
      BY <2>4 DEF AckReceived
    <3> HIDE DEF v
    <3> QED
      BY <3>1, FieldKept DEF IInv, HostInv
  <2> QED
    BY <2>1, <2>2, <2>3, <2>4 DEF SenderStep, TakeSend, NextChunk, StopSending, ConfirmChunk,
         AckTimeout, AckInfoErased, ChunkDone, PostDestroy, ReleaseHandle
<1> QED
  BY <1>1, <1>2, SentTyped DEF Quiet

LEMMA HostQuiet ==
  ASSUME IInv, HostStep, ~StatusUpdate
  PROVE  Quiet
<1>1. CASE SendPayload
  <2>1. /\ heard' = heard /\ host' = [host EXCEPT !.tracked = host.sends + 1, !.sends = host.sends + 1]
        /\ pay' = [pay EXCEPT ![host.sends + 1] = NewPayload(Endpoints)]
    BY <1>1 DEF SendPayload
  <2>2. host'.sends = host.sends + 1
    BY <2>1 DEF IInv, HostInv, HostTyped, Hosts
  <2> QED
    BY <2>1, <2>2, SentTyped DEF Quiet
<1>2. CASE CancelOutgoing
  <2>1. /\ UNCHANGED <<heard, host>> /\ host.tracked # 0
        /\ pay' = [pay EXCEPT ![host.tracked].cancelled = TRUE]
    BY <1>2 DEF CancelOutgoing
  <2> QED
    BY <2>1, SentTyped DEF Quiet, Payloads
<1>3. CASE StopManager
  BY <1>3, SentTyped DEF StopManager, Quiet, IInv, HostInv, HostTyped, Hosts
<1>4. CASE HostStatusStep
  <2>1. UNCHANGED <<heard, pay>> /\ host'.sends = host.sends
    BY <1>4 DEF HostStatusStep, DestroyPendingPayload, NotifyShutdown, IInv, HostInv, HostTyped, Hosts
  <2> QED
    BY <2>1, SentTyped DEF Quiet
<1>5. CASE TeardownStep
  <2>1. UNCHANGED heard /\ host'.sends = host.sends
    BY <1>5 DEF TeardownStep, CancelAllPayloads, AwaitBarrier, JoinExecutors, IInv, HostInv,
                HostTyped, Hosts
  <2>2. \/ pay' = pay
        \/ /\ host.tracked # 0
           /\ pay' = [pay EXCEPT ![host.tracked] = [@ EXCEPT !.cancelled = TRUE, !.closed = TRUE]]
    BY <1>5 DEF TeardownStep, CancelAllPayloads, AwaitBarrier, JoinExecutors
  <2>3. \A k \in Sends : pay'[k].endpoints = pay[k].endpoints
    <3>1. CASE host.tracked = 0
      BY <2>2, <3>1
    <3>2. CASE host.tracked # 0
      <4> DEFINE w == [pay[host.tracked] EXCEPT !.cancelled = TRUE, !.closed = TRUE]
      <4>1. host.tracked \in Sends /\ pay[host.tracked] \in Payloads /\ DOMAIN pay = Sends
        BY <3>2, SentTyped
      <4>2. w.endpoints = pay[host.tracked].endpoints
        BY <4>1 DEF Payloads
      <4>3. pay' = pay \/ pay' = [pay EXCEPT ![host.tracked] = w]
        BY <2>2
      <4> HIDE DEF w
      <4> QED
        BY <4>1, <4>2, <4>3
    <3> QED
      BY <3>1, <3>2
  <2> QED
    BY <2>1, <2>3, SentTyped DEF Quiet
<1>6. ASSUME NEW e \in Endpoints, HostFrame(e) PROVE Quiet
  <2> DEFINE acked == pay[host.tracked].acked \cup {e}
             status == Head(link[e].up).type
  <2>1. /\ UNCHANGED <<heard, host>>
        /\ \/ pay' = pay
           \/ pay' = [pay EXCEPT ![host.tracked].acked = acked]
           \/ pay' = [pay EXCEPT ![host.tracked].status[e] = status]
    BY <1>6 DEF HostFrame
  <2> HIDE DEF acked, status
  <2>2. \A k \in Sends : pay'[k].endpoints = pay[k].endpoints
    BY <2>1, FieldKept DEF IInv, HostInv
  <2> QED
    BY <2>1, <2>2, SentTyped DEF Quiet
<1> QED
  BY <1>1, <1>2, <1>3, <1>4, <1>5, <1>6, SenderQuiet DEF HostStep

\* Only StatusUpdate speaks to the sender's client.
LEMMA OtherQuiet ==
  ASSUME IInv, [Next]_vars, ~StatusUpdate
  PROVE  Quiet
<1>1. CASE UNCHANGED vars
  BY <1>1, SentTyped DEF vars, Quiet
<1>2. CASE HostStep
  BY <1>2, HostQuiet
<1>3. ASSUME NEW e \in Endpoints, HostConnection(e) PROVE Quiet
  <2>1. UNCHANGED <<heard, host, pay>>
    BY <1>3 DEF HostConnection, HostNotices, HostLeaves, HostDisconnected, BreakLink, CloseHostEnd
  <2> QED
    BY <2>1, SentTyped DEF Quiet
<1>4. ASSUME NEW e \in Endpoints, PeerStep(e) PROVE Quiet
  <2>1. UNCHANGED hostVars
    BY <1>4 DEF PeerStep, PeerFrame, SendPayloadAck, PeerStatusStep, CancelIncoming, PeerNotices,
                PeerLeaves, PeerDisconnected, ClosePeerEnd
  <2>2. UNCHANGED heard \/ PeerTold(e, Head(peerTasks[e]))
    BY <1>4 DEF PeerStep, PeerFrame, SendPayloadAck, PeerStatusStep, CancelIncoming, PeerNotices,
                PeerLeaves, PeerDisconnected, ClosePeerEnd
  <2>3. heard'.host = heard.host
    BY <2>2, SentTyped DEF PeerTold
  <2> QED
    BY <2>1, <2>3, SentTyped DEF Quiet, hostVars
<1> QED
  BY <1>1, <1>2, <1>3, <1>4 DEF Next

\* What a status update changes: the endpoints it tells of an outcome leave the
\* tracked payload.
LEMMA UpdateTold ==
  ASSUME IInv, StatusUpdate
  PROVE  /\ host' = host
         /\ \A k \in Sends : pay'[k].endpoints \subseteq pay[k].endpoints
         /\ \A e \in Endpoints :
              \/ heard'.host[e] = heard.host[e]
              \/ \E r \in Reports :
                   /\ heard'.host[e] = Append(heard.host[e], r)
                   /\ r.of = host.tracked /\ r.of \in Sends
                   /\ e \in pay[r.of].endpoints
                   /\ r.status \in Final => e \notin pay'[r.of].endpoints
<1> DEFINE task == Head(hostTasks)
           q == host.tracked
           S == DOMAIN task.outcome \cap pay[q].endpoints
           F == {e \in S : task.outcome[e] \in Final}
<1>1. ApplyUpdate(task) /\ hostTasks # <<>> /\ host' = host
  BY DEF StatusUpdate
<1>2. CASE q = 0
  BY <1>1, <1>2 DEF ApplyUpdate
<1>3. CASE q # 0
  <2>1. Told(task, S) /\ pay' = Removed(q, F) /\ q \in Sends
    BY <1>1, <1>3, SentTyped DEF ApplyUpdate
  <2>2. /\ pay'[q].endpoints = pay[q].endpoints \ F
        /\ \A k \in Sends : k # q => pay'[k] = pay[k]
    <3> HIDE DEF F, q
    <3> QED
      BY <2>1, SentTyped DEF Removed, Payloads
  <2>3. task \in HostTasks
    BY <1>1, FirstTaskTyped DEF IInv, HostInv
  <2>4. ASSUME NEW e \in Endpoints, heard'.host[e] # heard.host[e]
        PROVE  \E r \in Reports :
                 /\ heard'.host[e] = Append(heard.host[e], r)
                 /\ r.of = host.tracked /\ r.of \in Sends
                 /\ e \in pay[r.of].endpoints
                 /\ r.status \in Final => e \notin pay'[r.of].endpoints
    <3> DEFINE r == Report(task, q, task.outcome[e])
    <3>1. e \in S /\ heard'.host[e] = Append(heard.host[e], r)
      <4>1. heard'.host = [x \in Endpoints |->
              IF x \in S /\ link[x].host # "gone"
              THEN Append(heard.host[x], Report(task, host.tracked, task.outcome[x]))
              ELSE heard.host[x]]
        BY <2>1, SentTyped DEF Told
      <4> QED
        BY <2>4, <4>1
    <3>2. task.outcome[e] \in Statuses /\ task.send \in Nat /\ task.kind \in Kinds
      BY <2>3, <3>1, OutcomeTyped DEF HostTasks
    <3>3. r \in Reports /\ r.of = q /\ r.status = task.outcome[e]
      BY <2>1, <3>2 DEF Report, Reports
    <3>4. r.status \in Final => e \notin pay'[q].endpoints
      BY <2>2, <3>1, <3>3
    <3> HIDE DEF r
    <3> QED
      BY <2>1, <3>1, <3>3, <3>4
  <2> QED
    BY <1>1, <2>1, <2>2, <2>4
<1> QED
  BY <1>2, <1>3

LEMMA HostReportsInv == IInv /\ HostReports /\ HostFinalOnce /\ [Next]_vars =>
                          HostReports' /\ HostFinalOnce'
<1> SUFFICES ASSUME IInv, HostReports, HostFinalOnce, [Next]_vars
             PROVE  HostReports' /\ HostFinalOnce'
  OBVIOUS
<1>1. CASE ~StatusUpdate
  <2>1. Quiet
    BY <1>1, OtherQuiet
  <2>2. HostReports'
    BY <2>1, SentTyped DEF Quiet, HostReports
  <2> QED
    BY <2>1, <2>2 DEF Quiet, HostFinalOnce
<1>2. CASE StatusUpdate
  <2> SUFFICES ASSUME NEW e \in Endpoints
               PROVE  /\ \A i \in DOMAIN heard'.host[e] :
                           /\ heard'.host[e][i].of \in 1..host'.sends
                           /\ heard'.host[e][i].status \in Final =>
                                e \notin pay'[heard'.host[e][i].of].endpoints
                      /\ \A i, j \in DOMAIN heard'.host[e] :
                           i < j /\ heard'.host[e][i].of = heard'.host[e][j].of =>
                             heard'.host[e][i].status \notin Final
    BY DEF HostReports, HostFinalOnce
  <2>1. host' = host /\ \A k \in Sends : pay'[k].endpoints \subseteq pay[k].endpoints
    BY <1>2, UpdateTold
  <2>2. heard.host[e] \in Seq(Reports)
    BY DEF IInv, HostInv, HeardTyped
  <2>3. CASE heard'.host[e] = heard.host[e]
    <3>1. \A i \in DOMAIN heard.host[e] : heard.host[e][i].of \in Sends
      BY SentTyped DEF HostReports
    <3> QED
      BY <2>1, <2>3, <3>1 DEF HostReports, HostFinalOnce
  <2>4. ASSUME NEW r \in Reports, heard'.host[e] = Append(heard.host[e], r),
               r.of = host.tracked, r.of \in Sends, e \in pay[r.of].endpoints,
               r.status \in Final => e \notin pay'[r.of].endpoints
        PROVE  /\ \A i \in DOMAIN heard'.host[e] :
                    /\ heard'.host[e][i].of \in 1..host'.sends
                    /\ heard'.host[e][i].status \in Final =>
                         e \notin pay'[heard'.host[e][i].of].endpoints
               /\ \A i, j \in DOMAIN heard'.host[e] :
                    i < j /\ heard'.host[e][i].of = heard'.host[e][j].of =>
                      heard'.host[e][i].status \notin Final
    <3> DEFINE n == Len(heard.host[e]) + 1
               told == heard'.host[e]
    <3>1. /\ Len(heard.host[e]) \in Nat /\ DOMAIN heard.host[e] = 1..Len(heard.host[e])
          /\ DOMAIN told = 1..n /\ told[n] = r
          /\ \A i \in DOMAIN heard.host[e] : told[i] = heard.host[e][i]
      BY <2>2, <2>4
    <3>2. r.of \in 1..host.sends
      BY <2>4, PayloadTyped DEF IInv, HostInv, HostTyped, Hosts
    <3>3. \A i \in DOMAIN heard.host[e] : heard.host[e][i].of \in Sends
      BY SentTyped DEF HostReports
    <3>4. ASSUME NEW i \in DOMAIN told
          PROVE  told[i].of \in 1..host.sends
                 /\ (told[i].status \in Final => e \notin pay'[told[i].of].endpoints)
      <4>1. CASE i = n
        BY <2>4, <3>1, <3>2, <4>1
      <4>2. CASE i # n
        <5>1. i \in DOMAIN heard.host[e]
          BY <3>1, <4>2
        <5> QED
          BY <2>1, <3>1, <3>3, <5>1 DEF HostReports
      <4> QED
        BY <4>1, <4>2
    <3>5. ASSUME NEW i \in DOMAIN told, NEW j \in DOMAIN told, i < j, told[i].of = told[j].of
          PROVE  told[i].status \notin Final
      <4>1. i \in DOMAIN heard.host[e]
        BY <3>1, <3>5
      <4>2. CASE j = n
        BY <2>4, <3>1, <3>5, <4>1, <4>2 DEF HostReports
      <4>3. CASE j # n
        <5>1. j \in DOMAIN heard.host[e]
          BY <3>1, <4>3
        <5> QED
          BY <3>1, <3>5, <4>1, <5>1 DEF HostFinalOnce
      <4> QED
        BY <4>2, <4>3
    <3> QED
      BY <2>1, <3>4, <3>5
  <2> QED
    BY <1>2, <2>3, <2>4, UpdateTold
<1> QED
  BY <1>1, <1>2

\* The sender's client is told one outcome per payload and endpoint at most,
\* whatever the number of endpoints, sends, chunks and adverse events, and
\* although three threads report: the status thread removes an endpoint from the
\* payload in the step in which it reports an outcome for it, and reports only of
\* endpoints that are still there (SendClientCallbacksForFinishedOutgoingPayload).
THEOREM OneOutcome == Spec => []HostFinalOnce
<1>1. Init => HostReports /\ HostFinalOnce
  BY DEF Init, HostReports, HostFinalOnce
<1> QED
  BY <1>1, InitInv, NextInv, HostReportsInv, PTL DEF Spec

-----------------------------------------------------------------------------
(* One outcome for a receiver's client, unless the connection ended first *)

\* A report is of an incoming payload that was started; after the outcome of an
\* update the payload is not tracked any more, and after the end of the
\* connection the endpoint is not one of its own any more.
ReportMade(e, r) ==
  /\ r.of <= peer[e].inst
  /\ r.kind \in {"update", "disconnect"}
  /\ r.of = peer[e].inst /\ r.kind = "update" /\ r.status \in Final => ~peer[e].tracked
  /\ r.of = peer[e].inst /\ r.kind = "disconnect" => ~peer[e].member

PeerReports ==
  \A e \in Endpoints : \A i \in DOMAIN heard.peer[e] : ReportMade(e, heard.peer[e][i])

\* What a step that reports nothing to e's client may do to its payload: leave
\* it, drop it, or start another.
PeerQuiet(e) ==
  /\ heard'.peer[e] = heard.peer[e]
  /\ \/ /\ peer'[e].inst = peer[e].inst
        /\ peer'[e].tracked => peer[e].tracked
        /\ peer'[e].member => peer[e].member
     \/ peer'[e].inst = peer[e].inst + 1

LEMMA IncomingQuiet ==
  ASSUME IInv, NEW e \in Endpoints, NEW f
  PROVE  \/ Incoming(e, f) = peer[e]
         \/ Incoming(e, f).inst = peer[e].inst + 1
BY DEF Incoming

\* Only the status thread of e speaks to e's client.
LEMMA PeerQuietStep ==
  ASSUME IInv, NEW x \in Endpoints, NEW e \in Endpoints, PeerStep(x),
         x # e \/ ~PeerStatusStep(e)
  PROVE  PeerQuiet(e)
<1>1. peer[e] \in IncomingPayloads /\ DOMAIN peer = Endpoints
      /\ heard = [host |-> heard.host, peer |-> heard.peer] /\ DOMAIN heard.peer = Endpoints
  BY DEF IInv, PeerTyped, HostInv, HeardTyped
<1>2. CASE x # e
  <2>1. \/ peer' = peer
        \/ \E p : peer' = [peer EXCEPT ![x] = p]
        \/ peer' = [peer EXCEPT ![x].tracked = StillTracked(Head(peerTasks[x]).status)]
        \/ peer' = [peer EXCEPT ![x].member = FALSE]
        \/ peer' = [peer EXCEPT ![x].cancelled = TRUE]
    BY DEF PeerStep, PeerFrame, AttachChunk, AttachFails, CreateFails, DropCancelled, DropUnknown,
           ProcessControl, peerVars, SendPayloadAck, PeerStatusStep, CancelIncoming, PeerNotices,
           PeerLeaves, PeerDisconnected, ClosePeerEnd
  <2>2. peer'[e] = peer[e]
    BY <1>1, <1>2, <2>1
  <2>3. UNCHANGED heard \/ PeerTold(x, Head(peerTasks[x]))
    BY DEF PeerStep, PeerFrame, SendPayloadAck, PeerStatusStep, CancelIncoming, PeerNotices,
           PeerLeaves, PeerDisconnected, ClosePeerEnd
  <2>4. heard'.peer[e] = heard.peer[e]
    BY <1>1, <1>2, <2>3 DEF PeerTold
  <2> QED
    BY <2>2, <2>4 DEF PeerQuiet
<1>3. CASE x = e /\ ~PeerStatusStep(e)
  <2>1. UNCHANGED heard
    BY <1>3 DEF PeerStep, PeerFrame, SendPayloadAck, CancelIncoming, PeerNotices,
                PeerLeaves, PeerDisconnected, ClosePeerEnd
  <2>2. CASE PeerFrame(e)
    <3> DEFINE f == Head(link[e].down)
               p == Incoming(e, f)
    <3>1. p \in IncomingPayloads /\ (p = peer[e] \/ p.inst = peer[e].inst + 1)
      BY <2>2, ReadDownTyped, IncomingTyped, IncomingQuiet DEF PeerFrame, IInv, HostInv
    <3>2. \/ peer' = peer
          \/ peer' = [peer EXCEPT ![e] = p]
          \/ peer' = [peer EXCEPT ![e] = [p EXCEPT !.got = @ \cup {f.chunk}]]
      BY <2>2 DEF PeerFrame, AttachChunk, AttachFails, CreateFails, DropCancelled, DropUnknown,
                  ProcessControl, peerVars
    <3> HIDE DEF p
    <3> DEFINE g == [p EXCEPT !.got = @ \cup {f.chunk}]
    <3>3. g.inst = p.inst /\ g.tracked = p.tracked /\ g.member = p.member
      BY <3>1 DEF IncomingPayloads
    <3>4. peer'[e] = peer[e] \/ peer'[e] = p \/ peer'[e] = g
      BY <1>1, <3>2
    <3> HIDE DEF g
    <3> QED
      BY <2>1, <3>1, <3>3, <3>4 DEF PeerQuiet
  <2>3. CASE CancelIncoming(e)
    <3>1. peer' = [peer EXCEPT ![e].cancelled = TRUE]
      BY <2>3 DEF CancelIncoming
    <3>2. peer'[e].inst = peer[e].inst /\ peer'[e].tracked = peer[e].tracked
          /\ peer'[e].member = peer[e].member
      BY <1>1, <3>1 DEF IncomingPayloads
    <3> QED
      BY <2>1, <3>2 DEF PeerQuiet
  <2>4. CASE UNCHANGED peer
    BY <2>1, <2>4 DEF PeerQuiet
  <2> QED
    BY <1>3, <2>2, <2>3, <2>4 DEF PeerStep, SendPayloadAck, PeerNotices, PeerLeaves,
                                  PeerDisconnected, ClosePeerEnd, peerVars
<1> QED
  BY <1>2, <1>3

LEMMA QuietForPeers ==
  ASSUME IInv, [Next]_vars, NEW e \in Endpoints, ~PeerStatusStep(e)
  PROVE  PeerQuiet(e)
<1>1. heard = [host |-> heard.host, peer |-> heard.peer]
  BY DEF IInv, HostInv, HeardTyped
<1>2. CASE UNCHANGED vars
  BY <1>2 DEF vars, PeerQuiet
<1>3. CASE HostStep /\ UNCHANGED peerVars
  <2>1. heard'.peer = heard.peer
    <3>1. UNCHANGED heard \/ \E task, S : Told(task, S)
      BY <1>3 DEF HostStep, SendPayload, CancelOutgoing, StopManager, SenderStep, TakeSend,
           NextChunk, StopSending, DetachAndSend, ConfirmChunk, CheckAck, AckReceived, AckTimeout,
           AckInfoErased, ChunkDone, PostDestroy, ReleaseHandle, HostStatusStep, StatusUpdate,
           ApplyUpdate, DestroyPendingPayload, NotifyShutdown, TeardownStep, CancelAllPayloads,
           AwaitBarrier, JoinExecutors, HostFrame
    <3> QED
      BY <1>1, <3>1 DEF Told
  <2> QED
    BY <1>3, <2>1 DEF PeerQuiet, peerVars
<1>4. ASSUME NEW x \in Endpoints, HostConnection(x), UNCHANGED peerVars PROVE PeerQuiet(e)
  <2>1. UNCHANGED heard
    BY <1>4 DEF HostConnection, HostNotices, HostLeaves, HostDisconnected, BreakLink, CloseHostEnd
  <2> QED
    BY <1>4, <2>1 DEF PeerQuiet, peerVars
<1>5. ASSUME NEW x \in Endpoints, PeerStep(x) PROVE PeerQuiet(e)
  BY <1>5, PeerQuietStep
<1> QED
  BY <1>2, <1>3, <1>4, <1>5 DEF Next

\* What the status thread of e changes there.
LEMMA PeerUpdateTold ==
  ASSUME IInv, NEW e \in Endpoints, PeerStatusStep(e)
  PROVE  /\ peer'[e].inst = peer[e].inst
         /\ peer'[e].tracked => peer[e].tracked
         /\ peer'[e].member => peer[e].member
         /\ \/ heard'.peer[e] = heard.peer[e]
            \/ \E r \in Reports :
                 /\ heard'.peer[e] = Append(heard.peer[e], r)
                 /\ r.of = peer[e].inst /\ r.kind \in {"update", "disconnect"}
                 /\ peer[e].tracked
                 /\ r.kind = "disconnect" => peer[e].member /\ ~peer'[e].member
                 /\ r.kind = "update" /\ r.status \in Final => ~peer'[e].tracked
<1> DEFINE t == Head(peerTasks[e])
           r == [kind |-> t.kind, of |-> peer[e].inst, send |-> t.send, status |-> t.status]
<1>1. /\ peer[e] \in IncomingPayloads /\ DOMAIN peer = Endpoints
      /\ heard = [host |-> heard.host, peer |-> heard.peer] /\ DOMAIN heard.peer = Endpoints
      /\ t \in PeerTasks /\ peer[e].inst \in Nat
  BY PeerTaskOf DEF IInv, PeerTyped, HostInv, HeardTyped, IncomingPayloads, PeerStatusStep
<1>2. r \in Reports /\ r.of = peer[e].inst /\ r.kind = t.kind /\ r.status = t.status
  BY <1>1 DEF Reports, PeerTasks
<1>3. PeerTold(e, t) => heard'.peer[e] = heard.peer[e] \/ heard'.peer[e] = Append(heard.peer[e], r)
  BY <1>1 DEF PeerTold
<1>4. CASE UNCHANGED <<peer, heard>>
  BY <1>4
<1>5. CASE t.kind = "update" /\ peer[e].tracked /\ PeerTold(e, t)
           /\ peer' = [peer EXCEPT ![e].tracked = StillTracked(t.status)]
  <2> DEFINE tracked == StillTracked(t.status)
  <2>1. tracked <=> t.status \notin Final
    BY DEF StillTracked
  <2>2. peer'[e].inst = peer[e].inst /\ peer'[e].tracked = tracked
        /\ peer'[e].member = peer[e].member
    <3> HIDE DEF tracked
    <3>1. peer' = [peer EXCEPT ![e].tracked = tracked]
      BY <1>5 DEF tracked
    <3> QED
      BY <1>1, <3>1 DEF IncomingPayloads
  <2> HIDE DEF r, tracked
  <2> QED
    BY <1>2, <1>3, <1>5, <2>1, <2>2
<1>6. CASE t.kind = "disconnect" /\ peer[e].tracked /\ peer[e].member /\ PeerTold(e, t)
           /\ peer' = [peer EXCEPT ![e].member = FALSE]
  <2>1. peer'[e].inst = peer[e].inst /\ peer'[e].tracked = peer[e].tracked /\ ~peer'[e].member
    BY <1>1, <1>6 DEF IncomingPayloads
  <2> HIDE DEF r
  <2> QED
    BY <1>2, <1>3, <1>6, <2>1
<1> QED
  BY <1>4, <1>5, <1>6 DEF PeerStatusStep

LEMMA PeerReportsInv == IInv /\ PeerReports /\ PeerFinalOnce /\ [Next]_vars =>
                          PeerReports' /\ PeerFinalOnce'
<1> SUFFICES ASSUME IInv, PeerReports, PeerFinalOnce, [Next]_vars, NEW e \in Endpoints
             PROVE  /\ \A i \in DOMAIN heard'.peer[e] : ReportMade(e, heard.peer[e][i])'
                    /\ \A i, j \in DOMAIN heard'.peer[e] :
                         /\ i < j
                         /\ heard'.peer[e][i].of = heard'.peer[e][j].of
                         /\ heard'.peer[e][i].status \in Final
                         => /\ heard'.peer[e][i].kind = "disconnect"
                            /\ heard'.peer[e][j].kind = "update"
  BY DEF PeerReports, PeerFinalOnce
<1>1. /\ peer[e].inst \in Nat /\ heard.peer[e] \in Seq(Reports)
  BY DEF IInv, HostInv, HeardTyped, PeerTyped, IncomingPayloads
<1>2. ASSUME NEW i \in DOMAIN heard.peer[e] PROVE heard.peer[e][i].of \in Nat
  <2>1. heard.peer[e][i] \in Reports
    BY <1>1
  <2> QED
    BY <2>1 DEF Reports
<1>3. CASE ~PeerStatusStep(e)
  <2>1. PeerQuiet(e)
    BY <1>3, QuietForPeers
  <2>2. \A i \in DOMAIN heard.peer[e] : ReportMade(e, heard.peer[e][i])'
    BY <1>1, <1>2, <2>1 DEF PeerQuiet, PeerReports, ReportMade
  <2> QED
    BY <2>1, <2>2 DEF PeerQuiet, PeerFinalOnce
<1>4. CASE PeerStatusStep(e)
  <2>1. /\ peer'[e].inst = peer[e].inst
        /\ peer'[e].tracked => peer[e].tracked
        /\ peer'[e].member => peer[e].member
    BY <1>4, PeerUpdateTold
  <2>2. CASE heard'.peer[e] = heard.peer[e]
    BY <2>1, <2>2 DEF PeerReports, PeerFinalOnce, ReportMade
  <2>3. ASSUME NEW r \in Reports, heard'.peer[e] = Append(heard.peer[e], r),
               r.of = peer[e].inst, r.kind \in {"update", "disconnect"}, peer[e].tracked,
               r.kind = "disconnect" => peer[e].member /\ ~peer'[e].member,
               r.kind = "update" /\ r.status \in Final => ~peer'[e].tracked
        PROVE  /\ \A i \in DOMAIN heard'.peer[e] : ReportMade(e, heard.peer[e][i])'
               /\ \A i, j \in DOMAIN heard'.peer[e] :
                    /\ i < j
                    /\ heard'.peer[e][i].of = heard'.peer[e][j].of
                    /\ heard'.peer[e][i].status \in Final
                    => /\ heard'.peer[e][i].kind = "disconnect"
                       /\ heard'.peer[e][j].kind = "update"
    <3> DEFINE n == Len(heard.peer[e]) + 1
               told == heard'.peer[e]
    <3>1. /\ Len(heard.peer[e]) \in Nat /\ DOMAIN heard.peer[e] = 1..Len(heard.peer[e])
          /\ DOMAIN told = 1..n /\ told[n] = r
          /\ \A i \in DOMAIN heard.peer[e] : told[i] = heard.peer[e][i]
      BY <1>1, <2>3
    <3>2. ASSUME NEW i \in DOMAIN told
          PROVE  ReportMade(e, heard.peer[e][i])'
      <4>1. CASE i = n
        BY <1>1, <2>1, <2>3, <3>1, <4>1 DEF ReportMade
      <4>2. CASE i # n
        <5>1. i \in DOMAIN heard.peer[e]
          BY <3>1, <4>2
        <5>2. ReportMade(e, heard.peer[e][i]) /\ told[i] = heard.peer[e][i]
          BY <3>1, <5>1 DEF PeerReports
        <5> QED
          BY <2>1, <5>2 DEF ReportMade
      <4> QED
        BY <4>1, <4>2
    <3>3. ASSUME NEW i \in DOMAIN told, NEW j \in DOMAIN told, i < j, told[i].of = told[j].of,
                 told[i].status \in Final
          PROVE  told[i].kind = "disconnect" /\ told[j].kind = "update"
      <4>1. i \in DOMAIN heard.peer[e]
        BY <3>1, <3>3
      <4>2. ReportMade(e, heard.peer[e][i]) /\ told[i] = heard.peer[e][i]
        BY <3>1, <4>1 DEF PeerReports
      <4>3. CASE j = n
        BY <2>3, <3>1, <3>3, <4>2, <4>3 DEF ReportMade
      <4>4. CASE j # n
        <5>1. j \in DOMAIN heard.peer[e]
          BY <3>1, <4>4
        <5>2. told[i] = heard.peer[e][i] /\ told[j] = heard.peer[e][j]
          BY <3>1, <4>1, <5>1
        <5>3. \A a, b \in DOMAIN heard.peer[e] :
                a < b /\ heard.peer[e][a].of = heard.peer[e][b].of /\ heard.peer[e][a].status \in Final
                => heard.peer[e][a].kind = "disconnect" /\ heard.peer[e][b].kind = "update"
          BY DEF PeerFinalOnce
        <5> HIDE DEF told
        <5> QED
          BY <3>3, <4>1, <5>1, <5>2, <5>3
      <4> QED
        BY <4>3, <4>4
    <3> QED
      BY <3>2, <3>3
  <2> QED
    BY <1>4, <2>2, <2>3, PeerUpdateTold
<1> QED
  BY <1>3, <1>4

\* A receiver's client hears of a payload again after its outcome only when that
\* outcome was the end of the connection, whatever the number of endpoints,
\* sends, chunks and adverse events: the status thread stops tracking the payload
\* with the outcome of an update, and drops the endpoint with the end of the
\* connection, in the step in which it reports either
\* (SendClientCallbacksForFinishedIncomingPayload, OnEndpointDisconnect).
THEOREM OneIncomingOutcome == Spec => []PeerFinalOnce
<1>1. Init => PeerReports /\ PeerFinalOnce
  BY DEF Init, PeerReports, PeerFinalOnce
<1> QED
  BY <1>1, InitInv, NextInv, PeerReportsInv, PTL DEF Spec

=============================================================================
