--------------------------- MODULE PcpConnection ---------------------------
(***************************************************************************)
(* Connection establishment between two devices: BasePcpHandler with the   *)
(* encryption runner, the router's client calls, the part of ClientProxy   *)
(* that keeps the status of a connection, and EndpointManager's            *)
(* registration and removal of an endpoint.  Each device has a PcpHandler  *)
(* thread and an endpoint manager thread that wait for one another, two    *)
(* encryption threads, the reader of the registered channel, an alarm and  *)
(* a client that makes one call at a time.  Everything is keyed by the     *)
(* remote endpoint's id, never by a channel.                               *)
(***************************************************************************)
EXTENDS Naturals, Sequences, FiniteSets

CONSTANTS
  Devices,      \* the two devices
  Callers,      \* bound: the devices that call RequestConnection, in this order
  Nonces,       \* per request: the values its nonce may have
  MaxFaults,    \* bound: failures, disconnections and rejections
  Kinds         \* their kinds: "connect", "break", "timeout", "late", "leave", "reject"

ASSUME ConstantsAssumption ==
  /\ IsFiniteSet(Devices) /\ Cardinality(Devices) = 2
  /\ Callers \in Seq(Devices) /\ MaxFaults \in Nat
  /\ Nonces \in [DOMAIN Callers -> SUBSET Nat]

VARIABLES
  chan,  \* per request: the channel it opened
  dev,   \* per device: the state of its threads and tables
  hist   \* bounds and history

vars == <<chan, dev, hist>>

Channels == 1..Len(Callers)
Roles == {"client", "server"}
Answers == {"accept", "reject"}
Other(d) == CHOOSE o \in Devices : o # d

NoPending == [ch |-> 0, nonce |-> 0, own |-> FALSE, waits |-> FALSE]
NoClient == [ch |-> 0, asked |-> FALSE, local |-> "none", remote |-> "none", connected |-> FALSE]
NoAlarm == [ch |-> 0, armed |-> FALSE]
NoReader == [ch |-> 0, state |-> "none"]
Opening(r) == IF r = "client" THEN "start" ELSE "m1"
Idle(r) == [queue |-> <<>>, phase |-> Opening(r)]
Unused == [nonce |-> 0, open |-> {}, broken |-> FALSE, wire |-> [d \in Devices |-> <<>>]]

Init ==
  /\ chan = [k \in Channels |-> Unused]
  /\ dev = [d \in Devices |->
       [call |-> "idle", client |-> NoClient, told |-> <<>>,
        pending |-> NoPending, pcp |-> <<>>, blocked |-> FALSE, alarm |-> NoAlarm,
        em |-> <<>>, phase |-> "idle", notify |-> FALSE, active |-> 0, reader |-> NoReader,
        crypt |-> [r \in Roles |-> Idle(r)], crashed |-> FALSE]]
  /\ hist = [requests |-> 0, faults |-> 0, outgoing |-> {}, crossed |-> {}, silent |-> {},
             said |-> [d \in Devices |-> [k \in Channels |-> "none"]]]

-----------------------------------------------------------------------------
(* The channels: frames written before a close can still be read. *)

Readable(d, k) == d \in chan[k].open /\ ~chan[k].broken /\ chan[k].wire[d] # <<>>
Eof(d, k) ==
  \/ d \notin chan[k].open
  \/ chan[k].broken
  \/ Other(d) \notin chan[k].open /\ chan[k].wire[d] = <<>>
MayFail(k) == k # 0 => chan[k].broken \/ chan[k].open # Devices

Closed(c, d, k) == [c EXCEPT ![k].open = @ \ {d}, ![k].wire[d] = <<>>]
Written(c, d, k, f) ==
  [c EXCEPT ![k].wire[Other(d)] =
     IF Other(d) \in c[k].open /\ d \in c[k].open /\ ~c[k].broken THEN Append(@, f) ELSE @]
ReadFrom(c, d, k) == [c EXCEPT ![k].wire[d] = Tail(@)]

Fault(kind) ==
  kind \in Kinds /\ hist.faults < MaxFaults

Faulted == [hist EXCEPT !.faults = @ + 1]

BreakLink(k) ==
  /\ Fault("break") /\ chan[k].open # {} /\ ~chan[k].broken
  /\ chan' = [chan EXCEPT ![k].broken = TRUE, ![k].wire = [d \in Devices |-> <<>>]]
  /\ hist' = Faulted /\ UNCHANGED dev

-----------------------------------------------------------------------------
(* Steps on the state s of one device. *)

Update(d, s) == dev' = [dev EXCEPT ![d] = s]
PostPcp(s, task) == [s EXCEPT !.pcp = Append(@, task)]
PostEm(s, task) == [s EXCEPT !.em = Append(@, task)]
Task(kind, k, answer) == [kind |-> kind, ch |-> k, answer |-> answer]

\* EndpointManager::DiscardEndpoint names the endpoint; ch is history: the
\* channel that was registered for it.
DiscardEndpoint(s) == PostEm(s, Task("discard", s.active, "none"))

\* The entry of pending_connections_ goes: ~PendingConnectionInfo answers the
\* caller that still waits (not so in a mutant).  ClosedPending closes the
\* channel that the entry owns.
DroppedPromise(s) == [s EXCEPT !.pending = NoPending]
Dropped(s) ==
  [s EXCEPT !.pending = NoPending, !.call = IF s.pending.waits THEN "idle" ELSE @]

ClosedPending(c, d, s) == IF s.pending.own THEN Closed(c, d, s.pending.ch) ELSE c

\* (Mutants: also for an established connection; the client is not told.)
OnConnectionRejectedLate(s) ==
  IF s.client.ch # 0
  THEN [s EXCEPT !.client = NoClient,
                 !.told = Append(@, [what |-> "rejected", ch |-> s.client.ch])]
  ELSE s
OnConnectionRejectedUntold(s) ==
  IF s.client.ch # 0 /\ ~s.client.connected THEN [s EXCEPT !.client = NoClient] ELSE s
OnConnectionRejected(s) ==
  IF s.client.ch # 0 /\ ~s.client.connected
  THEN [s EXCEPT !.client = NoClient,
                 !.told = Append(@, [what |-> "rejected", ch |-> s.client.ch])]
  ELSE s

ProcessPreConnectionResultFailure(s) == OnConnectionRejected(DiscardEndpoint(Dropped(s)))

ProcessTieBreakLoss(s) == ProcessPreConnectionResultFailure(Dropped(s))

\* The process ends; its peer reads the end of every channel.
Crash(d, s) ==
  /\ Update(d, [s EXCEPT !.crashed = TRUE])
  /\ chan' = [k \in Channels |-> [chan[k] EXCEPT !.open = @ \ {d}, !.wire[d] = <<>>]]

DelayedClose(s) == [s EXCEPT !.alarm = IF @.ch = 0 THEN [ch |-> s.active, armed |-> TRUE] ELSE @]

AcceptedLocally(s) == s.client.local = "accept"
Accepted(s) == s.client.local = "accept" /\ s.client.remote = "accept"

Rejected(s) == "reject" \in {s.client.local, s.client.remote}

\* At once after the other side's answer; later after one's own, so that the
\* other side can read it.  (In a mutant never.)
CloseNever(s, immediately) == s
CloseRejected(s, immediately) == IF immediately THEN DiscardEndpoint(s) ELSE DelayedClose(s)

EvaluateConnectionResult(s, immediately) ==
  IF (~Accepted(s) /\ ~Rejected(s)) \/ s.pending.ch = 0 THEN s
  ELSE IF s.active = 0 THEN Dropped(s)
  ELSE IF Accepted(s)
  THEN [Dropped(s) EXCEPT
          !.client = [NoClient EXCEPT !.ch = s.client.ch, !.asked = TRUE, !.connected = TRUE],
          !.told = Append(@, [what |-> "accepted", ch |-> s.client.ch])]
  ELSE CloseRejected(OnConnectionRejected(Dropped(s)), immediately)

-----------------------------------------------------------------------------
(* The client, one call at a time through the router. *)

Alive(d) == ~dev[d].crashed
Calls(d) == Alive(d) /\ dev[d].call = "idle"

CallRequest(d) ==
  /\ Calls(d) /\ dev[d].client.ch = 0
  /\ hist.requests < Len(Callers) /\ d = Callers[hist.requests + 1]
  /\ Update(d, [PostPcp(dev[d], Task("request", hist.requests + 1, "none"))
                EXCEPT !.call = "request"])
  /\ hist' = [hist EXCEPT !.requests = @ + 1] /\ UNCHANGED chan

CallAnswer(d, answer) ==
  /\ Calls(d) /\ dev[d].client.ch # 0 /\ ~dev[d].client.asked
  /\ Update(d, [PostPcp(dev[d], Task("answer", dev[d].client.ch, answer))
                EXCEPT !.call = "answer", !.client.asked = TRUE])
  /\ answer = "reject" => Fault("reject")
  /\ hist' = [(IF answer = "reject" THEN Faulted ELSE hist)
              EXCEPT !.said[d][dev[d].client.ch] = answer]
  /\ UNCHANGED chan

CallDisconnect(d) ==
  /\ Fault("leave") /\ Calls(d) /\ dev[d].client.ch # 0
  /\ Update(d, [PostEm(dev[d], Task("unregister", dev[d].active, "none"))
                EXCEPT !.call = "leave"])
  /\ hist' = Faulted /\ UNCHANGED chan

-----------------------------------------------------------------------------
(* The PcpHandler thread. *)

Runs(d, kind) ==
  /\ Alive(d) /\ ~dev[d].blocked
  /\ dev[d].pcp # <<>> /\ Head(dev[d].pcp).kind = kind

Now(d) == Head(dev[d].pcp)
Popped(d) == [dev[d] EXCEPT !.pcp = Tail(@)]

\* The connection cannot be made: whatever is pending for the endpoint is
\* erased, a registered connection of the other side's request as well.
RequestFails(d) ==
  /\ Fault("connect") /\ Runs(d, "request")
  /\ Update(d, [Dropped(Popped(d)) EXCEPT !.call = "idle"])
  /\ chan' = ClosedPending(chan, d, dev[d])
  /\ hist' = [Faulted EXCEPT !.crossed = @ \cup ({dev[d].pending.ch} \ {0})]

Opened(d, k, n) ==
  [chan EXCEPT ![k] = [nonce |-> n, open |-> Devices, broken |-> FALSE,
                       wire |-> [e \in Devices |-> IF e = d THEN <<>> ELSE <<"request">>]]]

StartRunner(s, r, k) == [s EXCEPT !.crypt[r].queue = Append(@, k)]

RequestConnection(d) ==
  /\ Runs(d, "request")
  /\ \E n \in Nonces[Now(d).ch] :
       LET k == Now(d).ch
           collides == dev[d].pending.ch # 0
           mine == IF collides THEN [Popped(d) EXCEPT !.call = "idle"]
                   ELSE StartRunner([Popped(d) EXCEPT
                          !.pending = [ch |-> k, nonce |-> n, own |-> TRUE, waits |-> TRUE]],
                          "client", k)
       IN /\ chan' = IF collides THEN Closed(Opened(d, k, n), d, k) ELSE Opened(d, k, n)
          /\ dev' = [dev EXCEPT ![d] = mine,
                                ![Other(d)] = PostPcp(@, Task("incoming", k, "none"))]
          /\ hist' = IF collides THEN hist ELSE [hist EXCEPT !.outgoing = @ \cup {k}]

\* No request can be read, or this client is connected already, or its own
\* pending request has the larger nonce.  (In a mutant without the tie break.)
DeniedWhilePending(d, k) == Eof(d, k) \/ dev[d].client.connected \/ dev[d].pending.ch # 0
Denied(d, k) ==
  \/ Eof(d, k)
  \/ Readable(d, k) /\ dev[d].client.connected
  \/ Readable(d, k) /\ dev[d].pending.ch # 0 /\ dev[d].pending.nonce > chan[k].nonce

DenyIncoming(d) ==
  /\ Runs(d, "incoming") /\ Denied(d, Now(d).ch)
  /\ Update(d, Popped(d))
  /\ chan' = Closed(chan, d, Now(d).ch) /\ UNCHANGED hist

\* History: request k breaks what is pending here, though its sender has given
\* it up for that very connection.
Broken(h, d, k) ==
  [h EXCEPT !.crossed = @ \cup (IF k \in h.outgoing THEN {} ELSE {dev[d].pending.ch} \ {0})]

BreakBoth(d) ==
  /\ Runs(d, "incoming") /\ Readable(d, Now(d).ch) /\ ~Denied(d, Now(d).ch)
  /\ dev[d].pending.ch # 0 /\ dev[d].pending.nonce = chan[Now(d).ch].nonce
  /\ Update(d, ProcessTieBreakLoss(Popped(d)))
  /\ chan' = Closed(ClosedPending(chan, d, dev[d]), d, Now(d).ch)
  /\ hist' = Broken(hist, d, Now(d).ch)

BreakTie(s) == IF s.pending.ch = 0 THEN s ELSE ProcessTieBreakLoss(s)

\* late: the alarm of ReadConnectionRequestFrame fired just after the read.
OnIncomingConnection(d) ==
  /\ Runs(d, "incoming") /\ Readable(d, Now(d).ch) /\ ~Denied(d, Now(d).ch)
  /\ dev[d].pending.ch # 0 => dev[d].pending.nonce < chan[Now(d).ch].nonce
  /\ \E late \in BOOLEAN :
       LET k == Now(d).ch
           c == ReadFrom(ClosedPending(chan, d, dev[d]), d, k)
       IN /\ late => Fault("late")
          /\ Update(d, StartRunner([BreakTie(Popped(d)) EXCEPT
                !.pending = [ch |-> k, nonce |-> chan[k].nonce, own |-> TRUE, waits |-> FALSE]],
                "server", k))
          /\ chan' = IF late THEN Closed(c, d, k) ELSE c
          /\ hist' = Broken(IF late THEN Faulted ELSE hist, d, k)

\* The thread waits in RegisterEndpoint for the endpoint manager thread.
RegisterDeviceAndReturn(s, k) ==
  PostEm([s EXCEPT !.pending.own = FALSE], Task("register", k, "none"))
RegisterDevice(s, k) ==
  PostEm([s EXCEPT !.pending.own = FALSE, !.blocked = TRUE], Task("register", k, "none"))

OnEncryptionSuccess(d) ==
  /\ Runs(d, "success")
  /\ LET k == Now(d).ch
         current == dev[d].pending.ch = k /\ dev[d].pending.own
     IN Update(d, IF current THEN RegisterDevice(Popped(d), k) ELSE Popped(d))
  /\ UNCHANGED <<chan, hist>>

OnEncryptionFailure(d) ==
  /\ Runs(d, "failure")
  /\ LET current == dev[d].pending.ch = Now(d).ch /\ dev[d].pending.own
     IN \/ /\ Update(d, IF current THEN Dropped(Popped(d)) ELSE Popped(d))
           /\ chan' = IF current THEN ClosedPending(chan, d, dev[d]) ELSE chan
        \* The message for a superseded channel names the pending one, which
        \* the registration has taken away.
        \/ /\ ~current /\ dev[d].pending.ch # 0 /\ ~dev[d].pending.own
           /\ Crash(d, Popped(d))
  /\ UNCHANGED hist

\* Crashes when the pending connection is not the registered one: it has no
\* UKEY2 context to take the keys from.
Evaluated(d, s, immediately, c) ==
  IF Accepted(s) /\ s.active # 0 /\ s.pending.own
  THEN Crash(d, s)
  ELSE /\ Update(d, EvaluateConnectionResult(s, immediately))
       /\ chan' = IF Accepted(s) \/ Rejected(s) THEN ClosedPending(c, d, s) ELSE c

\* AcceptConnection and RejectConnection.
AnswerConnection(d) ==
  /\ Runs(d, "answer") /\ UNCHANGED hist
  /\ LET s == [Popped(d) EXCEPT !.call = "idle"]
         k == s.active
     IN \/ s.pending.ch = 0 /\ Update(d, s) /\ UNCHANGED chan
        \/ /\ s.pending.ch # 0 /\ MayFail(k)
           /\ Update(d, ProcessPreConnectionResultFailure(s))
           /\ chan' = ClosedPending(chan, d, s)
        \/ /\ s.pending.ch # 0 /\ k # 0 /\ d \in chan[k].open
           /\ Evaluated(d, [s EXCEPT !.client.local = IF @ = "none" /\ s.client.ch # 0
                                                      THEN Now(d).answer ELSE @],
                        FALSE, Written(chan, d, k, Now(d).answer))

OnIncomingFrame(d) ==
  /\ Runs(d, "response") /\ UNCHANGED hist
  /\ LET s == [Popped(d) EXCEPT !.reader.state = "reading"]
     IN IF s.client.remote # "none" \/ s.client.ch = 0 \/ s.client.connected
        THEN Update(d, s) /\ UNCHANGED chan
        ELSE Evaluated(d, [s EXCEPT !.client.remote = Now(d).answer], TRUE, chan)

\* The clean-up for channel k is about the endpoint: a newer pending
\* connection or client connection goes with it.
CrossedBy(d, k) ==
  hist' = [hist EXCEPT !.crossed = @ \cup ({dev[d].pending.ch, dev[d].client.ch} \ {0, k})]

OnEndpointDisconnect(d) ==
  /\ Runs(d, "disconnect")
  /\ LET s == [Popped(d) EXCEPT !.alarm = NoAlarm]
     IN Update(d, [OnConnectionRejected(Dropped(s)) EXCEPT
                     !.phase = IF @ = "awaiting" /\ Now(d).ch = s.reader.ch THEN "notified" ELSE @])
  /\ chan' = ClosedPending(chan, d, dev[d])
  /\ CrossedBy(d, Now(d).ch)

-----------------------------------------------------------------------------
(* The encryption threads: UKEY2 messages m1, m2, m3 over the channel. *)

Crypting(d, r, phase) ==
  Alive(d) /\ dev[d].crypt[r].queue # <<>> /\ dev[d].crypt[r].phase = phase

Secures(d, r) == Head(dev[d].crypt[r].queue)
NextPhase(d, r, phase) == [dev[d] EXCEPT !.crypt[r].phase = phase]
Finished(d, r) == [dev[d] EXCEPT !.crypt[r] = [queue |-> Tail(@.queue), phase |-> Opening(r)]]

\* A channel that is closed when the thread takes it: no callback.  A server
\* starts with a read, so that its start and the read are one step.
SkipHandshake(d, r) ==
  /\ Crypting(d, r, Opening(r)) /\ d \notin chan[Secures(d, r)].open
  /\ Update(d, Finished(d, r))
  /\ hist' = [hist EXCEPT !.silent =
       IF dev[d].pending.ch = Secures(d, r) /\ dev[d].pending.own THEN @ \cup {Secures(d, r)} ELSE @]
  /\ UNCHANGED chan

StartClient(d) ==
  /\ Crypting(d, "client", "start") /\ d \in chan[Secures(d, "client")].open
  /\ Update(d, NextPhase(d, "client", "m2"))
  /\ chan' = Written(chan, d, Secures(d, "client"), "m1") /\ UNCHANGED hist

\* The last message ends the handshake; late: the alarm closes the channel
\* before it is cancelled.
ReadMessage(d, r, phase) ==
  LET k == Secures(d, r)
      rest == ReadFrom(chan, d, k)
  IN /\ Crypting(d, r, phase) /\ Readable(d, k) /\ Head(chan[k].wire[d]) = phase
     /\ IF phase = "m1"
        THEN /\ Update(d, NextPhase(d, r, "m3"))
             /\ chan' = Written(rest, d, k, "m2") /\ UNCHANGED hist
        ELSE \E late \in BOOLEAN :
               LET sent == IF phase = "m2" THEN Written(rest, d, k, "m3") ELSE rest
               IN /\ late => Fault("timeout")
                  /\ Update(d, PostPcp(Finished(d, r), Task("success", k, "none")))
                  /\ chan' = IF late THEN Closed(sent, d, k) ELSE sent
                  /\ hist' = IF late THEN Faulted ELSE hist

\* (In a mutant without the callback.)
FailHandshakeSilently(d, r, phase) ==
  /\ Crypting(d, r, phase) /\ Eof(d, Secures(d, r))
  /\ Update(d, Finished(d, r)) /\ UNCHANGED <<chan, hist>>
FailHandshake(d, r, phase) ==
  /\ Crypting(d, r, phase) /\ Eof(d, Secures(d, r))
  /\ Update(d, PostPcp(Finished(d, r), Task("failure", Secures(d, r), "none")))
  /\ UNCHANGED <<chan, hist>>

\* The alarm closes the channel.
TimeOutHandshake(d, r) ==
  /\ Fault("timeout")
  /\ \E phase \in {"m1", "m2", "m3"} : Crypting(d, r, phase)
  /\ chan' = Closed(chan, d, Secures(d, r))
  /\ hist' = Faulted /\ UNCHANGED dev

-----------------------------------------------------------------------------
(* The endpoint manager thread, the reader and the alarm. *)

Manages(d, kinds) ==
  /\ Alive(d) /\ dev[d].phase = "idle"
  /\ dev[d].em # <<>> /\ Head(dev[d].em).kind \in kinds

RegisterEndpoint(d) ==
  /\ Manages(d, {"register"}) /\ dev[d].reader = NoReader
  /\ LET k == Head(dev[d].em).ch
     IN Update(d, [dev[d] EXCEPT
          !.em = Tail(@), !.active = k, !.reader = [ch |-> k, state |-> "reading"],
          !.client = IF @.ch = 0 THEN [NoClient EXCEPT !.ch = k] ELSE @,
          !.told = Append(@, [what |-> "initiated", ch |-> k]),
          !.blocked = FALSE, !.pending.waits = FALSE,
          !.call = IF dev[d].pending.waits THEN "idle" ELSE @])
  /\ UNCHANGED <<chan, hist>>

\* The endpoint is registered already: its state goes first, which closes the
\* channel and waits for the reader.
RegisterDuplicate(d) ==
  /\ Manages(d, {"register"}) /\ dev[d].active # 0
  /\ Update(d, [dev[d] EXCEPT !.active = 0])
  /\ chan' = Closed(chan, d, dev[d].active) /\ UNCHANGED hist

JoinDuplicate(d) ==
  /\ Manages(d, {"register"}) /\ dev[d].active = 0 /\ dev[d].reader.state = "gone"
  /\ Update(d, [dev[d] EXCEPT !.reader = NoReader])
  /\ UNCHANGED <<chan, hist>>

Removals == {"discard", "unregister"}

Return(s) == [s EXCEPT !.em = Tail(@), !.phase = "idle",
                       !.call = IF Head(s.em).kind = "unregister" THEN "idle" ELSE @]

RemoveUnknown(d) ==
  /\ Manages(d, Removals) /\ dev[d].active = 0
  /\ Update(d, Return(dev[d])) /\ UNCHANGED <<chan, hist>>

\* The channel that is registered now goes, whichever the task was for.
RemoveEndpoint(d) ==
  LET k == dev[d].active
  IN /\ Manages(d, Removals) /\ k # 0
     /\ Update(d, [PostPcp(dev[d], Task("disconnect", k, "none")) EXCEPT
                     !.active = 0, !.phase = "awaiting", !.notify = dev[d].client.connected])
     /\ chan' = Closed(chan, d, k)
     /\ hist' = [hist EXCEPT !.crossed = @ \cup (IF Head(dev[d].em).ch = k THEN {} ELSE {k})]

\* The wait for the frame processors ends after 11 s; the PcpHandler thread
\* may be waiting for this one.
StopAwaiting(d) ==
  /\ Alive(d) /\ dev[d].phase = "awaiting" /\ dev[d].blocked
  /\ Update(d, [dev[d] EXCEPT !.phase = "notified"])
  /\ CrossedBy(d, dev[d].reader.ch) /\ UNCHANGED chan

OnDisconnected(d) ==
  /\ Alive(d) /\ dev[d].phase = "notified"
  /\ Update(d, [dev[d] EXCEPT
       !.phase = "joining", !.client = NoClient,
       !.told = IF dev[d].notify /\ dev[d].client.ch # 0
                THEN Append(@, [what |-> "disconnected", ch |-> dev[d].client.ch]) ELSE @])
  /\ CrossedBy(d, dev[d].reader.ch) /\ UNCHANGED chan

JoinReader(d) ==
  /\ Alive(d) /\ dev[d].phase = "joining" /\ dev[d].reader.state = "gone"
  /\ Update(d, [Return(dev[d]) EXCEPT !.reader = NoReader])
  /\ UNCHANGED <<chan, hist>>

ReadResponse(d) ==
  LET k == dev[d].reader.ch
  IN /\ Alive(d) /\ dev[d].reader.state = "reading"
     /\ Readable(d, k) /\ Head(chan[k].wire[d]) \in Answers
     /\ Update(d, [PostPcp(dev[d], Task("response", k, Head(chan[k].wire[d])))
                   EXCEPT !.reader.state = "waiting"])
     /\ chan' = ReadFrom(chan, d, k) /\ UNCHANGED hist

EndReader(d) ==
  /\ Alive(d) /\ dev[d].reader.state = "reading" /\ Eof(d, dev[d].reader.ch)
  /\ Update(d, PostEm([dev[d] EXCEPT !.reader.state = "gone"],
                      Task("discard", dev[d].reader.ch, "none")))
  /\ UNCHANGED <<chan, hist>>

FireAlarm(d) ==
  /\ Alive(d) /\ dev[d].alarm.armed
  /\ Update(d, PostEm([dev[d] EXCEPT !.alarm.armed = FALSE],
                      Task("discard", dev[d].alarm.ch, "none")))
  /\ UNCHANGED <<chan, hist>>

-----------------------------------------------------------------------------

CallStep(d) == CallRequest(d) \/ \E a \in Answers : CallAnswer(d, a)

PcpStep(d) ==
  /\ dev[d].pcp # <<>>
  /\ \/ RequestConnection(d) \/ DenyIncoming(d) \/ BreakBoth(d) \/ OnIncomingConnection(d)
     \/ OnEncryptionSuccess(d) \/ OnEncryptionFailure(d)
     \/ AnswerConnection(d) \/ OnIncomingFrame(d) \/ OnEndpointDisconnect(d)

CryptStep(d, r) ==
  /\ dev[d].crypt[r].queue # <<>>
  /\ \/ SkipHandshake(d, r)
     \/ r = "client" /\ StartClient(d)
     \/ \E phase \in {"m1", "m2", "m3"} : ReadMessage(d, r, phase) \/ FailHandshake(d, r, phase)

ManagerStep(d) ==
  \/ RegisterEndpoint(d) \/ RegisterDuplicate(d) \/ JoinDuplicate(d)
  \/ RemoveUnknown(d) \/ RemoveEndpoint(d) \/ StopAwaiting(d) \/ OnDisconnected(d) \/ JoinReader(d)

ReaderStep(d) == ReadResponse(d) \/ EndReader(d)

FaultStep(d) ==
  RequestFails(d) \/ CallDisconnect(d) \/ \E r \in Roles : TimeOutHandshake(d, r)

Next ==
  \/ \E d \in Devices :
       \/ CallStep(d) \/ PcpStep(d) \/ ManagerStep(d) \/ ReaderStep(d) \/ FireAlarm(d) \/ FaultStep(d)
       \/ \E r \in Roles : CryptStep(d, r)
  \/ \E k \in Channels : BreakLink(k)

Spec == Init /\ [][Next]_vars

\* What goes on by itself: every thread, the alarms, and a client that answers
\* what it was told.
SystemStep ==
  \E d \in Devices :
    \/ \E a \in Answers : CallAnswer(d, a)
    \/ PcpStep(d) \/ ManagerStep(d) \/ ReaderStep(d) \/ FireAlarm(d)
    \/ \E r \in Roles : CryptStep(d, r)

-----------------------------------------------------------------------------
(* Types. *)

Known == Channels \cup {0}
Events == {"initiated", "accepted", "rejected", "disconnected"}
Frames == {"request", "m1", "m2", "m3"} \cup Answers
PcpTasks ==
  [kind : {"request", "incoming", "success", "failure", "disconnect"}, ch : Channels, answer : {"none"}]
    \cup [kind : {"answer", "response"}, ch : Channels, answer : Answers]
EmTasks == [kind : {"discard", "unregister", "register"}, ch : Known, answer : {"none"}]

ChannelStates ==
  [nonce : Nat, open : SUBSET Devices, broken : BOOLEAN, wire : [Devices -> Seq(Frames)]]

Clients ==
  [ch : Known, asked : BOOLEAN, local : Answers \cup {"none"}, remote : Answers \cup {"none"},
   connected : BOOLEAN]
Reports == [what : Events, ch : Channels]
Pendings == [ch : Known, nonce : Nat, own : BOOLEAN, waits : BOOLEAN]
Alarms == [ch : Known, armed : BOOLEAN]
Readers == [ch : Known, state : {"none", "reading", "waiting", "gone"}]
Runners == [queue : Seq(Channels), phase : {"start", "m1", "m2", "m3"}]
CallStates == {"idle", "request", "answer", "leave"}
Phases == {"idle", "awaiting", "notified", "joining"}

DeviceStates ==
  [call : CallStates, client : Clients, told : Seq(Reports),
   pending : Pendings, pcp : Seq(PcpTasks), blocked : BOOLEAN, alarm : Alarms,
   em : Seq(EmTasks), phase : Phases, notify : BOOLEAN, active : Known, reader : Readers,
   crypt : [Roles -> Runners], crashed : BOOLEAN]

Histories ==
  [requests : 0..Len(Callers), faults : 0..MaxFaults, outgoing : SUBSET Channels,
   crossed : SUBSET Channels, silent : SUBSET Channels,
   said : [Devices -> [Channels -> Answers \cup {"none"}]]]

\* The type invariant; a device waits in RegisterEndpoint exactly while its
\* endpoint manager has the registration to do.
TypeOK ==
  /\ chan \in [Channels -> ChannelStates]
  /\ dev \in [Devices -> DeviceStates]
  /\ hist \in Histories
  /\ \A d \in Devices :
       dev[d].blocked <=> \E i \in DOMAIN dev[d].em : dev[d].em[i].kind = "register"

-----------------------------------------------------------------------------
(* Properties.  crossed holds the channels hit by the clean-up of another   *)
(* one, silent those whose handshake ended without a callback.              *)

Told(d, what, k) == \E i \in DOMAIN dev[d].told : dev[d].told[i] = [what |-> what, ch |-> k]
Resulted(d, k) == Told(d, "accepted", k) \/ Told(d, "rejected", k)
Excused(d, k) == dev[d].crashed \/ k \in hist.crossed

\* A client hears of a connection once, then one result for it, and of its end
\* only when it was accepted: ClientProxy's callbacks in order, whatever
\* responses, removals and newer connections cross.
OneResult ==
  \A d \in Devices : \A i \in DOMAIN dev[d].told :
    LET now == dev[d].told[i]
        before == IF i = 1 THEN [what |-> "none", ch |-> now.ch] ELSE dev[d].told[i - 1]
    IN \/ now.what = "initiated" /\ before.what \notin {"initiated", "accepted"}
       \/ now.what \in {"accepted", "rejected"} /\ before = [what |-> "initiated", ch |-> now.ch]
       \/ now.what = "disconnected" /\ before = [what |-> "accepted", ch |-> now.ch]
       \/ \E k \in Channels : k \in hist.crossed /\ k \in {before.ch, now.ch}

\* A client that was told of a connection whose entry the clean-up of another hit:
\* its answer may reach a newer connection than the one it is about.
Misled(d) == \E k \in hist.crossed : Told(d, "initiated", k)

\* The result of EvaluateConnectionResult: a client is told that a connection
\* was accepted only if both clients accepted it, and while nothing failed and
\* nobody left or rejected, no client is told that it was rejected after the
\* other was told that it was accepted.
ResultAgreement ==
  \A k \in Channels : \A d \in Devices :
    Told(d, "accepted", k) =>
      /\ \A e \in Devices : hist.said[e][k] = "accept" \/ Misled(e)
      /\ Told(Other(d), "rejected", k) => hist.faults > 0 \/ k \in hist.crossed

\* Every behaviour is finite: a request, an answer and a fault happen a bounded
\* number of times, and every other step uses up a task, a frame or a thread.
\* What must eventually happen has therefore happened when no step is left.
InTheEnd(P) == P \/ ENABLED SystemStep

\* The PcpHandler thread waits for the endpoint manager thread, that one for
\* the reader of the connection before, and the reader for the PcpHandler.
Deadlocked(d) ==
  dev[d].blocked /\ dev[d].reader.state = "waiting" /\ ~dev[d].crashed

\* Who was told of a connection is told its result, once the clients answer:
\* no order of answers, responses and disconnection leaves it pending.  (Beside
\* a deadlocked peer only the keep-alive, which is not modelled, ends the wait.)
ResultTold ==
  InTheEnd(\A d \in Devices, k \in Channels :
             Told(d, "initiated", k) =>
               Resulted(d, k) \/ Excused(d, k) \/ \E e \in Devices : Deadlocked(e))

\* RequestConnection, AcceptConnection, RejectConnection and a disconnection
\* return.  They do not when the handshake of the request ended silently.
CallsReturn ==
  InTheEnd(\A d \in Devices :
             \/ dev[d].call = "idle" \/ dev[d].crashed
             \/ hist.silent # {} \/ Deadlocked(d))

\* EndpointManager's "it will terminate soon": whoever waits for the registration
\* of an endpoint, which waits for the workers of the one before, goes on.
RegistrationEnds ==
  InTheEnd(\A d \in Devices : dev[d].blocked => dev[d].crashed)

\* A connection whose handshake runs does not stay in pending_connections_.
PendingEnds ==
  InTheEnd(\A d \in Devices :
             dev[d].pending.own =>
               dev[d].pending.ch \in hist.silent \/ dev[d].crashed \/ Deadlocked(d))

\* BreakTie: when both devices entered a request of their own, with different
\* nonces, and nothing failed, both clients are told of the one with the larger.
TieResolved ==
  InTheEnd(\A j, k \in hist.outgoing :
             Callers[j] # Callers[k] /\ chan[j].nonce < chan[k].nonce /\ hist.faults = 0
               => \A d \in Devices : Told(d, "accepted", k) \/ dev[d].crashed \/ dev[Other(d)].crashed)

\* A registered channel is held by a pending connection or by the client: none
\* stays that nobody will close.
NoOrphan ==
  InTheEnd(\A d \in Devices :
             LET k == dev[d].active
             IN k # 0 => k \in {dev[d].pending.ch, dev[d].client.ch} \/ Excused(d, k))
=============================================================================
