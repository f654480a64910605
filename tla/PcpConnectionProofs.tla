------------------------ MODULE PcpConnectionProofs ------------------------
(***************************************************************************)
(* Theorems of PcpConnection, for any order of callers, any nonces and any *)
(* faults: its types, and that a client hears the callbacks of its         *)
(* connections in order (OneResult).                                       *)
(***************************************************************************)
EXTENDS PcpConnection, FiniteSetTheorems, TLAPS

-----------------------------------------------------------------------------
(* The inductive invariant: of the state s of one device, X being the      *)
(* channels hit by the clean-up of another one                             *)

Latest(s) == s.told[Len(s.told)]
Holds(q, kind) == \E i \in DOMAIN q : q[i].kind = kind
HoldsFor(q, kind, k) == \E i \in DOMAIN q : q[i].kind = kind /\ q[i].ch = k
Single(q, kind) == \A i, j \in DOMAIN q : q[i].kind = kind /\ q[j].kind = kind => i = j

\* How the tables of a device agree.
Shape(s) ==
  /\ s.client.connected => s.client.ch # 0 /\ s.pending.ch = 0
  /\ s.client.ch = 0 => s.client = NoClient
  /\ s.active # 0 => s.reader.ch = s.active
  /\ s.phase # "idle" => s.active = 0
  /\ s.pending.own \/ s.pending.waits \/ s.blocked => s.pending.ch # 0

\* The task of a client's call belongs to the one call it makes, and while a
\* request is not served its connection has no answer.
OneCall(s) ==
  /\ Holds(s.pcp, "request") =>
       /\ s.call = "request" /\ ~s.pending.waits
       /\ s.client.local = "none" /\ ~s.client.connected
  /\ Holds(s.pcp, "answer") => s.call = "answer"
  /\ Holds(s.em, "unregister") => s.call = "leave"
  /\ s.pending.waits => s.call = "request"
  /\ Single(s.pcp, "request") /\ Single(s.pcp, "answer") /\ Single(s.em, "unregister")

\* A blocked PcpHandler thread has one registration to wait for, and the
\* endpoint manager's task is at the head of its queue until it is done.
Registering(s) ==
  /\ s.blocked <=> Holds(s.em, "register")
  /\ Single(s.em, "register")
  /\ \A i \in DOMAIN s.em : s.em[i].kind = "register" => s.em[i].ch = s.pending.ch
  /\ s.blocked => ~s.pending.own
  /\ s.phase # "idle" => s.em # <<>> /\ Head(s.em).kind \in Removals

\* The reader waits for the one response that it has posted.
Reading(s) ==
  /\ s.reader.ch = 0 <=> s.reader.state = "none"
  /\ Holds(s.pcp, "response") => s.reader.state = "waiting"
  /\ Single(s.pcp, "response")

\* OneResult, of one device.
InOrder(s, X) ==
  \A i \in DOMAIN s.told :
    LET now == s.told[i]
        before == IF i = 1 THEN [what |-> "none", ch |-> now.ch] ELSE s.told[i - 1]
    IN \/ now.what = "initiated" /\ before.what \notin {"initiated", "accepted"}
       \/ now.what \in {"accepted", "rejected"} /\ before = [what |-> "initiated", ch |-> now.ch]
       \/ now.what = "disconnected" /\ before = [what |-> "accepted", ch |-> now.ch]
       \/ now.ch \in X \/ before.ch \in X

\* What a client was told last lets another connection follow.
Over(s, X) ==
  s.told = <<>> \/ Latest(s).ch \in X \/ Latest(s).what \in {"rejected", "disconnected"}

\* The clean-up of the endpoint is on its way, and comes before the pending
\* connection can be registered.
Leaving(s) ==
  \E i \in DOMAIN s.pcp :
    /\ s.pcp[i].kind = "disconnect"
    /\ s.pending.own =>
         \A j \in 1..i : ~(s.pcp[j].kind = "success" /\ s.pcp[j].ch = s.pending.ch)

\* The client's entry is the connection it was told of last ...
Current(s, X) ==
  IF s.client.ch = 0 THEN Over(s, X) \/ (s.blocked /\ s.pending.ch \in X)
  ELSE /\ s.told # <<>>
       /\ Latest(s).what = IF s.client.connected THEN "accepted" ELSE "initiated"
       /\ Latest(s).ch = s.client.ch \/ s.client.ch \in X

\* ... which is pending as long as it has no result, or is about to go ...
Settled(s, X) ==
  s.client.ch # 0 /\ ~s.client.connected =>
    \/ Latest(s).ch \in X
    \/ s.pending.ch = Latest(s).ch /\ ~s.pending.own
    \/ s.blocked /\ s.pending.ch \in X
    \/ Leaving(s)

\* ... so that no other connection is registered meanwhile.
Replaced(s, X) ==
  s.blocked => /\ s.client.ch = 0 \/ s.client.ch \in X
               /\ Over(s, X) \/ s.pending.ch \in X

\* Between the removal of an endpoint and the end of its client's entry.
Removing(s, X) ==
  /\ s.client.ch # 0 /\ s.active = 0 /\ ~s.blocked => s.phase \in {"awaiting", "notified"}
  /\ s.phase = "awaiting" => HoldsFor(s.pcp, "disconnect", s.reader.ch)
  /\ s.phase = "notified" /\ s.client.ch # 0 /\ ~s.client.connected =>
       s.blocked /\ s.pending.ch \in X
  /\ s.phase \in {"awaiting", "notified"} /\ s.client.ch # 0 => s.notify = s.client.connected

\* The client has not heard of a connection that is not registered yet.
Heard(s, k) == \E i \in DOMAIN s.told : s.told[i] = [what |-> "initiated", ch |-> k]
Knows(s) ==
  /\ s.pending.own \/ s.blocked => ~Heard(s, s.pending.ch)
  /\ s.reader.ch # 0 => Heard(s, s.reader.ch)

DeviceOK(s, X) ==
  /\ Shape(s) /\ OneCall(s) /\ Registering(s) /\ Reading(s)
  /\ InOrder(s, X) /\ Current(s, X) /\ Settled(s, X) /\ Replaced(s, X)
  /\ Removing(s, X) /\ Knows(s)

\* A request is served once: where its task still waits, nothing knows it.
InCrypt(s, k) == \E r \in Roles : \E i \in DOMAIN s.crypt[r].queue : s.crypt[r].queue[i] = k
Used(s, k) ==
  Heard(s, k) \/ InCrypt(s, k) \/ HoldsFor(s.pcp, "success", k) \/ s.pending.ch = k

Arrives(s, k) == HoldsFor(s.pcp, "request", k) \/ HoldsFor(s.pcp, "incoming", k)
Once(q) ==
  \A i, j \in DOMAIN q :
    /\ q[i].kind \in {"request", "incoming"} /\ q[j].kind \in {"request", "incoming"}
    /\ q[i].ch = q[j].ch
    => i = j

Fresh ==
  \A d \in Devices :
    /\ Once(dev[d].pcp)
    /\ \A k \in Channels :
         /\ k > hist.requests => ~Arrives(dev[d], k) /\ ~Used(dev[d], k)
         /\ Arrives(dev[d], k) => ~Used(dev[d], k)
         /\ HoldsFor(dev[d].pcp, "request", k) =>
              /\ d = Callers[k]
              /\ \A e \in Devices : ~Used(dev[e], k) /\ ~HoldsFor(dev[e].pcp, "incoming", k)
         /\ HoldsFor(dev[d].pcp, "incoming", k) => d # Callers[k]

Types ==
  /\ chan \in [Channels -> ChannelStates]
  /\ dev \in [Devices -> DeviceStates]
  /\ hist \in Histories

IInv == Types /\ Fresh /\ \A d \in Devices : DeviceOK(dev[d], hist.crossed)

-----------------------------------------------------------------------------
(* Queues *)

\* A queue with one more task.
LEMMA Appended ==
  ASSUME NEW S, NEW q \in Seq(S), NEW t \in S
  PROVE  /\ Append(q, t) \in Seq(S)
         /\ Len(Append(q, t)) = Len(q) + 1
         /\ DOMAIN q = 1..Len(q) /\ DOMAIN Append(q, t) = 1..Len(q) + 1
         /\ \A i \in DOMAIN q : Append(q, t)[i] = q[i]
         /\ Append(q, t)[Len(q) + 1] = t
OBVIOUS

\* A queue without its head.
LEMMA Removed ==
  ASSUME NEW S, NEW q \in Seq(S), q # <<>>
  PROVE  /\ Tail(q) \in Seq(S)
         /\ DOMAIN q = 1..Len(q) /\ DOMAIN Tail(q) = 1..Len(q) - 1
         /\ \A i \in DOMAIN Tail(q) : i + 1 \in DOMAIN q /\ Tail(q)[i] = q[i + 1]
         /\ 1 \in DOMAIN q /\ Head(q) = q[1] /\ Head(q) \in S
         /\ \A i \in DOMAIN q : i # 1 => i - 1 \in DOMAIN Tail(q) /\ Tail(q)[i - 1] = q[i]
OBVIOUS

\* What kinds of tasks a queue holds after a task is posted.
LEMMA AppendHolds ==
  ASSUME NEW S, NEW q \in Seq(S), NEW t \in S, NEW kind
  PROVE  Holds(Append(q, t), kind) <=> Holds(q, kind) \/ t.kind = kind
BY Appended DEF Holds

\* The same, of one channel.
LEMMA AppendHoldsFor ==
  ASSUME NEW S, NEW q \in Seq(S), NEW t \in S, NEW kind, NEW k
  PROVE  HoldsFor(Append(q, t), kind, k) <=> HoldsFor(q, kind, k) \/ (t.kind = kind /\ t.ch = k)
BY Appended DEF HoldsFor

\* A kind that is in the queue at most once stays so.
LEMMA AppendSingle ==
  ASSUME NEW S, NEW q \in Seq(S), NEW t \in S, NEW kind,
         Single(q, kind), ~Holds(q, kind) \/ t.kind # kind
  PROVE  Single(Append(q, t), kind)
BY Appended DEF Single, Holds

\* What kinds of tasks it holds after one is taken.
LEMMA TailHolds ==
  ASSUME NEW S, NEW q \in Seq(S), q # <<>>, NEW kind
  PROVE  /\ Holds(Tail(q), kind) => Holds(q, kind)
         /\ Holds(q, kind) <=> Holds(Tail(q), kind) \/ Head(q).kind = kind
         /\ Single(q, kind) => Single(Tail(q), kind)
         /\ Single(q, kind) /\ Head(q).kind = kind => ~Holds(Tail(q), kind)
<1>1. Holds(Tail(q), kind) => Holds(q, kind)
  BY Removed DEF Holds
<1>2. Holds(q, kind) <=> Holds(Tail(q), kind) \/ Head(q).kind = kind
  BY Removed DEF Holds
<1>3. Single(q, kind) => Single(Tail(q), kind)
  BY Removed DEF Single
<1>4. Single(q, kind) /\ Head(q).kind = kind => ~Holds(Tail(q), kind)
  BY Removed DEF Single, Holds
<1> QED
  BY <1>1, <1>2, <1>3, <1>4

\* The same, of one channel.
LEMMA TailHoldsFor ==
  ASSUME NEW S, NEW q \in Seq(S), q # <<>>, NEW kind, NEW k
  PROVE  HoldsFor(q, kind, k) <=> HoldsFor(Tail(q), kind, k) \/ (Head(q).kind = kind /\ Head(q).ch = k)
<1>1. HoldsFor(Tail(q), kind, k) => HoldsFor(q, kind, k)
  BY Removed DEF HoldsFor
<1>2. Head(q).kind = kind /\ Head(q).ch = k => HoldsFor(q, kind, k)
  BY Removed DEF HoldsFor
<1>3. ASSUME HoldsFor(q, kind, k), ~(Head(q).kind = kind /\ Head(q).ch = k)
      PROVE  HoldsFor(Tail(q), kind, k)
  <2>1. PICK i \in DOMAIN q : q[i].kind = kind /\ q[i].ch = k
    BY <1>3 DEF HoldsFor
  <2>2. i # 1
    BY <1>3, <2>1, Removed
  <2>3. i - 1 \in DOMAIN Tail(q) /\ Tail(q)[i - 1] = q[i]
    BY <2>1, <2>2, Removed
  <2> QED
    BY <2>1, <2>3 DEF HoldsFor
<1> QED
  BY <1>1, <1>2, <1>3

\* A task about one channel is a task of its kind.
LEMMA HoldsForHolds ==
  ASSUME NEW q, NEW kind, NEW k, HoldsFor(q, kind, k)
  PROVE  Holds(q, kind)
BY DEF HoldsFor, Holds

\* Posting behind a task leaves it the next one.
LEMMA AppendHead ==
  ASSUME NEW S, NEW q \in Seq(S), NEW t \in S, q # <<>>
  PROVE  Append(q, t) # <<>> /\ Head(Append(q, t)) = Head(q)
<1>1. /\ Append(q, t) \in Seq(S) /\ Len(Append(q, t)) = Len(q) + 1 /\ Len(q) >= 1
      /\ Append(q, t)[1] = q[1]
  OBVIOUS
<1> QED
  BY <1>1

-----------------------------------------------------------------------------
(* Types of the operators *)

\* The types of the constants.
LEMMA Numbers ==
  /\ Len(Callers) \in Nat /\ Channels \subseteq Nat \ {0} /\ Known \subseteq Nat /\ MaxFaults \in Nat
  /\ \A k \in Channels : Callers[k] \in Devices /\ k <= Len(Callers)
  /\ \A k \in Known : k # 0 => k \in Channels
BY ConstantsAssumption DEF Channels, Known

\* There are two devices.
LEMMA OtherDevice ==
  ASSUME NEW d \in Devices
  PROVE  Other(d) \in Devices /\ Other(d) # d
<1>1. IsFiniteSet(Devices \ {d}) /\ Cardinality(Devices \ {d}) = 2 - 1
  BY ConstantsAssumption, FS_RemoveElement
<1>2. Devices \ {d} # {}
  BY <1>1, FS_EmptySet
<1>3. \E o \in Devices : o # d
  BY <1>2
<1> QED
  BY <1>3 DEF Other

Chans == [Channels -> ChannelStates]

\* The fields of a channel.
LEMMA ChannelFields ==
  ASSUME NEW c \in Chans, NEW k \in Channels
  PROVE  /\ c[k] \in ChannelStates
         /\ c[k].nonce \in Nat /\ c[k].open \in SUBSET Devices /\ c[k].broken \in BOOLEAN
         /\ c[k].wire \in [Devices -> Seq(Frames)]
BY DEF Chans, ChannelStates

\* A map of channels with another state of one.
LEMMA ChannelSet ==
  ASSUME NEW c \in Chans, NEW k \in Channels, NEW new \in ChannelStates
  PROVE  [c EXCEPT ![k] = new] \in Chans
BY DEF Chans

\* Closing a channel gives a map of channels.
LEMMA ClosedTyped ==
  ASSUME NEW c \in Chans, NEW d \in Devices, NEW k \in Channels
  PROVE  Closed(c, d, k) \in Chans
<1>1. <<>> \in Seq(Frames)
  OBVIOUS
<1> DEFINE o == c[k].open \ {d}
           w == [c[k].wire EXCEPT ![d] = <<>>]
<1>2. o \in SUBSET Devices /\ w \in [Devices -> Seq(Frames)]
  BY <1>1, ChannelFields
<1> DEFINE new == [c[k] EXCEPT !.open = o, !.wire = w]
<1>3. Closed(c, d, k) = [c EXCEPT ![k] = new]
  BY DEF Closed, Chans, ChannelStates
<1>4. new \in ChannelStates
  <2> HIDE DEF o, w
  <2> QED
    BY <1>2, ChannelFields DEF ChannelStates
<1> HIDE DEF new
<1> QED
  BY <1>3, <1>4, ChannelSet

\* It leaves the others alone.
LEMMA ClosedElsewhere ==
  ASSUME NEW c \in Chans, NEW d \in Devices, NEW j \in Channels, NEW k \in Channels, k # j
  PROVE  Closed(c, d, j)[k] = c[k]
BY DEF Closed, Chans

\* So does writing a frame.
LEMMA WrittenTyped ==
  ASSUME NEW c \in Chans, NEW d \in Devices, NEW k \in Channels, NEW f \in Frames
  PROVE  Written(c, d, k, f) \in Chans
<1> DEFINE o == Other(d)
           q == IF o \in c[k].open /\ d \in c[k].open /\ ~c[k].broken
                THEN Append(c[k].wire[o], f) ELSE c[k].wire[o]
           w == [c[k].wire EXCEPT ![o] = q]
<1>1. o \in Devices
  BY OtherDevice
<1>2. q \in Seq(Frames)
  <2>1. c[k].wire[o] \in Seq(Frames)
    BY <1>1, ChannelFields
  <2> QED
    BY <2>1
<1>3. w \in [Devices -> Seq(Frames)]
  BY <1>1, <1>2, ChannelFields
<1> DEFINE new == [c[k] EXCEPT !.wire = w]
<1>4. Written(c, d, k, f) = [c EXCEPT ![k] = new]
  BY DEF Written, Chans, ChannelStates
<1>5. new \in ChannelStates
  <2> HIDE DEF w
  <2> QED
    BY <1>3, ChannelFields DEF ChannelStates
<1> HIDE DEF new
<1> QED
  BY <1>4, <1>5, ChannelSet

\* So does reading one.
LEMMA ReadTyped ==
  ASSUME NEW c \in Chans, NEW d \in Devices, NEW k \in Channels, c[k].wire[d] # <<>>
  PROVE  ReadFrom(c, d, k) \in Chans
<1> DEFINE w == [c[k].wire EXCEPT ![d] = Tail(@)]
<1>1. c[k].wire[d] \in Seq(Frames)
  BY ChannelFields
<1>2. Tail(c[k].wire[d]) \in Seq(Frames)
  BY <1>1
<1>3. w \in [Devices -> Seq(Frames)]
  BY <1>2, ChannelFields
<1> DEFINE new == [c[k] EXCEPT !.wire = w]
<1>4. ReadFrom(c, d, k) = [c EXCEPT ![k] = new]
  BY DEF ReadFrom, Chans, ChannelStates
<1>5. new \in ChannelStates
  <2> HIDE DEF w
  <2> QED
    BY <1>3, ChannelFields DEF ChannelStates
<1> HIDE DEF new
<1> QED
  BY <1>4, <1>5, ChannelSet

\* So does opening one.
LEMMA OpenedTyped ==
  ASSUME NEW d \in Devices, NEW k \in Channels, NEW n \in Nat, chan \in Chans
  PROVE  Opened(d, k, n) \in Chans
<1> DEFINE w == [e \in Devices |-> IF e = d THEN <<>> ELSE <<"request">>]
           new == [nonce |-> n, open |-> Devices, broken |-> FALSE, wire |-> w]
<1>1. <<>> \in Seq(Frames) /\ <<"request">> \in Seq(Frames)
  BY DEF Frames
<1>2. w \in [Devices -> Seq(Frames)]
  BY <1>1
<1>3. new \in ChannelStates
  BY <1>2 DEF ChannelStates
<1>4. Opened(d, k, n) = [chan EXCEPT ![k] = new]
  BY DEF Opened
<1> HIDE DEF new
<1> QED
  BY <1>3, <1>4 DEF Chans

-----------------------------------------------------------------------------
(* Steps of one device: the type of what they return, and what they change *)

Fields ==
  {"call", "client", "told", "pending", "pcp", "blocked", "em", "phase", "notify", "active",
   "reader", "crypt"}
Changes(s, t, fields) == \A f \in Fields \ fields : t[f] = s[f]

\* The fields of a device.
LEMMA DeviceFields ==
  ASSUME NEW s \in DeviceStates
  PROVE  /\ s.call \in CallStates /\ s.client \in Clients /\ s.told \in Seq(Reports)
         /\ s.pending \in Pendings /\ s.pcp \in Seq(PcpTasks) /\ s.blocked \in BOOLEAN
         /\ s.em \in Seq(EmTasks) /\ s.phase \in Phases /\ s.notify \in BOOLEAN
         /\ s.active \in Known /\ s.reader \in Readers /\ s.crypt \in [Roles -> Runners]
         /\ s.alarm \in Alarms /\ s.crashed \in BOOLEAN
BY DEF DeviceStates

\* The fields of its entry of pending_connections_.
LEMMA PendingFields ==
  ASSUME NEW s \in DeviceStates
  PROVE  /\ s.pending.ch \in Known /\ s.pending.nonce \in Nat
         /\ s.pending.own \in BOOLEAN /\ s.pending.waits \in BOOLEAN
BY DeviceFields DEF Pendings

\* The fields of its ClientProxy's entry.
LEMMA ClientFields ==
  ASSUME NEW s \in DeviceStates
  PROVE  /\ s.client.ch \in Known /\ s.client.connected \in BOOLEAN /\ s.client.asked \in BOOLEAN
         /\ s.client.local \in Answers \cup {"none"} /\ s.client.remote \in Answers \cup {"none"}
BY DeviceFields DEF Clients

\* The states of an entry, an alarm and a reader that is not there.
LEMMA Nothings ==
  /\ NoPending \in Pendings /\ NoClient \in Clients /\ NoAlarm \in Alarms /\ NoReader \in Readers
  /\ NoPending.ch = 0 /\ ~NoPending.own /\ ~NoPending.waits
  /\ NoClient.ch = 0 /\ ~NoClient.connected /\ NoClient.local = "none" /\ NoClient.remote = "none"
  /\ NoReader.ch = 0 /\ NoReader.state = "none"
BY Numbers DEF NoPending, Pendings, NoClient, Clients, NoAlarm, Alarms, NoReader, Readers, Known,
               Answers

\* What is posted to the PcpHandler thread.
LEMMA PcpTask ==
  ASSUME NEW k \in Channels
  PROVE  /\ \A kind \in {"request", "incoming", "success", "failure", "disconnect"} :
              LET task == Task(kind, k, "none")
              IN task \in PcpTasks /\ task.kind = kind /\ task.ch = k
         /\ \A kind \in {"answer", "response"}, answer \in Answers :
              LET task == Task(kind, k, answer)
              IN task \in PcpTasks /\ task.kind = kind /\ task.ch = k
BY DEF Task, PcpTasks

\* What is posted to the endpoint manager thread.
LEMMA EmTask ==
  ASSUME NEW k \in Known, NEW kind \in {"discard", "unregister", "register"}
  PROVE  /\ Task(kind, k, "none") \in EmTasks
         /\ Task(kind, k, "none").kind = kind /\ Task(kind, k, "none").ch = k
BY DEF Task, EmTasks

\* Two changes one after the other.
LEMMA ChangesMore ==
  ASSUME NEW s, NEW t, NEW u, NEW f, NEW g, Changes(s, t, f), Changes(t, u, g)
  PROVE  Changes(s, u, f \cup g)
BY DEF Changes

\* Taking a task of the PcpHandler thread changes its queue.
LEMMA PopEffect ==
  ASSUME NEW d \in Devices, dev[d] \in DeviceStates, dev[d].pcp # <<>>
  PROVE  /\ Popped(d) \in DeviceStates /\ Changes(dev[d], Popped(d), {"pcp"})
         /\ Popped(d).pcp = Tail(dev[d].pcp)
<1>1. Tail(dev[d].pcp) \in Seq(PcpTasks)
  BY DeviceFields, Removed
<1> QED
  BY <1>1 DEF Popped, DeviceStates, Changes, Fields

\* So does posting one.
LEMMA PostPcpEffect ==
  ASSUME NEW s \in DeviceStates, NEW task \in PcpTasks
  PROVE  /\ PostPcp(s, task) \in DeviceStates /\ Changes(s, PostPcp(s, task), {"pcp"})
         /\ PostPcp(s, task).pcp = Append(s.pcp, task)
<1>1. Append(s.pcp, task) \in Seq(PcpTasks)
  BY DeviceFields
<1> QED
  BY <1>1 DEF PostPcp, DeviceStates, Changes, Fields

\* Posting to the endpoint manager thread changes its queue.
LEMMA PostEmEffect ==
  ASSUME NEW s \in DeviceStates, NEW task \in EmTasks
  PROVE  /\ PostEm(s, task) \in DeviceStates /\ Changes(s, PostEm(s, task), {"em"})
         /\ PostEm(s, task).em = Append(s.em, task)
<1>1. Append(s.em, task) \in Seq(EmTasks)
  BY DeviceFields
<1> QED
  BY <1>1 DEF PostEm, DeviceStates, Changes, Fields

\* A call that begins or returns.
LEMMA CallEffect ==
  ASSUME NEW s \in DeviceStates, NEW call \in CallStates
  PROVE  LET t == [s EXCEPT !.call = call]
         IN t \in DeviceStates /\ Changes(s, t, {"call"}) /\ t.call = call
BY DEF DeviceStates, Changes, Fields

\* An entry put in pending_connections_.
LEMMA PendEffect ==
  ASSUME NEW s \in DeviceStates, NEW p \in Pendings
  PROVE  LET t == [s EXCEPT !.pending = p]
         IN t \in DeviceStates /\ Changes(s, t, {"pending"}) /\ t.pending = p
BY DEF DeviceStates, Changes, Fields

\* An encryption thread that moves on.
LEMMA RunnerEffect ==
  ASSUME NEW s \in DeviceStates, NEW r \in Roles, NEW runner \in Runners
  PROVE  LET t == [s EXCEPT !.crypt[r] = runner]
         IN t \in DeviceStates /\ Changes(s, t, {"crypt"})
            /\ t.crypt = [s.crypt EXCEPT ![r] = runner]
<1>1. [s.crypt EXCEPT ![r] = runner] \in [Roles -> Runners]
  BY DeviceFields
<1> QED
  BY <1>1 DEF DeviceStates, Changes, Fields

\* An entry erased from pending_connections_ answers the caller that waits for it.
LEMMA DropEffect ==
  ASSUME NEW s \in DeviceStates
  PROVE  /\ Dropped(s) \in DeviceStates /\ Changes(s, Dropped(s), {"pending", "call"})
         /\ Dropped(s).pending = NoPending
         /\ Dropped(s).call = IF s.pending.waits THEN "idle" ELSE s.call
BY Nothings DEF Dropped, DeviceStates, CallStates, Changes, Fields

\* DiscardEndpoint posts the removal of the endpoint.
LEMMA DiscardEffect ==
  ASSUME NEW s \in DeviceStates
  PROVE  /\ DiscardEndpoint(s) \in DeviceStates /\ Changes(s, DiscardEndpoint(s), {"em"})
         /\ DiscardEndpoint(s).em = Append(s.em, Task("discard", s.active, "none"))
         /\ Task("discard", s.active, "none") \in EmTasks
<1>1. s.active \in Known
  BY DeviceFields
<1>2. Task("discard", s.active, "none") \in EmTasks
  BY <1>1, EmTask
<1> QED
  BY <1>2, PostEmEffect DEF DiscardEndpoint

Report(what, k) == [what |-> what, ch |-> k]

\* A callback is a report about a channel.
LEMMA Reported ==
  ASSUME NEW s \in DeviceStates, NEW what \in Events, NEW k \in Channels
  PROVE  /\ Report(what, k) \in Reports
         /\ Report(what, k).what = what /\ Report(what, k).ch = k
         /\ Append(s.told, Report(what, k)) \in Seq(Reports)
<1>1. /\ Report(what, k) \in Reports
      /\ Report(what, k).what = what /\ Report(what, k).ch = k
  BY DEF Report, Reports
<1> QED
  BY <1>1, DeviceFields

\* OnConnectionRejected reports only a connection the client has not accepted yet.
LEMMA RejectEffect ==
  ASSUME NEW s \in DeviceStates
  PROVE  LET t == OnConnectionRejected(s)
         IN /\ t \in DeviceStates /\ Changes(s, t, {"client", "told"})
            /\ s.client.ch # 0 /\ ~s.client.connected =>
                 t.client = NoClient /\ t.told = Append(s.told, Report("rejected", s.client.ch))
            /\ ~(s.client.ch # 0 /\ ~s.client.connected) => t = s
<1>1. CASE s.client.ch # 0 /\ ~s.client.connected
  <2>1. s.client.ch \in Channels
    BY <1>1, ClientFields, Numbers
  <2>2. Append(s.told, Report("rejected", s.client.ch)) \in Seq(Reports)
    BY <2>1, Reported DEF Events
  <2>3. OnConnectionRejected(s) = [s EXCEPT !.client = NoClient,
                                            !.told = Append(s.told, Report("rejected", s.client.ch))]
    BY <1>1 DEF OnConnectionRejected, Report
  <2> QED
    BY <1>1, <2>2, <2>3, Nothings DEF DeviceStates, Changes, Fields
<1>2. CASE ~(s.client.ch # 0 /\ ~s.client.connected)
  BY <1>2 DEF OnConnectionRejected, Changes
<1> QED
  BY <1>1, <1>2

\* An entry is erased once.
LEMMA DropTwice == ASSUME NEW s \in DeviceStates PROVE Dropped(Dropped(s)) = Dropped(s)
<1>1. /\ Dropped(s) \in DeviceStates
      /\ Dropped(s).pending = NoPending /\ ~Dropped(s).pending.waits
  BY DropEffect, Nothings
<1> DEFINE t == Dropped(s)
<1>2. Dropped(t) = [t EXCEPT !.pending = NoPending, !.call = t.call]
  BY <1>1 DEF Dropped
<1> HIDE DEF t
<1>3. t \in DeviceStates /\ t.pending = NoPending
  BY <1>1 DEF t
<1>4. [t EXCEPT !.pending = NoPending, !.call = t.call] = t
  BY <1>3 DEF DeviceStates
<1> QED
  BY <1>2, <1>4 DEF t

\* ProcessPreConnectionResultFailure erases, discards and reports.
LEMMA FailEffect ==
  ASSUME NEW s \in DeviceStates
  PROVE  LET u == DiscardEndpoint(Dropped(s))
             t == ProcessPreConnectionResultFailure(s)
         IN /\ u \in DeviceStates /\ t = OnConnectionRejected(u)
            /\ t \in DeviceStates /\ t = ProcessTieBreakLoss(s)
BY DropEffect, DiscardEffect, RejectEffect, DropTwice
   DEF ProcessPreConnectionResultFailure, ProcessTieBreakLoss

-----------------------------------------------------------------------------
(* What each part of the invariant of a device depends on *)

\* Each part is kept by a change of the fields that it does not mention.
LEMMA PartsKept ==
  ASSUME NEW s \in DeviceStates, NEW t \in DeviceStates, NEW X, NEW Y, X \subseteq Y, DeviceOK(s, X)
  PROVE  /\ Changes(s, t, {"call", "told", "pcp", "em", "notify", "crypt"}) => Shape(t)
         /\ Changes(s, t, {"told", "blocked", "phase", "notify", "active", "reader", "crypt"}) =>
              OneCall(t)
         /\ Changes(s, t, {"call", "client", "told", "pcp", "notify", "active", "reader",
                           "crypt"}) => Registering(t)
         /\ Changes(s, t, Fields \ {"reader", "pcp"}) => Reading(t)
         /\ Changes(s, t, Fields \ {"told"}) => InOrder(t, Y)
         /\ Changes(s, t, Fields \ {"told", "client", "blocked", "pending"}) => Current(t, Y)
         /\ Changes(s, t, Fields \ {"told", "client", "blocked", "pending", "pcp"}) => Settled(t, Y)
         /\ Changes(s, t, Fields \ {"told", "client", "blocked", "pending"}) => Replaced(t, Y)
         /\ Changes(s, t, {"call", "told", "em", "crypt"}) => Removing(t, Y)
         /\ Changes(s, t, Fields \ {"told", "blocked", "pending", "reader"}) => Knows(t)
<1>1. Changes(s, t, {"call", "told", "pcp", "em", "notify", "crypt"}) => Shape(t)
  BY DEF DeviceOK, Changes, Fields, Shape
<1>2. Changes(s, t, {"told", "blocked", "phase", "notify", "active", "reader", "crypt"}) => OneCall(t)
  BY DEF DeviceOK, Changes, Fields, OneCall
<1>3. Changes(s, t, {"call", "client", "told", "pcp", "notify", "active", "reader",
                     "crypt"}) => Registering(t)
  BY DEF DeviceOK, Changes, Fields, Registering
<1>4. ASSUME Changes(s, t, Fields \ {"told"})
      PROVE  InOrder(t, Y)
  <2>1. t.told = s.told
    BY <1>4 DEF Changes, Fields
  <2> QED
    BY <2>1 DEF DeviceOK, InOrder
<1>5. ASSUME Changes(s, t, Fields \ {"told", "client", "blocked", "pending"})
      PROVE  Current(t, Y) /\ Replaced(t, Y)
  <2>1. t.told = s.told /\ t.client = s.client /\ t.blocked = s.blocked /\ t.pending = s.pending
    BY <1>5 DEF Changes, Fields
  <2> QED
    BY <2>1 DEF DeviceOK, Current, Replaced, Over, Latest
<1>6. ASSUME Changes(s, t, Fields \ {"told", "client", "blocked", "pending", "pcp"})
      PROVE  Settled(t, Y)
  <2>1. /\ t.told = s.told /\ t.client = s.client /\ t.blocked = s.blocked /\ t.pending = s.pending
        /\ t.pcp = s.pcp
    BY <1>6 DEF Changes, Fields
  <2>2. Leaving(s) => Leaving(t)
    BY <2>1 DEF Leaving
  <2> QED
    BY <2>1, <2>2 DEF DeviceOK, Settled, Latest
<1>7. Changes(s, t, {"call", "told", "em", "crypt"}) => Removing(t, Y)
  BY DEF DeviceOK, Changes, Fields, Removing
<1>8. Changes(s, t, Fields \ {"told", "blocked", "pending", "reader"}) => Knows(t)
  BY DEF DeviceOK, Changes, Fields, Knows, Heard
<1>9. Changes(s, t, Fields \ {"reader", "pcp"}) => Reading(t)
  BY DEF DeviceOK, Changes, Fields, Reading
<1> QED
  BY <1>1, <1>2, <1>3, <1>4, <1>5, <1>6, <1>7, <1>8, <1>9

\* More channels are excused later.
LEMMA Excuse ==
  ASSUME NEW s \in DeviceStates, NEW X, NEW Y, X \subseteq Y, DeviceOK(s, X)
  PROVE  DeviceOK(s, Y)
<1>1. \A f : Changes(s, s, f)
  BY DEF Changes
<1> QED
  BY <1>1, PartsKept DEF DeviceOK

\* A change of what no part mentions keeps them all.
LEMMA Unchanged ==
  ASSUME NEW s \in DeviceStates, NEW t \in DeviceStates, NEW X, NEW Y, X \subseteq Y, DeviceOK(s, X),
         Changes(s, t, {"crypt"})
  PROVE  DeviceOK(t, Y)
<1>1. \A f : "crypt" \in f => Changes(s, t, f)
  BY DEF Changes
<1> QED
  BY <1>1, PartsKept DEF DeviceOK, Fields

-----------------------------------------------------------------------------
(* What keeps the invariant of a device: its queues *)

\* A change of few fields is one of more.
LEMMA Wider ==
  ASSUME NEW s, NEW t, NEW f, NEW g, Changes(s, t, f), f \subseteq g
  PROVE  Changes(s, t, g)
BY DEF Changes

\* A task other than a disconnection may be taken.
LEMMA PopKeeps ==
  ASSUME NEW s \in DeviceStates, NEW t \in DeviceStates, NEW X, DeviceOK(s, X),
         s.pcp # <<>>, Head(s.pcp).kind # "disconnect",
         Changes(s, t, {"pcp"}), t.pcp = Tail(s.pcp)
  PROVE  DeviceOK(t, X)
<1>1. \A f : "pcp" \in f => Changes(s, t, f)
  BY DEF Changes
<1>2. /\ t.call = s.call /\ t.client = s.client /\ t.pending = s.pending /\ t.em = s.em
      /\ t.told = s.told /\ t.blocked = s.blocked /\ t.phase = s.phase /\ t.reader = s.reader
      /\ t.notify = s.notify /\ t.active = s.active /\ s.pcp \in Seq(PcpTasks)
  BY DeviceFields DEF Changes, Fields
<1>3. OneCall(t)
  BY <1>2, TailHolds DEF DeviceOK, OneCall
<1>4. Leaving(s) => Leaving(t)
  <2> SUFFICES ASSUME Leaving(s) PROVE Leaving(t)
    OBVIOUS
  <2>1. PICK i \in DOMAIN s.pcp :
          /\ s.pcp[i].kind = "disconnect"
          /\ s.pending.own =>
               \A j \in 1..i : ~(s.pcp[j].kind = "success" /\ s.pcp[j].ch = s.pending.ch)
    BY DEF Leaving
  <2>2. /\ i # 1 /\ i \in Nat /\ i - 1 \in DOMAIN t.pcp /\ t.pcp[i - 1] = s.pcp[i]
        /\ \A j \in 1..i - 1 : t.pcp[j] = s.pcp[j + 1]
    BY <1>2, <2>1, Removed
  <2>3. ASSUME s.pending.own, NEW j \in 1..i - 1
        PROVE  ~(t.pcp[j].kind = "success" /\ t.pcp[j].ch = s.pending.ch)
    <3>1. j + 1 \in 1..i
      BY <2>2
    <3> QED
      BY <2>1, <2>2, <2>3, <3>1
  <2>4. /\ t.pcp[i - 1].kind = "disconnect"
        /\ t.pending.own =>
             \A j \in 1..i - 1 : ~(t.pcp[j].kind = "success" /\ t.pcp[j].ch = t.pending.ch)
    BY <1>2, <2>1, <2>2, <2>3
  <2> QED
    BY <2>2, <2>4 DEF Leaving
<1>5. Settled(t, X)
  BY <1>2, <1>4 DEF DeviceOK, Settled, Latest
<1>6. Removing(t, X)
  <2>1. HoldsFor(s.pcp, "disconnect", s.reader.ch) => HoldsFor(t.pcp, "disconnect", s.reader.ch)
    BY <1>2, TailHoldsFor
  <2> QED
    BY <1>2, <2>1 DEF DeviceOK, Removing
<1>7. Reading(t)
  BY <1>2, TailHolds DEF DeviceOK, Reading
<1> QED
  BY <1>1, <1>3, <1>5, <1>6, <1>7, PartsKept DEF DeviceOK, Fields

\* An entry on its way out stays so.
LEMMA AppendLeaves ==
  ASSUME NEW s \in DeviceStates, NEW t \in DeviceStates, NEW task \in PcpTasks,
         t.pcp = Append(s.pcp, task), t.pending = s.pending, Leaving(s)
  PROVE  Leaving(t)
<1>1. PICK i \in DOMAIN s.pcp :
        /\ s.pcp[i].kind = "disconnect"
        /\ s.pending.own =>
             \A j \in 1..i : ~(s.pcp[j].kind = "success" /\ s.pcp[j].ch = s.pending.ch)
  BY DEF Leaving
<1>2. /\ i \in DOMAIN t.pcp /\ t.pcp[i] = s.pcp[i]
      /\ \A j \in 1..i : t.pcp[j] = s.pcp[j]
  BY <1>1, DeviceFields, Appended
<1> QED
  BY <1>1, <1>2 DEF Leaving

\* A task other than a client's may be posted.
LEMMA PostPcpKeeps ==
  ASSUME NEW s \in DeviceStates, NEW t \in DeviceStates, NEW X, DeviceOK(s, X),
         NEW task \in PcpTasks, task.kind \notin {"request", "answer", "response"},
         Changes(s, t, {"pcp"}), t.pcp = Append(s.pcp, task)
  PROVE  DeviceOK(t, X)
<1>1. \A f : "pcp" \in f => Changes(s, t, f)
  BY DEF Changes
<1>2. /\ t.call = s.call /\ t.client = s.client /\ t.pending = s.pending /\ t.em = s.em
      /\ t.told = s.told /\ t.blocked = s.blocked /\ t.phase = s.phase /\ t.reader = s.reader
      /\ t.notify = s.notify /\ t.active = s.active /\ s.pcp \in Seq(PcpTasks)
  BY DeviceFields DEF Changes, Fields
<1>3. OneCall(t)
  BY <1>2, AppendHolds, AppendSingle DEF DeviceOK, OneCall
<1>4. Leaving(s) => Leaving(t)
  BY <1>2, AppendLeaves
<1>5. Settled(t, X)
  BY <1>2, <1>4 DEF DeviceOK, Settled, Latest
<1>6. Removing(t, X)
  <2>1. HoldsFor(s.pcp, "disconnect", s.reader.ch) => HoldsFor(t.pcp, "disconnect", s.reader.ch)
    BY <1>2, AppendHoldsFor
  <2> QED
    BY <1>2, <2>1 DEF DeviceOK, Removing
<1>7. Reading(t)
  BY <1>2, AppendHolds, AppendSingle DEF DeviceOK, Reading
<1> QED
  BY <1>1, <1>3, <1>5, <1>6, <1>7, PartsKept DEF DeviceOK, Fields

\* So may a task that is not about the registration of the endpoint.
LEMMA PostEmKeeps ==
  ASSUME NEW s \in DeviceStates, NEW t \in DeviceStates, NEW X, DeviceOK(s, X),
         NEW task \in EmTasks, task.kind \notin {"unregister", "register"},
         Changes(s, t, {"em"}), t.em = Append(s.em, task)
  PROVE  DeviceOK(t, X)
<1>1. \A f : "em" \in f => Changes(s, t, f)
  BY DEF Changes
<1>2. /\ t.call = s.call /\ t.client = s.client /\ t.pending = s.pending /\ t.pcp = s.pcp
      /\ t.blocked = s.blocked /\ t.phase = s.phase /\ s.em \in Seq(EmTasks)
  BY DeviceFields DEF Changes, Fields
<1>3. OneCall(t)
  BY <1>2, AppendHolds, AppendSingle DEF DeviceOK, OneCall
<1>4. Registering(t)
  <2>1. \A i \in DOMAIN t.em : t.em[i].kind = "register" => i \in DOMAIN s.em /\ t.em[i] = s.em[i]
    BY <1>2, Appended
  <2>2. (Holds(t.em, "register") <=> Holds(s.em, "register")) /\ Single(t.em, "register")
    BY <1>2, AppendHolds, AppendSingle DEF DeviceOK, Registering
  <2>3. s.em # <<>> => t.em # <<>> /\ Head(t.em) = Head(s.em)
    BY <1>2, AppendHead
  <2> QED
    BY <1>2, <2>1, <2>2, <2>3 DEF DeviceOK, Registering
<1> QED
  BY <1>1, <1>3, <1>4, PartsKept DEF DeviceOK, Fields

\* A task of the endpoint manager is done.
LEMMA ManagedKeeps ==
  ASSUME NEW s \in DeviceStates, NEW t \in DeviceStates, NEW X, DeviceOK(s, X),
         s.em # <<>>, Head(s.em).kind # "register", s.phase = "idle",
         Changes(s, t, {"em"}), t.em = Tail(s.em)
  PROVE  DeviceOK(t, X)
<1>1. \A f : "em" \in f => Changes(s, t, f)
  BY DEF Changes
<1>2. /\ t.call = s.call /\ t.client = s.client /\ t.pending = s.pending /\ t.pcp = s.pcp
      /\ t.blocked = s.blocked /\ t.phase = s.phase /\ s.em \in Seq(EmTasks)
  BY DeviceFields DEF Changes, Fields
<1>3. OneCall(t)
  BY <1>2, TailHolds DEF DeviceOK, OneCall
<1>4. Registering(t)
  <2>1. \A i \in DOMAIN t.em : i + 1 \in DOMAIN s.em /\ t.em[i] = s.em[i + 1]
    BY <1>2, Removed
  <2>2. (Holds(t.em, "register") <=> Holds(s.em, "register")) /\ Single(t.em, "register")
    BY <1>2, TailHolds DEF DeviceOK, Registering
  <2> QED
    BY <1>2, <2>1, <2>2 DEF DeviceOK, Registering
<1> QED
  BY <1>1, <1>3, <1>4, PartsKept DEF DeviceOK, Fields

\* A call returns.
LEMMA ReturnKeeps ==
  ASSUME NEW s \in DeviceStates, NEW t \in DeviceStates, NEW X, DeviceOK(s, X),
         Changes(s, t, {"call"}), t.call = "idle",
         ~Holds(s.pcp, "request"), ~Holds(s.pcp, "answer"), ~Holds(s.em, "unregister"),
         ~s.pending.waits
  PROVE  DeviceOK(t, X)
<1>1. \A f : "call" \in f => Changes(s, t, f)
  BY DEF Changes
<1>2. /\ t.client = s.client /\ t.pending = s.pending /\ t.pcp = s.pcp /\ t.em = s.em
  BY DEF Changes, Fields
<1>3. OneCall(t)
  BY <1>2 DEF DeviceOK, OneCall
<1> QED
  BY <1>1, <1>3, PartsKept DEF DeviceOK, Fields

-----------------------------------------------------------------------------
(* What keeps it: what the client is told *)

\* A report is its kind and its channel.
LEMMA ReportIs ==
  ASSUME NEW r \in Reports, NEW what, NEW k, r.what = what, r.ch = k
  PROVE  r = [what |-> what, ch |-> k]
BY DEF Reports

\* What the client has heard once it is told something more.
LEMMA Tells ==
  ASSUME NEW s \in DeviceStates, NEW t \in DeviceStates, NEW r \in Reports,
         t.told = Append(s.told, r)
  PROVE  /\ t.told # <<>> /\ Latest(t) = r
         /\ \A k : Heard(t, k) <=> Heard(s, k) \/ r = [what |-> "initiated", ch |-> k]
<1>1. s.told \in Seq(Reports)
  BY DeviceFields
<1>2. /\ Len(t.told) = Len(s.told) + 1 /\ Len(s.told) \in Nat
      /\ DOMAIN s.told = 1..Len(s.told) /\ DOMAIN t.told = 1..Len(s.told) + 1
      /\ \A i \in DOMAIN s.told : t.told[i] = s.told[i]
      /\ t.told[Len(s.told) + 1] = r
  BY <1>1, Appended
<1>3. t.told # <<>> /\ Latest(t) = r
  BY <1>2 DEF Latest
<1>4. \A k : Heard(t, k) <=> Heard(s, k) \/ r = [what |-> "initiated", ch |-> k]
  BY <1>2 DEF Heard
<1> QED
  BY <1>3, <1>4

Follows(s, r, X) ==
  \/ s.told = <<>> /\ r.what = "initiated"
  \/ r.ch \in X
  \/ s.told # <<>> /\ Latest(s).ch \in X
  \/ s.told # <<>> /\ r.what = "initiated" /\ Latest(s).what \notin {"initiated", "accepted"}
  \/ /\ s.told # <<>> /\ r.what \in {"accepted", "rejected"}
     /\ Latest(s).what = "initiated" /\ Latest(s).ch = r.ch
  \/ /\ s.told # <<>> /\ r.what = "disconnected"
     /\ Latest(s).what = "accepted" /\ Latest(s).ch = r.ch

\* A report that follows what was told keeps the order.
LEMMA TellsInOrder ==
  ASSUME NEW s \in DeviceStates, NEW t \in DeviceStates, NEW r \in Reports, NEW X,
         InOrder(s, X), t.told = Append(s.told, r), Follows(s, r, X)
  PROVE  InOrder(t, X)
<1>1. s.told \in Seq(Reports)
  BY DeviceFields
<1>2. /\ Len(s.told) \in Nat
      /\ DOMAIN s.told = 1..Len(s.told) /\ DOMAIN t.told = 1..Len(s.told) + 1
      /\ \A i \in DOMAIN s.told : t.told[i] = s.told[i]
      /\ t.told[Len(s.told) + 1] = r
  BY <1>1, Appended
<1> DEFINE before(i) == IF i = 1 THEN [what |-> "none", ch |-> t.told[i].ch] ELSE t.told[i - 1]
           Fits(i) == \/ t.told[i].what = "initiated" /\ before(i).what \notin {"initiated", "accepted"}
                      \/ /\ t.told[i].what \in {"accepted", "rejected"}
                         /\ before(i) = [what |-> "initiated", ch |-> t.told[i].ch]
                      \/ /\ t.told[i].what = "disconnected"
                         /\ before(i) = [what |-> "accepted", ch |-> t.told[i].ch]
                      \/ t.told[i].ch \in X \/ before(i).ch \in X
<1>3. ASSUME NEW i \in DOMAIN s.told PROVE Fits(i)
  <2>1. t.told[i] = s.told[i] /\ (i # 1 => i - 1 \in DOMAIN s.told /\ t.told[i - 1] = s.told[i - 1])
    BY <1>2
  <2> QED
    BY <2>1 DEF InOrder
<1>4. Fits(Len(s.told) + 1)
  <2>1. CASE s.told = <<>>
    <3>1. Len(s.told) + 1 = 1
      BY <2>1
    <3> QED
      BY <1>2, <2>1, <3>1 DEF Follows
  <2>2. CASE s.told # <<>>
    <3>1. Len(s.told) + 1 # 1 /\ before(Len(s.told) + 1) = Latest(s) /\ Latest(s) \in Reports
      BY <1>1, <1>2, <2>2 DEF Latest
    <3> HIDE DEF before
    <3> QED
      BY <1>2, <2>2, <3>1, ReportIs DEF Follows
  <2> QED
    BY <2>1, <2>2
<1>5. \A i \in DOMAIN t.told : Fits(i)
  <2> DEFINE F(i) == Fits(i)
  <2>1. \A i \in DOMAIN t.told : i \in DOMAIN s.told \/ i = Len(s.told) + 1
    BY <1>2
  <2>2. (\A i \in DOMAIN s.told : F(i)) /\ F(Len(s.told) + 1)
    BY <1>3, <1>4
  <2> HIDE DEF F
  <2>3. \A i \in DOMAIN t.told : F(i)
    BY <2>1, <2>2
  <2> QED
    BY <2>3 DEF F
<1> QED
  BY <1>5 DEF InOrder

-----------------------------------------------------------------------------
(* What keeps it: the entry of pending_connections_ and the client's entry *)

\* The task of the endpoint's clean-up is in the queue while it is awaited.
LEMMA AwaitedLeaves ==
  ASSUME NEW s \in DeviceStates, NEW X, DeviceOK(s, X), s.phase = "awaiting", ~s.pending.own
  PROVE  Leaving(s)
BY DEF DeviceOK, Removing, HoldsFor, Leaving

\* An entry may be erased when its client has none that waits for it.
LEMMA DropKeeps ==
  ASSUME NEW s \in DeviceStates, NEW X, DeviceOK(s, X), ~s.blocked,
         \/ s.pending.own \/ s.pending.ch \in X \/ s.pending.ch = 0
         \/ s.client.ch = 0 \/ s.client.connected \/ s.phase = "awaiting"
  PROVE  DeviceOK(Dropped(s), X)
<1> DEFINE t == Dropped(s)
<1>1. /\ t \in DeviceStates /\ Changes(s, t, {"pending", "call"}) /\ t.pending = NoPending
      /\ t.call = IF s.pending.waits THEN "idle" ELSE s.call
  BY DropEffect
<1> HIDE DEF t
<1>2. /\ t.client = s.client /\ t.pcp = s.pcp /\ t.em = s.em /\ t.told = s.told
      /\ t.blocked = s.blocked /\ t.phase = s.phase /\ t.reader = s.reader
      /\ t.notify = s.notify /\ t.active = s.active
  BY <1>1 DEF Changes, Fields
<1>3. \A f : {"pending", "call"} \subseteq f => Changes(s, t, f)
  BY <1>1 DEF Changes
<1>4. Shape(t)
  BY <1>1, <1>2, Nothings DEF DeviceOK, Shape
<1>5. OneCall(t)
  BY <1>1, <1>2, Nothings DEF DeviceOK, OneCall
<1>6. Registering(t)
  BY <1>1, <1>2, Nothings DEF DeviceOK, Registering, Holds
<1>7. Current(t, X) /\ Replaced(t, X)
  BY <1>2 DEF DeviceOK, Current, Replaced, Over, Latest
<1>8. Settled(t, X)
  <2> SUFFICES ASSUME s.client.ch # 0, ~s.client.connected, Latest(s).ch \notin X
               PROVE  Leaving(t)
    BY <1>2 DEF Settled, Latest
  <2>1. Latest(s) \in Reports /\ Latest(s).ch \in Channels
    <3>1. s.told # <<>> /\ s.told \in Seq(Reports)
      BY DeviceFields DEF DeviceOK, Current
    <3>2. Latest(s) \in Reports
      BY <3>1 DEF Latest
    <3> QED
      BY <3>2 DEF Reports
  <2>2. Leaving(s) \/ s.phase = "awaiting"
    BY <2>1, Numbers DEF DeviceOK, Settled
  <2>3. HoldsFor(s.pcp, "disconnect", s.reader.ch) \/ Leaving(s)
    BY <2>2 DEF DeviceOK, Removing
  <2> QED
    BY <1>1, <1>2, <2>3, Nothings DEF Leaving, HoldsFor
<1>9. Removing(t, X)
  BY <1>2 DEF DeviceOK, Removing
<1>10. Knows(t)
  BY <1>1, <1>2, Nothings DEF DeviceOK, Knows, Heard
<1>11. InOrder(t, X)
  BY <1>2 DEF DeviceOK, InOrder
<1>12. Reading(t)
  BY <1>2 DEF DeviceOK, Reading
<1> QED
  BY <1>12, <1>4, <1>5, <1>6, <1>7, <1>8, <1>9, <1>10, <1>11 DEF DeviceOK, t

\* The entry is erased and an unanswered client told.
LEMMA RejectKeeps ==
  ASSUME NEW s \in DeviceStates, NEW X, DeviceOK(s, X), ~s.blocked
  PROVE  DeviceOK(OnConnectionRejected(Dropped(s)), X)
<1> DEFINE u == Dropped(s)
           t == OnConnectionRejected(u)
<1>1. /\ u \in DeviceStates /\ Changes(s, u, {"pending", "call"}) /\ u.pending = NoPending
      /\ u.call = IF s.pending.waits THEN "idle" ELSE s.call
  BY DropEffect
<1> HIDE DEF u
<1>2. u.client = s.client /\ u.told = s.told
  BY <1>1 DEF Changes, Fields
<1>3. CASE s.client.ch = 0 \/ s.client.connected
  <2>1. t = u
    BY <1>1, <1>2, <1>3, RejectEffect
  <2> QED
    BY <1>3, <2>1, DropKeeps DEF u
<1>4. CASE s.client.ch # 0 /\ ~s.client.connected
  <2> DEFINE r == Report("rejected", s.client.ch)
  <2>1. /\ t \in DeviceStates /\ Changes(u, t, {"client", "told"})
        /\ t.client = NoClient /\ t.told = Append(s.told, r)
    BY <1>1, <1>2, <1>4, RejectEffect
  <2>2. s.client.ch \in Channels
    BY <1>4, ClientFields, Numbers
  <2>3. r \in Reports /\ r.what = "rejected" /\ r.ch = s.client.ch
    BY <2>2, Reported DEF Events
  <2> HIDE DEF t, r
  <2>4. /\ t.pending = NoPending /\ t.call = (IF s.pending.waits THEN "idle" ELSE s.call)
        /\ t.pcp = s.pcp /\ t.em = s.em /\ t.blocked = s.blocked /\ t.phase = s.phase
        /\ t.reader = s.reader /\ t.notify = s.notify /\ t.active = s.active
    BY <1>1, <2>1 DEF Changes, Fields
  <2>5. /\ t.told # <<>> /\ Latest(t) = r /\ \A k : Heard(t, k) <=> Heard(s, k)
    <3>1. \A k : r # [what |-> "initiated", ch |-> k]
      BY <2>3
    <3>2. /\ t.told # <<>> /\ Latest(t) = r
          /\ \A k : Heard(t, k) <=> Heard(s, k) \/ r = [what |-> "initiated", ch |-> k]
      BY <2>1, <2>3, Tells
    <3> QED
      BY <3>1, <3>2
  <2>6. Shape(t)
    BY <2>1, <2>4, Nothings DEF DeviceOK, Shape
  <2>7. OneCall(t)
    BY <2>1, <2>4, Nothings DEF DeviceOK, OneCall
  <2>8. Registering(t)
    BY <2>4, Nothings DEF DeviceOK, Registering, Holds
  <2>9. Current(t, X) /\ Settled(t, X) /\ Replaced(t, X) /\ Removing(t, X)
    <3>1. Current(t, X)
      BY <2>1, <2>3, <2>5, Nothings DEF Current, Over
    <3>2. Settled(t, X) /\ Replaced(t, X)
      BY <2>1, <2>4, Nothings DEF Settled, Replaced
    <3>3. Removing(t, X)
      BY <2>1, <2>4, Nothings DEF DeviceOK, Removing
    <3> QED
      BY <3>1, <3>2, <3>3
  <2>10. Knows(t)
    BY <2>4, <2>5, Nothings DEF DeviceOK, Knows
  <2>11. InOrder(t, X)
    <3>1. Follows(s, r, X)
      BY <1>4, <2>3 DEF DeviceOK, Current, Follows
    <3>2. InOrder(s, X)
      BY DEF DeviceOK
    <3> QED
      BY <2>1, <2>3, <3>1, <3>2, TellsInOrder
  <2>12. Reading(t)
    BY <2>4 DEF DeviceOK, Reading
  <2> QED
    BY <2>12, <2>6, <2>7, <2>8, <2>9, <2>10, <2>11 DEF DeviceOK, t, u
<1> QED
  BY <1>3, <1>4, ClientFields

\* Erasing the entry and reporting the rejection.
LEMMA RejectDropEffect ==
  ASSUME NEW s \in DeviceStates
  PROVE  LET t == OnConnectionRejected(Dropped(s))
             r == Report("rejected", s.client.ch)
         IN /\ t \in DeviceStates /\ Changes(s, t, {"pending", "call", "client", "told"})
            /\ t.pending = NoPending /\ t.call = (IF s.pending.waits THEN "idle" ELSE s.call)
            /\ IF s.client.ch # 0 /\ ~s.client.connected
               THEN t.client = NoClient /\ t.told = Append(s.told, r)
               ELSE t.client = s.client /\ t.told = s.told
<1> DEFINE u == Dropped(s)
<1>1. /\ u \in DeviceStates /\ Changes(s, u, {"pending", "call"}) /\ u.pending = NoPending
      /\ u.call = IF s.pending.waits THEN "idle" ELSE s.call
  BY DropEffect
<1>2. u.client = s.client /\ u.told = s.told
  BY <1>1 DEF Changes, Fields
<1> HIDE DEF u
<1> DEFINE t == OnConnectionRejected(u)
<1>3. /\ t \in DeviceStates /\ Changes(u, t, {"client", "told"})
      /\ IF s.client.ch # 0 /\ ~s.client.connected
         THEN t.client = NoClient /\ t.told = Append(s.told, Report("rejected", s.client.ch))
         ELSE t = u
  BY <1>1, <1>2, RejectEffect
<1> HIDE DEF t
<1>4. /\ Changes(s, t, {"pending", "call", "client", "told"})
      /\ t.pending = NoPending /\ t.call = u.call
  BY <1>1, <1>3 DEF Changes, Fields
<1>5. t.client = (IF s.client.ch # 0 /\ ~s.client.connected THEN NoClient ELSE s.client)
  BY <1>2, <1>3
<1> QED
  BY <1>1, <1>2, <1>3, <1>4, <1>5 DEF t, u

\* A rejection is not the start of a connection.
LEMMA RejectHeard ==
  ASSUME NEW s \in DeviceStates, NEW t \in DeviceStates,
         IF s.client.ch # 0 /\ ~s.client.connected
         THEN t.told = Append(s.told, Report("rejected", s.client.ch)) ELSE t.told = s.told
  PROVE  \A k : Heard(t, k) <=> Heard(s, k)
<1>1. CASE t.told = s.told
  BY <1>1 DEF Heard
<1>2. CASE s.client.ch # 0 /\ ~s.client.connected
  <2>1. s.client.ch \in Channels
    BY <1>2, ClientFields, Numbers
  <2>2. /\ Report("rejected", s.client.ch) \in Reports
        /\ Report("rejected", s.client.ch).what = "rejected"
    BY <2>1, Reported DEF Events
  <2> QED
    BY <1>2, <2>2, Tells
<1> QED
  BY <1>1, <1>2

\* A failure before the result keeps the invariant, and leaves no connection half made.
LEMMA FailKeeps ==
  ASSUME NEW s \in DeviceStates, NEW X, DeviceOK(s, X), ~s.blocked
  PROVE  LET t == ProcessPreConnectionResultFailure(s)
         IN /\ DeviceOK(t, X) /\ t \in DeviceStates /\ t.pending = NoPending
            /\ Changes(s, t, {"pending", "call", "client", "told", "em"})
            /\ ~s.client.connected => t.client.ch = 0
            /\ \A k : Heard(t, k) <=> Heard(s, k)
<1> DEFINE v == OnConnectionRejected(Dropped(s))
           w == Dropped(s)
           u == DiscardEndpoint(w)
           t == OnConnectionRejected(u)
           task == Task("discard", s.active, "none")
<1>1. /\ v \in DeviceStates /\ Changes(s, v, {"pending", "call", "client", "told"})
      /\ v.pending = NoPending /\ v.call = (IF s.pending.waits THEN "idle" ELSE s.call)
      /\ IF s.client.ch # 0 /\ ~s.client.connected
         THEN v.client = NoClient /\ v.told = Append(s.told, Report("rejected", s.client.ch))
         ELSE v.client = s.client /\ v.told = s.told
  BY RejectDropEffect
<1>2. DeviceOK(v, X)
  BY RejectKeeps
<1>3. /\ w \in DeviceStates /\ Changes(s, w, {"pending", "call"}) /\ w.pending = NoPending
      /\ w.call = IF s.pending.waits THEN "idle" ELSE s.call
  BY DropEffect
<1> HIDE DEF v, w
<1>4. /\ u \in DeviceStates /\ Changes(w, u, {"em"})
      /\ u.em = Append(w.em, Task("discard", w.active, "none"))
      /\ Task("discard", w.active, "none") \in EmTasks
  BY <1>3, DiscardEffect
<1> HIDE DEF u
<1>5. /\ u.client = s.client /\ u.told = s.told /\ u.pending = NoPending
      /\ u.call = (IF s.pending.waits THEN "idle" ELSE s.call)
      /\ u.em = Append(s.em, task) /\ task \in EmTasks
      /\ Changes(s, u, {"em", "pending", "call"})
  BY <1>3, <1>4 DEF Changes, Fields
<1>6. /\ t \in DeviceStates /\ Changes(u, t, {"client", "told"})
      /\ IF s.client.ch # 0 /\ ~s.client.connected
         THEN t.client = NoClient /\ t.told = Append(s.told, Report("rejected", s.client.ch))
         ELSE t = u
  BY <1>4, <1>5, RejectEffect
<1> HIDE DEF t
<1>7. /\ Changes(s, t, {"pending", "call", "client", "told", "em"})
      /\ t.pending = NoPending /\ t.call = v.call /\ t.em = Append(s.em, task)
  BY <1>1, <1>5, <1>6 DEF Changes, Fields
<1>8. t.client = v.client /\ t.told = v.told
  <2>1. CASE s.client.ch # 0 /\ ~s.client.connected
    BY <1>1, <1>6, <2>1
  <2>2. CASE ~(s.client.ch # 0 /\ ~s.client.connected)
    <3>1. t = u
      BY <1>6, <2>2
    <3> QED
      BY <1>1, <1>5, <2>2, <3>1
  <2> QED
    BY <2>1, <2>2
<1>9. Changes(v, t, {"em"}) /\ v.em = s.em
  BY <1>1, <1>7, <1>8 DEF Changes, Fields
<1>10. task.kind = "discard"
  BY DEF Task
<1>11. DeviceOK(t, X)
  BY <1>1, <1>2, <1>5, <1>6, <1>7, <1>9, <1>10, PostEmKeeps
<1>12. \A k : Heard(t, k) <=> Heard(s, k)
  BY <1>1, <1>6, <1>8, RejectHeard
<1>13. ~s.client.connected => t.client.ch = 0
  BY <1>1, <1>8, Nothings
<1>14. t = ProcessPreConnectionResultFailure(s)
  BY FailEffect DEF t, u, w
<1> QED
  BY <1>6, <1>7, <1>11, <1>12, <1>13, <1>14

\* A new connection becomes the pending one: nothing is pending, and the
\* client has not heard of it.
LEMMA TakeKeeps ==
  ASSUME NEW s \in DeviceStates, NEW t \in DeviceStates, NEW X, DeviceOK(s, X),
         ~s.blocked, s.pending.ch = 0, ~s.client.connected,
         Changes(s, t, {"pending", "crypt"}),
         t.pending.ch # 0, t.pending.own, ~Heard(s, t.pending.ch),
         ~HoldsFor(s.pcp, "success", t.pending.ch),
         t.pending.waits => s.call = "request" /\ ~Holds(s.pcp, "request")
  PROVE  DeviceOK(t, X)
<1>1. /\ t.call = s.call /\ t.client = s.client /\ t.pcp = s.pcp /\ t.em = s.em /\ t.told = s.told
      /\ t.blocked = s.blocked /\ t.phase = s.phase /\ t.reader = s.reader
      /\ t.notify = s.notify /\ t.active = s.active /\ s.pcp \in Seq(PcpTasks)
  BY DeviceFields DEF Changes, Fields
<1>2. Shape(t)
  BY <1>1 DEF DeviceOK, Shape
<1>3. OneCall(t)
  BY <1>1 DEF DeviceOK, OneCall
<1>4. Registering(t)
  BY <1>1 DEF DeviceOK, Registering, Holds
<1>5. Current(t, X) /\ Replaced(t, X) /\ InOrder(t, X)
  BY <1>1 DEF DeviceOK, Current, Replaced, InOrder, Over, Latest
<1>6. Settled(t, X)
  <2> SUFFICES ASSUME s.client.ch # 0, ~s.client.connected, Latest(s).ch \notin X
               PROVE  Leaving(t)
    BY <1>1 DEF Settled, Latest
  <2>1. Latest(s).ch \in Channels
    <3>1. s.told # <<>> /\ s.told \in Seq(Reports)
      BY DeviceFields DEF DeviceOK, Current
    <3>2. Latest(s) \in Reports
      BY <3>1 DEF Latest
    <3> QED
      BY <3>2 DEF Reports
  <2>2. Leaving(s)
    BY <2>1, Numbers DEF DeviceOK, Settled
  <2>3. PICK i \in DOMAIN s.pcp : s.pcp[i].kind = "disconnect"
    BY <2>2 DEF Leaving
  <2>4. \A j \in 1..i : j \in DOMAIN s.pcp
    BY <1>1
  <2>5. \A j \in 1..i : ~(t.pcp[j].kind = "success" /\ t.pcp[j].ch = t.pending.ch)
    BY <1>1, <2>4 DEF HoldsFor
  <2> QED
    BY <1>1, <2>3, <2>5 DEF Leaving
<1>7. Removing(t, X)
  BY <1>1 DEF DeviceOK, Removing
<1>8. Knows(t)
  BY <1>1 DEF DeviceOK, Knows, Heard
<1>9. Reading(t)
  BY <1>1 DEF DeviceOK, Reading
<1> QED
  BY <1>2, <1>3, <1>4, <1>5, <1>6, <1>7, <1>8, <1>9 DEF DeviceOK

\* A pending connection whose keys are agreed is not about to be cleaned up:
\* the client's entry is over, or was crossed.
LEMMA Secured ==
  ASSUME NEW s \in DeviceStates, NEW X, DeviceOK(s, X), s.pcp # <<>>,
         Head(s.pcp).kind = "success", Head(s.pcp).ch = s.pending.ch, s.pending.own, ~s.blocked
  PROVE  s.client.ch = 0 \/ Latest(s).ch \in X
<1>1. ~s.client.connected
  BY DEF DeviceOK, Shape
<1>2. ~Leaving(s)
  <2> SUFFICES ASSUME Leaving(s) PROVE FALSE
    OBVIOUS
  <2>1. PICK i \in DOMAIN s.pcp :
          \A j \in 1..i : ~(s.pcp[j].kind = "success" /\ s.pcp[j].ch = s.pending.ch)
    BY DEF Leaving
  <2>2. 1 \in 1..i /\ Head(s.pcp) = s.pcp[1]
    BY DeviceFields
  <2> QED
    BY <2>1, <2>2
<1> QED
  BY <1>1, <1>2 DEF DeviceOK, Settled

\* So does handing a secured channel to the endpoint manager thread.
LEMMA RegisterKeeps ==
  ASSUME NEW s \in DeviceStates, NEW t \in DeviceStates, NEW X, DeviceOK(s, X),
         ~s.blocked, s.pending.own, s.client.ch = 0 \/ Latest(s).ch \in X,
         NEW task \in EmTasks, task.kind = "register", task.ch = s.pending.ch,
         Changes(s, t, {"pending", "blocked", "em"}),
         t.pending.ch = s.pending.ch, ~t.pending.own, t.pending.waits = s.pending.waits,
         t.blocked, t.em = Append(s.em, task)
  PROVE  DeviceOK(t, X)
<1>1. /\ t.call = s.call /\ t.client = s.client /\ t.pcp = s.pcp /\ t.told = s.told
      /\ t.phase = s.phase /\ t.reader = s.reader
      /\ t.notify = s.notify /\ t.active = s.active /\ s.em \in Seq(EmTasks)
  BY DeviceFields DEF Changes, Fields
<1>2. Shape(t)
  BY <1>1 DEF DeviceOK, Shape
<1>3. OneCall(t)
  BY <1>1, AppendHolds, AppendSingle DEF DeviceOK, OneCall
<1>4. Registering(t)
  <2>1. \A i \in DOMAIN t.em : \/ i \in DOMAIN s.em /\ t.em[i] = s.em[i]
                               \/ t.em[i] = task
    BY <1>1, Appended
  <2>2. ~Holds(s.em, "register")
    BY DEF DeviceOK, Registering
  <2>3. Holds(t.em, "register") /\ Single(t.em, "register")
    BY <1>1, <2>2, AppendHolds, AppendSingle DEF DeviceOK, Registering
  <2>4. s.em # <<>> => t.em # <<>> /\ Head(t.em) = Head(s.em)
    BY <1>1, AppendHead
  <2>5. \A i \in DOMAIN t.em : t.em[i].kind = "register" => t.em[i].ch = t.pending.ch
    BY <2>1, <2>2 DEF Holds
  <2> QED
    BY <1>1, <2>3, <2>4, <2>5 DEF DeviceOK, Registering
<1>5. Current(t, X) /\ Replaced(t, X) /\ InOrder(t, X)
  <2>1. Current(t, X) /\ InOrder(t, X)
    BY <1>1 DEF DeviceOK, Current, InOrder, Over, Latest
  <2>2. Replaced(t, X)
    BY <1>1 DEF DeviceOK, Current, Replaced, Over, Latest
  <2> QED
    BY <2>1, <2>2
<1>6. Settled(t, X)
  BY <1>1 DEF Settled, Latest
<1>7. Removing(t, X)
  BY <1>1 DEF DeviceOK, Removing
<1>8. Knows(t)
  BY <1>1 DEF DeviceOK, Knows, Heard
<1>9. Reading(t)
  BY <1>1 DEF DeviceOK, Reading
<1> QED
  BY <1>2, <1>3, <1>4, <1>5, <1>6, <1>7, <1>8, <1>9 DEF DeviceOK

\* An answer is noted in the client's entry.
LEMMA NoteKeeps ==
  ASSUME NEW s \in DeviceStates, NEW t \in DeviceStates, NEW X, DeviceOK(s, X),
         Changes(s, t, {"client"}),
         t.client.ch = s.client.ch, t.client.connected = s.client.connected,
         s.client.ch = 0 => t.client = s.client,
         Holds(s.pcp, "request") => t.client.local = s.client.local
  PROVE  DeviceOK(t, X)
<1>1. /\ t.call = s.call /\ t.pending = s.pending /\ t.pcp = s.pcp /\ t.em = s.em /\ t.told = s.told
      /\ t.blocked = s.blocked /\ t.phase = s.phase /\ t.reader = s.reader
      /\ t.notify = s.notify /\ t.active = s.active
  BY DEF Changes, Fields
<1>2. Shape(t)
  BY <1>1 DEF DeviceOK, Shape
<1>3. OneCall(t)
  BY <1>1 DEF DeviceOK, OneCall
<1>4. Registering(t) /\ Reading(t)
  BY <1>1 DEF DeviceOK, Registering, Reading
<1>5. Current(t, X) /\ Replaced(t, X) /\ InOrder(t, X)
  BY <1>1 DEF DeviceOK, Current, Replaced, InOrder, Over, Latest
<1>6. Settled(t, X)
  BY <1>1 DEF DeviceOK, Settled, Latest, Leaving
<1>7. Removing(t, X)
  BY <1>1 DEF DeviceOK, Removing
<1>8. Knows(t)
  BY <1>1 DEF DeviceOK, Knows, Heard
<1> QED
  BY <1>2, <1>3, <1>4, <1>5, <1>6, <1>7, <1>8 DEF DeviceOK

\* The delayed close of a rejected channel changes nothing here.
LEMMA DelayedEffect ==
  ASSUME NEW s \in DeviceStates
  PROVE  DelayedClose(s) \in DeviceStates /\ Changes(s, DelayedClose(s), {})
<1> DEFINE a == IF s.alarm.ch = 0 THEN [ch |-> s.active, armed |-> TRUE] ELSE s.alarm
<1>1. a \in Alarms
  BY DeviceFields DEF Alarms
<1>2. DelayedClose(s) = [s EXCEPT !.alarm = a]
  BY DEF DelayedClose
<1> HIDE DEF a
<1> QED
  BY <1>1, <1>2 DEF DeviceStates, Changes, Fields

\* The result of a connection that both clients accepted.
LEMMA AcceptEffect ==
  ASSUME NEW s \in DeviceStates, s.client.ch # 0
  PROVE  LET c == [NoClient EXCEPT !.ch = s.client.ch, !.asked = TRUE, !.connected = TRUE]
             r == Report("accepted", s.client.ch)
             t == [Dropped(s) EXCEPT !.client = c,
                                     !.told = Append(@, [what |-> "accepted", ch |-> s.client.ch])]
         IN /\ t \in DeviceStates /\ Changes(s, t, {"pending", "call", "client", "told"})
            /\ t.pending = NoPending /\ t.call = (IF s.pending.waits THEN "idle" ELSE s.call)
            /\ t.client = c /\ t.told = Append(s.told, r)
            /\ c.ch = s.client.ch /\ c.connected /\ c.local = "none"
            /\ r \in Reports /\ r.what = "accepted" /\ r.ch = s.client.ch
<1> DEFINE u == Dropped(s)
           c == [NoClient EXCEPT !.ch = s.client.ch, !.asked = TRUE, !.connected = TRUE]
           r == Report("accepted", s.client.ch)
           t == [u EXCEPT !.client = c, !.told = Append(u.told, r)]
<1>1. s.client.ch \in Channels /\ s.client.ch \in Known
  BY ClientFields, Numbers
<1>2. c \in Clients /\ c.ch = s.client.ch /\ c.connected /\ c.local = "none"
  BY <1>1 DEF NoClient, Clients, Answers
<1>3. r \in Reports /\ r.what = "accepted" /\ r.ch = s.client.ch
  BY <1>1, Reported DEF Events
<1>4. /\ u \in DeviceStates /\ Changes(s, u, {"pending", "call"}) /\ u.pending = NoPending
      /\ u.call = IF s.pending.waits THEN "idle" ELSE s.call
  BY DropEffect
<1> HIDE DEF u, c
<1>5. Append(u.told, r) \in Seq(Reports) /\ u.told = s.told
  BY <1>3, <1>4, DeviceFields, Appended DEF Changes, Fields
<1>6. /\ t \in DeviceStates /\ Changes(u, t, {"client", "told"})
      /\ t.client = c /\ t.told = Append(u.told, r)
  BY <1>2, <1>4, <1>5 DEF DeviceStates, Changes, Fields
<1>7. /\ Changes(s, t, {"pending", "call", "client", "told"})
      /\ t.pending = NoPending /\ t.call = u.call
  <2> HIDE DEF t
  <2> QED
    BY <1>4, <1>6 DEF Changes, Fields
<1> QED
  BY <1>2, <1>3, <1>4, <1>5, <1>6, <1>7 DEF c, u, Report

\* Both clients accepted the registered connection.
LEMMA AcceptKeeps ==
  ASSUME NEW s \in DeviceStates, NEW t \in DeviceStates, NEW X, DeviceOK(s, X),
         ~s.blocked, s.active # 0, s.client.ch # 0, ~s.client.connected, ~Holds(s.pcp, "request"),
         NEW r \in Reports, r.what = "accepted", r.ch = s.client.ch,
         Changes(s, t, {"pending", "call", "client", "told"}),
         t.pending = NoPending, t.call = (IF s.pending.waits THEN "idle" ELSE s.call),
         t.client.ch = s.client.ch, t.client.connected, t.told = Append(s.told, r)
  PROVE  DeviceOK(t, X)
<1>1. /\ t.pcp = s.pcp /\ t.em = s.em /\ t.blocked = s.blocked /\ t.phase = s.phase
      /\ t.reader = s.reader /\ t.notify = s.notify /\ t.active = s.active
  BY DEF Changes, Fields
<1>2. /\ t.told # <<>> /\ Latest(t) = r /\ \A k : Heard(t, k) <=> Heard(s, k)
  <2>1. \A k : r # [what |-> "initiated", ch |-> k]
    OBVIOUS
  <2>2. /\ t.told # <<>> /\ Latest(t) = r
        /\ \A k : Heard(t, k) <=> Heard(s, k) \/ r = [what |-> "initiated", ch |-> k]
    BY Tells
  <2> QED
    BY <2>1, <2>2
<1>3. Shape(t)
  BY <1>1, Nothings DEF DeviceOK, Shape
<1>4. OneCall(t)
  BY <1>1, Nothings DEF DeviceOK, OneCall
<1>5. Registering(t) /\ Reading(t)
  BY <1>1, Nothings DEF DeviceOK, Registering, Reading, Holds
<1>6. Current(t, X) /\ Settled(t, X) /\ Replaced(t, X) /\ Removing(t, X)
  BY <1>1, <1>2 DEF DeviceOK, Current, Settled, Replaced, Removing, Shape
<1>7. Knows(t)
  BY <1>1, <1>2, Nothings DEF DeviceOK, Knows
<1>8. InOrder(t, X)
  <2>1. Follows(s, r, X)
    BY DEF DeviceOK, Current, Follows
  <2>2. InOrder(s, X)
    BY DEF DeviceOK
  <2> QED
    BY <2>1, <2>2, TellsInOrder
<1> QED
  BY <1>3, <1>4, <1>5, <1>6, <1>7, <1>8 DEF DeviceOK

\* A change of the history only.
LEMMA NoteOnly ==
  ASSUME NEW s \in DeviceStates, NEW t \in DeviceStates, NEW X, DeviceOK(s, X), Changes(s, t, {})
  PROVE  DeviceOK(t, X)
BY Unchanged, Wider

\* Discarding the endpoint keeps the invariant.
LEMMA DiscardKeeps ==
  ASSUME NEW s \in DeviceStates, NEW X, DeviceOK(s, X)
  PROVE  DeviceOK(DiscardEndpoint(s), X) /\ DiscardEndpoint(s) \in DeviceStates
<1> DEFINE t == DiscardEndpoint(s)
           task == Task("discard", s.active, "none")
<1>1. /\ t \in DeviceStates /\ Changes(s, t, {"em"}) /\ t.em = Append(s.em, task)
      /\ task \in EmTasks /\ task.kind = "discard"
  BY DiscardEffect DEF Task
<1> HIDE DEF t, task
<1>2. DeviceOK(t, X)
  BY <1>1, PostEmKeeps
<1> QED
  BY <1>1, <1>2 DEF t

\* So does closing a rejected channel.
LEMMA CloseKeeps ==
  ASSUME NEW s \in DeviceStates, NEW X, DeviceOK(s, X), NEW immediately \in BOOLEAN
  PROVE  DeviceOK(CloseRejected(s, immediately), X) /\ CloseRejected(s, immediately) \in DeviceStates
<1>1. CASE immediately
  BY <1>1, DiscardKeeps DEF CloseRejected
<1>2. CASE ~immediately
  <2>1. CloseRejected(s, immediately) = DelayedClose(s)
    BY <1>2 DEF CloseRejected
  <2> QED
    BY <2>1, DelayedEffect, NoteOnly
<1> QED
  BY <1>1, <1>2

\* So does EvaluateConnectionResult: the client hears one result.
LEMMA EvaluateKeeps ==
  ASSUME NEW s \in DeviceStates, NEW X, DeviceOK(s, X), NEW immediately \in BOOLEAN, ~s.blocked
  PROVE  LET t == EvaluateConnectionResult(s, immediately)
         IN DeviceOK(t, X) /\ t \in DeviceStates
<1> DEFINE t == EvaluateConnectionResult(s, immediately)
<1>1. CASE (~Accepted(s) /\ ~Rejected(s)) \/ s.pending.ch = 0
  BY <1>1 DEF EvaluateConnectionResult
<1>2. CASE /\ ~((~Accepted(s) /\ ~Rejected(s)) \/ s.pending.ch = 0)
           /\ s.active = 0
  <2>1. t = Dropped(s)
    BY <1>2 DEF EvaluateConnectionResult
  <2>2. s.client.ch = 0 \/ s.client.connected \/ s.phase = "awaiting"
    BY <1>2, ClientFields DEF DeviceOK, Removing
  <2> QED
    BY <2>1, <2>2, DropKeeps, DropEffect
<1>3. CASE /\ ~((~Accepted(s) /\ ~Rejected(s)) \/ s.pending.ch = 0)
           /\ s.active # 0 /\ Accepted(s)
  <2> DEFINE c == [NoClient EXCEPT !.ch = s.client.ch, !.asked = TRUE, !.connected = TRUE]
             u == [Dropped(s) EXCEPT
                     !.client = c,
                     !.told = Append(@, [what |-> "accepted", ch |-> s.client.ch])]
             r == Report("accepted", s.client.ch)
  <2>1. t = u
    BY <1>3 DEF EvaluateConnectionResult
  <2>2. s.client.ch # 0 /\ ~s.client.connected /\ ~Holds(s.pcp, "request")
    <3>1. s.client.local = "accept"
      BY <1>3 DEF Accepted
    <3>2. s.client.ch # 0
      BY <3>1, Nothings DEF DeviceOK, Shape
    <3> QED
      BY <1>3, <3>1, <3>2 DEF DeviceOK, Shape, OneCall
  <2>3. /\ u \in DeviceStates /\ Changes(s, u, {"pending", "call", "client", "told"})
        /\ u.pending = NoPending /\ u.call = (IF s.pending.waits THEN "idle" ELSE s.call)
        /\ u.client = c /\ u.told = Append(s.told, r)
        /\ c.ch = s.client.ch /\ c.connected
        /\ r \in Reports /\ r.what = "accepted" /\ r.ch = s.client.ch
    BY <2>2, AcceptEffect
  <2> HIDE DEF u, c, r, t
  <2>4. DeviceOK(u, X)
    BY <1>3, <2>2, <2>3, AcceptKeeps
  <2> QED
    BY <2>1, <2>3, <2>4 DEF t
<1>4. CASE /\ ~((~Accepted(s) /\ ~Rejected(s)) \/ s.pending.ch = 0)
           /\ s.active # 0 /\ ~Accepted(s)
  <2> DEFINE u == OnConnectionRejected(Dropped(s))
  <2>1. t = CloseRejected(u, immediately)
    BY <1>4 DEF EvaluateConnectionResult
  <2>2. DeviceOK(u, X) /\ u \in DeviceStates
    BY RejectKeeps, RejectDropEffect
  <2> HIDE DEF u
  <2> QED
    BY <2>1, <2>2, CloseKeeps
<1> QED
  BY <1>1, <1>2, <1>3, <1>4

\* The clean-up of the endpoint reaches the PcpHandler thread.
LEMMA DisconnectKeeps ==
  ASSUME NEW s \in DeviceStates, NEW t \in DeviceStates, NEW X, DeviceOK(s, X),
         ~s.blocked, s.pcp # <<>>, Head(s.pcp).kind = "disconnect",
         Changes(s, t, {"pcp", "pending", "call", "client", "told", "phase"}),
         t.pcp = Tail(s.pcp), t.pending = NoPending,
         t.call = (IF s.pending.waits THEN "idle" ELSE s.call),
         IF s.client.ch # 0 /\ ~s.client.connected
         THEN t.client = NoClient /\ t.told = Append(s.told, Report("rejected", s.client.ch))
         ELSE t.client = s.client /\ t.told = s.told,
         t.phase = (IF s.phase = "awaiting" /\ Head(s.pcp).ch = s.reader.ch
                    THEN "notified" ELSE s.phase)
  PROVE  DeviceOK(t, X)
<1>1. /\ t.em = s.em /\ t.blocked = s.blocked
      /\ t.reader = s.reader /\ t.notify = s.notify /\ t.active = s.active
      /\ s.pcp \in Seq(PcpTasks)
  BY DeviceFields DEF Changes, Fields
<1>2. t.client.ch = 0 \/ t.client.connected
  BY Nothings, ClientFields
<1>3. \A k : Heard(t, k) <=> Heard(s, k)
  BY RejectHeard
<1>4. Shape(t)
  BY <1>1, Nothings DEF DeviceOK, Shape
<1>5. OneCall(t)
  <2>1. /\ Holds(t.pcp, "request") => Holds(s.pcp, "request")
        /\ Holds(t.pcp, "answer") => Holds(s.pcp, "answer")
        /\ Single(s.pcp, "request") => Single(t.pcp, "request")
        /\ Single(s.pcp, "answer") => Single(t.pcp, "answer")
    BY <1>1, TailHolds
  <2>2. t.client = NoClient \/ t.client = s.client
    OBVIOUS
  <2>3. Holds(t.pcp, "request") =>
          t.call = "request" /\ t.client.local = "none" /\ ~t.client.connected
    BY <2>1, <2>2, Nothings DEF DeviceOK, OneCall
  <2> QED
    BY <1>1, <2>1, <2>3, Nothings DEF DeviceOK, OneCall
<1>6. Registering(t)
  BY <1>1, Nothings DEF DeviceOK, Registering, Holds
<1>7. Reading(t)
  BY <1>1, TailHolds DEF DeviceOK, Reading
<1>8. ASSUME s.client.ch # 0 /\ ~s.client.connected
      PROVE  InOrder(t, X) /\ Current(t, X)
  <2> DEFINE r == Report("rejected", s.client.ch)
  <2>1. s.client.ch \in Channels
    BY <1>8, ClientFields, Numbers
  <2>2. r \in Reports /\ r.what = "rejected" /\ r.ch = s.client.ch
    BY <2>1, Reported DEF Events
  <2>3. t.client = NoClient /\ t.told = Append(s.told, r)
    BY <1>8
  <2> HIDE DEF r
  <2>4. t.told # <<>> /\ Latest(t) = r
    BY <2>2, <2>3, Tells
  <2>5. Current(t, X)
    BY <2>2, <2>3, <2>4, Nothings DEF Current, Over
  <2>6. Follows(s, r, X) /\ InOrder(s, X)
    BY <1>8, <2>2 DEF DeviceOK, Current, Follows
  <2>7. InOrder(t, X)
    BY <2>2, <2>3, <2>6, TellsInOrder
  <2> QED
    BY <2>5, <2>7
<1>9. ASSUME ~(s.client.ch # 0 /\ ~s.client.connected)
      PROVE  InOrder(t, X) /\ Current(t, X)
  <2>1. t.client = s.client /\ t.told = s.told
    BY <1>9
  <2> QED
    BY <1>1, <2>1 DEF DeviceOK, Current, InOrder, Over, Latest
<1>10. InOrder(t, X) /\ Current(t, X)
  BY <1>8, <1>9
<1>11. Settled(t, X) /\ Replaced(t, X)
  BY <1>1, <1>2 DEF Settled, Replaced
<1>12. Removing(t, X)
  <2>1. t.client.ch # 0 => t.client = s.client
    BY Nothings
  <2>2. t.phase = "awaiting" => HoldsFor(t.pcp, "disconnect", t.reader.ch)
    <3>1. t.phase = "awaiting" => /\ HoldsFor(s.pcp, "disconnect", s.reader.ch)
                                  /\ Head(s.pcp).ch # s.reader.ch
      BY DEF DeviceOK, Removing
    <3> QED
      BY <1>1, <3>1, TailHoldsFor
  <2> QED
    BY <1>1, <1>2, <2>1, <2>2 DEF DeviceOK, Removing
<1>13. Knows(t)
  BY <1>1, <1>3, Nothings DEF DeviceOK, Knows
<1> QED
  BY <1>4, <1>5, <1>6, <1>7, <1>10, <1>11, <1>12, <1>13 DEF DeviceOK

-----------------------------------------------------------------------------
(* What keeps it: the endpoint manager thread and the reader *)

\* The registration that the PcpHandler thread waits for.
LEMMA Registered ==
  ASSUME NEW s \in DeviceStates, NEW X, DeviceOK(s, X),
         s.em # <<>>, Head(s.em).kind = "register"
  PROVE  /\ s.blocked /\ Head(s.em).ch = s.pending.ch /\ s.pending.ch \in Channels
         /\ ~s.pending.own /\ ~s.client.connected /\ ~Holds(Tail(s.em), "register")
<1>1. 1 \in DOMAIN s.em /\ Head(s.em) = s.em[1] /\ s.em \in Seq(EmTasks)
  BY DeviceFields, Removed
<1>2. Holds(s.em, "register") /\ Head(s.em).ch = s.pending.ch
  BY <1>1 DEF DeviceOK, Registering, Holds
<1>3. s.blocked /\ ~s.pending.own /\ Single(s.em, "register")
  BY <1>2 DEF DeviceOK, Registering
<1>4. ~Holds(Tail(s.em), "register")
  BY <1>1, <1>3, TailHolds
<1>5. s.pending.ch # 0 /\ ~s.client.connected
  BY <1>3 DEF DeviceOK, Shape
<1> QED
  BY <1>2, <1>3, <1>4, <1>5, PendingFields, Numbers

\* Registering an endpoint reports the initiation of its connection first.
LEMMA RegisterEndpointKeeps ==
  ASSUME NEW s \in DeviceStates, NEW t \in DeviceStates, NEW X, DeviceOK(s, X),
         s.em # <<>>, Head(s.em).kind = "register", s.phase = "idle", s.reader = NoReader,
         NEW k, k = Head(s.em).ch,
         Changes(s, t, {"em", "active", "reader", "client", "told", "blocked", "pending", "call"}),
         t.em = Tail(s.em), t.active = k, t.reader = [ch |-> k, state |-> "reading"],
         t.client = (IF s.client.ch = 0 THEN [NoClient EXCEPT !.ch = k] ELSE s.client),
         t.told = Append(s.told, Report("initiated", k)),
         ~t.blocked, t.pending = [s.pending EXCEPT !.waits = FALSE],
         t.call = (IF s.pending.waits THEN "idle" ELSE s.call)
  PROVE  DeviceOK(t, X)
<1> DEFINE r == Report("initiated", k)
<1>1. /\ t.pcp = s.pcp /\ t.phase = s.phase /\ t.notify = s.notify /\ s.em \in Seq(EmTasks)
  BY DeviceFields DEF Changes, Fields
<1>2. /\ s.blocked /\ k = s.pending.ch /\ k \in Channels /\ k # 0
      /\ ~s.pending.own /\ ~s.client.connected /\ ~Holds(Tail(s.em), "register")
  BY Registered, Numbers
<1>3. r \in Reports /\ r.what = "initiated" /\ r.ch = k
  BY <1>2, Reported DEF Events
<1>4. /\ t.pending.ch = k /\ ~t.pending.own /\ ~t.pending.waits
      /\ t.reader.ch = k /\ t.reader.state = "reading"
  BY <1>2, DeviceFields DEF Pendings
<1>5. /\ t.client.ch = (IF s.client.ch = 0 THEN k ELSE s.client.ch) /\ ~t.client.connected
      /\ t.client.ch # 0
      /\ t.client.local = (IF s.client.ch = 0 THEN "none" ELSE s.client.local)
  <2>1. /\ [NoClient EXCEPT !.ch = k].ch = k /\ ~[NoClient EXCEPT !.ch = k].connected
        /\ [NoClient EXCEPT !.ch = k].local = "none"
    BY DEF NoClient
  <2> QED
    BY <1>2, <2>1
<1> HIDE DEF r
<1>6. /\ t.told # <<>> /\ Latest(t) = r /\ Heard(t, k)
  <2>1. r = [what |-> "initiated", ch |-> k]
    BY <1>3, ReportIs
  <2>2. t.told = Append(s.told, r)
    BY DEF r
  <2>3. t.told # <<>> /\ Latest(t) = r
    <3>1. r \in Reports /\ t.told = Append(s.told, r)
      BY <1>3, <2>2
    <3> QED
      BY ONLY <3>1, Tells, s \in DeviceStates, t \in DeviceStates
  <2>4. Heard(t, k) <=> Heard(s, k) \/ r = [what |-> "initiated", ch |-> k]
    BY <1>3, <2>2, Tells
  <2> QED
    BY <2>1, <2>3, <2>4
<1>7. Shape(t)
  BY <1>1, <1>4, <1>5 DEF DeviceOK, Shape
<1>8. OneCall(t)
  <2>1. /\ Holds(t.em, "unregister") => Holds(s.em, "unregister")
        /\ Single(s.em, "unregister") => Single(t.em, "unregister")
    BY <1>1, TailHolds
  <2>2. Holds(s.pcp, "request") => t.client.local = "none"
    BY <1>5 DEF DeviceOK, OneCall
  <2>3. Holds(s.pcp, "request") => t.call = "request"
    BY DEF DeviceOK, OneCall
  <2>4. Holds(s.pcp, "answer") => t.call = "answer"
    BY DEF DeviceOK, OneCall
  <2>5. Holds(t.em, "unregister") => t.call = "leave"
    BY <2>1 DEF DeviceOK, OneCall
  <2> QED
    BY <1>1, <1>4, <1>5, <2>1, <2>2, <2>3, <2>4, <2>5 DEF DeviceOK, OneCall
<1>9. Registering(t)
  <2>1. Single(t.em, "register") /\ ~Holds(t.em, "register")
    BY <1>1, <1>2, TailHolds DEF DeviceOK, Registering
  <2> QED
    BY <1>1, <1>4, <2>1 DEF Registering, Holds
<1>10. Reading(t)
  <2>1. ~Holds(s.pcp, "response")
    BY Nothings DEF DeviceOK, Reading
  <2> QED
    BY <1>1, <1>2, <1>4, <2>1 DEF DeviceOK, Reading
<1>11. InOrder(t, X)
  <2>1. Follows(s, r, X) /\ InOrder(s, X)
    BY <1>2, <1>3 DEF DeviceOK, Replaced, Over, Follows
  <2>2. t.told = Append(s.told, r)
    BY DEF r
  <2> QED
    BY <1>3, <2>1, <2>2, TellsInOrder
<1>12. Current(t, X)
  <2>1. s.client.ch = 0 \/ s.client.ch \in X
    BY <1>2 DEF DeviceOK, Replaced
  <2> QED
    BY <1>3, <1>5, <1>6, <2>1 DEF Current
<1>13. Settled(t, X) /\ Replaced(t, X)
  BY <1>3, <1>4, <1>6 DEF Settled, Replaced
<1>14. Removing(t, X)
  BY <1>1, <1>2 DEF Removing
<1>15. Knows(t)
  BY <1>4, <1>6 DEF Knows
<1> QED
  BY <1>7, <1>8, <1>9, <1>10, <1>11, <1>12, <1>13, <1>14, <1>15 DEF DeviceOK

\* A registered endpoint is registered again: its state goes first.
LEMMA DuplicateKeeps ==
  ASSUME NEW s \in DeviceStates, NEW t \in DeviceStates, NEW X, DeviceOK(s, X), s.phase = "idle",
         \/ /\ s.em # <<>> /\ Head(s.em).kind = "register"
            /\ Changes(s, t, {"active"}) /\ t.active = 0
         \/ /\ s.active = 0 /\ s.reader.state = "gone"
            /\ Changes(s, t, {"reader"}) /\ t.reader = NoReader
  PROVE  DeviceOK(t, X)
<1>1. /\ t.call = s.call /\ t.client = s.client /\ t.pending = s.pending /\ t.pcp = s.pcp
      /\ t.em = s.em /\ t.told = s.told /\ t.blocked = s.blocked /\ t.phase = s.phase
      /\ t.notify = s.notify
  BY DEF Changes, Fields
<1>2. \/ t.active = 0 /\ t.reader = s.reader /\ s.blocked
      \/ t.active = s.active /\ s.active = 0 /\ t.reader = NoReader /\ s.reader.state = "gone"
  BY Registered DEF Changes, Fields
<1>3. Shape(t)
  BY <1>1, <1>2 DEF DeviceOK, Shape
<1>4. OneCall(t) /\ Registering(t)
  BY <1>1 DEF DeviceOK, OneCall, Registering
<1>5. Reading(t)
  BY <1>1, <1>2, Nothings DEF DeviceOK, Reading
<1>6. Current(t, X) /\ Replaced(t, X) /\ InOrder(t, X)
  BY <1>1 DEF DeviceOK, Current, Replaced, InOrder, Over, Latest
<1>7. Settled(t, X)
  BY <1>1 DEF DeviceOK, Settled, Latest, Leaving
<1>8. Removing(t, X)
  BY <1>1, <1>2 DEF DeviceOK, Removing
<1>9. Knows(t)
  BY <1>1, <1>2, Nothings DEF DeviceOK, Knows, Heard
<1> QED
  BY <1>3, <1>4, <1>5, <1>6, <1>7, <1>8, <1>9 DEF DeviceOK

\* A removal is done; the call that asked for it returns.
LEMMA RemovedKeeps ==
  ASSUME NEW s \in DeviceStates, NEW t \in DeviceStates, NEW X, DeviceOK(s, X),
         s.em # <<>>, Head(s.em).kind \in Removals, s.phase = "idle",
         Changes(s, t, {"em", "call"}), t.em = Tail(s.em),
         t.call = (IF Head(s.em).kind = "unregister" THEN "idle" ELSE s.call)
  PROVE  DeviceOK(t, X)
<1> DEFINE u == [s EXCEPT !.em = Tail(s.em)]
<1>1. Tail(s.em) \in Seq(EmTasks) /\ s.em \in Seq(EmTasks)
  BY DeviceFields, Removed
<1>2. u \in DeviceStates /\ Changes(s, u, {"em"}) /\ u.em = Tail(s.em)
  BY <1>1 DEF DeviceStates, Changes, Fields
<1> HIDE DEF u
<1>3. DeviceOK(u, X)
  BY <1>2, ManagedKeeps DEF Removals
<1>4. /\ Changes(u, t, {"call"}) /\ u.call = s.call /\ u.pcp = s.pcp
      /\ u.pending = s.pending
  BY <1>2 DEF Changes, Fields
<1>5. CASE Head(s.em).kind = "unregister"
  <2>1. Holds(s.em, "unregister") /\ ~Holds(Tail(s.em), "unregister")
    BY <1>1, <1>5, TailHolds DEF DeviceOK, OneCall
  <2>2. s.call = "leave"
    BY <2>1 DEF DeviceOK, OneCall
  <2>3. ~Holds(s.pcp, "request") /\ ~Holds(s.pcp, "answer") /\ ~s.pending.waits
    BY <2>2 DEF DeviceOK, OneCall
  <2> QED
    BY <1>2, <1>3, <1>4, <1>5, <2>1, <2>3, ReturnKeeps
<1>6. CASE Head(s.em).kind # "unregister"
  <2>1. Changes(u, t, {})
    BY <1>4, <1>6 DEF Changes, Fields
  <2> QED
    BY <1>2, <1>3, <2>1, NoteOnly
<1> QED
  BY <1>5, <1>6

\* The registered channel is removed; the PcpHandler thread is told.
LEMMA RemoveKeeps ==
  ASSUME NEW s \in DeviceStates, NEW t \in DeviceStates, NEW X, DeviceOK(s, X),
         s.em # <<>>, Head(s.em).kind \in Removals, s.phase = "idle", s.active # 0,
         NEW task \in PcpTasks, task.kind = "disconnect", task.ch = s.active,
         Changes(s, t, {"pcp", "active", "phase", "notify"}), t.pcp = Append(s.pcp, task),
         t.active = 0, t.phase = "awaiting", t.notify = s.client.connected
  PROVE  DeviceOK(t, X)
<1> DEFINE u == [s EXCEPT !.pcp = t.pcp]
<1>1. u \in DeviceStates /\ Changes(s, u, {"pcp"}) /\ u.pcp = t.pcp
  BY DeviceFields DEF DeviceStates, Changes, Fields
<1> HIDE DEF u
<1>2. DeviceOK(u, X)
  BY <1>1, PostPcpKeeps
<1>3. Changes(u, t, {"active", "phase", "notify"})
  BY <1>1 DEF Changes, Fields
<1>4. /\ t.call = u.call /\ t.client = u.client /\ t.pending = u.pending /\ t.pcp = u.pcp
      /\ t.em = u.em /\ t.told = u.told /\ t.blocked = u.blocked /\ t.reader = u.reader
      /\ u.em = s.em /\ u.client = s.client /\ t.reader = s.reader
  BY <1>1, <1>3 DEF Changes, Fields
<1>5. Shape(t)
  BY <1>2, <1>4 DEF DeviceOK, Shape
<1>6. OneCall(t) /\ Registering(t) /\ Reading(t)
  BY <1>2, <1>4 DEF DeviceOK, OneCall, Registering, Reading
<1>7. Current(t, X) /\ Replaced(t, X) /\ InOrder(t, X)
  BY <1>2, <1>4 DEF DeviceOK, Current, Replaced, InOrder, Over, Latest
<1>8. Settled(t, X)
  BY <1>2, <1>4 DEF DeviceOK, Settled, Latest, Leaving
<1>9. Removing(t, X)
  <2>1. s.reader.ch = s.active
    BY DEF DeviceOK, Shape
  <2>2. HoldsFor(t.pcp, "disconnect", t.reader.ch)
    <3>1. /\ s.pcp \in Seq(PcpTasks) /\ t.reader.ch = s.active
          /\ t.pcp = Append(s.pcp, task)
      BY <1>4, <2>1, DeviceFields
    <3>2. HoldsFor(Append(s.pcp, task), "disconnect", s.active)
      BY <3>1, AppendHoldsFor
    <3> QED
      BY <3>1, <3>2
  <2> QED
    BY <1>4, <2>2 DEF Removing
<1>10. Knows(t)
  BY <1>2, <1>4 DEF DeviceOK, Knows, Heard
<1> QED
  BY <1>5, <1>6, <1>7, <1>8, <1>9, <1>10 DEF DeviceOK

\* While the PcpHandler thread waits for a registration, the pending connection
\* is another one than the channel that is read, and the clean-up crosses it.
LEMMA Crosses ==
  ASSUME NEW s \in DeviceStates, NEW X, DeviceOK(s, X), s.blocked
  PROVE  s.pending.ch \in {s.pending.ch, s.client.ch} \ {0, s.reader.ch}
BY DEF DeviceOK, Shape, Knows

\* So does giving up the wait for the disconnection, on a channel that was crossed.
LEMMA StopKeeps ==
  ASSUME NEW s \in DeviceStates, NEW t \in DeviceStates, NEW X, DeviceOK(s, X),
         s.blocked, s.pending.ch \in X, s.phase = "awaiting",
         Changes(s, t, {"phase"}), t.phase = "notified"
  PROVE  DeviceOK(t, X)
<1>1. /\ t.call = s.call /\ t.client = s.client /\ t.pending = s.pending /\ t.pcp = s.pcp
      /\ t.em = s.em /\ t.told = s.told /\ t.blocked = s.blocked /\ t.reader = s.reader
      /\ t.notify = s.notify /\ t.active = s.active
  BY DEF Changes, Fields
<1>2. Shape(t) /\ OneCall(t) /\ Reading(t)
  BY <1>1 DEF DeviceOK, Shape, OneCall, Reading
<1>3. Registering(t)
  BY <1>1 DEF DeviceOK, Registering
<1>4. Current(t, X) /\ Replaced(t, X) /\ InOrder(t, X)
  <2>1. Over(t, X) <=> Over(s, X)
    BY <1>1 DEF Over, Latest
  <2>2. Current(t, X)
    BY <1>1, <2>1 DEF DeviceOK, Current, Latest
  <2>3. Replaced(t, X)
    BY <1>1, <2>1 DEF DeviceOK, Replaced
  <2>4. InOrder(t, X)
    BY <1>1 DEF DeviceOK, InOrder
  <2> QED
    BY <2>2, <2>3, <2>4
<1>5. Settled(t, X)
  BY <1>1 DEF DeviceOK, Settled, Latest, Leaving
<1>6. Removing(t, X) /\ Knows(t)
  BY <1>1 DEF DeviceOK, Removing, Knows, Heard
<1> QED
  BY <1>2, <1>3, <1>4, <1>5, <1>6 DEF DeviceOK

\* The client's entry ends; an accepted client hears of it.
LEMMA EndKeeps ==
  ASSUME NEW s \in DeviceStates, NEW t \in DeviceStates, NEW X, DeviceOK(s, X),
         s.phase = "notified", Changes(s, t, {"phase", "client", "told"}),
         t.phase = "joining", t.client = NoClient,
         t.told = IF s.notify /\ s.client.ch # 0
                  THEN Append(s.told, Report("disconnected", s.client.ch)) ELSE s.told
  PROVE  DeviceOK(t, X)
<1>1. /\ t.call = s.call /\ t.pending = s.pending /\ t.pcp = s.pcp
      /\ t.em = s.em /\ t.blocked = s.blocked /\ t.reader = s.reader
      /\ t.notify = s.notify /\ t.active = s.active
  BY DEF Changes, Fields
<1>2. Shape(t)
  BY <1>1, Nothings DEF DeviceOK, Shape
<1>3. OneCall(t) /\ Registering(t) /\ Reading(t)
  BY <1>1, Nothings DEF DeviceOK, OneCall, Registering, Reading
<1>4. Settled(t, X) /\ Removing(t, X)
  BY Nothings DEF Settled, Removing
<1>5. ASSUME s.notify /\ s.client.ch # 0
      PROVE  /\ InOrder(t, X) /\ Over(t, X)
             /\ \A k : Heard(t, k) <=> Heard(s, k)
  <2> DEFINE r == Report("disconnected", s.client.ch)
  <2>1. s.client.ch \in Channels
    BY <1>5, ClientFields, Numbers
  <2>2. r \in Reports /\ r.what = "disconnected" /\ r.ch = s.client.ch
    BY <2>1, Reported DEF Events
  <2>3. t.told = Append(s.told, r)
    BY <1>5
  <2> HIDE DEF r
  <2>4. /\ t.told # <<>> /\ Latest(t) = r
        /\ \A k : Heard(t, k) <=> Heard(s, k) \/ r = [what |-> "initiated", ch |-> k]
    BY <2>2, <2>3, Tells
  <2>5. \A k : r # [what |-> "initiated", ch |-> k]
    BY <2>2
  <2>6. s.client.connected
    BY <1>5 DEF DeviceOK, Removing
  <2>7. Follows(s, r, X) /\ InOrder(s, X)
    BY <1>5, <2>2, <2>6 DEF DeviceOK, Current, Follows
  <2>8. InOrder(t, X)
    BY <2>2, <2>3, <2>7, TellsInOrder
  <2> QED
    BY <2>2, <2>4, <2>5, <2>8 DEF Over
<1>6. ASSUME ~(s.notify /\ s.client.ch # 0)
      PROVE  /\ (InOrder(t, X) /\ Over(t, X)) \/ (t.blocked /\ t.pending.ch \in X)
             /\ \A k : Heard(t, k) <=> Heard(s, k)
  <2>1. t.told = s.told
    BY <1>6
  <2>2. Over(s, X) \/ (s.blocked /\ s.pending.ch \in X)
    <3>1. s.client.ch # 0 => s.notify = s.client.connected
      BY DEF DeviceOK, Removing
    <3> QED
      BY <1>6, <3>1, ClientFields DEF DeviceOK, Removing, Current
  <2> QED
    BY <1>1, <2>1, <2>2 DEF DeviceOK, InOrder, Over, Latest, Heard
<1>7. InOrder(t, X)
  BY <1>5, <1>6 DEF DeviceOK, InOrder
<1>8. Current(t, X) /\ Replaced(t, X)
  <2>1. Over(t, X) \/ (t.blocked /\ t.pending.ch \in X)
    BY <1>5, <1>6
  <2> QED
    BY <2>1, Nothings DEF Current, Replaced
<1>9. Knows(t)
  <2>1. \A k : Heard(t, k) <=> Heard(s, k)
    BY <1>5, <1>6
  <2> QED
    BY <1>1, <2>1 DEF DeviceOK, Knows
<1> QED
  BY <1>2, <1>3, <1>4, <1>7, <1>8, <1>9 DEF DeviceOK

-----------------------------------------------------------------------------
(* Requests are served once *)

\* The step from s to t uses no channel that s did not use, but j.
Quiet(s, t, j) ==
  /\ Once(s.pcp) => Once(t.pcp)
  /\ \A k \in Channels :
       /\ HoldsFor(t.pcp, "request", k) => HoldsFor(s.pcp, "request", k)
       /\ HoldsFor(t.pcp, "incoming", k) => HoldsFor(s.pcp, "incoming", k)
       /\ Used(t, k) => Used(s, k) \/ k = j

\* After a step that puts no new channel in use, another puts in use what it does alone.
LEMMA QuietQuiet ==
  ASSUME NEW s, NEW t, NEW u, NEW j, Quiet(s, t, 0), Quiet(t, u, j)
  PROVE  Quiet(s, u, j)
BY Numbers DEF Quiet

\* Whether a channel is in use depends on few fields.
LEMMA UsedChanges ==
  ASSUME NEW s, NEW t, NEW k, Changes(s, t, Fields \ {"told", "crypt", "pcp", "pending"})
  PROVE  Used(t, k) <=> Used(s, k)
BY DEF Changes, Fields, Used, Heard, InCrypt

\* A change of other fields puts no channel in use.
LEMMA QuietElsewhere ==
  ASSUME NEW s, NEW t, Changes(s, t, Fields \ {"told", "crypt", "pcp", "pending"})
  PROVE  Quiet(s, t, 0)
<1>1. t.pcp = s.pcp
  BY DEF Changes, Fields
<1> QED
  BY <1>1, UsedChanges DEF Quiet

\* A request is in the queue at most once; so it is after a task is taken,
LEMMA TailOnce ==
  ASSUME NEW q \in Seq(PcpTasks), q # <<>>, Once(q)
  PROVE  Once(Tail(q))
<1> SUFFICES ASSUME NEW i \in DOMAIN Tail(q), NEW j \in DOMAIN Tail(q),
                    Tail(q)[i].kind \in {"request", "incoming"},
                    Tail(q)[j].kind \in {"request", "incoming"}, Tail(q)[i].ch = Tail(q)[j].ch
             PROVE  i = j
  BY DEF Once
<1>1. /\ i + 1 \in DOMAIN q /\ Tail(q)[i] = q[i + 1] /\ i \in Nat
      /\ j + 1 \in DOMAIN q /\ Tail(q)[j] = q[j + 1] /\ j \in Nat
  BY Removed
<1>2. i + 1 = j + 1
  BY <1>1 DEF Once
<1> QED
  BY <1>1, <1>2

\* and after another one is posted.
LEMMA AppendOnce ==
  ASSUME NEW q \in Seq(PcpTasks), NEW t \in PcpTasks, Once(q),
         t.kind \in {"request", "incoming"} =>
           ~HoldsFor(q, "request", t.ch) /\ ~HoldsFor(q, "incoming", t.ch)
  PROVE  Once(Append(q, t))
<1> SUFFICES ASSUME NEW i \in DOMAIN Append(q, t), NEW j \in DOMAIN Append(q, t),
                    Append(q, t)[i].kind \in {"request", "incoming"},
                    Append(q, t)[j].kind \in {"request", "incoming"},
                    Append(q, t)[i].ch = Append(q, t)[j].ch
             PROVE  i = j
  BY DEF Once
<1>1. \A n \in DOMAIN Append(q, t) : \/ n \in DOMAIN q /\ Append(q, t)[n] = q[n]
                                     \/ n = Len(q) + 1 /\ Append(q, t)[n] = t
  BY Appended
<1>2. CASE i \in DOMAIN q /\ Append(q, t)[i] = q[i] /\ j \in DOMAIN q /\ Append(q, t)[j] = q[j]
  BY <1>2 DEF Once
<1>3. CASE i \in DOMAIN q /\ Append(q, t)[i] = q[i] /\ Append(q, t)[j] = t
  BY <1>3 DEF HoldsFor
<1>4. CASE j \in DOMAIN q /\ Append(q, t)[j] = q[j] /\ Append(q, t)[i] = t
  BY <1>4 DEF HoldsFor
<1> QED
  BY <1>1, <1>2, <1>3, <1>4

\* Taking a task puts no new channel in use.
LEMMA QuietPop ==
  ASSUME NEW s \in DeviceStates, NEW t \in DeviceStates, s.pcp # <<>>, t.pcp = Tail(s.pcp),
         Changes(s, t, Fields \ {"told", "crypt", "pending"})
  PROVE  Quiet(s, t, 0)
<1>1. t.told = s.told /\ t.crypt = s.crypt /\ t.pending = s.pending /\ s.pcp \in Seq(PcpTasks)
  BY DeviceFields DEF Changes, Fields
<1>2. \A kind, k : HoldsFor(t.pcp, kind, k) => HoldsFor(s.pcp, kind, k)
  BY <1>1, TailHoldsFor
<1>3. Once(s.pcp) => Once(t.pcp)
  BY <1>1, TailOnce
<1> QED
  BY <1>1, <1>2, <1>3 DEF Quiet, Used, Heard, InCrypt

\* Posting a task of another kind puts no channel in use.
LEMMA QuietPost ==
  ASSUME NEW s \in DeviceStates, NEW t \in DeviceStates,
         NEW task \in PcpTasks, task.kind \notin {"request", "incoming"},
         task.kind = "success" => Used(s, task.ch), t.pcp = Append(s.pcp, task),
         Changes(s, t, Fields \ {"told", "crypt", "pending"})
  PROVE  Quiet(s, t, 0)
<1>1. t.told = s.told /\ t.crypt = s.crypt /\ t.pending = s.pending /\ s.pcp \in Seq(PcpTasks)
  BY DeviceFields DEF Changes, Fields
<1>2. /\ \A kind, k : HoldsFor(t.pcp, kind, k) =>
                        HoldsFor(s.pcp, kind, k) \/ (task.kind = kind /\ task.ch = k)
  BY <1>1, AppendHoldsFor
<1>3. Once(s.pcp) => Once(t.pcp)
  BY <1>1, AppendOnce
<1>4. \A k : Used(t, k) => Used(s, k)
  BY <1>1, <1>2 DEF Used, Heard, InCrypt
<1> QED
  BY <1>2, <1>3, <1>4 DEF Quiet

\* The pending entry goes, the client is told of an end.
LEMMA QuietDrop ==
  ASSUME NEW s, NEW t, Changes(s, t, Fields \ {"crypt", "pcp"}),
         t.pending = s.pending \/ t.pending = NoPending \/ t.pending.ch = s.pending.ch,
         \A k : Heard(t, k) => Heard(s, k) \/ k = s.pending.ch
  PROVE  Quiet(s, t, 0)
<1>1. t.pcp = s.pcp /\ t.crypt = s.crypt
  BY DEF Changes, Fields
<1>2. \A k \in Channels : Used(t, k) => Used(s, k)
  BY <1>1, Nothings, Numbers DEF Used, InCrypt
<1> QED
  BY <1>1, <1>2 DEF Quiet

\* A request that is taken is not in the queue any more.
LEMMA Served ==
  ASSUME NEW s \in DeviceStates, s.pcp # <<>>, Once(s.pcp),
         Head(s.pcp).kind \in {"request", "incoming"}
  PROVE  LET k == Head(s.pcp).ch
         IN /\ k \in Channels
            /\ HoldsFor(s.pcp, Head(s.pcp).kind, k)
            /\ Arrives(s, k)
            /\ ~HoldsFor(Tail(s.pcp), "request", k) /\ ~HoldsFor(Tail(s.pcp), "incoming", k)
<1> DEFINE k == Head(s.pcp).ch
           q == Tail(s.pcp)
<1>1. s.pcp \in Seq(PcpTasks) /\ Head(s.pcp) \in PcpTasks /\ Head(s.pcp) = s.pcp[1] /\ 1 \in DOMAIN s.pcp
  BY DeviceFields, Removed
<1>2. k \in Channels
  BY <1>1 DEF PcpTasks
<1>3. HoldsFor(s.pcp, Head(s.pcp).kind, k)
  BY <1>1 DEF HoldsFor
<1>4. ASSUME NEW i \in DOMAIN q, q[i].kind \in {"request", "incoming"}, q[i].ch = k
      PROVE  FALSE
  <2>1. i + 1 \in DOMAIN s.pcp /\ q[i] = s.pcp[i + 1] /\ i \in 1..Len(s.pcp) - 1
    BY <1>1, Removed
  <2>2. i + 1 = 1
    BY <1>1, <1>4, <2>1 DEF Once
  <2> QED
    BY <1>1, <2>1, <2>2
<1>5. ~HoldsFor(q, "request", k) /\ ~HoldsFor(q, "incoming", k)
  BY <1>4 DEF HoldsFor
<1> QED
  BY <1>2, <1>3, <1>5 DEF Arrives

-----------------------------------------------------------------------------
(* A step of one device *)

\* What the invariant says of the device that takes a step.
LEMMA Given ==
  ASSUME IInv, NEW d \in Devices
  PROVE  /\ dev[d] \in DeviceStates /\ DeviceOK(dev[d], hist.crossed) /\ Once(dev[d].pcp)
         /\ chan \in Chans /\ hist \in Histories
BY DEF IInv, Types, Fresh, Chans

\* A channel is requested at most once, whoever takes a step.
LEMMA FreshStep ==
  ASSUME Fresh, NEW d \in Devices, NEW t, dev' = [dev EXCEPT ![d] = t],
         dev \in [Devices -> DeviceStates],
         hist'.requests = hist.requests, NEW j, Quiet(dev[d], t, j),
         j # 0 => Arrives(dev[d], j) /\ ~Arrives(t, j)
  PROVE  Fresh'
<1>1. dev'[d] = t /\ \A e \in Devices : e # d => dev'[e] = dev[e]
  OBVIOUS
<1>2. \A e \in Devices : Once(dev'[e].pcp)
  BY <1>1 DEF Fresh, Quiet
<1>3. \A e \in Devices : \A k \in Channels :
        /\ HoldsFor(dev'[e].pcp, "request", k) => HoldsFor(dev[e].pcp, "request", k)
        /\ HoldsFor(dev'[e].pcp, "incoming", k) => HoldsFor(dev[e].pcp, "incoming", k)
        /\ Used(dev'[e], k) => Used(dev[e], k) \/ (e = d /\ k = j)
  BY <1>1 DEF Quiet
<1>4. ASSUME NEW e \in Devices, NEW k \in Channels
      PROVE  /\ k > hist.requests => ~Arrives(dev'[e], k) /\ ~Used(dev'[e], k)
             /\ Arrives(dev'[e], k) => ~Used(dev'[e], k)
  <2>1. Arrives(dev'[e], k) => Arrives(dev[e], k)
    BY <1>3 DEF Arrives
  <2>2. k = j => Arrives(dev[d], k) /\ (e = d => ~Arrives(dev'[e], k))
    BY <1>1, Numbers
  <2> QED
    BY <1>3, <2>1, <2>2 DEF Fresh
<1>5. ASSUME NEW e \in Devices, NEW k \in Channels, HoldsFor(dev'[e].pcp, "request", k)
      PROVE  /\ e = Callers[k]
             /\ \A f \in Devices : ~Used(dev'[f], k) /\ ~HoldsFor(dev'[f].pcp, "incoming", k)
  <2>1. /\ HoldsFor(dev[e].pcp, "request", k) /\ e = Callers[k]
        /\ \A f \in Devices : ~Used(dev[f], k) /\ ~HoldsFor(dev[f].pcp, "incoming", k)
    BY <1>3, <1>5 DEF Fresh
  <2>2. k # j
    <3> SUFFICES ASSUME k = j PROVE FALSE
      OBVIOUS
    <3>1. Arrives(dev[d], k) /\ ~Arrives(t, k)
      BY Numbers
    <3>2. HoldsFor(dev[d].pcp, "request", k)
      BY <2>1, <3>1 DEF Arrives
    <3>3. d = e
      BY <2>1, <3>2 DEF Fresh
    <3> QED
      BY <1>1, <1>5, <3>1, <3>3 DEF Arrives
  <2> QED
    BY <1>3, <2>1, <2>2
<1>6. \A e \in Devices : \A k \in Channels : HoldsFor(dev'[e].pcp, "incoming", k) => e # Callers[k]
  BY <1>3 DEF Fresh
<1> QED
  BY <1>2, <1>4, <1>5, <1>6 DEF Fresh

\* What a step of one device has to show.
LEMMA Step ==
  ASSUME IInv, NEW d \in Devices, NEW t \in DeviceStates, Update(d, t),
         chan' \in Chans, hist' \in Histories,
         hist.crossed \subseteq hist'.crossed, hist'.requests = hist.requests,
         DeviceOK(t, hist'.crossed), NEW j, Quiet(dev[d], t, j),
         j # 0 => Arrives(dev[d], j) /\ ~Arrives(t, j)
  PROVE  IInv'
<1>1. /\ dev \in [Devices -> DeviceStates] /\ dev' = [dev EXCEPT ![d] = t] /\ Fresh
  BY DEF IInv, Types, Update
<1>2. dev' \in [Devices -> DeviceStates] /\ dev'[d] = t /\ \A e \in Devices : e # d => dev'[e] = dev[e]
  BY <1>1
<1>3. Fresh'
  BY <1>1, FreshStep
<1>4. ASSUME NEW e \in Devices PROVE DeviceOK(dev'[e], hist'.crossed)
  <2>1. CASE e = d
    BY <1>2, <2>1
  <2>2. CASE e # d
    BY <1>2, <2>2, Given, Excuse
  <2> QED
    BY <2>1, <2>2
<1> QED
  BY <1>2, <1>3, <1>4 DEF IInv, Types, Chans

-----------------------------------------------------------------------------
(* The history and the channels *)

\* The fields of the history.
LEMMA HistFields ==
  ASSUME NEW h \in Histories
  PROVE  /\ h.requests \in 0..Len(Callers) /\ h.faults \in 0..MaxFaults
         /\ h.outgoing \subseteq Channels /\ h.crossed \subseteq Channels
         /\ h.silent \subseteq Channels
         /\ h.said \in [Devices -> [Channels -> Answers \cup {"none"}]]
BY DEF Histories

\* A fault is counted.
LEMMA FaultedTyped ==
  ASSUME hist \in Histories, NEW kind, Fault(kind)
  PROVE  /\ Faulted \in Histories /\ Faulted.crossed = hist.crossed
         /\ Faulted.requests = hist.requests /\ Faulted.said = hist.said
<1>1. hist.faults + 1 \in 0..MaxFaults
  BY HistFields, Numbers DEF Fault
<1> QED
  BY <1>1 DEF Faulted, Histories

\* Channels hit by another one's clean-up are noted.
LEMMA CrossedTyped ==
  ASSUME NEW h \in Histories, NEW K, K \subseteq Channels
  PROVE  LET g == [h EXCEPT !.crossed = @ \cup K]
         IN /\ g \in Histories /\ h.crossed \subseteq g.crossed /\ K \subseteq g.crossed
            /\ g.requests = h.requests
<1>1. h.crossed \cup K \in SUBSET Channels
  BY HistFields
<1> QED
  BY <1>1 DEF Histories

\* Closing the channel of an entry gives a map of channels.
LEMMA PendingClosed ==
  ASSUME NEW c \in Chans, NEW d \in Devices, NEW s \in DeviceStates, s.pending.own => s.pending.ch # 0
  PROVE  ClosedPending(c, d, s) \in Chans
<1>1. CASE s.pending.own
  <2>1. s.pending.ch \in Channels
    BY <1>1, PendingFields, Numbers
  <2> QED
    BY <1>1, <2>1, ClosedTyped DEF ClosedPending
<1>2. CASE ~s.pending.own
  BY <1>2 DEF ClosedPending
<1> QED
  BY <1>1, <1>2

\* An entry that owns its channel has one.
LEMMA OwnsOne ==
  ASSUME NEW s, NEW X, DeviceOK(s, X)
  PROVE  s.pending.own => s.pending.ch # 0
BY DEF DeviceOK, Shape

-----------------------------------------------------------------------------
(* The PcpHandler thread *)

\* The task it takes from its queue.
LEMMA Takes ==
  ASSUME IInv, NEW d \in Devices, NEW kind, Runs(d, kind)
  PROVE  /\ dev[d] \in DeviceStates /\ dev[d].pcp # <<>> /\ ~dev[d].blocked
         /\ Now(d) = Head(dev[d].pcp) /\ Now(d).kind = kind /\ Now(d).ch \in Channels
         /\ kind \in {"answer", "response"} => Now(d).answer \in Answers
         /\ Popped(d) \in DeviceStates /\ Changes(dev[d], Popped(d), {"pcp"})
         /\ Popped(d).pcp = Tail(dev[d].pcp) /\ Quiet(dev[d], Popped(d), 0)
         /\ kind # "disconnect" => DeviceOK(Popped(d), hist.crossed)
<1>1. /\ dev[d] \in DeviceStates /\ DeviceOK(dev[d], hist.crossed)
      /\ dev[d].pcp # <<>> /\ ~dev[d].blocked /\ Now(d) = Head(dev[d].pcp) /\ Now(d).kind = kind
  BY Given DEF Runs, Now
<1>2. Now(d) \in PcpTasks
  BY <1>1, DeviceFields, Removed
<1>3. Now(d).ch \in Channels /\ (kind \in {"answer", "response"} => Now(d).answer \in Answers)
  BY <1>1, <1>2 DEF PcpTasks
<1>4. /\ Popped(d) \in DeviceStates /\ Changes(dev[d], Popped(d), {"pcp"})
      /\ Popped(d).pcp = Tail(dev[d].pcp)
  BY <1>1, PopEffect
<1>5. Quiet(dev[d], Popped(d), 0)
  BY <1>1, <1>4, QuietPop, Wider DEF Fields
<1>6. kind # "disconnect" => DeviceOK(Popped(d), hist.crossed)
  BY <1>1, <1>4, PopKeeps
<1> QED
  BY <1>1, <1>3, <1>4, <1>5, <1>6

\* A request that is served is not in the queue any more, and nothing of its
\* call is.
LEMMA TakesRequest ==
  ASSUME IInv, NEW d \in Devices, Runs(d, "request")
  PROVE  /\ ~Holds(Popped(d).pcp, "request") /\ ~Holds(Popped(d).pcp, "answer")
         /\ ~Holds(Popped(d).em, "unregister") /\ ~Popped(d).pending.waits
         /\ Popped(d).call = "request" /\ ~Popped(d).client.connected
<1>1. /\ dev[d] \in DeviceStates /\ DeviceOK(dev[d], hist.crossed) /\ dev[d].pcp # <<>>
      /\ Head(dev[d].pcp).kind = "request" /\ Changes(dev[d], Popped(d), {"pcp"})
      /\ Popped(d).pcp = Tail(dev[d].pcp) /\ dev[d].pcp \in Seq(PcpTasks)
  BY Given, Takes, DeviceFields
<1>2. /\ Holds(dev[d].pcp, "request") /\ ~Holds(Popped(d).pcp, "request")
      /\ Holds(Popped(d).pcp, "answer") => Holds(dev[d].pcp, "answer")
  BY <1>1, TailHolds DEF DeviceOK, OneCall
<1>3. /\ Popped(d).call = dev[d].call /\ Popped(d).em = dev[d].em
      /\ Popped(d).pending = dev[d].pending /\ Popped(d).client = dev[d].client
  BY <1>1 DEF Changes, Fields
<1> QED
  BY <1>1, <1>2, <1>3 DEF DeviceOK, OneCall

\* A request that fails at once.
LEMMA RequestFailsKeeps == ASSUME IInv, NEW d \in Devices, RequestFails(d) PROVE IInv'
<1> DEFINE s == dev[d]
           p == Popped(d)
           u == Dropped(p)
           t == [u EXCEPT !.call = "idle"]
           Y == hist'.crossed
<1>1. Runs(d, "request") /\ Update(d, t) /\ chan' = ClosedPending(chan, d, s)
  BY DEF RequestFails
<1>2. /\ s \in DeviceStates /\ DeviceOK(s, hist.crossed) /\ chan \in Chans /\ hist \in Histories
  BY Given
<1>3. /\ p \in DeviceStates /\ DeviceOK(p, hist.crossed) /\ Quiet(s, p, 0) /\ ~s.blocked
      /\ Changes(s, p, {"pcp"})
  BY <1>1, Takes
<1>4. /\ ~Holds(p.pcp, "request") /\ ~Holds(p.pcp, "answer") /\ ~Holds(p.em, "unregister")
      /\ ~p.pending.waits
  BY <1>1, TakesRequest
<1>5. /\ hist' \in Histories /\ hist.crossed \subseteq Y /\ {s.pending.ch} \ {0} \subseteq Y
      /\ hist'.requests = hist.requests
  <2>1. /\ Faulted \in Histories /\ Faulted.crossed = hist.crossed
        /\ Faulted.requests = hist.requests
    BY <1>2, FaultedTyped DEF RequestFails
  <2>2. {s.pending.ch} \ {0} \subseteq Channels
    BY <1>2, PendingFields, Numbers
  <2>3. hist' = [Faulted EXCEPT !.crossed = @ \cup ({s.pending.ch} \ {0})]
    BY DEF RequestFails
  <2> QED
    BY <2>1, <2>2, <2>3, CrossedTyped
<1>6. chan' \in Chans
  BY <1>1, <1>2, PendingClosed, OwnsOne
<1> HIDE DEF p, s
<1>7. p.pending = s.pending /\ ~p.blocked
  BY <1>3 DEF Changes, Fields
<1>8. DeviceOK(p, Y)
  BY <1>3, <1>5, Excuse
<1>9. DeviceOK(u, Y)
  BY <1>3, <1>5, <1>7, <1>8, DropKeeps
<1>10. /\ u \in DeviceStates /\ Changes(p, u, {"pending", "call"}) /\ u.pending = NoPending
  BY <1>3, DropEffect
<1> HIDE DEF u
<1>11. /\ u.pcp = p.pcp /\ u.em = p.em /\ u.told = p.told
  BY <1>10 DEF Changes, Fields
<1>12. t \in DeviceStates /\ Changes(u, t, {"call"}) /\ t.call = "idle"
  BY <1>10, CallEffect DEF CallStates
<1> HIDE DEF t
<1>13. DeviceOK(t, Y)
  BY <1>4, <1>9, <1>10, <1>11, <1>12, ReturnKeeps, Nothings
<1>14. Quiet(s, t, 0)
  <2>1. Quiet(p, u, 0)
    BY <1>10, <1>11, QuietDrop, Wider DEF Fields, Heard
  <2>2. Quiet(u, t, 0)
    BY <1>12, QuietElsewhere, Wider DEF Fields
  <2> QED
    BY <1>3, <2>1, <2>2, QuietQuiet
<1> QED
  BY <1>1, <1>5, <1>6, <1>12, <1>13, <1>14, Step DEF s, t, u, p

\* An incoming connection that is refused.
LEMMA DenyKeeps == ASSUME IInv, NEW d \in Devices, DenyIncoming(d) PROVE IInv'
<1>1. /\ Runs(d, "incoming") /\ Update(d, Popped(d)) /\ hist' = hist
      /\ chan' = Closed(chan, d, Now(d).ch)
  BY DEF DenyIncoming
<1>2. /\ Popped(d) \in DeviceStates /\ DeviceOK(Popped(d), hist.crossed)
      /\ Quiet(dev[d], Popped(d), 0) /\ Now(d).ch \in Channels
  BY <1>1, Takes
<1>3. chan' \in Chans /\ hist' \in Histories
  BY <1>1, <1>2, Given, ClosedTyped
<1> QED
  BY <1>1, <1>2, <1>3, Step

\* A connection lost to a tie is noted.
LEMMA BrokenTyped ==
  ASSUME NEW h \in Histories, NEW d \in Devices, dev[d] \in DeviceStates, NEW k
  PROVE  /\ Broken(h, d, k) \in Histories /\ h.crossed \subseteq Broken(h, d, k).crossed
         /\ Broken(h, d, k).requests = h.requests
<1> DEFINE K == IF k \in h.outgoing THEN {} ELSE {dev[d].pending.ch} \ {0}
<1>1. K \subseteq Channels
  BY PendingFields, Numbers
<1>2. Broken(h, d, k) = [h EXCEPT !.crossed = @ \cup K]
  BY DEF Broken
<1> HIDE DEF K
<1> QED
  BY <1>1, <1>2, CrossedTyped

\* A tie of equal nonces, where both connections are given up.
LEMMA BreakBothKeeps == ASSUME IInv, NEW d \in Devices, BreakBoth(d) PROVE IInv'
<1> DEFINE p == Popped(d)
           t == ProcessTieBreakLoss(p)
<1>1. /\ Runs(d, "incoming") /\ Update(d, t) /\ hist' = Broken(hist, d, Now(d).ch)
      /\ chan' = Closed(ClosedPending(chan, d, dev[d]), d, Now(d).ch)
  BY DEF BreakBoth
<1>2. /\ p \in DeviceStates /\ DeviceOK(p, hist.crossed) /\ Changes(dev[d], p, {"pcp"})
      /\ Quiet(dev[d], p, 0) /\ Now(d).ch \in Channels /\ ~dev[d].blocked
  BY <1>1, Takes
<1>3. /\ dev[d] \in DeviceStates /\ DeviceOK(dev[d], hist.crossed)
      /\ chan \in Chans /\ hist \in Histories
  BY Given
<1>4. chan' \in Chans
  BY <1>1, <1>2, <1>3, ClosedTyped, PendingClosed, OwnsOne
<1>5. /\ hist' \in Histories /\ hist.crossed \subseteq hist'.crossed
      /\ hist'.requests = hist.requests
  BY <1>1, <1>3, BrokenTyped
<1> HIDE DEF p
<1>6. ~p.blocked
  BY <1>2, <1>3 DEF Changes, Fields
<1>7. /\ DeviceOK(t, hist.crossed) /\ t \in DeviceStates /\ t.pending = NoPending
      /\ Changes(p, t, {"pending", "call", "client", "told", "em"})
      /\ \A k : Heard(t, k) <=> Heard(p, k)
  BY <1>2, <1>6, FailKeeps, FailEffect
<1> HIDE DEF t
<1>8. DeviceOK(t, hist'.crossed)
  BY <1>5, <1>7, Excuse
<1>9. Quiet(p, t, 0)
  BY <1>7, QuietDrop, Wider DEF Fields
<1>10. Quiet(dev[d], t, 0)
  BY <1>2, <1>9, QuietQuiet
<1> QED
  BY <1>1, <1>4, <1>5, <1>7, <1>8, <1>10, Step DEF t, p

\* A runner's queue takes the channel of the new pending connection.
LEMMA StartEffect ==
  ASSUME NEW s \in DeviceStates, NEW r \in Roles, NEW k \in Channels
  PROVE  LET t == StartRunner(s, r, k)
         IN /\ t \in DeviceStates /\ Changes(s, t, {"crypt"})
            /\ \A j : InCrypt(t, j) => InCrypt(s, j) \/ j = k
<1> DEFINE c == [s.crypt[r] EXCEPT !.queue = Append(@, k)]
           t == [s EXCEPT !.crypt[r] = c]
<1>1. s.crypt \in [Roles -> Runners] /\ s.crypt[r].queue \in Seq(Channels)
  BY DeviceFields DEF Runners
<1>2. Append(s.crypt[r].queue, k) \in Seq(Channels)
  BY <1>1
<1>3. c \in Runners /\ c.queue = Append(s.crypt[r].queue, k)
  BY <1>1, <1>2 DEF Runners
<1>4. StartRunner(s, r, k) = t
  BY <1>1 DEF StartRunner, Runners, DeviceStates
<1> HIDE DEF c
<1>5. t \in DeviceStates /\ Changes(s, t, {"crypt"}) /\ t.crypt = [s.crypt EXCEPT ![r] = c]
  BY <1>3, RunnerEffect
<1> HIDE DEF t
<1>6. ASSUME NEW j, InCrypt(t, j) PROVE InCrypt(s, j) \/ j = k
  <2>1. PICK q \in Roles : \E i \in DOMAIN t.crypt[q].queue : t.crypt[q].queue[i] = j
    BY <1>6 DEF InCrypt
  <2>2. PICK i \in DOMAIN t.crypt[q].queue : t.crypt[q].queue[i] = j
    BY <2>1
  <2>3. CASE q # r
    <3>1. t.crypt[q] = s.crypt[q]
      BY <1>1, <1>5, <2>3
    <3> QED
      BY <2>2, <3>1 DEF InCrypt
  <2>4. CASE q = r
    <3>1. t.crypt[q].queue = Append(s.crypt[r].queue, k)
      BY <1>1, <1>3, <1>5, <2>4
    <3>2. (i \in DOMAIN s.crypt[r].queue /\ s.crypt[r].queue[i] = j) \/ j = k
      BY <1>1, <2>2, <3>1, Appended
    <3> QED
      BY <3>2 DEF InCrypt
  <2> QED
    BY <2>3, <2>4
<1> QED
  BY <1>4, <1>5, <1>6

\* The pending entry is filled and the handshake starts.
LEMMA Pends ==
  ASSUME NEW s \in DeviceStates, NEW X, DeviceOK(s, X),
         ~s.blocked, s.pending.ch = 0, ~s.client.connected,
         NEW k \in Channels, NEW n \in Nat, NEW waits \in BOOLEAN, NEW r \in Roles,
         ~Heard(s, k), ~HoldsFor(s.pcp, "success", k),
         waits => s.call = "request" /\ ~Holds(s.pcp, "request")
  PROVE  LET p == [ch |-> k, nonce |-> n, own |-> TRUE, waits |-> waits]
             t == StartRunner([s EXCEPT !.pending = p], r, k)
         IN /\ t \in DeviceStates /\ DeviceOK(t, X) /\ Quiet(s, t, k)
            /\ Changes(s, t, {"pending", "crypt"})
<1> DEFINE p == [ch |-> k, nonce |-> n, own |-> TRUE, waits |-> waits]
           u == [s EXCEPT !.pending = p]
           t == StartRunner(u, r, k)
<1>1. p \in Pendings /\ p.ch = k /\ p.own /\ p.waits = waits /\ k # 0
  BY Numbers DEF Pendings, Known
<1> HIDE DEF p
<1>2. u \in DeviceStates /\ Changes(s, u, {"pending"}) /\ u.pending = p
  BY <1>1, PendEffect
<1> HIDE DEF u
<1>3. /\ t \in DeviceStates /\ Changes(u, t, {"crypt"})
      /\ \A j : InCrypt(t, j) => InCrypt(u, j) \/ j = k
  BY <1>2, StartEffect
<1> HIDE DEF t
<1>4. /\ Changes(s, t, {"pending", "crypt"}) /\ t.pending = p /\ u.crypt = s.crypt
      /\ t.told = s.told /\ t.pcp = s.pcp
  BY <1>2, <1>3 DEF Changes, Fields
<1>5. DeviceOK(t, X)
  BY <1>1, <1>3, <1>4, TakeKeeps
<1>6. \A j : InCrypt(t, j) => InCrypt(s, j) \/ j = k
  <2>1. \A j : InCrypt(u, j) => InCrypt(s, j)
    BY <1>4 DEF InCrypt
  <2> QED
    BY <1>3, <2>1
<1>7. Quiet(s, t, k)
  BY <1>1, <1>4, <1>6 DEF Quiet, Used, Heard
<1> QED
  BY <1>3, <1>4, <1>5, <1>7 DEF t, u, p

\* The loser of a tie gives its own connection up and reports it.
LEMMA TieEffect ==
  ASSUME NEW s \in DeviceStates, NEW X, DeviceOK(s, X), ~s.blocked, ~s.client.connected
  PROVE  LET t == BreakTie(s)
         IN /\ t \in DeviceStates /\ DeviceOK(t, X) /\ Quiet(s, t, 0)
            /\ t.pending.ch = 0 /\ t.pcp = s.pcp /\ ~t.blocked /\ ~t.client.connected
            /\ \A k : Heard(t, k) <=> Heard(s, k)
<1>1. CASE s.pending.ch = 0
  <2>1. BreakTie(s) = s
    BY <1>1 DEF BreakTie
  <2> QED
    BY <1>1, <2>1 DEF Quiet
<1>2. CASE s.pending.ch # 0
  <2> DEFINE t == ProcessPreConnectionResultFailure(s)
  <2>1. BreakTie(s) = t
    BY <1>2, FailEffect DEF BreakTie
  <2>2. /\ DeviceOK(t, X) /\ t \in DeviceStates /\ t.pending = NoPending
        /\ Changes(s, t, {"pending", "call", "client", "told", "em"})
        /\ t.client.ch = 0
        /\ \A k : Heard(t, k) <=> Heard(s, k)
    BY FailKeeps
  <2> HIDE DEF t
  <2>3. t.pcp = s.pcp /\ t.blocked = s.blocked
    BY <2>2 DEF Changes, Fields
  <2>4. ~t.client.connected
    BY <2>2 DEF DeviceOK, Shape
  <2>5. Quiet(s, t, 0)
    BY <2>2, QuietDrop, Wider DEF Fields
  <2> QED
    BY <2>1, <2>2, <2>3, <2>4, <2>5, Nothings
<1> QED
  BY <1>1, <1>2

\* An incoming connection is taken, or the tie with an outgoing one broken.
LEMMA OnIncomingConnectionKeeps == ASSUME IInv, NEW d \in Devices, OnIncomingConnection(d) PROVE IInv'
<1> DEFINE s == dev[d]
           k == Now(d).ch
           q == Popped(d)
           u == BreakTie(q)
           t == StartRunner([u EXCEPT !.pending = [ch |-> k, nonce |-> chan[k].nonce, own |-> TRUE,
                                                    waits |-> FALSE]], "server", k)
<1>1. /\ Runs(d, "incoming") /\ Readable(d, k) /\ ~Denied(d, k)
  BY DEF OnIncomingConnection
<1>2. PICK late \in BOOLEAN :
        LET c == ReadFrom(ClosedPending(chan, d, dev[d]), d, k)
        IN /\ late => Fault("late")
           /\ Update(d, t)
           /\ chan' = IF late THEN Closed(c, d, k) ELSE c
           /\ hist' = Broken(IF late THEN Faulted ELSE hist, d, k)
  BY DEF OnIncomingConnection
<1>3. /\ s \in DeviceStates /\ DeviceOK(s, hist.crossed) /\ Once(s.pcp) /\ Fresh
      /\ chan \in Chans /\ hist \in Histories
  BY Given DEF IInv
<1>4. /\ q \in DeviceStates /\ DeviceOK(q, hist.crossed) /\ Changes(s, q, {"pcp"})
      /\ Quiet(s, q, 0) /\ k \in Channels /\ ~s.blocked /\ q.pcp = Tail(s.pcp)
      /\ s.pcp # <<>> /\ Now(d) = Head(s.pcp) /\ Now(d).kind = "incoming"
  BY <1>1, Takes
<1>5. /\ Arrives(s, k) /\ ~Arrives(q, k) /\ HoldsFor(s.pcp, "incoming", k) /\ k # 0
  BY <1>3, <1>4, Served, Numbers DEF Arrives
<1>6. ~Used(s, k)
  BY <1>3, <1>4, <1>5 DEF Fresh
<1>7. ~s.client.connected
  BY <1>1 DEF Denied
<1> HIDE DEF q
<1>8. /\ ~q.blocked /\ ~q.client.connected /\ q.pending = s.pending /\ q.told = s.told
      /\ q.crypt = s.crypt
  BY <1>4, <1>7 DEF Changes, Fields
<1>9. ~Used(q, k)
  BY <1>4, <1>5, <1>6, Numbers DEF Quiet
<1>10. /\ u \in DeviceStates /\ DeviceOK(u, hist.crossed) /\ Quiet(q, u, 0)
       /\ u.pending.ch = 0 /\ u.pcp = q.pcp /\ ~u.blocked /\ ~u.client.connected
       /\ \A j : Heard(u, j) <=> Heard(q, j)
  BY <1>4, <1>8, TieEffect
<1> HIDE DEF u
<1>11. ~Heard(u, k) /\ ~HoldsFor(u.pcp, "success", k)
  BY <1>9, <1>10 DEF Used
<1>12. chan[k].nonce \in Nat
  BY <1>3, <1>4, ChannelFields
<1>13. /\ t \in DeviceStates /\ DeviceOK(t, hist.crossed) /\ Quiet(u, t, k)
       /\ Changes(u, t, {"pending", "crypt"})
  BY <1>4, <1>10, <1>11, <1>12, Pends DEF Roles
<1> HIDE DEF t
<1>14. Quiet(s, t, k) /\ ~Arrives(t, k)
  <2>1. Quiet(s, t, k)
    BY <1>4, <1>10, <1>13, QuietQuiet
  <2>2. t.pcp = q.pcp
    BY <1>10, <1>13 DEF Changes, Fields
  <2> QED
    BY <1>5, <2>1, <2>2 DEF Arrives
<1>15. /\ hist' \in Histories /\ hist.crossed \subseteq hist'.crossed
       /\ hist'.requests = hist.requests
  <2> DEFINE h == IF late THEN Faulted ELSE hist
  <2>1. h \in Histories /\ h.crossed = hist.crossed /\ h.requests = hist.requests
    BY <1>2, <1>3, FaultedTyped
  <2>2. hist' = Broken(h, d, k)
    BY <1>2
  <2> HIDE DEF h
  <2> QED
    BY <1>3, <2>1, <2>2, BrokenTyped
<1>16. chan' \in Chans
  <2> DEFINE e == ClosedPending(chan, d, s)
             c == ReadFrom(e, d, k)
  <2>1. e \in Chans
    BY <1>3, PendingClosed, OwnsOne
  <2>2. s.pending.ch # k
    BY <1>6 DEF Used
  <2>3. e[k].wire[d] = chan[k].wire[d]
    <3>1. CASE s.pending.own
      <4>1. s.pending.ch \in Channels
        BY <1>3, <3>1, OwnsOne, PendingFields, Numbers
      <4>2. Closed(chan, d, s.pending.ch)[k] = chan[k]
        BY <1>3, <1>4, <2>2, <4>1, ClosedElsewhere
      <4> QED
        BY <3>1, <4>2 DEF ClosedPending
    <3>2. CASE ~s.pending.own
      BY <3>2 DEF ClosedPending
    <3> QED
      BY <3>1, <3>2
  <2>4. e[k].wire[d] # <<>>
    BY <1>1, <2>3 DEF Readable
  <2> HIDE DEF e
  <2>5. c \in Chans
    BY <1>4, <2>1, <2>4, ReadTyped
  <2>6. chan' = (IF late THEN Closed(c, d, k) ELSE c)
    BY <1>2 DEF e
  <2> HIDE DEF c
  <2> QED
    BY <1>4, <2>5, <2>6, ClosedTyped
<1>17. DeviceOK(t, hist'.crossed)
  BY <1>13, <1>15, Excuse
<1>18. Update(d, t)
  BY <1>2 DEF t, u, q
<1> HIDE DEF s, k
<1> QED
  BY <1>5, <1>13, <1>14, <1>15, <1>16, <1>17, <1>18, Step DEF s

\* The request of d is served, and arrives at the other device.
LEMMA FreshHandOver ==
  ASSUME Fresh, dev \in [Devices -> DeviceStates], NEW d \in Devices, NEW o \in Devices, o # d,
         NEW k \in Channels, HoldsFor(dev[d].pcp, "request", k),
         NEW t, Quiet(dev[d], t, k), ~Arrives(t, k),
         NEW v, Once(v.pcp),
         \A j \in Channels :
           /\ HoldsFor(v.pcp, "request", j) => HoldsFor(dev[o].pcp, "request", j)
           /\ HoldsFor(v.pcp, "incoming", j) => HoldsFor(dev[o].pcp, "incoming", j) \/ j = k
           /\ Used(v, j) => Used(dev[o], j),
         dev'[d] = t, dev'[o] = v, \A e \in Devices \ {d, o} : dev'[e] = dev[e],
         hist'.requests = hist.requests
  PROVE  Fresh'
<1>1. /\ d = Callers[k] /\ \A e \in Devices : ~Used(dev[e], k) /\ ~HoldsFor(dev[e].pcp, "incoming", k)
      /\ ~(k > hist.requests)
  BY DEF Fresh, Arrives
<1>2. \A e \in Devices : Once(dev'[e].pcp)
  <2>1. Once(t.pcp)
    BY DEF Fresh, Quiet
  <2> QED
    BY <2>1 DEF Fresh
<1>3. ASSUME NEW e \in Devices, NEW j \in Channels
      PROVE  /\ HoldsFor(dev'[e].pcp, "request", j) => HoldsFor(dev[e].pcp, "request", j)
             /\ HoldsFor(dev'[e].pcp, "incoming", j) =>
                  HoldsFor(dev[e].pcp, "incoming", j) \/ (e = o /\ j = k)
             /\ Used(dev'[e], j) => Used(dev[e], j) \/ (e = d /\ j = k)
  <2>1. CASE e = d
    BY <2>1 DEF Quiet
  <2>2. CASE e = o
    BY <2>2
  <2>3. CASE e # d /\ e # o
    BY <2>3
  <2> QED
    BY <2>1, <2>2, <2>3
<1>4. ASSUME NEW e \in Devices, NEW j \in Channels
      PROVE  /\ j > hist.requests => ~Arrives(dev'[e], j) /\ ~Used(dev'[e], j)
             /\ Arrives(dev'[e], j) => ~Used(dev'[e], j)
  <2>1. CASE j # k
    <3>1. Arrives(dev'[e], j) => Arrives(dev[e], j)
      BY <1>3, <2>1 DEF Arrives
    <3>2. Used(dev'[e], j) => Used(dev[e], j)
      BY <1>3, <2>1
    <3> QED
      BY <3>1, <3>2 DEF Fresh
  <2>2. CASE j = k /\ e # d
    <3>1. ~Used(dev'[e], j)
      BY <1>1, <1>3, <2>2
    <3> QED
      BY <1>1, <2>2, <3>1
  <2>3. CASE j = k /\ e = d
    BY <1>1, <2>3
  <2> QED
    BY <2>1, <2>2, <2>3
<1>5. ASSUME NEW e \in Devices, NEW j \in Channels, HoldsFor(dev'[e].pcp, "request", j)
      PROVE  /\ e = Callers[j]
             /\ \A f \in Devices : ~Used(dev'[f], j) /\ ~HoldsFor(dev'[f].pcp, "incoming", j)
  <2>1. /\ HoldsFor(dev[e].pcp, "request", j) /\ e = Callers[j]
        /\ \A f \in Devices : ~Used(dev[f], j) /\ ~HoldsFor(dev[f].pcp, "incoming", j)
    BY <1>3, <1>5 DEF Fresh
  <2>2. j # k
    <3> SUFFICES ASSUME j = k PROVE FALSE
      OBVIOUS
    <3>1. e = d
      BY <1>1, <2>1
    <3> QED
      BY <1>5, <3>1 DEF Arrives
  <2> QED
    BY <1>3, <2>1, <2>2
<1>6. ASSUME NEW e \in Devices, NEW j \in Channels, HoldsFor(dev'[e].pcp, "incoming", j)
      PROVE  e # Callers[j]
  <2>1. HoldsFor(dev[e].pcp, "incoming", j) \/ (e = o /\ j = k)
    BY <1>3, <1>6
  <2> QED
    BY <1>1, <2>1 DEF Fresh
<1> QED
  BY <1>2, <1>4, <1>5, <1>6 DEF Fresh

\* A request becomes an entry of pending_connections_.
LEMMA RequestConnectionKeeps == ASSUME IInv, NEW d \in Devices, RequestConnection(d) PROVE IInv'
<1> DEFINE s == dev[d]
           k == Now(d).ch
           q == Popped(d)
           o == Other(d)
           task == Task("incoming", k, "none")
           v == PostPcp(dev[o], task)
           collides == s.pending.ch # 0
<1>1. Runs(d, "request")
  BY DEF RequestConnection
<1>2. /\ s \in DeviceStates /\ DeviceOK(s, hist.crossed) /\ Once(s.pcp) /\ Fresh
      /\ chan \in Chans /\ hist \in Histories /\ dev \in [Devices -> DeviceStates]
  BY Given DEF IInv, Types
<1>3. /\ q \in DeviceStates /\ DeviceOK(q, hist.crossed) /\ Changes(s, q, {"pcp"})
      /\ Quiet(s, q, 0) /\ k \in Channels /\ ~s.blocked /\ q.pcp = Tail(s.pcp)
      /\ s.pcp # <<>> /\ Now(d) = Head(s.pcp) /\ Now(d).kind = "request"
  BY <1>1, Takes
<1>4. /\ Arrives(s, k) /\ ~Arrives(q, k) /\ HoldsFor(s.pcp, "request", k) /\ k # 0
  BY <1>2, <1>3, Served, Numbers DEF Arrives
<1>5. /\ ~Holds(q.pcp, "request") /\ ~Holds(q.pcp, "answer")
      /\ ~Holds(q.em, "unregister") /\ ~q.pending.waits
      /\ q.call = "request" /\ ~q.client.connected
  BY <1>1, TakesRequest
<1>6. PICK n \in Nonces[k] :
        LET mine == IF collides THEN [q EXCEPT !.call = "idle"]
                    ELSE StartRunner([q EXCEPT
                           !.pending = [ch |-> k, nonce |-> n, own |-> TRUE, waits |-> TRUE]],
                           "client", k)
        IN /\ chan' = IF collides THEN Closed(Opened(d, k, n), d, k) ELSE Opened(d, k, n)
           /\ dev' = [dev EXCEPT ![d] = mine, ![o] = PostPcp(@, task)]
           /\ hist' = IF collides THEN hist ELSE [hist EXCEPT !.outgoing = @ \cup {k}]
  BY DEF RequestConnection
<1> DEFINE mine == IF collides THEN [q EXCEPT !.call = "idle"]
                   ELSE StartRunner([q EXCEPT
                          !.pending = [ch |-> k, nonce |-> n, own |-> TRUE, waits |-> TRUE]],
                          "client", k)
<1>7. n \in Nat
  BY <1>3, <1>6, ConstantsAssumption DEF Channels
<1>8. chan' \in Chans
  BY <1>2, <1>3, <1>6, <1>7, OpenedTyped, ClosedTyped
<1>9. /\ hist' \in Histories /\ hist'.crossed = hist.crossed /\ hist'.requests = hist.requests
  <2>1. hist.outgoing \cup {k} \in SUBSET Channels
    BY <1>2, <1>3, HistFields
  <2> QED
    BY <1>2, <1>6, <2>1 DEF Histories
<1>10. o \in Devices /\ o # d /\ dev[o] \in DeviceStates /\ DeviceOK(dev[o], hist.crossed)
       /\ Once(dev[o].pcp)
  BY OtherDevice, Given
<1>11. task \in PcpTasks /\ task.kind = "incoming" /\ task.ch = k
  BY <1>3, PcpTask
<1> HIDE DEF o, task
<1>12. v \in DeviceStates /\ Changes(dev[o], v, {"pcp"}) /\ v.pcp = Append(dev[o].pcp, task)
  BY <1>10, <1>11, PostPcpEffect
<1>13. /\ mine \in DeviceStates /\ DeviceOK(mine, hist.crossed)
       /\ Quiet(q, mine, k) /\ mine.pcp = q.pcp
  <2>1. CASE collides
    <3> DEFINE t == [q EXCEPT !.call = "idle"]
    <3>1. t \in DeviceStates /\ Changes(q, t, {"call"}) /\ t.call = "idle"
      BY <1>3, CallEffect DEF CallStates
    <3> HIDE DEF t, q, s, k
    <3>2. DeviceOK(t, hist.crossed)
      BY <1>3, <1>5, <3>1, ReturnKeeps
    <3>3. Quiet(q, t, 0) /\ t.pcp = q.pcp
      BY <3>1, QuietElsewhere, Wider DEF Fields, Changes
    <3>4. mine = t
      BY <2>1 DEF t, q, s, k
    <3> HIDE DEF mine
    <3> QED
      BY <3>1, <3>2, <3>3, <3>4, Numbers DEF Quiet
  <2>2. CASE ~collides
    <3> HIDE DEF q, s, k
    <3>1. ~q.blocked /\ q.pending = s.pending
      BY <1>3 DEF Changes, Fields
    <3>2. ~Used(s, k)
      BY <1>2, <1>3, <1>4 DEF Fresh, s
    <3>3. ~Used(q, k)
      BY <1>3, <1>4, <3>2 DEF Quiet
    <3>4. ~Heard(q, k) /\ ~HoldsFor(q.pcp, "success", k)
      BY <3>3 DEF Used
    <3> DEFINE t == StartRunner([q EXCEPT
                          !.pending = [ch |-> k, nonce |-> n, own |-> TRUE, waits |-> TRUE]],
                          "client", k)
    <3>5. /\ t \in DeviceStates /\ DeviceOK(t, hist.crossed) /\ Quiet(q, t, k)
          /\ Changes(q, t, {"pending", "crypt"})
      BY <1>3, <1>5, <1>7, <2>2, <3>1, <3>4, Pends DEF Roles
    <3>6. mine = t
      BY <2>2
    <3> HIDE DEF t, mine
    <3> QED
      BY <3>5, <3>6 DEF Changes, Fields
  <2> QED
    BY <2>1, <2>2
<1> HIDE DEF mine, v, q, s, k
<1>14. dev' = [[dev EXCEPT ![d] = mine] EXCEPT ![o] = v]
  <2>1. [dev EXCEPT ![d] = mine][o] = dev[o]
    BY <1>2, <1>10
  <2>2. dev' = [dev EXCEPT ![d] = mine, ![o] = PostPcp(@, task)]
    BY <1>6 DEF mine, q, s, k
  <2> QED
    BY <1>10, <2>1, <2>2 DEF v
<1>15. /\ dev' \in [Devices -> DeviceStates] /\ dev'[d] = mine /\ dev'[o] = v
       /\ \A e \in Devices \ {d, o} : dev'[e] = dev[e]
  BY <1>2, <1>10, <1>12, <1>13, <1>14
<1>16. DeviceOK(v, hist.crossed)
  BY <1>10, <1>11, <1>12, PostPcpKeeps
<1>17. \A e \in Devices : DeviceOK(dev'[e], hist'.crossed)
  BY <1>9, <1>13, <1>15, <1>16, Given
<1>18. Fresh'
  <2>1. Quiet(s, mine, k) /\ ~Arrives(mine, k)
    BY <1>3, <1>4, <1>13, QuietQuiet DEF Arrives
  <2>2. d = Callers[k] /\ ~HoldsFor(dev[o].pcp, "incoming", k)
    BY <1>2, <1>3, <1>4, <1>10 DEF Fresh, s
  <2>3. ~HoldsFor(dev[o].pcp, "request", k)
    BY <1>2, <1>3, <1>10, <2>2 DEF Fresh
  <2>4. dev[o].pcp \in Seq(PcpTasks)
    BY <1>10, DeviceFields
  <2>5. Once(v.pcp)
    BY <1>10, <1>11, <1>12, <2>2, <2>3, <2>4, AppendOnce
  <2>6. \A kind, j : HoldsFor(v.pcp, kind, j) <=>
                       HoldsFor(dev[o].pcp, kind, j) \/ (kind = "incoming" /\ j = k)
    BY <1>11, <1>12, <2>4, AppendHoldsFor
  <2>7. v.told = dev[o].told /\ v.crypt = dev[o].crypt /\ v.pending = dev[o].pending
    BY <1>12 DEF Changes, Fields
  <2>8. \A j : Used(v, j) => Used(dev[o], j)
    BY <2>6, <2>7 DEF Used, Heard, InCrypt
  <2> QED
    BY <1>2, <1>3, <1>4, <1>9, <1>10, <1>15, <2>1, <2>5, <2>6, <2>8, FreshHandOver DEF s
<1> QED
  BY <1>8, <1>9, <1>15, <1>17, <1>18 DEF IInv, Types, Chans

\* EvaluateConnectionResult puts no channel in use.
LEMMA EvaluateQuiet ==
  ASSUME NEW s \in DeviceStates, NEW X, DeviceOK(s, X), NEW immediately \in BOOLEAN
  PROVE  Quiet(s, EvaluateConnectionResult(s, immediately), 0)
<1> DEFINE t == EvaluateConnectionResult(s, immediately)
<1>1. CASE (~Accepted(s) /\ ~Rejected(s)) \/ s.pending.ch = 0
  BY <1>1 DEF EvaluateConnectionResult, Quiet
<1>2. CASE /\ ~((~Accepted(s) /\ ~Rejected(s)) \/ s.pending.ch = 0)
           /\ s.active = 0
  <2>1. t = Dropped(s)
    BY <1>2 DEF EvaluateConnectionResult
  <2>2. Changes(s, t, {"pending", "call"}) /\ t.pending = NoPending
    BY <2>1, DropEffect
  <2> HIDE DEF t
  <2>3. t.told = s.told
    BY <2>2 DEF Changes, Fields
  <2>4. Quiet(s, t, 0)
    BY <2>2, <2>3, QuietDrop, Wider DEF Fields, Heard
  <2> QED
    BY <2>4 DEF t
<1>3. CASE /\ ~((~Accepted(s) /\ ~Rejected(s)) \/ s.pending.ch = 0)
           /\ s.active # 0 /\ Accepted(s)
  <2> DEFINE c == [NoClient EXCEPT !.ch = s.client.ch, !.asked = TRUE, !.connected = TRUE]
             u == [Dropped(s) EXCEPT
                     !.client = c,
                     !.told = Append(@, [what |-> "accepted", ch |-> s.client.ch])]
             r == Report("accepted", s.client.ch)
  <2>1. t = u
    BY <1>3 DEF EvaluateConnectionResult
  <2>2. s.client.ch # 0
    BY <1>3, Nothings DEF Accepted, DeviceOK, Shape
  <2>3. /\ u \in DeviceStates /\ Changes(s, u, {"pending", "call", "client", "told"})
        /\ u.pending = NoPending /\ u.told = Append(s.told, r)
        /\ r \in Reports /\ r.what = "accepted"
    BY <2>2, AcceptEffect
  <2> HIDE DEF u, r, t
  <2>4. \A k : Heard(u, k) <=> Heard(s, k)
    BY <2>3, Tells
  <2>5. Quiet(s, u, 0)
    BY <2>3, <2>4, QuietDrop, Wider DEF Fields
  <2> QED
    BY <2>1, <2>5 DEF t
<1>4. CASE /\ ~((~Accepted(s) /\ ~Rejected(s)) \/ s.pending.ch = 0)
           /\ s.active # 0 /\ ~Accepted(s)
  <2> DEFINE u == OnConnectionRejected(Dropped(s))
  <2>1. t = CloseRejected(u, immediately)
    BY <1>4 DEF EvaluateConnectionResult
  <2>2. /\ u \in DeviceStates /\ Changes(s, u, {"pending", "call", "client", "told"})
        /\ u.pending = NoPending /\ \A k : Heard(u, k) <=> Heard(s, k)
    BY RejectDropEffect, RejectHeard
  <2> HIDE DEF u, t
  <2>3. Quiet(s, u, 0)
    BY <2>2, QuietDrop, Wider DEF Fields
  <2>4. Changes(u, t, {"em"})
    <3>1. CASE immediately
      BY <2>1, <2>2, <3>1, DiscardEffect DEF CloseRejected
    <3>2. CASE ~immediately
      BY <2>1, <2>2, <3>2, DelayedEffect, Wider DEF CloseRejected
    <3> QED
      BY <3>1, <3>2
  <2>5. Quiet(u, t, 0)
    BY <2>4, QuietElsewhere, Wider DEF Fields
  <2>6. Quiet(s, t, 0)
    BY <2>3, <2>5, QuietQuiet
  <2> QED
    BY <2>6 DEF t
<1> QED
  BY <1>1, <1>2, <1>3, <1>4

\* A step in which the process aborts.
LEMMA CrashKeeps ==
  ASSUME IInv, NEW d \in Devices, NEW s \in DeviceStates, DeviceOK(s, hist.crossed),
         Quiet(dev[d], s, 0), Crash(d, s), hist' = hist
  PROVE  IInv'
<1> DEFINE t == [s EXCEPT !.crashed = TRUE]
<1>1. t \in DeviceStates /\ Changes(s, t, {})
  BY DEF DeviceStates, Changes, Fields
<1>2. Update(d, t)
  BY DEF Crash
<1> HIDE DEF t
<1>3. DeviceOK(t, hist.crossed) /\ Quiet(dev[d], t, 0)
  <2>1. DeviceOK(t, hist.crossed)
    BY <1>1, NoteOnly
  <2>2. Quiet(s, t, 0)
    BY <1>1, QuietElsewhere, Wider
  <2> QED
    BY <2>1, <2>2, QuietQuiet
<1>4. chan' \in Chans
  <2> DEFINE new(k) == [chan[k] EXCEPT !.open = @ \ {d}, !.wire[d] = <<>>]
  <2>1. ASSUME NEW k \in Channels PROVE new(k) \in ChannelStates
    <3>1. Closed(chan, d, k) \in Chans
      BY Given, ClosedTyped
    <3>2. Closed(chan, d, k)[k] = new(k)
      BY Given DEF Closed, Chans
    <3> QED
      BY <3>1, <3>2, ChannelFields
  <2>2. chan' = [k \in Channels |-> new(k)]
    BY DEF Crash
  <2> HIDE DEF new
  <2> QED
    BY <2>1, <2>2 DEF Chans
<1> QED
  BY <1>1, <1>2, <1>3, <1>4, Given, Step

\* A step that ends in EvaluateConnectionResult.
LEMMA EvaluatedKeeps ==
  ASSUME IInv, NEW d \in Devices, NEW s \in DeviceStates, DeviceOK(s, hist.crossed), ~s.blocked,
         Quiet(dev[d], s, 0), NEW immediately \in BOOLEAN, NEW c \in Chans,
         Evaluated(d, s, immediately, c), hist' = hist
  PROVE  IInv'
<1>1. CASE Accepted(s) /\ s.active # 0 /\ s.pending.own
  BY <1>1, CrashKeeps DEF Evaluated
<1>2. CASE ~(Accepted(s) /\ s.active # 0 /\ s.pending.own)
  <2> DEFINE t == EvaluateConnectionResult(s, immediately)
  <2>1. Update(d, t) /\ chan' = IF Accepted(s) \/ Rejected(s) THEN ClosedPending(c, d, s) ELSE c
    BY <1>2 DEF Evaluated
  <2>2. t \in DeviceStates /\ DeviceOK(t, hist.crossed) /\ Quiet(s, t, 0)
    BY EvaluateKeeps, EvaluateQuiet
  <2> HIDE DEF t
  <2>3. Quiet(dev[d], t, 0)
    BY <2>2, QuietQuiet
  <2>4. chan' \in Chans
    BY <2>1, PendingClosed, OwnsOne
  <2> QED
    BY <2>1, <2>2, <2>3, <2>4, Given, Step
<1> QED
  BY <1>1, <1>2

\* UKEY2 has succeeded.
LEMMA EncryptionSuccessKeeps == ASSUME IInv, NEW d \in Devices, OnEncryptionSuccess(d) PROVE IInv'
<1> DEFINE s == dev[d]
           p == Popped(d)
           k == Now(d).ch
           current == s.pending.ch = k /\ s.pending.own
<1>1. /\ Runs(d, "success") /\ chan' = chan /\ hist' = hist
      /\ Update(d, IF current THEN RegisterDevice(p, k) ELSE p)
  BY DEF OnEncryptionSuccess
<1>2. /\ s \in DeviceStates /\ DeviceOK(s, hist.crossed) /\ chan \in Chans /\ hist \in Histories
  BY Given
<1>3. /\ p \in DeviceStates /\ DeviceOK(p, hist.crossed) /\ Quiet(s, p, 0) /\ ~s.blocked
      /\ Changes(s, p, {"pcp"}) /\ k \in Channels /\ s.pcp # <<>>
      /\ Head(s.pcp).kind = "success" /\ Head(s.pcp).ch = k
  BY <1>1, Takes
<1> HIDE DEF p, k
<1>4. CASE ~current
  BY <1>1, <1>2, <1>3, <1>4, Step
<1>5. CASE current
  <2> DEFINE task == Task("register", k, "none")
             t == RegisterDevice(p, k)
  <2>1. task \in EmTasks /\ task.kind = "register" /\ task.ch = k
    BY <1>3, EmTask DEF Known
  <2>2. /\ p.pending = s.pending /\ p.client = s.client /\ p.told = s.told /\ p.blocked = s.blocked
    BY <1>3 DEF Changes, Fields
  <2>3. p.client.ch = 0 \/ Latest(p).ch \in hist.crossed
    <3>1. s.client.ch = 0 \/ Latest(s).ch \in hist.crossed
      BY <1>2, <1>3, <1>5, Secured
    <3> QED
      BY <2>2, <3>1 DEF Latest
  <2> DEFINE q == [p.pending EXCEPT !.own = FALSE]
             u == [p EXCEPT !.pending = q, !.blocked = TRUE]
  <2>4. t = PostEm(u, task)
    BY DEF RegisterDevice
  <2>5. /\ q \in Pendings /\ q.ch = p.pending.ch /\ ~q.own /\ q.waits = p.pending.waits
    BY <1>3, DeviceFields DEF Pendings
  <2>6. /\ u \in DeviceStates /\ Changes(p, u, {"pending", "blocked"})
        /\ u.pending = q /\ u.blocked /\ u.em = p.em
    <3> HIDE DEF q
    <3> QED
      BY <1>3, <2>5 DEF DeviceStates, Changes, Fields
  <2> HIDE DEF u, q, task
  <2>7. t \in DeviceStates /\ Changes(u, t, {"em"}) /\ t.em = Append(u.em, task)
    BY <2>1, <2>4, <2>6, PostEmEffect
  <2> HIDE DEF t
  <2>8. /\ t.pending = q /\ t.blocked /\ t.em = Append(p.em, task)
        /\ Changes(p, t, {"pending", "blocked", "em"})
    BY <2>6, <2>7 DEF Changes, Fields
  <2>9. DeviceOK(t, hist.crossed)
    BY <1>3, <1>5, <2>1, <2>2, <2>3, <2>5, <2>7, <2>8, RegisterKeeps
  <2>10. Quiet(p, t, 0)
    <3>1. t.told = p.told
      BY <2>8 DEF Changes, Fields
    <3> QED
      BY <2>5, <2>8, <3>1, QuietDrop, Wider DEF Fields, Heard
  <2>11. Quiet(s, t, 0)
    BY <1>3, <2>10, QuietQuiet
  <2>12. Update(d, t)
    BY <1>1, <1>5 DEF t
  <2> QED
    BY <1>1, <1>2, <2>7, <2>9, <2>11, <2>12, Step
<1> QED
  BY <1>4, <1>5

\* UKEY2 has failed.
LEMMA EncryptionFailureKeeps == ASSUME IInv, NEW d \in Devices, OnEncryptionFailure(d) PROVE IInv'
<1> DEFINE s == dev[d]
           p == Popped(d)
           current == s.pending.ch = Now(d).ch /\ s.pending.own
<1>1. Runs(d, "failure") /\ hist' = hist
  BY DEF OnEncryptionFailure
<1>2. /\ s \in DeviceStates /\ DeviceOK(s, hist.crossed) /\ chan \in Chans /\ hist \in Histories
  BY Given
<1>3. /\ p \in DeviceStates /\ DeviceOK(p, hist.crossed) /\ Quiet(s, p, 0) /\ ~s.blocked
      /\ Changes(s, p, {"pcp"})
  BY <1>1, Takes
<1>4. \/ /\ Update(d, IF current THEN Dropped(p) ELSE p)
         /\ chan' = IF current THEN ClosedPending(chan, d, s) ELSE chan
      \/ Crash(d, p)
  BY DEF OnEncryptionFailure
<1> HIDE DEF p
<1>5. CASE Crash(d, p)
  BY <1>1, <1>3, <1>5, CrashKeeps
<1>6. CASE ~current /\ Update(d, p) /\ chan' = chan
  BY <1>1, <1>2, <1>3, <1>6, Step
<1>7. CASE current /\ Update(d, Dropped(p)) /\ chan' = ClosedPending(chan, d, s)
  <2> DEFINE t == Dropped(p)
  <2>1. p.pending = s.pending /\ ~p.blocked
    BY <1>3 DEF Changes, Fields
  <2>2. DeviceOK(t, hist.crossed)
    BY <1>3, <1>7, <2>1, DropKeeps
  <2>3. t \in DeviceStates /\ Changes(p, t, {"pending", "call"}) /\ t.pending = NoPending
    BY <1>3, DropEffect
  <2> HIDE DEF t
  <2>4. t.told = p.told
    BY <2>3 DEF Changes, Fields
  <2>5. Quiet(p, t, 0)
    BY <2>3, <2>4, QuietDrop, Wider DEF Fields, Heard
  <2>6. Quiet(s, t, 0)
    BY <1>3, <2>5, QuietQuiet
  <2>7. chan' \in Chans
    BY <1>2, <1>7, PendingClosed, OwnsOne
  <2> QED
    BY <1>1, <1>2, <1>7, <2>2, <2>3, <2>6, <2>7, Step DEF t
<1> QED
  BY <1>4, <1>5, <1>6, <1>7

\* The answer is taken from the queue: the call that waits for it returns.
LEMMA AnswerConnectionKeeps == ASSUME IInv, NEW d \in Devices, AnswerConnection(d) PROVE IInv'
<1> DEFINE p == Popped(d)
           s == [p EXCEPT !.call = "idle"]
           k == s.active
           a == Now(d).answer
           local == IF s.client.local = "none" /\ s.client.ch # 0 THEN a ELSE s.client.local
           t == [s EXCEPT !.client.local = local]
<1>1. /\ Runs(d, "answer") /\ hist' = hist
  BY DEF AnswerConnection
<1>2. /\ dev[d] \in DeviceStates /\ DeviceOK(dev[d], hist.crossed)
      /\ chan \in Chans /\ hist \in Histories
  BY Given
<1>3. /\ p \in DeviceStates /\ DeviceOK(p, hist.crossed) /\ Quiet(dev[d], p, 0) /\ ~dev[d].blocked
      /\ Changes(dev[d], p, {"pcp"}) /\ a \in Answers /\ dev[d].pcp # <<>>
      /\ Head(dev[d].pcp).kind = "answer" /\ p.pcp = Tail(dev[d].pcp)
  BY <1>1, Takes
<1>4. \/ s.pending.ch = 0 /\ Update(d, s) /\ chan' = chan
      \/ /\ s.pending.ch # 0
         /\ Update(d, ProcessPreConnectionResultFailure(s))
         /\ chan' = ClosedPending(chan, d, s)
      \/ /\ s.pending.ch # 0 /\ k # 0 /\ d \in chan[k].open
         /\ Evaluated(d, t, FALSE, Written(chan, d, k, a))
  <2>1. t = [s EXCEPT !.client.local = IF @ = "none" /\ s.client.ch # 0 THEN a ELSE @]
    BY <1>3 DEF DeviceStates, Clients
  <2> HIDE DEF t, p
  <2> QED
    BY <2>1 DEF AnswerConnection, p
<1> HIDE DEF p, a
<1>5. /\ p.call = dev[d].call /\ p.em = dev[d].em /\ p.pending = dev[d].pending
      /\ p.blocked = dev[d].blocked
  BY <1>3 DEF Changes, Fields
<1>6. dev[d].call = "answer" /\ ~Holds(p.pcp, "answer")
  <2>1. dev[d].pcp \in Seq(PcpTasks)
    BY <1>2, DeviceFields
  <2> QED
    BY <1>2, <1>3, <2>1, TailHolds DEF DeviceOK, OneCall
<1>7. ~Holds(p.pcp, "request") /\ ~Holds(p.em, "unregister") /\ ~p.pending.waits
  BY <1>3, <1>5, <1>6 DEF DeviceOK, OneCall
<1>8. s \in DeviceStates /\ Changes(p, s, {"call"}) /\ s.call = "idle"
  BY <1>3, CallEffect DEF CallStates
<1> HIDE DEF s
<1>9. /\ DeviceOK(s, hist.crossed) /\ Quiet(dev[d], s, 0) /\ ~s.blocked
      /\ s.pcp = p.pcp
  <2>1. DeviceOK(s, hist.crossed)
    BY <1>3, <1>6, <1>7, <1>8, ReturnKeeps
  <2>2. Quiet(p, s, 0)
    BY <1>8, QuietElsewhere, Wider DEF Fields
  <2>3. Quiet(dev[d], s, 0)
    BY <1>3, <2>2, QuietQuiet
  <2> QED
    BY <1>3, <1>5, <1>8, <2>1, <2>3 DEF Changes, Fields
<1>10. CASE s.pending.ch = 0 /\ Update(d, s) /\ chan' = chan
  BY <1>1, <1>2, <1>8, <1>9, <1>10, Step
<1>11. CASE /\ Update(d, ProcessPreConnectionResultFailure(s))
            /\ chan' = ClosedPending(chan, d, s)
  <2> DEFINE u == ProcessPreConnectionResultFailure(s)
  <2>1. /\ DeviceOK(u, hist.crossed) /\ u \in DeviceStates /\ u.pending = NoPending
        /\ Changes(s, u, {"pending", "call", "client", "told", "em"})
        /\ \A j : Heard(u, j) <=> Heard(s, j)
    BY <1>8, <1>9, FailKeeps
  <2> HIDE DEF u
  <2>2. Quiet(s, u, 0)
    BY <2>1, QuietDrop, Wider DEF Fields
  <2>3. Quiet(dev[d], u, 0)
    BY <1>9, <2>2, QuietQuiet
  <2>4. chan' \in Chans
    BY <1>2, <1>8, <1>9, <1>11, PendingClosed, OwnsOne
  <2> QED
    BY <1>1, <1>2, <1>11, <2>1, <2>3, <2>4, Step DEF u
<1>12. CASE k # 0 /\ Evaluated(d, t, FALSE, Written(chan, d, k, a))
  <2>1. local \in Answers \cup {"none"}
    BY <1>3, <1>8, ClientFields
  <2>2. s.client \in Clients
    BY <1>8, DeviceFields
  <2> DEFINE c == [s.client EXCEPT !.local = local]
  <2>3. /\ c \in Clients /\ c.ch = s.client.ch /\ c.connected = s.client.connected
        /\ c.local = local
    <3> HIDE DEF local
    <3> QED
      BY <2>1, <2>2 DEF Clients
  <2>4. t = [s EXCEPT !.client = c]
    BY <1>8, <2>2 DEF DeviceStates
  <2>5. s.client.ch = 0 => c = s.client
    <3> SUFFICES ASSUME s.client.ch = 0 PROVE c = s.client
      OBVIOUS
    <3>1. local = s.client.local
      OBVIOUS
    <3> QED
      BY <2>2, <3>1 DEF Clients
  <2> HIDE DEF c, t, local
  <2>6. t \in DeviceStates /\ Changes(s, t, {"client"}) /\ t.client = c
    BY <1>8, <2>3, <2>4 DEF DeviceStates, Changes, Fields
  <2>7. ~Holds(s.pcp, "request")
    BY <1>7, <1>9
  <2>8. DeviceOK(t, hist.crossed)
    BY <1>8, <1>9, <2>3, <2>5, <2>6, <2>7, NoteKeeps
  <2>9. Quiet(s, t, 0)
    BY <2>6, QuietElsewhere, Wider DEF Fields
  <2>10. Quiet(dev[d], t, 0) /\ ~t.blocked
    BY <1>9, <2>6, <2>9, QuietQuiet DEF Changes, Fields
  <2>11. Written(chan, d, k, a) \in Chans
    <3>1. k \in Channels
      BY <1>8, <1>12, DeviceFields, Numbers
    <3> HIDE DEF k
    <3> QED
      BY <1>2, <1>3, <3>1, WrittenTyped DEF Frames
  <2> HIDE DEF k
  <2> QED
    BY <1>1, <1>12, <2>6, <2>8, <2>10, <2>11, EvaluatedKeeps
<1> QED
  BY <1>4, <1>10, <1>11, <1>12

\* A CONNECTION_RESPONSE has come.
LEMMA IncomingFrameKeeps == ASSUME IInv, NEW d \in Devices, OnIncomingFrame(d) PROVE IInv'
<1> DEFINE p == Popped(d)
           s == [p EXCEPT !.reader.state = "reading"]
           a == Now(d).answer
           t == [s EXCEPT !.client.remote = a]
<1>1. Runs(d, "response") /\ hist' = hist
  BY DEF OnIncomingFrame
<1>2. /\ dev[d] \in DeviceStates /\ DeviceOK(dev[d], hist.crossed)
      /\ chan \in Chans /\ hist \in Histories
  BY Given
<1>3. /\ p \in DeviceStates /\ DeviceOK(p, hist.crossed) /\ Quiet(dev[d], p, 0) /\ ~dev[d].blocked
      /\ Changes(dev[d], p, {"pcp"}) /\ a \in Answers /\ dev[d].pcp # <<>>
      /\ Head(dev[d].pcp).kind = "response" /\ p.pcp = Tail(dev[d].pcp)
  BY <1>1, Takes
<1>4. \/ Update(d, s) /\ chan' = chan
      \/ s.client.remote = "none" /\ s.client.ch # 0 /\ Evaluated(d, t, TRUE, chan)
  BY DEF OnIncomingFrame
<1> HIDE DEF p, a
<1>5. /\ dev[d].reader.state = "waiting" /\ ~Holds(p.pcp, "response") /\ p.reader = dev[d].reader
      /\ p.blocked = dev[d].blocked
  <2>1. dev[d].pcp \in Seq(PcpTasks)
    BY <1>2, DeviceFields
  <2>2. Holds(dev[d].pcp, "response") /\ ~Holds(p.pcp, "response")
    BY <1>2, <1>3, <2>1, TailHolds DEF DeviceOK, Reading
  <2> QED
    BY <1>2, <1>3, <2>2 DEF DeviceOK, Reading, Changes, Fields
<1>6. /\ s \in DeviceStates /\ Changes(p, s, {"reader"})
      /\ s.reader.ch = p.reader.ch /\ s.reader.state = "reading"
  <2> DEFINE r == [p.reader EXCEPT !.state = "reading"]
  <2>1. r \in Readers /\ r.ch = p.reader.ch /\ r.state = "reading"
    BY <1>3, DeviceFields DEF Readers
  <2>2. s = [p EXCEPT !.reader = r]
    BY <1>3 DEF DeviceStates
  <2> HIDE DEF r, s
  <2> QED
    BY <1>3, <2>1, <2>2 DEF DeviceStates, Changes, Fields
<1> HIDE DEF s
<1>7. /\ s.client = p.client /\ s.pcp = p.pcp /\ s.em = p.em /\ s.told = p.told
      /\ s.pending = p.pending /\ s.call = p.call /\ s.blocked = p.blocked /\ s.phase = p.phase
      /\ s.notify = p.notify /\ s.active = p.active
  BY <1>6 DEF Changes, Fields
<1>8. DeviceOK(s, hist.crossed)
  <2>1. \A f : "reader" \in f => Changes(p, s, f)
    BY <1>6 DEF Changes
  <2>2. Shape(s)
    BY <1>3, <1>6, <1>7 DEF DeviceOK, Shape
  <2>3. /\ OneCall(s) /\ Registering(s) /\ InOrder(s, hist.crossed)
        /\ Current(s, hist.crossed) /\ Settled(s, hist.crossed) /\ Replaced(s, hist.crossed)
    BY <1>3, <1>6, <2>1, PartsKept DEF Fields
  <2>4. Reading(s)
    BY <1>3, <1>5, <1>6, <1>7 DEF DeviceOK, Reading, Single, Holds
  <2>5. Removing(s, hist.crossed)
    BY <1>3, <1>6, <1>7 DEF DeviceOK, Removing
  <2>6. Knows(s)
    BY <1>3, <1>6, <1>7 DEF DeviceOK, Knows, Heard
  <2> QED
    BY <2>2, <2>3, <2>4, <2>5, <2>6 DEF DeviceOK
<1>9. Quiet(dev[d], s, 0) /\ ~s.blocked
  <2>1. Quiet(p, s, 0)
    BY <1>6, QuietElsewhere, Wider DEF Fields
  <2> QED
    BY <1>3, <1>5, <1>7, <2>1, QuietQuiet
<1>10. CASE Update(d, s) /\ chan' = chan
  BY <1>1, <1>2, <1>6, <1>8, <1>9, <1>10, Step
<1>11. CASE s.client.ch # 0 /\ Evaluated(d, t, TRUE, chan)
  <2>1. s.client \in Clients
    BY <1>6, DeviceFields
  <2> DEFINE c == [s.client EXCEPT !.remote = a]
  <2>2. /\ c \in Clients /\ c.ch = s.client.ch /\ c.connected = s.client.connected
        /\ c.local = s.client.local
    BY <1>3, <2>1 DEF Clients
  <2>3. t = [s EXCEPT !.client = c]
    BY <1>6, <2>1 DEF DeviceStates
  <2> HIDE DEF c, t
  <2>4. t \in DeviceStates /\ Changes(s, t, {"client"}) /\ t.client = c
    BY <1>6, <2>2, <2>3 DEF DeviceStates, Changes, Fields
  <2>5. DeviceOK(t, hist.crossed)
    BY <1>6, <1>8, <1>11, <2>2, <2>4, NoteKeeps
  <2>6. Quiet(s, t, 0)
    BY <2>4, QuietElsewhere, Wider DEF Fields
  <2>7. Quiet(dev[d], t, 0) /\ ~t.blocked
    BY <1>9, <2>4, <2>6, QuietQuiet DEF Changes, Fields
  <2> QED
    BY <1>1, <1>2, <1>11, <2>4, <2>5, <2>7, EvaluatedKeeps
<1> QED
  BY <1>4, <1>10, <1>11

\* A clean-up notes the channels it hits.
LEMMA CrossedByTyped ==
  ASSUME IInv, NEW d \in Devices, NEW k, CrossedBy(d, k)
  PROVE  /\ hist' \in Histories /\ hist.crossed \subseteq hist'.crossed
         /\ {dev[d].pending.ch, dev[d].client.ch} \ {0, k} \subseteq hist'.crossed
         /\ hist'.requests = hist.requests
<1> DEFINE K == {dev[d].pending.ch, dev[d].client.ch} \ {0, k}
<1>1. K \subseteq Channels
  BY Given, PendingFields, ClientFields, Numbers
<1>2. hist' = [hist EXCEPT !.crossed = @ \cup K]
  BY DEF CrossedBy
<1> HIDE DEF K
<1>3. hist' \in Histories /\ hist.crossed \subseteq hist'.crossed /\ K \subseteq hist'.crossed
      /\ hist'.requests = hist.requests
  BY <1>1, <1>2, Given, CrossedTyped
<1> QED
  BY <1>3 DEF K

\* OnEndpointDisconnect.
LEMMA EndpointDisconnectKeeps ==
  ASSUME IInv, NEW d \in Devices, OnEndpointDisconnect(d)
  PROVE  IInv'
<1> DEFINE p == Popped(d)
           s == [p EXCEPT !.alarm = NoAlarm]
           u == OnConnectionRejected(Dropped(s))
           phase == IF u.phase = "awaiting" /\ Now(d).ch = s.reader.ch THEN "notified" ELSE u.phase
           t == [u EXCEPT !.phase = phase]
           X == hist.crossed
<1>1. /\ Runs(d, "disconnect") /\ chan' = ClosedPending(chan, d, dev[d])
      /\ CrossedBy(d, Now(d).ch)
      /\ Update(d, [u EXCEPT !.phase = IF @ = "awaiting" /\ Now(d).ch = s.reader.ch
                                       THEN "notified" ELSE @])
  BY DEF OnEndpointDisconnect
<1>2. /\ dev[d] \in DeviceStates /\ DeviceOK(dev[d], X)
      /\ chan \in Chans /\ hist \in Histories
  BY Given
<1>3. /\ p \in DeviceStates /\ Quiet(dev[d], p, 0) /\ ~dev[d].blocked
      /\ Changes(dev[d], p, {"pcp"}) /\ dev[d].pcp # <<>> /\ Now(d) = Head(dev[d].pcp)
      /\ Head(dev[d].pcp).kind = "disconnect" /\ p.pcp = Tail(dev[d].pcp)
  BY <1>1, Takes
<1> HIDE DEF p
<1>4. s \in DeviceStates /\ Changes(p, s, {}) /\ s.pcp = p.pcp
  BY <1>3, Nothings DEF DeviceStates, Changes, Fields
<1> HIDE DEF s
<1>5. /\ s.pending = dev[d].pending /\ s.call = dev[d].call /\ s.client = dev[d].client
      /\ s.told = dev[d].told /\ s.phase = dev[d].phase /\ s.reader = dev[d].reader
      /\ Changes(dev[d], s, {"pcp"})
  BY <1>3, <1>4 DEF Changes, Fields
<1>6. LET r == Report("rejected", s.client.ch)
      IN /\ u \in DeviceStates /\ Changes(s, u, {"pending", "call", "client", "told"})
         /\ u.pending = NoPending /\ u.call = (IF s.pending.waits THEN "idle" ELSE s.call)
         /\ IF s.client.ch # 0 /\ ~s.client.connected
            THEN u.client = NoClient /\ u.told = Append(s.told, r)
            ELSE u.client = s.client /\ u.told = s.told
  BY <1>4, RejectDropEffect
<1> HIDE DEF u
<1>7. Update(d, t)
  BY <1>1, <1>6 DEF DeviceStates
<1>8. u.phase = dev[d].phase /\ u.pcp = Tail(dev[d].pcp)
  BY <1>3, <1>4, <1>5, <1>6 DEF Changes, Fields
<1>9. phase \in Phases
  BY <1>6, DeviceFields DEF Phases
<1>10. phase = (IF dev[d].phase = "awaiting" /\ Head(dev[d].pcp).ch = dev[d].reader.ch
                THEN "notified" ELSE dev[d].phase)
  BY <1>3, <1>5, <1>8
<1> HIDE DEF phase
<1>11. t \in DeviceStates /\ Changes(u, t, {"phase"}) /\ t.phase = phase
  BY <1>6, <1>9 DEF DeviceStates, Changes, Fields
<1> HIDE DEF t
<1>12. /\ t.pending = NoPending /\ t.pcp = Tail(dev[d].pcp) /\ t.call = u.call
       /\ t.client = u.client /\ t.told = u.told
       /\ Changes(dev[d], t, {"pcp", "pending", "call", "client", "told", "phase"})
  BY <1>5, <1>6, <1>8, <1>11 DEF Changes, Fields
<1>13. DeviceOK(t, X)
  BY <1>2, <1>3, <1>5, <1>6, <1>10, <1>11, <1>12, DisconnectKeeps
<1>14. Quiet(dev[d], t, 0)
  <2>1. Quiet(p, s, 0)
    BY <1>4, QuietElsewhere, Wider
  <2>2. Quiet(s, u, 0)
    BY <1>4, <1>6, QuietDrop, RejectHeard, Wider DEF Fields
  <2>3. Quiet(u, t, 0)
    BY <1>11, QuietElsewhere, Wider DEF Fields
  <2> QED
    BY <1>3, <2>1, <2>2, <2>3, QuietQuiet
<1>15. /\ hist' \in Histories /\ X \subseteq hist'.crossed /\ hist'.requests = hist.requests
  BY <1>1, CrossedByTyped
<1>16. DeviceOK(t, hist'.crossed)
  BY <1>11, <1>13, <1>15, Excuse
<1>17. chan' \in Chans
  BY <1>1, <1>2, PendingClosed, OwnsOne
<1> QED
  BY <1>7, <1>11, <1>14, <1>15, <1>16, <1>17, Step

-----------------------------------------------------------------------------
(* The client *)

\* A new request: no task, channel or report has its number yet.
LEMMA FreshRequest ==
  ASSUME Fresh, dev \in [Devices -> DeviceStates], hist \in Histories,
         NEW d \in Devices, NEW t \in DeviceStates, NEW k \in Channels,
         k = hist.requests + 1, d = Callers[k],
         dev' = [dev EXCEPT ![d] = t], hist'.requests = k,
         NEW task \in PcpTasks, task.kind = "request", task.ch = k,
         t.pcp = Append(dev[d].pcp, task), Changes(dev[d], t, {"pcp", "call"})
  PROVE  Fresh'
<1>1. dev'[d] = t /\ \A e \in Devices : e # d => dev'[e] = dev[e]
  OBVIOUS
<1>2. /\ hist.requests \in Nat /\ k > hist.requests /\ k \in Nat
      /\ \A j \in Channels : j \in Nat /\ (j > hist'.requests => j > hist.requests)
  BY HistFields, Numbers
<1>3. \A e \in Devices : ~Arrives(dev[e], k) /\ ~Used(dev[e], k)
  BY <1>2 DEF Fresh
<1>4. /\ dev[d].pcp \in Seq(PcpTasks) /\ t.told = dev[d].told /\ t.crypt = dev[d].crypt
      /\ t.pending = dev[d].pending
  BY DeviceFields DEF Changes, Fields
<1>5. \A kind, j : HoldsFor(t.pcp, kind, j) <=>
                     HoldsFor(dev[d].pcp, kind, j) \/ (kind = "request" /\ j = k)
  BY <1>4, AppendHoldsFor
<1>6. \A j : Used(t, j) => Used(dev[d], j)
  BY <1>4, <1>5 DEF Used, Heard, InCrypt
<1>7. Once(t.pcp)
  BY <1>3, <1>4, AppendOnce DEF Arrives, Fresh
<1>8. \A e \in Devices : Once(dev'[e].pcp)
  BY <1>1, <1>7 DEF Fresh
<1>9. ASSUME NEW e \in Devices, NEW j \in Channels
      PROVE  /\ HoldsFor(dev'[e].pcp, "request", j) =>
                  HoldsFor(dev[e].pcp, "request", j) \/ (e = d /\ j = k)
             /\ HoldsFor(dev'[e].pcp, "incoming", j) => HoldsFor(dev[e].pcp, "incoming", j)
             /\ Used(dev'[e], j) => Used(dev[e], j)
  <2>1. CASE e = d
    <3>1. /\ HoldsFor(t.pcp, "request", j) => HoldsFor(dev[d].pcp, "request", j) \/ j = k
          /\ HoldsFor(t.pcp, "incoming", j) => HoldsFor(dev[d].pcp, "incoming", j)
          /\ Used(t, j) => Used(dev[d], j)
      BY <1>5, <1>6
    <3> QED
      BY <1>1, <2>1, <3>1
  <2>2. CASE e # d
    BY <1>1, <2>2
  <2> QED
    BY <2>1, <2>2
<1>10. ASSUME NEW e \in Devices, NEW j \in Channels
       PROVE  /\ j > hist'.requests => ~Arrives(dev'[e], j) /\ ~Used(dev'[e], j)
              /\ Arrives(dev'[e], j) => ~Used(dev'[e], j)
  <2>1. Arrives(dev'[e], j) => Arrives(dev[e], j) \/ j = k
    BY <1>9 DEF Arrives
  <2>2. j = k => ~(j > hist'.requests)
    BY <1>2
  <2> QED
    BY <1>2, <1>3, <1>9, <2>1, <2>2 DEF Fresh
<1>11. ASSUME NEW e \in Devices, NEW j \in Channels, HoldsFor(dev'[e].pcp, "request", j)
       PROVE  /\ e = Callers[j]
              /\ \A f \in Devices : ~Used(dev'[f], j) /\ ~HoldsFor(dev'[f].pcp, "incoming", j)
  <2>1. CASE HoldsFor(dev[e].pcp, "request", j)
    BY <1>9, <2>1 DEF Fresh
  <2>2. CASE e = d /\ j = k
    BY <1>3, <1>9, <2>2 DEF Arrives
  <2> QED
    BY <1>9, <1>11, <2>1, <2>2
<1>12. \A e \in Devices : \A j \in Channels : HoldsFor(dev'[e].pcp, "incoming", j) => e # Callers[j]
  BY <1>9 DEF Fresh
<1> QED
  BY <1>8, <1>10, <1>11, <1>12 DEF Fresh

\* What a task posted to the PcpHandler thread leaves as it was.
LEMMA PostedKeeps ==
  ASSUME NEW s \in DeviceStates, NEW t \in DeviceStates, NEW X, DeviceOK(s, X),
         NEW task \in PcpTasks, t.pcp = Append(s.pcp, task)
  PROVE  /\ Changes(s, t, {"pcp", "call"}) => Shape(t) /\ Knows(t)
         /\ Changes(s, t, {"pcp", "call"}) => Settled(t, X) /\ Removing(t, X)
         /\ Changes(s, t, {"pcp", "call"}) =>
              Registering(t) /\ InOrder(t, X) /\ Current(t, X) /\ Replaced(t, X)
         /\ task.kind # "response" /\ Changes(s, t, {"pcp", "call"}) => Reading(t)
<1> SUFFICES ASSUME Changes(s, t, {"pcp", "call"})
             PROVE  /\ Shape(t) /\ Knows(t) /\ Settled(t, X) /\ Removing(t, X)
                    /\ Registering(t) /\ InOrder(t, X) /\ Current(t, X) /\ Replaced(t, X)
                    /\ task.kind # "response" => Reading(t)
  OBVIOUS
<1>1. \A f : {"pcp", "call"} \subseteq f => Changes(s, t, f)
  BY DEF Changes
<1>2. /\ t.client = s.client /\ t.pending = s.pending /\ t.em = s.em
      /\ t.told = s.told /\ t.blocked = s.blocked /\ t.phase = s.phase /\ t.reader = s.reader
      /\ t.notify = s.notify /\ t.active = s.active /\ s.pcp \in Seq(PcpTasks)
  BY DeviceFields DEF Changes, Fields
<1>3. /\ Shape(t) /\ Knows(t) /\ Registering(t) /\ InOrder(t, X) /\ Current(t, X)
      /\ Replaced(t, X)
  BY <1>1, PartsKept DEF Fields
<1>4. Settled(t, X)
  BY <1>2, AppendLeaves DEF DeviceOK, Settled, Latest
<1>5. Removing(t, X)
  <2>1. HoldsFor(s.pcp, "disconnect", s.reader.ch) => HoldsFor(t.pcp, "disconnect", s.reader.ch)
    BY <1>2, AppendHoldsFor
  <2> QED
    BY <1>2, <2>1 DEF DeviceOK, Removing
<1>6. task.kind # "response" => Reading(t)
  BY <1>2, AppendHolds, AppendSingle DEF DeviceOK, Reading
<1> QED
  BY <1>3, <1>4, <1>5, <1>6

\* RequestConnection.
LEMMA CallRequestKeeps == ASSUME IInv, NEW d \in Devices, CallRequest(d) PROVE IInv'
<1> DEFINE s == dev[d]
           k == hist.requests + 1
           task == Task("request", k, "none")
           u == PostPcp(s, task)
           t == [u EXCEPT !.call = "request"]
           X == hist.crossed
<1>1. /\ s.call = "idle" /\ s.client.ch = 0 /\ hist.requests < Len(Callers) /\ d = Callers[k]
      /\ Update(d, t) /\ hist' = [hist EXCEPT !.requests = @ + 1] /\ chan' = chan
  BY DEF CallRequest, Calls
<1>2. /\ s \in DeviceStates /\ DeviceOK(s, X) /\ chan \in Chans /\ hist \in Histories /\ Fresh
      /\ dev \in [Devices -> DeviceStates]
  BY Given DEF IInv, Types
<1>3. k \in Channels /\ k \in 0..Len(Callers)
  BY <1>1, <1>2, HistFields, Numbers DEF Channels
<1>4. hist' \in Histories /\ hist'.crossed = X /\ hist'.requests = k
  <2> HIDE DEF k
  <2>1. hist' = [hist EXCEPT !.requests = k]
    BY <1>1 DEF k
  <2> QED
    BY <1>2, <1>3, <2>1 DEF Histories
<1> HIDE DEF k
<1>5. task \in PcpTasks /\ task.kind = "request" /\ task.ch = k
  BY <1>3, PcpTask
<1> HIDE DEF task
<1>6. u \in DeviceStates /\ Changes(s, u, {"pcp"}) /\ u.pcp = Append(s.pcp, task)
  BY <1>2, <1>5, PostPcpEffect
<1> HIDE DEF u
<1>7. t \in DeviceStates /\ Changes(u, t, {"call"}) /\ t.call = "request"
  BY <1>6, CallEffect DEF CallStates
<1> HIDE DEF t
<1>8. Changes(s, t, {"pcp", "call"}) /\ t.pcp = Append(s.pcp, task)
  BY <1>6, <1>7 DEF Changes, Fields
<1>9. OneCall(t)
  <2>1. /\ t.client = s.client /\ t.pending = s.pending /\ t.em = s.em /\ s.pcp \in Seq(PcpTasks)
    BY <1>2, <1>8, DeviceFields DEF Changes, Fields
  <2>2. /\ ~Holds(s.pcp, "request") /\ ~Holds(s.pcp, "answer") /\ ~Holds(s.em, "unregister")
        /\ ~s.pending.waits /\ s.client.local = "none" /\ ~s.client.connected
    BY <1>1, <1>2, Nothings DEF DeviceOK, OneCall, Shape
  <2>3. ~Holds(t.pcp, "answer") /\ Single(t.pcp, "request") /\ Single(t.pcp, "answer")
    BY <1>2, <1>5, <1>8, <2>1, <2>2, AppendHolds, AppendSingle DEF DeviceOK, OneCall
  <2> QED
    BY <1>2, <1>7, <2>1, <2>2, <2>3 DEF DeviceOK, OneCall
<1>10. DeviceOK(t, X)
  BY <1>2, <1>5, <1>7, <1>8, <1>9, PostedKeeps DEF DeviceOK
<1>11. Fresh'
  <2>1. dev' = [dev EXCEPT ![d] = t]
    BY <1>1 DEF Update
  <2>2. d = Callers[k]
    BY <1>1
  <2> QED
    BY <1>2, <1>3, <1>4, <1>5, <1>7, <1>8, <2>1, <2>2, FreshRequest DEF k
<1>12. dev' \in [Devices -> DeviceStates] /\ dev'[d] = t /\ \A e \in Devices : e # d => dev'[e] = dev[e]
  BY <1>1, <1>2, <1>7 DEF Update
<1>13. \A e \in Devices : DeviceOK(dev'[e], hist'.crossed)
  BY <1>4, <1>10, <1>12, Given
<1> QED
  BY <1>1, <1>2, <1>4, <1>11, <1>12, <1>13 DEF IInv, Types, Chans

\* AcceptConnection and RejectConnection.
LEMMA CallAnswerKeeps ==
  ASSUME IInv, NEW d \in Devices, NEW answer \in Answers, CallAnswer(d, answer)
  PROVE  IInv'
<1> DEFINE s == dev[d]
           k == s.client.ch
           task == Task("answer", k, answer)
           u == PostPcp(s, task)
           c == [s.client EXCEPT !.asked = TRUE]
           v == [u EXCEPT !.client = c]
           t == [v EXCEPT !.call = "answer"]
           X == hist.crossed
           h == IF answer = "reject" THEN Faulted ELSE hist
<1>1. /\ s.call = "idle" /\ k # 0
      /\ Update(d, [u EXCEPT !.call = "answer", !.client.asked = TRUE])
      /\ answer = "reject" => Fault("reject")
      /\ hist' = [h EXCEPT !.said[d][k] = answer] /\ chan' = chan
  BY DEF CallAnswer, Calls
<1>2. /\ s \in DeviceStates /\ DeviceOK(s, X) /\ chan \in Chans /\ hist \in Histories
  BY Given
<1>3. k \in Channels
  BY <1>1, <1>2, ClientFields, Numbers
<1>4. hist' \in Histories /\ hist'.crossed = X /\ hist'.requests = hist.requests
  <2>1. h \in Histories /\ h.crossed = X /\ h.requests = hist.requests
    BY <1>1, <1>2, FaultedTyped
  <2> HIDE DEF h, k
  <2>2. [h.said EXCEPT ![d][k] = answer] \in [Devices -> [Channels -> Answers \cup {"none"}]]
    BY <1>3, <2>1, HistFields
  <2>3. hist' = [h EXCEPT !.said = [h.said EXCEPT ![d][k] = answer]]
    BY <1>1, <2>1 DEF Histories
  <2> QED
    BY <2>1, <2>2, <2>3 DEF Histories
<1>5. task \in PcpTasks /\ task.kind = "answer" /\ task.ch = k
  BY <1>3, PcpTask
<1> HIDE DEF task
<1>6. u \in DeviceStates /\ Changes(s, u, {"pcp"}) /\ u.pcp = Append(s.pcp, task)
  BY <1>2, <1>5, PostPcpEffect
<1> HIDE DEF u
<1>7. u.client = s.client
  BY <1>6 DEF Changes, Fields
<1>8. /\ c \in Clients /\ c.ch = s.client.ch /\ c.connected = s.client.connected
      /\ c.local = s.client.local
  BY <1>2, DeviceFields DEF Clients
<1>9. Update(d, t)
  <2>1. [u EXCEPT !.call = "answer", !.client.asked = TRUE] = t
    BY <1>6, <1>7 DEF DeviceStates
  <2> QED
    BY <1>1, <2>1
<1> HIDE DEF c
<1>10. v \in DeviceStates /\ Changes(u, v, {"client"}) /\ v.client = c
  BY <1>6, <1>8 DEF DeviceStates, Changes, Fields
<1> HIDE DEF v
<1>11. t \in DeviceStates /\ Changes(v, t, {"call"}) /\ t.call = "answer"
  BY <1>10, CallEffect DEF CallStates
<1> HIDE DEF t
<1> DEFINE w == [u EXCEPT !.call = "answer"]
<1>12. /\ w \in DeviceStates /\ Changes(u, w, {"call"}) /\ w.call = "answer"
  BY <1>6, CallEffect DEF CallStates
<1> HIDE DEF w
<1>13. Changes(s, w, {"pcp", "call"}) /\ w.pcp = Append(s.pcp, task)
  BY <1>6, <1>12 DEF Changes, Fields
<1>14. OneCall(w)
  <2>1. /\ w.client = s.client /\ w.pending = s.pending /\ w.em = s.em /\ s.pcp \in Seq(PcpTasks)
    BY <1>2, <1>12, <1>13, DeviceFields DEF Changes, Fields
  <2>2. /\ ~Holds(s.pcp, "request") /\ ~Holds(s.pcp, "answer") /\ ~Holds(s.em, "unregister")
        /\ ~s.pending.waits
    BY <1>1, <1>2 DEF DeviceOK, OneCall
  <2>3. ~Holds(w.pcp, "request") /\ Single(w.pcp, "request") /\ Single(w.pcp, "answer")
    BY <1>2, <1>5, <1>12, <1>13, <2>1, <2>2, AppendHolds, AppendSingle DEF DeviceOK, OneCall
  <2> QED
    BY <1>2, <1>12, <1>13, <2>1, <2>2, <2>3 DEF DeviceOK, OneCall
<1>15. DeviceOK(w, X)
  BY <1>2, <1>5, <1>12, <1>13, <1>14, PostedKeeps DEF DeviceOK
<1>16. Changes(w, t, {"client"}) /\ t.client = c /\ w.client = s.client
  BY <1>6, <1>10, <1>11, <1>12, <1>13 DEF Changes, Fields
<1>17. DeviceOK(t, X)
  BY <1>1, <1>8, <1>11, <1>12, <1>13, <1>15, <1>16, NoteKeeps
<1>18. Quiet(s, t, 0)
  <2>1. Quiet(s, u, 0)
    <3>1. {"pcp"} \subseteq Fields \ {"told", "crypt", "pending"}
      BY DEF Fields
    <3>2. Changes(s, u, Fields \ {"told", "crypt", "pending"})
      BY <1>6, <3>1, Wider
    <3> QED
      BY <1>2, <1>5, <1>6, <3>2, QuietPost
  <2>2. Quiet(u, v, 0)
    BY <1>10, QuietElsewhere, Wider DEF Fields
  <2>3. Quiet(v, t, 0)
    BY <1>11, QuietElsewhere, Wider DEF Fields
  <2> QED
    BY <2>1, <2>2, <2>3, QuietQuiet
<1> QED
  BY <1>1, <1>2, <1>4, <1>9, <1>11, <1>17, <1>18, Step

\* DisconnectFromEndpoint.
LEMMA CallDisconnectKeeps == ASSUME IInv, NEW d \in Devices, CallDisconnect(d) PROVE IInv'
<1> DEFINE s == dev[d]
           task == Task("unregister", s.active, "none")
           u == PostEm(s, task)
           t == [u EXCEPT !.call = "leave"]
           X == hist.crossed
<1>1. /\ s.call = "idle" /\ Fault("leave") /\ Update(d, t) /\ hist' = Faulted /\ chan' = chan
  BY DEF CallDisconnect, Calls
<1>2. /\ s \in DeviceStates /\ DeviceOK(s, X) /\ chan \in Chans /\ hist \in Histories
  BY Given
<1>3. hist' \in Histories /\ hist'.crossed = X /\ hist'.requests = hist.requests
  BY <1>1, <1>2, FaultedTyped
<1>4. task \in EmTasks /\ task.kind = "unregister"
  BY <1>2, DeviceFields, EmTask
<1> HIDE DEF task
<1>5. u \in DeviceStates /\ Changes(s, u, {"em"}) /\ u.em = Append(s.em, task)
  BY <1>2, <1>4, PostEmEffect
<1> HIDE DEF u
<1>6. t \in DeviceStates /\ Changes(u, t, {"call"}) /\ t.call = "leave"
  BY <1>5, CallEffect DEF CallStates
<1> HIDE DEF t
<1>7. Changes(s, t, {"em", "call"}) /\ t.em = Append(s.em, task)
  BY <1>5, <1>6 DEF Changes, Fields
<1>8. /\ t.client = s.client /\ t.pending = s.pending /\ t.pcp = s.pcp /\ s.em \in Seq(EmTasks)
      /\ t.blocked = s.blocked /\ t.phase = s.phase
  BY <1>2, <1>7, DeviceFields DEF Changes, Fields
<1>9. OneCall(t)
  <2>1. /\ ~Holds(s.pcp, "request") /\ ~Holds(s.pcp, "answer") /\ ~Holds(s.em, "unregister")
        /\ ~s.pending.waits
    BY <1>1, <1>2 DEF DeviceOK, OneCall
  <2>2. Single(t.em, "unregister")
    BY <1>2, <1>4, <1>7, <1>8, <2>1, AppendSingle DEF DeviceOK, OneCall
  <2> QED
    BY <1>2, <1>6, <1>8, <2>1, <2>2 DEF DeviceOK, OneCall
<1>10. Registering(t)
  <2>1. Holds(t.em, "register") <=> Holds(s.em, "register")
    BY <1>4, <1>7, <1>8, AppendHolds
  <2>2. Single(t.em, "register")
    BY <1>2, <1>4, <1>7, <1>8, AppendSingle DEF DeviceOK, Registering
  <2>3. \A i \in DOMAIN t.em : t.em[i].kind = "register" => t.em[i].ch = t.pending.ch
    BY <1>2, <1>4, <1>7, <1>8, Appended DEF DeviceOK, Registering
  <2>4. s.phase # "idle" => t.em # <<>> /\ Head(t.em) = Head(s.em)
    BY <1>2, <1>4, <1>7, <1>8, AppendHead DEF DeviceOK, Registering
  <2> QED
    BY <1>2, <1>8, <2>1, <2>2, <2>3, <2>4 DEF DeviceOK, Registering
<1>11. DeviceOK(t, X)
  <2>1. \A f : {"em", "call"} \subseteq f => Changes(s, t, f)
    BY <1>7 DEF Changes
  <2> QED
    BY <1>2, <1>6, <1>9, <1>10, <2>1, PartsKept DEF DeviceOK, Fields
<1>12. Quiet(s, t, 0)
  BY <1>7, QuietElsewhere, Wider DEF Fields
<1> QED
  BY <1>1, <1>2, <1>3, <1>6, <1>11, <1>12, Step

-----------------------------------------------------------------------------
(* The encryption threads and the channels *)

\* A step that leaves the devices as they are.
LEMMA Still ==
  ASSUME IInv, dev' = dev, chan' \in Chans, hist' \in Histories,
         hist.crossed \subseteq hist'.crossed, hist'.requests = hist.requests
  PROVE  IInv'
<1>1. Fresh'
  BY DEF IInv, Fresh
<1>2. \A d \in Devices : DeviceOK(dev'[d], hist'.crossed)
  BY Given, Excuse
<1> QED
  BY <1>1, <1>2 DEF IInv, Types, Chans

\* An encryption thread waits for the next message.
LEMMA PhaseEffect ==
  ASSUME IInv, NEW d \in Devices, NEW r \in Roles, NEW phase \in {"start", "m1", "m2", "m3"}
  PROVE  LET t == NextPhase(d, r, phase)
         IN t \in DeviceStates /\ DeviceOK(t, hist.crossed) /\ Quiet(dev[d], t, 0)
<1> DEFINE s == dev[d]
           c == [s.crypt[r] EXCEPT !.phase = phase]
           t == [s EXCEPT !.crypt[r] = c]
<1>1. s \in DeviceStates /\ DeviceOK(s, hist.crossed) /\ s.crypt[r] \in Runners
  BY Given, DeviceFields
<1>2. c \in Runners /\ c.queue = s.crypt[r].queue
  BY <1>1 DEF Runners
<1>3. NextPhase(d, r, phase) = t
  BY <1>1, DeviceFields DEF NextPhase, DeviceStates
<1> HIDE DEF c
<1>4. t \in DeviceStates /\ Changes(s, t, {"crypt"}) /\ t.crypt = [s.crypt EXCEPT ![r] = c]
  BY <1>1, <1>2, RunnerEffect
<1> HIDE DEF t
<1>5. DeviceOK(t, hist.crossed)
  BY <1>1, <1>4, Unchanged
<1>6. \A q \in Roles : t.crypt[q].queue = s.crypt[q].queue
  BY <1>1, <1>2, <1>4, DeviceFields
<1>7. t.told = s.told /\ t.pcp = s.pcp /\ t.pending = s.pending
  BY <1>4 DEF Changes, Fields
<1>8. Quiet(s, t, 0)
  BY <1>6, <1>7 DEF Quiet, Used, Heard, InCrypt
<1> QED
  BY <1>3, <1>4, <1>5, <1>8

\* An encryption thread is done with a channel.
LEMMA FinishEffect ==
  ASSUME IInv, NEW d \in Devices, NEW r \in Roles, dev[d].crypt[r].queue # <<>>
  PROVE  LET t == Finished(d, r)
         IN /\ t \in DeviceStates /\ DeviceOK(t, hist.crossed) /\ Quiet(dev[d], t, 0)
            /\ Changes(dev[d], t, {"crypt"}) /\ \A k : InCrypt(t, k) => InCrypt(dev[d], k)
            /\ Secures(d, r) \in Channels /\ InCrypt(dev[d], Secures(d, r))
<1> DEFINE s == dev[d]
           q == s.crypt[r].queue
           c == [queue |-> Tail(q), phase |-> Opening(r)]
           t == [s EXCEPT !.crypt[r] = c]
<1>1. /\ s \in DeviceStates /\ DeviceOK(s, hist.crossed) /\ s.crypt \in [Roles -> Runners]
      /\ q \in Seq(Channels)
  BY Given, DeviceFields DEF Runners
<1>2. /\ Tail(q) \in Seq(Channels) /\ Secures(d, r) = q[1] /\ 1 \in DOMAIN q /\ q[1] \in Channels
      /\ \A i \in DOMAIN Tail(q) : i + 1 \in DOMAIN q /\ Tail(q)[i] = q[i + 1]
  BY <1>1, Removed DEF Secures
<1>3. c \in Runners /\ c.queue = Tail(q)
  BY <1>2 DEF Runners, Opening
<1>4. Finished(d, r) = t
  BY <1>1 DEF Finished, DeviceStates
<1> HIDE DEF c
<1>5. t \in DeviceStates /\ Changes(s, t, {"crypt"}) /\ t.crypt = [s.crypt EXCEPT ![r] = c]
  BY <1>1, <1>3, RunnerEffect
<1> HIDE DEF t
<1>6. DeviceOK(t, hist.crossed)
  BY <1>1, <1>5, Unchanged
<1>7. ASSUME NEW k, InCrypt(t, k) PROVE InCrypt(s, k)
  <2>1. PICK o \in Roles : \E i \in DOMAIN t.crypt[o].queue : t.crypt[o].queue[i] = k
    BY <1>7 DEF InCrypt
  <2>2. PICK i \in DOMAIN t.crypt[o].queue : t.crypt[o].queue[i] = k
    BY <2>1
  <2>3. CASE o # r
    <3>1. t.crypt[o] = s.crypt[o]
      BY <1>1, <1>5, <2>3
    <3> QED
      BY <2>2, <3>1 DEF InCrypt
  <2>4. CASE o = r
    <3>1. t.crypt[o].queue = Tail(q)
      BY <1>1, <1>3, <1>5, <2>4
    <3>2. i + 1 \in DOMAIN q /\ q[i + 1] = k
      BY <1>2, <2>2, <3>1
    <3> QED
      BY <3>2 DEF InCrypt
  <2> QED
    BY <2>3, <2>4
<1>8. InCrypt(s, Secures(d, r))
  BY <1>2 DEF InCrypt
<1>9. t.told = s.told /\ t.pcp = s.pcp /\ t.pending = s.pending
  BY <1>5 DEF Changes, Fields
<1>10. Quiet(s, t, 0)
  BY <1>7, <1>9 DEF Quiet, Used, Heard
<1> QED
  BY <1>2, <1>4, <1>5, <1>6, <1>7, <1>8, <1>10

\* The runner's callback, for the channel that it leaves.
LEMMA HandshakeEnds ==
  ASSUME IInv, NEW d \in Devices, NEW r \in Roles, dev[d].crypt[r].queue # <<>>,
         NEW kind \in {"success", "failure"}
  PROVE  LET t == PostPcp(Finished(d, r), Task(kind, Secures(d, r), "none"))
         IN t \in DeviceStates /\ DeviceOK(t, hist.crossed) /\ Quiet(dev[d], t, 0)
<1> DEFINE s == dev[d]
           u == Finished(d, r)
           k == Secures(d, r)
           task == Task(kind, k, "none")
           t == PostPcp(u, task)
<1>1. s \in DeviceStates /\ s.pcp \in Seq(PcpTasks)
  BY Given, DeviceFields
<1>2. /\ u \in DeviceStates /\ DeviceOK(u, hist.crossed) /\ Quiet(s, u, 0)
      /\ Changes(s, u, {"crypt"}) /\ \A j : InCrypt(u, j) => InCrypt(s, j)
      /\ k \in Channels /\ InCrypt(s, k)
  BY FinishEffect
<1> HIDE DEF u, k
<1>3. task \in PcpTasks /\ task.kind = kind /\ task.ch = k
  BY <1>2, PcpTask
<1> HIDE DEF task
<1>4. t \in DeviceStates /\ Changes(u, t, {"pcp"}) /\ t.pcp = Append(u.pcp, task)
  BY <1>2, <1>3, PostPcpEffect
<1> HIDE DEF t
<1>5. DeviceOK(t, hist.crossed)
  BY <1>2, <1>3, <1>4, PostPcpKeeps
<1>6. /\ t.told = s.told /\ t.crypt = u.crypt /\ t.pending = s.pending /\ t.pcp = Append(s.pcp, task)
  BY <1>2, <1>4 DEF Changes, Fields
<1>7. \A j, of : HoldsFor(t.pcp, of, j) => HoldsFor(s.pcp, of, j) \/ (kind = of /\ j = k)
  BY <1>1, <1>3, <1>6, AppendHoldsFor
<1>8. Once(s.pcp) => Once(t.pcp)
  BY <1>1, <1>3, <1>6, AppendOnce
<1>9. ASSUME NEW j, Used(t, j) PROVE Used(s, j)
  <2>1. Heard(t, j) => Heard(s, j)
    BY <1>6 DEF Heard
  <2>2. InCrypt(t, j) => InCrypt(s, j)
    BY <1>2, <1>6 DEF InCrypt
  <2> QED
    BY <1>2, <1>6, <1>7, <1>9, <2>1, <2>2 DEF Used
<1>10. Quiet(s, t, 0)
  BY <1>7, <1>8, <1>9 DEF Quiet
<1> QED
  BY <1>4, <1>5, <1>10 DEF t, task, u, k

\* The channel was closed before its handshake.
LEMMA SkipHandshakeKeeps ==
  ASSUME IInv, NEW d \in Devices, NEW r \in Roles, SkipHandshake(d, r)
  PROVE  IInv'
<1> DEFINE k == Secures(d, r)
           t == Finished(d, r)
<1>1. dev[d].crypt[r].queue # <<>> /\ Update(d, t) /\ chan' = chan
  BY DEF SkipHandshake, Crypting
<1>2. t \in DeviceStates /\ DeviceOK(t, hist.crossed) /\ Quiet(dev[d], t, 0) /\ k \in Channels
  BY <1>1, FinishEffect
<1>3. hist' \in Histories /\ hist'.crossed = hist.crossed /\ hist'.requests = hist.requests
  <2> DEFINE silent == IF dev[d].pending.ch = k /\ dev[d].pending.own
                       THEN hist.silent \cup {k} ELSE hist.silent
  <2>1. silent \in SUBSET Channels
    BY <1>2, Given, HistFields
  <2>2. hist' = [hist EXCEPT !.silent = silent]
    BY Given DEF SkipHandshake, Histories
  <2> HIDE DEF silent
  <2> QED
    BY <2>1, <2>2, Given DEF Histories
<1> HIDE DEF t
<1> QED
  BY <1>1, <1>2, <1>3, Given, Step

\* The first message is written.
LEMMA StartClientKeeps == ASSUME IInv, NEW d \in Devices, StartClient(d) PROVE IInv'
<1> DEFINE k == Secures(d, "client")
           t == NextPhase(d, "client", "m2")
<1>1. /\ dev[d].crypt["client"].queue # <<>> /\ Update(d, t) /\ hist' = hist
      /\ chan' = Written(chan, d, k, "m1")
  BY DEF StartClient, Crypting
<1>2. t \in DeviceStates /\ DeviceOK(t, hist.crossed) /\ Quiet(dev[d], t, 0)
  BY PhaseEffect DEF Roles
<1>3. k \in Channels
  BY <1>1, FinishEffect DEF Roles
<1> HIDE DEF k, t
<1>4. chan' \in Chans
  BY <1>1, <1>3, Given, WrittenTyped DEF Frames
<1> QED
  BY <1>1, <1>2, <1>4, Given, Step

\* A message is read, and the next one written.
LEMMA ReadMessageKeeps ==
  ASSUME IInv, NEW d \in Devices, NEW r \in Roles, NEW phase \in {"m1", "m2", "m3"},
         ReadMessage(d, r, phase)
  PROVE  IInv'
<1> DEFINE k == Secures(d, r)
           rest == ReadFrom(chan, d, k)
           sent == IF phase = "m2" THEN Written(rest, d, k, "m3") ELSE rest
           u == NextPhase(d, r, "m3")
           t == PostPcp(Finished(d, r), Task("success", k, "none"))
<1>1. dev[d].crypt[r].queue # <<>> /\ chan[k].wire[d] # <<>>
  BY DEF ReadMessage, Crypting, Readable
<1>2. \/ Update(d, u) /\ chan' = Written(rest, d, k, "m2") /\ hist' = hist
      \/ \E late \in BOOLEAN :
           /\ late => Fault("timeout")
           /\ Update(d, t)
           /\ chan' = IF late THEN Closed(sent, d, k) ELSE sent
           /\ hist' = IF late THEN Faulted ELSE hist
  BY DEF ReadMessage
<1>3. k \in Channels
  BY <1>1, FinishEffect
<1>4. u \in DeviceStates /\ DeviceOK(u, hist.crossed) /\ Quiet(dev[d], u, 0)
  BY PhaseEffect
<1>5. t \in DeviceStates /\ DeviceOK(t, hist.crossed) /\ Quiet(dev[d], t, 0)
  BY <1>1, HandshakeEnds
<1> HIDE DEF k, u, t
<1>6. rest \in Chans
  BY <1>1, <1>3, Given, ReadTyped
<1> HIDE DEF rest
<1>7. /\ Written(rest, d, k, "m2") \in Chans /\ sent \in Chans /\ Closed(sent, d, k) \in Chans
  BY <1>3, <1>6, WrittenTyped, ClosedTyped DEF Frames
<1> HIDE DEF sent
<1>8. CASE Update(d, u) /\ chan' = Written(rest, d, k, "m2") /\ hist' = hist
  BY <1>4, <1>7, <1>8, Given, Step
<1>9. ASSUME NEW late \in BOOLEAN, late => Fault("timeout"), Update(d, t),
             chan' = IF late THEN Closed(sent, d, k) ELSE sent,
             hist' = IF late THEN Faulted ELSE hist
      PROVE  IInv'
  <2>1. hist' \in Histories /\ hist'.crossed = hist.crossed /\ hist'.requests = hist.requests
    BY <1>9, Given, FaultedTyped
  <2> QED
    BY <1>5, <1>7, <1>9, <2>1, Step
<1> QED
  BY <1>2, <1>8, <1>9

\* The handshake fails.
LEMMA FailHandshakeKeeps ==
  ASSUME IInv, NEW d \in Devices, NEW r \in Roles, NEW phase, FailHandshake(d, r, phase)
  PROVE  IInv'
<1> DEFINE t == PostPcp(Finished(d, r), Task("failure", Secures(d, r), "none"))
<1>1. dev[d].crypt[r].queue # <<>> /\ Update(d, t) /\ chan' = chan /\ hist' = hist
  BY DEF FailHandshake, Crypting
<1>2. t \in DeviceStates /\ DeviceOK(t, hist.crossed) /\ Quiet(dev[d], t, 0)
  BY <1>1, HandshakeEnds
<1> HIDE DEF t
<1> QED
  BY <1>1, <1>2, Given, Step

\* The handshake is timed out.
LEMMA TimeOutKeeps ==
  ASSUME IInv, NEW d \in Devices, NEW r \in Roles, TimeOutHandshake(d, r)
  PROVE  IInv'
<1>1. /\ dev[d].crypt[r].queue # <<>> /\ dev' = dev /\ Fault("timeout") /\ hist' = Faulted
      /\ chan' = Closed(chan, d, Secures(d, r))
  BY DEF TimeOutHandshake, Crypting
<1>2. Secures(d, r) \in Channels
  BY <1>1, FinishEffect
<1> QED
  BY <1>1, <1>2, Given, ClosedTyped, FaultedTyped, Still

\* A transport fails.
LEMMA BreakLinkKeeps == ASSUME IInv, NEW k \in Channels, BreakLink(k) PROVE IInv'
<1> DEFINE w == [d \in Devices |-> <<>>]
           new == [chan[k] EXCEPT !.broken = TRUE, !.wire = w]
<1>1. chan \in Chans /\ hist \in Histories
  BY DEF IInv, Types, Chans
<1>2. Fault("break") /\ hist' = Faulted /\ dev' = dev
  BY DEF BreakLink
<1>3. w \in [Devices -> Seq(Frames)]
  OBVIOUS
<1>4. chan' = [chan EXCEPT ![k] = new]
  BY <1>1 DEF BreakLink, Chans, ChannelStates
<1> HIDE DEF w
<1>5. new \in ChannelStates
  BY <1>1, <1>3, ChannelFields DEF ChannelStates
<1> HIDE DEF new
<1>6. chan' \in Chans
  BY <1>1, <1>4, <1>5, ChannelSet
<1> QED
  BY <1>1, <1>2, <1>6, FaultedTyped, Still


-----------------------------------------------------------------------------
(* The endpoint manager thread, the reader and the alarm *)

\* The reader and the runners apart, a step of this thread posts at most
\* endpoint removals, and tells of what was pending.
LEMMA RegisterEndpointStep == ASSUME IInv, NEW d \in Devices, RegisterEndpoint(d) PROVE IInv'
<1> DEFINE s == dev[d]
           k == Head(s.em).ch
           c == IF s.client.ch = 0 THEN [NoClient EXCEPT !.ch = k] ELSE s.client
           p == [s.pending EXCEPT !.waits = FALSE]
           r == Report("initiated", k)
           call == IF s.pending.waits THEN "idle" ELSE s.call
           told == Append(s.told, r)
           t == [s EXCEPT !.em = Tail(s.em), !.active = k, !.reader = [ch |-> k, state |-> "reading"],
                          !.client = c, !.told = told, !.blocked = FALSE, !.pending = p,
                          !.call = call]
           X == hist.crossed
<1>1. /\ s.em # <<>> /\ Head(s.em).kind = "register" /\ s.phase = "idle" /\ s.reader = NoReader
      /\ chan' = chan /\ hist' = hist
  BY DEF RegisterEndpoint, Manages
<1>2. /\ s \in DeviceStates /\ DeviceOK(s, X) /\ chan \in Chans /\ hist \in Histories
  BY Given
<1>3. Update(d, t)
  BY <1>2, DeviceFields DEF RegisterEndpoint, Report, DeviceStates, Pendings
<1>4. /\ s.blocked /\ k = s.pending.ch /\ k \in Channels
  BY <1>1, <1>2, Registered
<1>5. Tail(s.em) \in Seq(EmTasks)
  BY <1>1, <1>2, DeviceFields, Removed
<1>6. c \in Clients
  BY <1>2, <1>4, DeviceFields, Nothings DEF Clients, Known
<1>7. p \in Pendings /\ p.ch = s.pending.ch
  BY <1>2, DeviceFields DEF Pendings
<1>8. r \in Reports /\ told \in Seq(Reports)
  BY <1>2, <1>4, Reported DEF Events
<1>9. call \in CallStates
  BY <1>2, DeviceFields DEF CallStates
<1>10. [ch |-> k, state |-> "reading"] \in Readers /\ k \in Known
  BY <1>4 DEF Readers, Known
<1> HIDE DEF k, c, p, told, call, r
<1>11. /\ t \in DeviceStates /\ t.em = Tail(s.em) /\ t.active = k
       /\ t.reader = [ch |-> k, state |-> "reading"] /\ t.client = c /\ t.told = told
       /\ ~t.blocked /\ t.pending = p /\ t.call = call
       /\ Changes(s, t, {"em", "active", "reader", "client", "told", "blocked", "pending", "call"})
  BY <1>2, <1>5, <1>6, <1>7, <1>8, <1>9, <1>10 DEF DeviceStates, Changes, Fields
<1> HIDE DEF t
<1>12. DeviceOK(t, X)
  BY <1>1, <1>2, <1>11, RegisterEndpointKeeps DEF k, c, p, told, call, r
<1>13. Quiet(s, t, 0)
  <2>1. \A j : Heard(t, j) => Heard(s, j) \/ j = s.pending.ch
    <3>1. \A j : Heard(t, j) <=> Heard(s, j) \/ r = [what |-> "initiated", ch |-> j]
      BY <1>2, <1>8, <1>11, Tells DEF told
    <3>2. r.ch = s.pending.ch
      BY <1>4 DEF r, Report
    <3> QED
      BY <3>1, <3>2
  <2> QED
    BY <1>7, <1>11, <2>1, QuietDrop, Wider DEF Fields
<1> QED
  BY <1>1, <1>2, <1>3, <1>11, <1>12, <1>13, Step

\* An endpoint registered twice.
LEMMA DuplicateStep ==
  ASSUME IInv, NEW d \in Devices, RegisterDuplicate(d) \/ JoinDuplicate(d)
  PROVE  IInv'
<1> DEFINE s == dev[d]
           t == [s EXCEPT !.active = 0]
           u == [s EXCEPT !.reader = NoReader]
           X == hist.crossed
<1>1. /\ s \in DeviceStates /\ DeviceOK(s, X) /\ chan \in Chans /\ hist \in Histories
  BY Given
<1>2. CASE RegisterDuplicate(d)
  <2>1. /\ s.em # <<>> /\ Head(s.em).kind = "register" /\ s.phase = "idle" /\ s.active # 0
        /\ Update(d, t) /\ chan' = Closed(chan, d, s.active) /\ hist' = hist
    BY <1>2 DEF RegisterDuplicate, Manages
  <2>2. t \in DeviceStates /\ Changes(s, t, {"active"}) /\ t.active = 0
    BY <1>1 DEF DeviceStates, Changes, Fields, Known
  <2> HIDE DEF t
  <2>3. DeviceOK(t, X)
    BY <1>1, <2>1, <2>2, DuplicateKeeps
  <2>4. Quiet(s, t, 0)
    BY <2>2, QuietElsewhere, Wider DEF Fields
  <2>5. chan' \in Chans
    BY <1>1, <2>1, DeviceFields, Numbers, ClosedTyped
  <2> QED
    BY <1>1, <2>1, <2>2, <2>3, <2>4, <2>5, Step
<1>3. CASE JoinDuplicate(d)
  <2>1. /\ s.phase = "idle" /\ s.active = 0 /\ s.reader.state = "gone"
        /\ Update(d, u) /\ chan' = chan /\ hist' = hist
    BY <1>3 DEF JoinDuplicate, Manages
  <2>2. u \in DeviceStates /\ Changes(s, u, {"reader"}) /\ u.reader = NoReader
    BY <1>1, Nothings DEF DeviceStates, Changes, Fields
  <2> HIDE DEF u
  <2>3. DeviceOK(u, X)
    BY <1>1, <2>1, <2>2, DuplicateKeeps
  <2>4. Quiet(s, u, 0)
    BY <2>2, QuietElsewhere, Wider DEF Fields
  <2> QED
    BY <1>1, <2>1, <2>2, <2>3, <2>4, Step
<1> QED
  BY <1>2, <1>3

\* The endpoint manager thread is done with a task.
LEMMA ReturnEffect ==
  ASSUME NEW s \in DeviceStates, s.em # <<>>
  PROVE  LET t == Return(s)
             call == IF Head(s.em).kind = "unregister" THEN "idle" ELSE s.call
         IN /\ t \in DeviceStates /\ Changes(s, t, {"em", "phase", "call"})
            /\ t.em = Tail(s.em) /\ t.phase = "idle" /\ t.call = call
<1> DEFINE call == IF Head(s.em).kind = "unregister" THEN "idle" ELSE s.call
<1>1. Tail(s.em) \in Seq(EmTasks) /\ call \in CallStates /\ "idle" \in Phases
  BY DeviceFields, Removed DEF CallStates, Phases
<1>2. Return(s) = [s EXCEPT !.em = Tail(s.em), !.phase = "idle", !.call = call]
  BY DEF Return, DeviceStates
<1> HIDE DEF call
<1>3. /\ Return(s) \in DeviceStates /\ Changes(s, Return(s), {"em", "phase", "call"})
      /\ Return(s).em = Tail(s.em) /\ Return(s).phase = "idle" /\ Return(s).call = call
  BY <1>1, <1>2 DEF DeviceStates, Changes, Fields
<1> QED
  BY <1>3 DEF call

\* The removal of an endpoint that is not registered.
LEMMA RemoveUnknownStep == ASSUME IInv, NEW d \in Devices, RemoveUnknown(d) PROVE IInv'
<1> DEFINE s == dev[d]
           t == Return(s)
           X == hist.crossed
<1>1. /\ s.em # <<>> /\ Head(s.em).kind \in Removals /\ s.phase = "idle"
      /\ Update(d, t) /\ chan' = chan /\ hist' = hist
  BY DEF RemoveUnknown, Manages
<1>2. /\ s \in DeviceStates /\ DeviceOK(s, X) /\ chan \in Chans /\ hist \in Histories
  BY Given
<1>3. /\ t \in DeviceStates /\ Changes(s, t, {"em", "phase", "call"})
      /\ t.em = Tail(s.em) /\ t.phase = "idle"
      /\ t.call = (IF Head(s.em).kind = "unregister" THEN "idle" ELSE s.call)
  BY <1>1, <1>2, ReturnEffect
<1> HIDE DEF t
<1>4. Changes(s, t, {"em", "call"})
  BY <1>1, <1>3 DEF Changes, Fields
<1>5. DeviceOK(t, X)
  BY <1>1, <1>2, <1>3, <1>4, RemovedKeeps
<1>6. Quiet(s, t, 0)
  BY <1>3, QuietElsewhere, Wider DEF Fields
<1> QED
  BY <1>1, <1>2, <1>3, <1>5, <1>6, Step

\* The removal of one that is.
LEMMA RemoveEndpointStep == ASSUME IInv, NEW d \in Devices, RemoveEndpoint(d) PROVE IInv'
<1> DEFINE s == dev[d]
           k == s.active
           task == Task("disconnect", k, "none")
           u == PostPcp(s, task)
           t == [u EXCEPT !.active = 0, !.phase = "awaiting", !.notify = s.client.connected]
           X == hist.crossed
           K == IF Head(s.em).ch = k THEN {} ELSE {k}
<1>1. /\ s.em # <<>> /\ Head(s.em).kind \in Removals /\ s.phase = "idle" /\ k # 0
      /\ Update(d, t) /\ chan' = Closed(chan, d, k)
      /\ hist' = [hist EXCEPT !.crossed = @ \cup K]
  BY DEF RemoveEndpoint, Manages
<1>2. /\ s \in DeviceStates /\ DeviceOK(s, X) /\ chan \in Chans /\ hist \in Histories
  BY Given
<1>3. k \in Channels
  BY <1>1, <1>2, DeviceFields, Numbers
<1>4. /\ hist' \in Histories /\ X \subseteq hist'.crossed /\ hist'.requests = hist.requests
  <2>1. K \subseteq Channels
    BY <1>3
  <2> HIDE DEF K
  <2> QED
    BY <1>1, <1>2, <2>1, CrossedTyped
<1> HIDE DEF K
<1>5. task \in PcpTasks /\ task.kind = "disconnect" /\ task.ch = k
  BY <1>3, PcpTask
<1>6. chan' \in Chans
  BY <1>1, <1>2, <1>3, ClosedTyped
<1> HIDE DEF task
<1>7. u \in DeviceStates /\ Changes(s, u, {"pcp"}) /\ u.pcp = Append(s.pcp, task)
  BY <1>2, <1>5, PostPcpEffect
<1> HIDE DEF u
<1>8. /\ t \in DeviceStates /\ Changes(u, t, {"active", "phase", "notify"})
      /\ t.active = 0 /\ t.phase = "awaiting" /\ t.notify = s.client.connected
  <2>1. s.client.connected \in BOOLEAN
    BY <1>2, ClientFields
  <2>2. 0 \in Known /\ "awaiting" \in Phases
    BY DEF Known, Phases
  <2>3. t \in DeviceStates
    BY <1>7, <2>1, <2>2 DEF DeviceStates
  <2>4. /\ Changes(u, t, {"active", "phase", "notify"})
        /\ t.active = 0 /\ t.phase = "awaiting" /\ t.notify = s.client.connected
    BY <1>7 DEF DeviceStates, Changes, Fields
  <2> QED
    BY <2>3, <2>4
<1> HIDE DEF t
<1>9. /\ Changes(s, t, {"pcp", "active", "phase", "notify"}) /\ t.pcp = Append(s.pcp, task)
  BY <1>7, <1>8 DEF Changes, Fields
<1>10. DeviceOK(t, X)
  BY <1>1, <1>2, <1>5, <1>8, <1>9, RemoveKeeps
<1>11. DeviceOK(t, hist'.crossed)
  BY <1>4, <1>8, <1>10, Excuse
<1>12. Quiet(s, t, 0)
  <2>1. {"pcp", "active", "phase", "notify"} \subseteq Fields \ {"told", "crypt", "pending"}
    BY DEF Fields
  <2>2. Changes(s, t, Fields \ {"told", "crypt", "pending"})
    BY <1>9, <2>1, Wider
  <2> QED
    BY <1>2, <1>5, <1>8, <1>9, <2>2, QuietPost
<1> QED
  BY <1>1, <1>4, <1>6, <1>8, <1>11, <1>12, Step

\* The wait for its disconnection ends, or is given up.
LEMMA StopAwaitingStep == ASSUME IInv, NEW d \in Devices, StopAwaiting(d) PROVE IInv'
<1> DEFINE s == dev[d]
           t == [s EXCEPT !.phase = "notified"]
           X == hist.crossed
           Y == hist'.crossed
<1>1. /\ s.phase = "awaiting" /\ s.blocked /\ Update(d, t) /\ CrossedBy(d, s.reader.ch)
      /\ chan' = chan
  BY DEF StopAwaiting
<1>2. /\ s \in DeviceStates /\ DeviceOK(s, X) /\ chan \in Chans /\ hist \in Histories
  BY Given
<1>3. /\ hist' \in Histories /\ X \subseteq Y /\ hist'.requests = hist.requests
      /\ {s.pending.ch, s.client.ch} \ {0, s.reader.ch} \subseteq Y
  BY <1>1, CrossedByTyped
<1>4. s.pending.ch \in Y
  BY <1>1, <1>2, <1>3, Crosses
<1>5. t \in DeviceStates /\ Changes(s, t, {"phase"}) /\ t.phase = "notified"
  BY <1>2 DEF DeviceStates, Changes, Fields, Phases
<1> HIDE DEF t
<1>6. DeviceOK(s, Y)
  BY <1>2, <1>3, Excuse
<1>7. DeviceOK(t, Y)
  BY <1>1, <1>2, <1>4, <1>5, <1>6, StopKeeps
<1>8. Quiet(s, t, 0)
  BY <1>5, QuietElsewhere, Wider DEF Fields
<1> QED
  BY <1>1, <1>2, <1>3, <1>5, <1>7, <1>8, Step

\* The client is told that it disconnected.
LEMMA DisconnectedStep == ASSUME IInv, NEW d \in Devices, OnDisconnected(d) PROVE IInv'
<1> DEFINE s == dev[d]
           r == Report("disconnected", s.client.ch)
           told == IF s.notify /\ s.client.ch # 0 THEN Append(s.told, r) ELSE s.told
           t == [s EXCEPT !.phase = "joining", !.client = NoClient, !.told = told]
           X == hist.crossed
           Y == hist'.crossed
<1>1. /\ s.phase = "notified" /\ CrossedBy(d, s.reader.ch) /\ chan' = chan
  BY DEF OnDisconnected
<1>2. /\ s \in DeviceStates /\ DeviceOK(s, X) /\ chan \in Chans /\ hist \in Histories
  BY Given
<1>3. Update(d, t)
  BY <1>2 DEF OnDisconnected, DeviceStates, Report
<1>4. /\ hist' \in Histories /\ X \subseteq Y /\ hist'.requests = hist.requests
  BY <1>1, CrossedByTyped
<1>5. /\ told \in Seq(Reports)
      /\ s.notify /\ s.client.ch # 0 => r \in Reports /\ r.what = "disconnected"
  <2>1. CASE s.notify /\ s.client.ch # 0
    <3>1. s.client.ch \in Channels
      BY <1>2, <2>1, ClientFields, Numbers
    <3> QED
      BY <1>2, <2>1, <3>1, Reported DEF Events
  <2>2. CASE ~(s.notify /\ s.client.ch # 0)
    BY <1>2, <2>2, DeviceFields
  <2> QED
    BY <2>1, <2>2
<1> HIDE DEF told
<1>6. /\ t \in DeviceStates /\ Changes(s, t, {"phase", "client", "told"})
      /\ t.phase = "joining" /\ t.client = NoClient /\ t.told = told
  BY <1>2, <1>5, Nothings DEF DeviceStates, Changes, Fields, Phases
<1> HIDE DEF t
<1>7. DeviceOK(t, X)
  BY <1>1, <1>2, <1>6, EndKeeps DEF told
<1>8. DeviceOK(t, Y)
  BY <1>4, <1>6, <1>7, Excuse
<1>9. Quiet(s, t, 0)
  <2>1. t.pending = s.pending
    BY <1>6 DEF Changes, Fields
  <2>2. \A k : Heard(t, k) => Heard(s, k)
    <3>1. CASE s.notify /\ s.client.ch # 0
      <4>1. t.told = Append(s.told, r)
        BY <1>6, <3>1 DEF told
      <4> HIDE DEF r
      <4> QED
        BY <1>2, <1>5, <1>6, <3>1, <4>1, Tells
    <3>2. CASE ~(s.notify /\ s.client.ch # 0)
      BY <1>6, <3>2 DEF told, Heard
    <3> QED
      BY <3>1, <3>2
  <2> QED
    BY <1>6, <2>1, <2>2, QuietDrop, Wider DEF Fields
<1> QED
  BY <1>1, <1>2, <1>3, <1>4, <1>6, <1>8, <1>9, Step

\* The channel's threads have ended: the removal returns.
LEMMA JoinReaderStep == ASSUME IInv, NEW d \in Devices, JoinReader(d) PROVE IInv'
<1> DEFINE s == dev[d]
           v == Return(s)
           t == [v EXCEPT !.reader = NoReader]
           u == [s EXCEPT !.phase = "idle", !.reader = NoReader]
           X == hist.crossed
<1>1. /\ s.phase = "joining" /\ s.reader.state = "gone" /\ Update(d, t)
      /\ chan' = chan /\ hist' = hist
  BY DEF JoinReader
<1>2. /\ s \in DeviceStates /\ DeviceOK(s, X) /\ chan \in Chans /\ hist \in Histories
  BY Given
<1>3. s.em # <<>> /\ Head(s.em).kind \in Removals /\ s.active = 0 /\ ~Holds(s.pcp, "response")
  BY <1>1, <1>2 DEF DeviceOK, Registering, Shape, Reading
<1>4. /\ v \in DeviceStates /\ Changes(s, v, {"em", "phase", "call"})
      /\ v.em = Tail(s.em) /\ v.phase = "idle"
      /\ v.call = (IF Head(s.em).kind = "unregister" THEN "idle" ELSE s.call)
  BY <1>2, <1>3, ReturnEffect
<1> HIDE DEF v
<1>5. /\ t \in DeviceStates /\ Changes(v, t, {"reader"}) /\ t.reader = NoReader
  BY <1>4, Nothings DEF DeviceStates, Changes, Fields
<1> HIDE DEF t
<1>6. /\ u \in DeviceStates /\ Changes(s, u, {"phase", "reader"})
      /\ u.phase = "idle" /\ u.reader = NoReader
  BY <1>2, Nothings DEF DeviceStates, Changes, Fields, Phases
<1> HIDE DEF u
<1>7. /\ u.client = s.client /\ u.pcp = s.pcp /\ u.em = s.em /\ u.told = s.told
      /\ u.pending = s.pending /\ u.call = s.call /\ u.blocked = s.blocked
      /\ u.notify = s.notify /\ u.active = s.active
  BY <1>6 DEF Changes, Fields
<1>8. DeviceOK(u, X)
  <2>1. Shape(u)
    BY <1>2, <1>3, <1>6, <1>7 DEF DeviceOK, Shape
  <2>2. OneCall(u) /\ Registering(u)
    BY <1>2, <1>6, <1>7 DEF DeviceOK, OneCall, Registering
  <2>3. /\ InOrder(u, X) /\ Current(u, X) /\ Replaced(u, X) /\ Settled(u, X)
    <3>1. \A f : {"phase", "reader"} \subseteq f => Changes(s, u, f)
      BY <1>6 DEF Changes
    <3> QED
      BY <1>2, <1>6, <3>1, PartsKept DEF Fields
  <2>4. Reading(u)
    BY <1>2, <1>3, <1>6, <1>7, Nothings DEF DeviceOK, Reading
  <2>5. Removing(u, X)
    BY <1>1, <1>2, <1>3, <1>6, <1>7 DEF DeviceOK, Removing
  <2>6. Knows(u)
    BY <1>2, <1>6, <1>7, Nothings DEF DeviceOK, Knows, Heard
  <2> QED
    BY <2>1, <2>2, <2>3, <2>4, <2>5, <2>6 DEF DeviceOK
<1>9. /\ Changes(u, t, {"em", "call"}) /\ t.em = Tail(u.em)
      /\ t.call = (IF Head(u.em).kind = "unregister" THEN "idle" ELSE u.call)
  BY <1>4, <1>5, <1>6, <1>7 DEF Changes, Fields
<1>10. DeviceOK(t, X)
  BY <1>3, <1>5, <1>6, <1>7, <1>8, <1>9, RemovedKeeps
<1>11. Quiet(s, t, 0)
  <2>1. Quiet(s, u, 0)
    BY <1>6, QuietElsewhere, Wider DEF Fields
  <2>2. Quiet(u, t, 0)
    BY <1>9, QuietElsewhere, Wider DEF Fields
  <2> QED
    BY <2>1, <2>2, QuietQuiet
<1> QED
  BY <1>1, <1>2, <1>5, <1>10, <1>11, Step

\* The reader posts the one response that it then waits for.
LEMMA ReadResponseStep == ASSUME IInv, NEW d \in Devices, ReadResponse(d) PROVE IInv'
<1> DEFINE s == dev[d]
           k == s.reader.ch
           a == Head(chan[k].wire[d])
           task == Task("response", k, a)
           u == PostPcp(s, task)
           t == [u EXCEPT !.reader.state = "waiting"]
           X == hist.crossed
<1>1. /\ s.reader.state = "reading" /\ chan[k].wire[d] # <<>> /\ a \in Answers
      /\ Update(d, t) /\ chan' = ReadFrom(chan, d, k) /\ hist' = hist
  BY DEF ReadResponse, Readable
<1>2. /\ s \in DeviceStates /\ DeviceOK(s, X) /\ chan \in Chans /\ hist \in Histories
  BY Given
<1>3. k \in Channels /\ ~Holds(s.pcp, "response")
  <2>1. k # 0 /\ ~Holds(s.pcp, "response")
    BY <1>1, <1>2 DEF DeviceOK, Reading
  <2>2. k \in Known
    BY <1>2, DeviceFields DEF Readers
  <2> QED
    BY <2>1, <2>2, Numbers
<1>4. chan' \in Chans
  BY <1>1, <1>2, <1>3, ReadTyped
<1>5. task \in PcpTasks /\ task.kind = "response"
  <2> HIDE DEF a, k
  <2> QED
    BY <1>1, <1>3, PcpTask
<1> HIDE DEF task
<1>6. u \in DeviceStates /\ Changes(s, u, {"pcp"}) /\ u.pcp = Append(s.pcp, task)
  BY <1>2, <1>5, PostPcpEffect
<1> HIDE DEF u
<1>7. u.reader = s.reader /\ s.reader \in Readers
  BY <1>2, <1>6, DeviceFields DEF Changes, Fields
<1> DEFINE r == [s.reader EXCEPT !.state = "waiting"]
<1>8. r \in Readers /\ r.ch = s.reader.ch /\ r.state = "waiting"
  BY <1>7 DEF Readers
<1>9. t = [u EXCEPT !.reader = r]
  BY <1>6, <1>7 DEF DeviceStates
<1> HIDE DEF r, t
<1>10. t \in DeviceStates /\ Changes(u, t, {"reader"}) /\ t.reader = r
  BY <1>6, <1>8, <1>9 DEF DeviceStates, Changes, Fields
<1>11. Changes(s, t, {"pcp", "reader"}) /\ t.pcp = Append(s.pcp, task)
  BY <1>6, <1>10 DEF Changes, Fields
<1>12. /\ t.client = s.client /\ t.em = s.em /\ t.told = s.told /\ t.pending = s.pending
       /\ t.call = s.call /\ t.blocked = s.blocked /\ t.phase = s.phase /\ t.notify = s.notify
       /\ t.active = s.active /\ s.pcp \in Seq(PcpTasks)
  BY <1>2, <1>11, DeviceFields DEF Changes, Fields
<1>13. DeviceOK(t, X)
  <2>1. \A f : {"pcp", "reader"} \subseteq f => Changes(s, t, f)
    BY <1>11 DEF Changes
  <2>2. Shape(t)
    BY <1>2, <1>8, <1>10, <1>12 DEF DeviceOK, Shape
  <2>3. /\ Registering(t) /\ InOrder(t, X) /\ Current(t, X) /\ Replaced(t, X)
    BY <1>2, <1>10, <2>1, PartsKept DEF Fields
  <2>4. OneCall(t)
    BY <1>2, <1>5, <1>11, <1>12, AppendHolds, AppendSingle DEF DeviceOK, OneCall
  <2>5. Settled(t, X)
    BY <1>2, <1>5, <1>10, <1>11, <1>12, AppendLeaves DEF DeviceOK, Settled, Latest
  <2>6. Reading(t)
    <3>1. Single(t.pcp, "response")
      BY <1>2, <1>3, <1>5, <1>11, <1>12, AppendSingle DEF DeviceOK, Reading
    <3>2. t.reader.ch # 0 /\ t.reader.state = "waiting"
      BY <1>3, <1>8, <1>10, Numbers
    <3> QED
      BY <3>1, <3>2 DEF Reading
  <2>7. Removing(t, X)
    <3>1. HoldsFor(s.pcp, "disconnect", s.reader.ch) => HoldsFor(t.pcp, "disconnect", s.reader.ch)
      BY <1>5, <1>11, <1>12, AppendHoldsFor
    <3> QED
      BY <1>2, <1>8, <1>10, <1>12, <3>1 DEF DeviceOK, Removing
  <2>8. Knows(t)
    BY <1>2, <1>8, <1>10, <1>12 DEF DeviceOK, Knows, Heard
  <2> QED
    BY <2>2, <2>3, <2>4, <2>5, <2>6, <2>7, <2>8 DEF DeviceOK
<1>14. Quiet(s, t, 0)
  <2>1. {"pcp", "reader"} \subseteq Fields \ {"told", "crypt", "pending"}
    BY DEF Fields
  <2>2. Changes(s, t, Fields \ {"told", "crypt", "pending"})
    BY <1>11, <2>1, Wider
  <2> QED
    BY <1>2, <1>5, <1>10, <1>11, <2>2, QuietPost
<1> QED
  BY <1>1, <1>2, <1>4, <1>10, <1>13, <1>14, Step

\* The reader of an endpoint ends.
LEMMA EndReaderStep == ASSUME IInv, NEW d \in Devices, EndReader(d) PROVE IInv'
<1> DEFINE s == dev[d]
           r == [s.reader EXCEPT !.state = "gone"]
           u == [s EXCEPT !.reader = r]
           task == Task("discard", s.reader.ch, "none")
           t == PostEm(u, task)
           X == hist.crossed
<1>1. s.reader.state = "reading" /\ chan' = chan /\ hist' = hist
  BY DEF EndReader
<1>2. /\ s \in DeviceStates /\ DeviceOK(s, X) /\ chan \in Chans /\ hist \in Histories
  BY Given
<1>3. s.reader \in Readers
  BY <1>2, DeviceFields
<1>4. Update(d, t)
  BY <1>2, <1>3 DEF EndReader, DeviceStates
<1>5. r \in Readers /\ r.ch = s.reader.ch /\ r.state = "gone"
  BY <1>3 DEF Readers
<1> HIDE DEF r
<1>6. task \in EmTasks /\ task.kind = "discard"
  BY <1>3, EmTask DEF Readers
<1> HIDE DEF task
<1>7. u \in DeviceStates /\ Changes(s, u, {"reader"}) /\ u.reader = r
  BY <1>2, <1>5 DEF DeviceStates, Changes, Fields
<1> HIDE DEF u
<1>8. t \in DeviceStates /\ Changes(u, t, {"em"}) /\ t.em = Append(u.em, task)
  BY <1>6, <1>7, PostEmEffect
<1> HIDE DEF t
<1>9. /\ u.client = s.client /\ u.pcp = s.pcp /\ u.told = s.told /\ u.pending = s.pending
      /\ u.blocked = s.blocked /\ u.phase = s.phase /\ u.notify = s.notify /\ u.active = s.active
  BY <1>7 DEF Changes, Fields
<1>10. DeviceOK(u, X)
  <2>1. \A f : "reader" \in f => Changes(s, u, f)
    BY <1>7 DEF Changes
  <2>2. Shape(u)
    BY <1>2, <1>5, <1>7, <1>9 DEF DeviceOK, Shape
  <2>3. /\ OneCall(u) /\ Registering(u) /\ InOrder(u, X) /\ Current(u, X) /\ Settled(u, X)
        /\ Replaced(u, X)
    BY <1>2, <1>7, <2>1, PartsKept DEF Fields
  <2>4. Reading(u)
    BY <1>1, <1>2, <1>5, <1>7, <1>9 DEF DeviceOK, Reading
  <2>5. Removing(u, X)
    BY <1>2, <1>5, <1>7, <1>9 DEF DeviceOK, Removing
  <2>6. Knows(u)
    BY <1>2, <1>5, <1>7, <1>9 DEF DeviceOK, Knows, Heard
  <2> QED
    BY <2>2, <2>3, <2>4, <2>5, <2>6 DEF DeviceOK
<1>11. DeviceOK(t, X)
  BY <1>6, <1>7, <1>8, <1>10, PostEmKeeps
<1>12. Quiet(s, t, 0)
  <2>1. Quiet(s, u, 0)
    BY <1>7, QuietElsewhere, Wider DEF Fields
  <2>2. Quiet(u, t, 0)
    BY <1>8, QuietElsewhere, Wider DEF Fields
  <2> QED
    BY <2>1, <2>2, QuietQuiet
<1> QED
  BY <1>1, <1>2, <1>4, <1>8, <1>11, <1>12, Step

\* The alarm of an answer without a result.
LEMMA FireAlarmStep == ASSUME IInv, NEW d \in Devices, FireAlarm(d) PROVE IInv'
<1> DEFINE s == dev[d]
           a == [s.alarm EXCEPT !.armed = FALSE]
           u == [s EXCEPT !.alarm = a]
           task == Task("discard", s.alarm.ch, "none")
           t == PostEm(u, task)
           X == hist.crossed
<1>1. chan' = chan /\ hist' = hist
  BY DEF FireAlarm
<1>2. /\ s \in DeviceStates /\ DeviceOK(s, X) /\ chan \in Chans /\ hist \in Histories
  BY Given
<1>3. s.alarm \in Alarms
  BY <1>2, DeviceFields
<1>4. Update(d, t)
  BY <1>2, <1>3 DEF FireAlarm, DeviceStates
<1>5. a \in Alarms
  BY <1>3 DEF Alarms
<1> HIDE DEF a
<1>6. task \in EmTasks /\ task.kind = "discard"
  BY <1>3, EmTask DEF Alarms
<1> HIDE DEF task
<1>7. u \in DeviceStates /\ Changes(s, u, {})
  BY <1>2, <1>5 DEF DeviceStates, Changes, Fields
<1> HIDE DEF u
<1>8. t \in DeviceStates /\ Changes(u, t, {"em"}) /\ t.em = Append(u.em, task)
  BY <1>6, <1>7, PostEmEffect
<1> HIDE DEF t
<1>9. DeviceOK(t, X)
  BY <1>2, <1>6, <1>7, <1>8, NoteOnly, PostEmKeeps
<1>10. Quiet(s, t, 0)
  <2>1. Quiet(s, u, 0)
    BY <1>7, QuietElsewhere, Wider DEF Fields
  <2>2. Quiet(u, t, 0)
    BY <1>8, QuietElsewhere, Wider DEF Fields
  <2> QED
    BY <2>1, <2>2, QuietQuiet
<1> QED
  BY <1>1, <1>2, <1>4, <1>8, <1>9, <1>10, Step

-----------------------------------------------------------------------------
(* The invariant *)

\* At first nothing is requested.
LEMMA InitIInv == ASSUME Init PROVE IInv
<1> DEFINE s == [call |-> "idle", client |-> NoClient, told |-> <<>>,
                 pending |-> NoPending, pcp |-> <<>>, blocked |-> FALSE, alarm |-> NoAlarm,
                 em |-> <<>>, phase |-> "idle", notify |-> FALSE, active |-> 0,
                 reader |-> NoReader, crypt |-> [r \in Roles |-> Idle(r)], crashed |-> FALSE]
<1>1. dev = [d \in Devices |-> s]
  BY DEF Init
<1>2. [r \in Roles |-> Idle(r)] \in [Roles -> Runners]
  BY DEF Idle, Opening, Runners
<1>3. s \in DeviceStates
  <2>1. <<>> \in Seq(Reports) /\ <<>> \in Seq(PcpTasks) /\ <<>> \in Seq(EmTasks) /\ 0 \in Known
    BY DEF Known
  <2>2. "idle" \in CallStates /\ "idle" \in Phases
    BY DEF CallStates, Phases
  <2> DEFINE c == [r \in Roles |-> Idle(r)]
  <2> HIDE DEF c
  <2>3. c \in [Roles -> Runners]
    BY <1>2 DEF c
  <2> QED
    BY <2>1, <2>2, <2>3, Nothings DEF DeviceStates, c
<1>4. chan \in Chans
  <2> DEFINE w == [d \in Devices |-> <<>>]
  <2>1. w \in [Devices -> Seq(Frames)]
    OBVIOUS
  <2> HIDE DEF w
  <2>2. [nonce |-> 0, open |-> {}, broken |-> FALSE, wire |-> w] \in ChannelStates
    BY <2>1 DEF ChannelStates
  <2>3. Unused \in ChannelStates
    BY <2>2 DEF Unused, w
  <2> QED
    BY <2>3 DEF Init, Chans
<1>5. hist \in Histories
  <2>1. /\ hist = [requests |-> 0, faults |-> 0, outgoing |-> {}, crossed |-> {}, silent |-> {},
                   said |-> [d \in Devices |-> [k \in Channels |-> "none"]]]
    BY DEF Init
  <2>2. [d \in Devices |-> [k \in Channels |-> "none"]]
          \in [Devices -> [Channels -> Answers \cup {"none"}]]
    OBVIOUS
  <2>3. 0 \in 0..Len(Callers) /\ 0 \in 0..MaxFaults
    BY Numbers
  <2> QED
    BY <2>1, <2>2, <2>3 DEF Histories
<1>6. /\ s.pcp = <<>> /\ s.em = <<>> /\ s.told = <<>> /\ s.pending = NoPending /\ s.client = NoClient
      /\ ~s.blocked /\ s.phase = "idle" /\ s.active = 0 /\ s.reader = NoReader
      /\ s.crypt = [r \in Roles |-> Idle(r)]
  OBVIOUS
<1> HIDE DEF s
<1>7. DeviceOK(s, hist.crossed)
  <2>1. Shape(s)
    BY <1>6, Nothings DEF Shape
  <2>2. OneCall(s)
    BY <1>6, Nothings DEF OneCall, Holds, Single
  <2>3. Registering(s) /\ Reading(s)
    BY <1>6, Nothings DEF Registering, Reading, Holds, Single
  <2>4. InOrder(s, hist.crossed)
    BY <1>6 DEF InOrder
  <2>5. /\ Current(s, hist.crossed) /\ Settled(s, hist.crossed) /\ Replaced(s, hist.crossed)
        /\ Removing(s, hist.crossed)
    BY <1>6, Nothings DEF Current, Settled, Replaced, Removing, Over
  <2>6. Knows(s)
    BY <1>6, Nothings DEF Knows
  <2> QED
    BY <2>1, <2>2, <2>3, <2>4, <2>5, <2>6 DEF DeviceOK
<1>8. Fresh
  <2>1. Once(s.pcp) /\ \A k \in Channels : ~Arrives(s, k)
    BY <1>6 DEF Once, Arrives, HoldsFor
  <2>2. \A r \in Roles : s.crypt[r].queue = <<>>
    BY <1>6 DEF Idle
  <2>3. \A k : ~Heard(s, k) /\ ~InCrypt(s, k) /\ ~HoldsFor(s.pcp, "success", k)
    BY <1>6, <2>2 DEF Heard, InCrypt, HoldsFor
  <2>4. \A k \in Channels : ~Used(s, k)
    BY <1>6, <2>3, Nothings, Numbers DEF Used
  <2> QED
    BY <1>1, <2>1, <2>4 DEF Fresh, Arrives
<1> QED
  BY <1>1, <1>3, <1>4, <1>5, <1>7, <1>8 DEF IInv, Types, Chans

\* Every step keeps the invariant.
LEMMA NextKeeps == IInv /\ [Next]_vars => IInv'
<1> SUFFICES ASSUME IInv, [Next]_vars PROVE IInv'
  OBVIOUS
<1>1. CASE UNCHANGED vars
  BY <1>1, Still DEF vars, IInv, Types, Chans
<1>2. ASSUME NEW d \in Devices, CallStep(d) PROVE IInv'
  BY <1>2, CallRequestKeeps, CallAnswerKeeps DEF CallStep
<1>3. ASSUME NEW d \in Devices, PcpStep(d) PROVE IInv'
  BY <1>3, RequestConnectionKeeps, DenyKeeps, BreakBothKeeps, OnIncomingConnectionKeeps,
     EncryptionSuccessKeeps, EncryptionFailureKeeps, AnswerConnectionKeeps, IncomingFrameKeeps,
     EndpointDisconnectKeeps DEF PcpStep
<1>4. ASSUME NEW d \in Devices, ManagerStep(d) PROVE IInv'
  BY <1>4, RegisterEndpointStep, DuplicateStep, RemoveUnknownStep, RemoveEndpointStep,
     StopAwaitingStep, DisconnectedStep, JoinReaderStep DEF ManagerStep
<1>5. ASSUME NEW d \in Devices, ReaderStep(d) \/ FireAlarm(d) PROVE IInv'
  BY <1>5, ReadResponseStep, EndReaderStep, FireAlarmStep DEF ReaderStep
<1>6. ASSUME NEW d \in Devices, FaultStep(d) PROVE IInv'
  BY <1>6, RequestFailsKeeps, CallDisconnectKeeps, TimeOutKeeps DEF FaultStep
<1>7. ASSUME NEW d \in Devices, NEW r \in Roles, CryptStep(d, r) PROVE IInv'
  BY <1>7, SkipHandshakeKeeps, StartClientKeeps, ReadMessageKeeps, FailHandshakeKeeps DEF CryptStep
<1>8. ASSUME NEW k \in Channels, BreakLink(k) PROVE IInv'
  BY <1>8, BreakLinkKeeps
<1> QED
  BY <1>1, <1>2, <1>3, <1>4, <1>5, <1>6, <1>7, <1>8 DEF Next

\* The invariant holds in every state.
LEMMA Invariant == Spec => []IInv
BY InitIInv, NextKeeps, PTL DEF Spec

\* The types of every table and queue, and RegisterEndpoint: the PcpHandler
\* thread waits on its latch exactly while the endpoint manager has the
\* registration to do, so that no registration is lost or made twice.
THEOREM TypesHold == Spec => []TypeOK
<1>1. IInv => TypeOK
  <2> SUFFICES ASSUME IInv PROVE TypeOK
    OBVIOUS
  <2>1. \A d \in Devices :
          dev[d].blocked <=> \E i \in DOMAIN dev[d].em : dev[d].em[i].kind = "register"
    BY DEF IInv, DeviceOK, Registering, Holds
  <2> QED
    BY <2>1 DEF IInv, Types, TypeOK
<1> QED
  BY <1>1, Invariant, PTL

\* ClientProxy's callbacks come in order, for any callers, nonces and faults: a
\* client hears of a connection (OnConnectionInitiated), then of its one result
\* (OnConnectionAccepted or OnConnectionRejected), and of its end
\* (OnDisconnected) only after an acceptance, unless the clean-up of another
\* connection of the endpoint hit this one.
THEOREM ClientsHearInOrder == Spec => []OneResult
<1>1. IInv => OneResult
  <2> SUFFICES ASSUME IInv, NEW d \in Devices, NEW i \in DOMAIN dev[d].told
               PROVE  LET now == dev[d].told[i]
                          before == IF i = 1 THEN [what |-> "none", ch |-> now.ch]
                                    ELSE dev[d].told[i - 1]
                      IN \/ now.what = "initiated" /\ before.what \notin {"initiated", "accepted"}
                         \/ /\ now.what \in {"accepted", "rejected"}
                            /\ before = [what |-> "initiated", ch |-> now.ch]
                         \/ now.what = "disconnected" /\ before = [what |-> "accepted", ch |-> now.ch]
                         \/ \E k \in Channels : k \in hist.crossed /\ k \in {before.ch, now.ch}
    BY DEF OneResult
  <2>1. InOrder(dev[d], hist.crossed)
    BY DEF IInv, DeviceOK
  <2>2. hist.crossed \subseteq Channels
    BY Given, HistFields
  <2> QED
    BY <2>1, <2>2 DEF InOrder
<1> QED
  BY <1>1, Invariant, PTL

=============================================================================
