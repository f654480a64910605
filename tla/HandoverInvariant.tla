-------------------------- MODULE HandoverInvariant --------------------------
(***************************************************************************)
(* BandwidthUpgrade: how far the two devices have moved the connection to  *)
(* the upgraded channel at any time (Handover), and that the workers, the  *)
(* calls of other threads and the negotiation of an offer keep it.         *)
(* HandoverProofs has the steps that move the connection, and what follows *)
(* from the invariant.                                                     *)
(***************************************************************************)
EXTENDS BandwidthUpgradeProofs

\* Upgrades are offered by the Advertiser only (as EvaluateConnectionResult and
\* the retry alarm do), and no acknowledgement that was sent is given up on.
Undisturbed ==
  /\ Requesters \subseteq {Advertiser}
  /\ "read alarm" \in FaultKinds => MaxFaults = 0

\* Transports work, the endpoint is registered, nobody wrote on a prior channel
\* after SAFE_TO_CLOSE_PRIOR_CHANNEL.
Fine == AllLinksUp /\ \A p \in Peers : Registered(p) /\ ~hist[p].late

Encrypts(x) == x = 0 \/ EncryptUpgraded

(* Queues *)

HasKind(q, kind) == \E i \in DOMAIN q : q[i].kind = kind
OnceKind(q, kind) ==
  \A i, j \in DOMAIN q : q[i].kind = kind /\ q[j].kind = kind => i = j
Only(q, kinds) == \A i \in DOMAIN q : q[i].kind \in kinds
NoneAfter(q, first, second) ==
  \A i, j \in DOMAIN q : i < j /\ q[i].kind = first => q[j].kind # second

\* After SAFE come only DISCONNECTIONs, and anything else has it behind.
Sealed(q) ==
  /\ \A i, j \in DOMAIN q :
        i < j /\ q[i].kind \in {"SAFE", "DISC"} => q[j].kind = "DISC"
  /\ \A i \in DOMAIN q : q[i].kind # "DISC" =>
        \E j \in DOMAIN q : i <= j /\ q[j].kind = "SAFE"

(* Where a device stands *)

Act(p) == conn[p].active

\* At ease on one channel; registered the new one (halting), wrote LAST (told),
\* wrote SAFE (agreed), processed the peer's SAFE (ending), closed the prior
\* channel (finishing).
Stage(p) ==
  IF bwu[p].pc = "last" THEN "halting"
  ELSE IF bwu[p].pc \in {"disconnect", "drain"} THEN "ending"
  ELSE IF bwu[p].pc = "finish" THEN "finishing"
  ELSE IF mgr[p].previous = None THEN "ease"
  ELSE IF mgr[p].previous \in hist[p].safe THEN "agreed" ELSE "told"
Early == {"halting", "told"}

\* The prior channel, while the device still has it.
Prior(p) == IF Stage(p) \in {"halting", "ending"} THEN bwu[p].old ELSE mgr[p].previous

\* The channel whose frames are numbered now.
Cur(p) == IF Stage(p) \in {"ease", "finishing"} THEN Act(p) ELSE Prior(p)

\* All p wrote on x before its SAFE, and SAFE itself, were read.
Spent(p, x) == x \in hist[p].safe /\ Only(net[p][x], {"DISC"})

\* p has not registered the new channel, and the peer has.
Behind(p) == Stage(p) = "ease" /\ Stage(Other(p)) \in Early

\* One device on its own.

StageInv(p) ==
  /\ bwu[p].pc \notin {"idle", "safe"} => mgr[p].previous = None
  /\ bwu[p].pc = "safe" => Stage(p) = "told"
  /\ bwu[p].pc = "path" => bwu[p].old = Act(p)
  /\ Prior(p) # Act(p)
  /\ Stage(p) = "ending" => Prior(p) \in hist[p].safe
  /\ Stage(p) = "halting" => Prior(p) \notin hist[p].safe
  /\ mgr[p].upgraded => Stage(p) \in {"ease", "halting"}
  /\ ~OverIn(tasks[p])
ProgressInv(p) ==
  /\ Stage(p) # "ease" \/ bwu[p].pc = "replace" => mgr[p].inProgress
  /\ p = Discoverer /\ mgr[p].inProgress => Stage(p) # "ease" \/ bwu[p].pc = "replace"
ChannelInv(p) == \A x \in Channels :
  /\ chan[p][x].paused <=> x = Act(p) /\ Stage(p) # "ease"
  /\ chan[p][x].crypt <=>
        Encrypts(x) /\ (x = Act(p) \/ (x = Prior(p) /\ Stage(p) # "ending"))
  /\ x \in hist[p].safe => x # Act(p) /\ (x = Prior(p) \/ chan[p][x].closed)
Holds(p, loop) ==
  loop.pc \in {"idle", "read", "ack"} =>
     loop.chan = Act(p) \/ loop.chan = Prior(p) \/ chan[p][loop.chan].closed
HoldsInv(p) == Holds(p, reader[p]) /\ Holds(p, keeper[p]) /\ Holds(p, writer[p])

\* What is in flight.

\* p does not write on x (but to introduce it).
Mute(p, x) ==
  ~(x = Act(p) /\ Stage(p) = "ease") /\ x # Prior(p) /\ ~chan[p][x].closed
\* These are written without encryption.
Clear == {"DISC", "INTRO", "ACK"}
Stamped(q, x) == \A i \in DOMAIN q : q[i].seq # 0 <=> Encrypts(x) /\ q[i].kind \notin Clear
QueueInv(p, x) ==
  /\ x \notin hist[p].safe => ~HasKind(net[p][x], "SAFE") /\ ~HasKind(net[p][x], "DISC")
  /\ x \in hist[p].safe => Sealed(net[p][x])
  /\ Mute(p, x) => Only(net[p][x], {"INTRO", "ACK"})
  /\ Stamped(net[p][x], x)
NumberInv(p) ==
  /\ \A x \in Channels \ {Cur(p)} : Numbers(net[p][x]) = {}
  /\ Numbers(net[p][Cur(p)]) = (seq[Other(p)].received + 1)..seq[p].sent
  /\ seq[Other(p)].received <= seq[p].sent
DataInv(p) == \A n \in hist[p].intime :
   n \in Received(Other(p)) \/ \E x \in Channels : Has(net[p][x], "DATA", n)

\* The two devices.

CloseInv(p, x) ==
  /\ chan[p][x].closed =>
       /\ Spent(p, x) /\ Spent(Other(p), x)
       /\ Encrypts(x) => mgr[p].previous # x /\ mgr[Other(p)].previous # x
  /\ Stage(p) = "ending" /\ Prior(p) = x => Spent(Other(p), x)
  /\ HasKind(net[p][x], "DISC") => Spent(Other(p), x) /\ mgr[p].previous # x

PairInv(p) == LET q == Other(p) IN
  /\ Stage(p) = "halting" => Stage(q) \in {"ease", "halting", "told"}
  /\ Stage(p) = "told" => Stage(q) \in {"ease", "halting", "told", "agreed"}
  /\ Behind(p) => Act(p) = Prior(q)
  /\ ~Behind(p) /\ ~Behind(q) => Act(p) = Act(q)
  /\ Prior(p) # None /\ Prior(q) # None => Prior(p) = Prior(q)
  /\ Stage(p) \in {"ease", "finishing"} /\ Stage(q) \in {"agreed", "ending"} =>
        chan[p][Prior(q)].closed

\* LAST of p, until the peer has answered it.
LastSent(p) == \E x \in Channels : HasKind(net[p][x], "LAST")
LastGot(p) == HasKind(tasks[p], "LAST")
LastDue(p) == mgr[p].upgraded \/ bwu[p].pc = "safe"
LastInv(p) == LET q == Other(p) IN
  /\ LastSent(p) \/ LastGot(q) \/ LastDue(q) <=>
       \/ (Stage(p) = "told" /\ Stage(q) # "agreed")
       \/ (Stage(p) = "agreed" /\ Stage(q) = "told")
  /\ \A x \in Channels :
       HasKind(net[p][x], "LAST") => x = Prior(p) /\ OnceKind(net[p][x], "LAST")
  /\ LastSent(p) => ~LastGot(q) /\ ~LastDue(q)
  /\ LastGot(q) => ~LastDue(q) /\ OnceKind(tasks[q], "LAST")
  /\ NoneAfter(tasks[q], "SAFE", "LAST")

\* SAFE of p, until the peer has processed it.
SafeSent(p) == \E x \in Channels : HasKind(net[p][x], "SAFE")
SafeGot(p) == HasKind(tasks[p], "SAFE")
SafeInv(p) == LET q == Other(p) IN
  /\ SafeSent(p) \/ SafeGot(q) <=>
       \/ (Stage(q) = "told" /\ Stage(p) = "agreed")
       \/ (Stage(q) = "agreed" /\ Stage(p) # "told")
  /\ \A x \in Channels : HasKind(net[p][x], "SAFE") => x = Prior(q)
  /\ SafeGot(q) => Spent(p, Prior(q)) /\ OnceKind(tasks[q], "SAFE")

\* The upgrade on offer.

FailAt(c) == bwu[Discoverer].pc = "fail" /\ bwu[Discoverer].chan = c
FailSent(c) == \E d \in Channels : Has(net[Discoverer][d], "FAIL", c)
FailGot(c) == Has(tasks[Advertiser], "FAIL", c)
Failing(c) == FailAt(c) \/ FailSent(c) \/ FailGot(c)
FailsOnce(c) ==
  /\ FailAt(c) => ~FailSent(c) /\ ~FailGot(c)
  /\ FailSent(c) => ~FailGot(c)
  /\ \A d, e \in Channels :
        Has(net[Discoverer][d], "FAIL", c) /\ Has(net[Discoverer][e], "FAIL", c) => d = e
  /\ \A d \in Channels : Once(net[Discoverer][d], "FAIL", c)
  /\ Once(tasks[Advertiser], "FAIL", c)

Underway(c) ==
  PathSent(c) \/ PathGot(c) \/ Arriving(c) \/ Switching(Discoverer, c) \/ Failing(c)

FreshFor(p, c) == c # Act(p) /\ c # Prior(p) /\ c \notin hist[p].safe

FreshInv(c) ==
  /\ c > opened \/ Offered(c) => FreshFor(Advertiser, c) /\ FreshFor(Discoverer, c)
  /\ Switching(Discoverer, c) => FreshFor(Discoverer, c)
  /\ Arriving(c) => FreshFor(Advertiser, c)
FlowInv(c) ==
  /\ PathAt(c) \/ Underway(c) => c = opened /\ opened > 0
  /\ PathAt(c) => ~mgr[Advertiser].inProgress
  /\ Underway(c) => mgr[Advertiser].inProgress
  /\ PathSent(c) \/ PathGot(c) \/ Arriving(c) \/ Failing(c) => Stage(Advertiser) = "ease"
  /\ FailsOnce(c)
  /\ Failing(c) => ~Offered(c) /\ ~Arriving(c) /\ ~Switching(Discoverer, c)
JoinInv(c) ==
  /\ Arriving(c) => \/ Stage(Discoverer) = "ease" /\ Switching(Discoverer, c)
                    \/ Stage(Discoverer) \in Early /\ Act(Discoverer) = c
  /\ link[c].dialled => c \in mgr[Advertiser].listening
  /\ Switching(Discoverer, c) =>
       Arriving(c) \/ (Stage(Advertiser) \in Early /\ Act(Advertiser) = c)
BehindInv ==
  /\ Behind(Advertiser) => Arriving(Act(Discoverer))
  /\ Behind(Discoverer) => Switching(Discoverer, Act(Advertiser))
  /\ NoneAfter(tasks[Discoverer], "PATH", "SAFE")

\* Who does what.
RoleInv ==
  /\ bwu[Advertiser].pc \notin {"ack", "fail"} /\ bwu[Discoverer].pc # "path"
  /\ \A c \in Channels : /\ ~HasKind(net[Advertiser][c], "FAIL")
                         /\ ~HasKind(net[Discoverer][c], "PATH")
  /\ ~HasKind(tasks[Advertiser], "PATH")
  /\ \A kind \in {"FAIL", "INIT", "RETRY", "INCOMING"} : ~HasKind(tasks[Discoverer], kind)
  /\ ~mgr[Discoverer].retry

ConnectedInv ==
  /\ \/ HasKind(tasks[Advertiser], "INIT") \/ HasKind(tasks[Advertiser], "RETRY")
     \/ mgr[Advertiser].retry \/ opened > 0
     => conn[Advertiser].connected
  /\ mgr[Discoverer].inProgress \/ bwu[Discoverer].pc \in {"ack", "replace"} =>
       conn[Discoverer].connected
  /\ \A p \in InitiallyConnected : conn[p].connected

\* Each device, the shutdown of the prior channel, the frames, the offers.
DeviceFine(p) ==
  StageInv(p) /\ ProgressInv(p) /\ ChannelInv(p) /\ HoldsInv(p) /\ ~hist[p].desync
ShutFine(p) ==
  PairInv(p) /\ LastInv(p) /\ SafeInv(p) /\ \A x \in Channels : CloseInv(p, x)
WireFine(p) == NumberInv(p) /\ \A x \in Channels : QueueInv(p, x)
OffersFine == BehindInv /\ \A c \in Channels : FreshInv(c) /\ FlowInv(c) /\ JoinInv(c)

Handover ==
  /\ ConnectedInv /\ BehindInv
  /\ \A p \in Peers :
       /\ StageInv(p) /\ ProgressInv(p) /\ ChannelInv(p) /\ HoldsInv(p)
       /\ NumberInv(p) /\ PairInv(p) /\ LastInv(p) /\ SafeInv(p)
       /\ ~hist[p].desync
  /\ \A p \in Peers, x \in Channels : QueueInv(p, x) /\ CloseInv(p, x)
  /\ \A c \in Channels : FreshInv(c) /\ FlowInv(c) /\ JoinInv(c)


\* The hypotheses about a step in the lemmas below.
Now ==
  /\ TypeOK /\ TypeOK' /\ WireInv /\ RoleInv /\ Handover /\ Fine /\ Fine'
  /\ Undisturbed
-----------------------------------------------------------------------------
(* Queues *)

\* What an append does.
LEMMA AppendKinds ==
  ASSUME NEW S, NEW q \in Seq(S), NEW f \in S
  PROVE  /\ \A k : HasKind(Append(q, f), k) <=> HasKind(q, k) \/ f.kind = k
         /\ \A k : OnceKind(q, k) /\ (f.kind = k => ~HasKind(q, k)) => OnceKind(Append(q, f), k)
         /\ \A ks : Only(Append(q, f), ks) <=> Only(q, ks) /\ f.kind \in ks
         /\ \A a, b : NoneAfter(q, a, b) /\ (f.kind = b => ~HasKind(q, a))
                      => NoneAfter(Append(q, f), a, b)
         /\ \A k, c : Has(Append(q, f), k, c) <=> Has(q, k, c) \/ (f.kind = k /\ f.arg = c)
         /\ \A k, c : Once(q, k, c) /\ (f.kind = k /\ f.arg = c => ~Has(q, k, c))
                      => Once(Append(q, f), k, c)
<1> DEFINE s == Append(q, f)
           n == Len(q)
<1>1. /\ n \in Nat /\ DOMAIN q = 1..n /\ DOMAIN s = 1..(n + 1)
      /\ \A i \in 1..n : s[i] = q[i]
      /\ s[n + 1] = f
  OBVIOUS
<1>2. /\ \A i \in DOMAIN q : i \in DOMAIN s /\ s[i] = q[i]
      /\ n + 1 \in DOMAIN s
      /\ \A i \in DOMAIN s : i # n + 1 => i \in DOMAIN q /\ s[i] = q[i]
      /\ \A i, j \in DOMAIN s : i < j => i # n + 1
  BY <1>1
<1> HIDE DEF s
<1>3. \A k : HasKind(s, k) <=> HasKind(q, k) \/ f.kind = k
  BY <1>1, <1>2 DEF HasKind
<1>4. \A k : OnceKind(q, k) /\ (f.kind = k => ~HasKind(q, k)) => OnceKind(s, k)
  BY <1>1, <1>2 DEF HasKind, OnceKind
<1>5. \A ks : Only(s, ks) <=> Only(q, ks) /\ f.kind \in ks
  BY <1>1, <1>2 DEF Only
<1>6. \A a, b : NoneAfter(q, a, b) /\ (f.kind = b => ~HasKind(q, a)) => NoneAfter(s, a, b)
  BY <1>1, <1>2 DEF HasKind, NoneAfter
<1>7. \A k, c : Has(s, k, c) <=> Has(q, k, c) \/ (f.kind = k /\ f.arg = c)
  BY <1>1, <1>2 DEF Has
<1>8. \A k, c : Once(q, k, c) /\ (f.kind = k /\ f.arg = c => ~Has(q, k, c)) => Once(s, k, c)
  BY <1>1, <1>2 DEF Has, Once
<1> QED
  BY <1>3, <1>4, <1>5, <1>6, <1>7, <1>8 DEF s

\* What taking the head does.
LEMMA TailElements ==
  ASSUME NEW S, NEW q \in Seq(S), q # << >>
  PROVE  /\ Tail(q) \in Seq(S) /\ Head(q) \in S
         /\ 1 \in DOMAIN q /\ q[1] = Head(q)
         /\ \A i \in DOMAIN q : i \in Nat /\ (i = 1 \/ (i - 1 \in DOMAIN Tail(q) /\ i > 1))
         /\ \A i \in DOMAIN Tail(q) :
               i \in Nat /\ i > 0 /\ i + 1 \in DOMAIN q /\ Tail(q)[i] = q[i + 1]
<1>1. Len(q) \in Nat /\ Len(q) > 0 /\ DOMAIN q = 1..Len(q)
  OBVIOUS
<1>2. Tail(q) \in Seq(S) /\ Len(Tail(q)) = Len(q) - 1 /\ DOMAIN Tail(q) = 1..(Len(q) - 1)
  BY <1>1
<1>3. \A i \in 1..(Len(q) - 1) : Tail(q)[i] = q[i + 1]
  BY <1>1
<1>4. Head(q) = q[1] /\ Head(q) \in S
  BY <1>1
<1> QED
  BY <1>1, <1>2, <1>3, <1>4

\* The kinds of the frames, or tasks, that are left when the head of a queue is taken
\* (EndpointChannel::Read, or the serial executor).
LEMMA TailKinds ==
  ASSUME NEW S, NEW q \in Seq(S), q # << >>
  PROVE  /\ HasKind(q, Head(q).kind)
         /\ \A k : HasKind(q, k) <=> Head(q).kind = k \/ HasKind(Tail(q), k)
         /\ \A k : OnceKind(q, k) =>
               OnceKind(Tail(q), k) /\ (Head(q).kind = k => ~HasKind(Tail(q), k))
         /\ \A ks : Only(q, ks) => Only(Tail(q), ks) /\ Head(q).kind \in ks
         /\ \A a, b : NoneAfter(q, a, b) =>
               NoneAfter(Tail(q), a, b) /\ (Head(q).kind = a => ~HasKind(Tail(q), b))
         /\ \A k, c : Has(q, k, c) <=>
               (Head(q).kind = k /\ Head(q).arg = c) \/ Has(Tail(q), k, c)
         /\ \A k, c : Once(q, k, c) =>
               /\ Once(Tail(q), k, c)
               /\ Head(q).kind = k /\ Head(q).arg = c => ~Has(Tail(q), k, c)
<1> DEFINE t == Tail(q)
           h == Head(q)
<1>1. /\ 1 \in DOMAIN q /\ q[1] = h
      /\ \A i \in DOMAIN q : i = 1 \/ \E j \in DOMAIN t : i = j + 1
      /\ \A i \in DOMAIN t : i \in Nat /\ i > 0 /\ i + 1 \in DOMAIN q /\ t[i] = q[i + 1]
  <2>1. ASSUME NEW i \in DOMAIN q, i # 1
        PROVE  \E j \in DOMAIN t : i = j + 1
    BY <2>1, TailElements
  <2> QED
    BY <2>1, TailElements
<1> HIDE DEF t, h
<1>2. HasKind(q, h.kind)
  BY <1>1 DEF HasKind
<1>3. \A k : HasKind(q, k) <=> h.kind = k \/ HasKind(t, k)
  BY <1>1 DEF HasKind
<1>4. \A k : OnceKind(q, k) => OnceKind(t, k) /\ (h.kind = k => ~HasKind(t, k))
  BY <1>1 DEF HasKind, OnceKind
<1>5. \A ks : Only(q, ks) => Only(t, ks) /\ h.kind \in ks
  BY <1>1 DEF Only
<1>6. \A a, b : NoneAfter(q, a, b) =>
         NoneAfter(t, a, b) /\ (h.kind = a => ~HasKind(t, b))
  BY <1>1 DEF HasKind, NoneAfter
<1>7. \A k, c : Has(q, k, c) <=> (h.kind = k /\ h.arg = c) \/ Has(t, k, c)
  BY <1>1 DEF Has
<1>8. \A k, c : Once(q, k, c) =>
         Once(t, k, c) /\ (h.kind = k /\ h.arg = c => ~Has(t, k, c))
  BY <1>1 DEF Has, Once
<1> QED
  BY <1>2, <1>3, <1>4, <1>5, <1>6, <1>7, <1>8 DEF t, h

\* The queue of a prior channel, from SAFE on.
LEMMA SealedKinds ==
  ASSUME NEW q \in Seq(Frames)
  PROVE  /\ Only(q, {"DISC"}) => \A k : k # "DISC" => ~HasKind(q, k)
         /\ Sealed(q) /\ ~HasKind(q, "SAFE") => Only(q, {"DISC"})
         /\ q # << >> /\ Sealed(q) =>
              /\ Sealed(Tail(q))
              /\ Head(q).kind \in {"SAFE", "DISC"} => Only(Tail(q), {"DISC"})
              /\ Head(q).kind = "DISC" => Only(q, {"DISC"})
         /\ \A f \in Frames :
              /\ Sealed(q) /\ f.kind = "DISC" => Sealed(Append(q, f))
              /\ ~HasKind(q, "SAFE") /\ ~HasKind(q, "DISC") /\ f.kind = "SAFE"
                 => Sealed(Append(q, f))
<1>1. Only(q, {"DISC"}) => \A k : k # "DISC" => ~HasKind(q, k)
  BY DEF Only, HasKind
<1>2. Sealed(q) /\ ~HasKind(q, "SAFE") => Only(q, {"DISC"})
  BY DEF Sealed, Only, HasKind
<1>3. ASSUME q # << >>, Sealed(q)
      PROVE  /\ Sealed(Tail(q))
             /\ Head(q).kind \in {"SAFE", "DISC"} => Only(Tail(q), {"DISC"})
             /\ Head(q).kind = "DISC" => Only(q, {"DISC"})
  <2> DEFINE t == Tail(q)
             h == Head(q)
  <2>1. /\ 1 \in DOMAIN q /\ q[1] = h
        /\ \A i \in DOMAIN q : i \in Nat /\ (i = 1 \/ (i - 1 \in DOMAIN t /\ i > 1))
        /\ \A i \in DOMAIN t : i \in Nat /\ i > 0 /\ i + 1 \in DOMAIN q /\ t[i] = q[i + 1]
    BY <1>3, TailElements
  <2> HIDE DEF t, h
  <2>2. ASSUME NEW i \in DOMAIN t, NEW j \in DOMAIN t, i < j, t[i].kind \in {"SAFE", "DISC"}
        PROVE  t[j].kind = "DISC"
    <3>1. i + 1 \in DOMAIN q /\ j + 1 \in DOMAIN q /\ i + 1 < j + 1
      BY <2>1, <2>2
    <3> QED
      BY <1>3, <2>1, <2>2, <3>1 DEF Sealed
  <2>3. ASSUME NEW i \in DOMAIN t, t[i].kind # "DISC"
        PROVE  \E j \in DOMAIN t : i <= j /\ t[j].kind = "SAFE"
    <3>1. PICK j \in DOMAIN q : i + 1 <= j /\ q[j].kind = "SAFE"
      BY <1>3, <2>1, <2>3 DEF Sealed
    <3>2. j - 1 \in DOMAIN t /\ i <= j - 1 /\ t[j - 1] = q[j]
      BY <2>1, <3>1
    <3> QED
      BY <3>1, <3>2
  <2>4. Sealed(t)
    BY <2>2, <2>3 DEF Sealed
  <2>5. ASSUME h.kind \in {"SAFE", "DISC"}, NEW i \in DOMAIN t
        PROVE  t[i].kind = "DISC"
    <3>1. i + 1 \in DOMAIN q /\ 1 < i + 1
      BY <2>1
    <3> QED
      BY <1>3, <2>1, <2>5, <3>1 DEF Sealed
  <2>6. h.kind \in {"SAFE", "DISC"} => Only(t, {"DISC"})
    BY <2>5 DEF Only
  <2>7. ASSUME h.kind = "DISC", NEW i \in DOMAIN q
        PROVE  q[i].kind = "DISC"
    BY <1>3, <2>1, <2>7 DEF Sealed
  <2>8. h.kind = "DISC" => Only(q, {"DISC"})
    BY <2>7 DEF Only
  <2> QED
    BY <2>4, <2>6, <2>8 DEF t, h
<1>4. ASSUME NEW f \in Frames
      PROVE  /\ Sealed(q) /\ f.kind = "DISC" => Sealed(Append(q, f))
             /\ ~HasKind(q, "SAFE") /\ ~HasKind(q, "DISC") /\ f.kind = "SAFE"
                => Sealed(Append(q, f))
  <2> DEFINE s == Append(q, f)
             n == Len(q)
  <2>1. /\ n \in Nat /\ DOMAIN q = 1..n /\ DOMAIN s = 1..(n + 1)
        /\ \A i \in 1..n : s[i] = q[i]
        /\ s[n + 1] = f
    OBVIOUS
  <2> HIDE DEF s, n
  <2>2. ASSUME Sealed(q), f.kind = "DISC"
        PROVE  Sealed(s)
    <3>1. ASSUME NEW i \in DOMAIN s, NEW j \in DOMAIN s, i < j, s[i].kind \in {"SAFE", "DISC"}
          PROVE  s[j].kind = "DISC"
      BY <2>1, <2>2, <3>1 DEF Sealed
    <3>2. ASSUME NEW i \in DOMAIN s, s[i].kind # "DISC"
          PROVE  \E j \in DOMAIN s : i <= j /\ s[j].kind = "SAFE"
      <4>1. i \in DOMAIN q /\ q[i].kind # "DISC"
        BY <2>1, <2>2, <3>2
      <4>2. PICK j \in DOMAIN q : i <= j /\ q[j].kind = "SAFE"
        BY <2>2, <4>1 DEF Sealed
      <4> QED
        BY <2>1, <4>2
    <3> QED
      BY <3>1, <3>2 DEF Sealed
  <2>3. ASSUME ~HasKind(q, "SAFE"), ~HasKind(q, "DISC"), f.kind = "SAFE"
        PROVE  Sealed(s)
    <3>1. \A i \in DOMAIN q : q[i].kind \notin {"SAFE", "DISC"}
      BY <2>3 DEF HasKind
    <3>2. ASSUME NEW i \in DOMAIN s, NEW j \in DOMAIN s, i < j, s[i].kind \in {"SAFE", "DISC"}
          PROVE  FALSE
      BY <2>1, <3>1, <3>2
    <3>3. ASSUME NEW i \in DOMAIN s
          PROVE  n + 1 \in DOMAIN s /\ i <= n + 1 /\ s[n + 1].kind = "SAFE"
      BY <2>1, <2>3
    <3> QED
      BY <3>2, <3>3 DEF Sealed
  <2> QED
    BY <2>2, <2>3 DEF s
<1> QED
  BY <1>1, <1>2, <1>3, <1>4

\* Numbers and stamps of a queue that gains or loses a frame.
LEMMA AppendNumbers ==
  ASSUME NEW q \in Seq(Frames), NEW f \in Frames
  PROVE  /\ Numbers(Append(q, f)) = Numbers(q) \cup ({f.seq} \ {0})
         /\ \A x : Stamped(q, x) /\ (f.seq # 0 <=> Encrypts(x) /\ f.kind \notin Clear)
            => Stamped(Append(q, f), x)
<1> DEFINE s == Append(q, f)
           n == Len(q)
<1>1. /\ n \in Nat /\ DOMAIN q = 1..n /\ DOMAIN s = 1..(n + 1)
      /\ \A i \in 1..n : s[i] = q[i]
      /\ s[n + 1] = f
  OBVIOUS
<1>2. /\ \A i \in DOMAIN q : i \in DOMAIN s /\ s[i] = q[i]
      /\ n + 1 \in DOMAIN s /\ s[n + 1] = f
      /\ \A i \in DOMAIN s : i # n + 1 => i \in DOMAIN q /\ s[i] = q[i]
  BY <1>1
<1> HIDE DEF s
<1>3. Numbers(s) \subseteq Numbers(q) \cup ({f.seq} \ {0})
  BY <1>2 DEF Numbers
<1>4. Numbers(q) \subseteq Numbers(s)
  BY <1>2 DEF Numbers
<1>5. {f.seq} \ {0} \subseteq Numbers(s)
  BY <1>2 DEF Numbers
<1>6. \A x : Stamped(q, x) /\ (f.seq # 0 <=> Encrypts(x) /\ f.kind \notin Clear) => Stamped(s, x)
  BY <1>2 DEF Stamped
<1> QED
  BY <1>3, <1>4, <1>5, <1>6 DEF s

\* The sequence numbers that are left when a frame is read.
LEMMA TailNumbers ==
  ASSUME NEW q \in Seq(Frames), q # << >>
  PROVE  /\ Numbers(q) = Numbers(Tail(q)) \cup ({Head(q).seq} \ {0})
         /\ Increasing(q) /\ Head(q).seq # 0 => \A n \in Numbers(Tail(q)) : Head(q).seq < n
         /\ \A x : Stamped(q, x) =>
               /\ Stamped(Tail(q), x)
               /\ Head(q).seq # 0 <=> Encrypts(x) /\ Head(q).kind \notin Clear
<1> DEFINE t == Tail(q)
           h == Head(q)
<1>1. /\ 1 \in DOMAIN q /\ q[1] = h
      /\ \A i \in DOMAIN q : i \in Nat /\ (i = 1 \/ (i - 1 \in DOMAIN t /\ i > 1))
      /\ \A i \in DOMAIN t : i \in Nat /\ i > 0 /\ i + 1 \in DOMAIN q /\ t[i] = q[i + 1]
  BY TailElements
<1> HIDE DEF t, h
<1>2. Numbers(q) \subseteq Numbers(t) \cup ({h.seq} \ {0})
  <2>1. ASSUME NEW i \in DOMAIN q, q[i].seq # 0
        PROVE  q[i].seq \in Numbers(t) \cup ({h.seq} \ {0})
    <3>1. CASE i = 1
      BY <1>1, <2>1, <3>1
    <3>2. CASE i # 1
      <4>1. i - 1 \in DOMAIN t /\ t[i - 1] = q[i]
        BY <1>1, <3>2
      <4> QED
        BY <2>1, <4>1 DEF Numbers
    <3> QED
      BY <3>1, <3>2
  <2> QED
    BY <2>1 DEF Numbers
<1>3. Numbers(t) \subseteq Numbers(q) /\ {h.seq} \ {0} \subseteq Numbers(q)
  BY <1>1 DEF Numbers
<1>4. ASSUME Increasing(q), h.seq # 0, NEW n \in Numbers(t)
      PROVE  h.seq < n
  <2>1. PICK i \in DOMAIN t : n = t[i].seq /\ n # 0
    BY <1>4 DEF Numbers
  <2>2. i + 1 \in DOMAIN q /\ 1 < i + 1 /\ q[i + 1].seq = n
    BY <1>1, <2>1
  <2> QED
    BY <1>1, <1>4, <2>1, <2>2 DEF Increasing
<1>5. \A x : Stamped(q, x) =>
         Stamped(t, x) /\ (h.seq # 0 <=> Encrypts(x) /\ h.kind \notin Clear)
  BY <1>1 DEF Stamped
<1> QED
  BY <1>2, <1>3, <1>4, <1>5 DEF t, h

-----------------------------------------------------------------------------
(* Where a device stands *)

Stages == {"ease", "halting", "told", "agreed", "ending", "finishing"}

\* What its stage says of a device.
LEMMA Standing ==
  ASSUME TypeOK, Handover, Fine, NEW p \in Peers
  PROVE  /\ Stage(p) \in Stages
         /\ Act(p) \in Channels /\ Cur(p) \in Channels
         /\ Stage(p) \in {"ease", "finishing"} => Prior(p) = None
         /\ Stage(p) \notin {"ease", "finishing"} => Prior(p) \in Channels
         /\ Prior(p) = None <=> Stage(p) \in {"ease", "finishing"}
         /\ mgr[p].previous # None <=> Stage(p) \in {"told", "agreed"}
         /\ Stage(p) \in {"told", "agreed"} => Prior(p) = mgr[p].previous
         /\ Stage(p) \in {"halting", "ending"} => Prior(p) = bwu[p].old
         /\ Stage(p) \in {"agreed", "ending"} => Prior(p) \in hist[p].safe
         /\ Stage(p) \in {"halting", "told"} => Prior(p) \notin hist[p].safe
         /\ bwu[p].pc = "idle" => Stage(p) \in {"ease", "told", "agreed"}
         /\ bwu[p].pc \in {"ack", "fail", "replace", "path"} => Stage(p) = "ease"
         /\ Act(p) \notin hist[p].safe /\ Act(p) # Prior(p)
<1>1. conn[p] \in Connections /\ mgr[p] \in Managers /\ bwu[p] \in Threads
  BY SidesTyped
<1>2. Act(p) \in Channels
  BY <1>1 DEF Fine, Registered, Connections, Act
<1>3. mgr[p].previous \in Channels \cup {None}
  BY <1>1 DEF Managers
<1>4. /\ bwu[p].pc \in {"last", "disconnect", "drain"} => bwu[p].old \in Channels
      /\ bwu[p].pc = "finish" => bwu[p].old = None
  BY <1>1 DEF Threads
<1>5. StageInv(p) /\ ChannelInv(p)
  BY DEF Handover
<1>6. Act(p) \notin hist[p].safe /\ Act(p) # Prior(p)
  BY <1>2, <1>5 DEF StageInv, ChannelInv
<1>7. /\ Stage(p) = "halting" <=> bwu[p].pc = "last"
      /\ Stage(p) = "ending" <=> bwu[p].pc \in {"disconnect", "drain"}
      /\ Stage(p) = "finishing" <=> bwu[p].pc = "finish"
      /\ Stage(p) = "ease" => mgr[p].previous = None
      /\ Stage(p) = "told" => mgr[p].previous # None /\ mgr[p].previous \notin hist[p].safe
      /\ Stage(p) = "agreed" => mgr[p].previous # None /\ mgr[p].previous \in hist[p].safe
      /\ Stage(p) \in Stages
  BY DEF Stage, Stages
<1>8. Stage(p) \in {"halting", "ending", "finishing"} => mgr[p].previous = None
  BY <1>5, <1>7 DEF StageInv
<1>9. bwu[p].pc \in {"ack", "fail", "replace", "path"} => Stage(p) = "ease"
  BY <1>5 DEF StageInv, Stage
<1>10. bwu[p].pc = "idle" => Stage(p) \in {"ease", "told", "agreed"}
  BY DEF Stage
<1>11. /\ Stage(p) \in {"halting", "ending"} => Prior(p) = bwu[p].old
       /\ Stage(p) \notin {"halting", "ending"} => Prior(p) = mgr[p].previous
  BY DEF Prior
<1>12. /\ Stage(p) \in {"ease", "finishing"} => Prior(p) = None
       /\ Stage(p) \notin {"ease", "finishing"} => Prior(p) \in Channels
  BY <1>3, <1>4, <1>7, <1>8, <1>11 DEF Stages
<1>13. Cur(p) \in Channels
  BY <1>2, <1>12 DEF Cur
<1>14. /\ Stage(p) \in {"agreed", "ending"} => Prior(p) \in hist[p].safe
       /\ Stage(p) \in {"halting", "told"} => Prior(p) \notin hist[p].safe
  BY <1>5, <1>7, <1>11 DEF StageInv
<1>15. mgr[p].previous # None <=> Stage(p) \in {"told", "agreed"}
  BY <1>7, <1>8 DEF Stages
<1>16. Prior(p) = None <=> Stage(p) \in {"ease", "finishing"}
  BY <1>12, NoneIsNoChannel
<1> QED
  BY <1>2, <1>6, <1>7, <1>9, <1>10, <1>11, <1>12, <1>13, <1>14, <1>15, <1>16

\* A channel that a device uses is open, at both ends.
LEMMA Open ==
  ASSUME TypeOK, Handover, Fine, NEW p \in Peers, NEW x \in Channels, x \notin hist[p].safe
  PROVE  ~chan[p][x].closed /\ ~chan[Other(p)][x].closed /\ ~Down(p, x)
<1>1. CloseInv(p, x) /\ CloseInv(Other(p), x)
  BY SidesTyped DEF Handover
<1>2. Other(Other(p)) = p
  BY SidesTyped, PeersDistinct DEF Other, Peers
<1>3. ~chan[p][x].closed /\ ~chan[Other(p)][x].closed
  BY <1>1, <1>2 DEF CloseInv, Spent
<1>4. ~link[x].broken
  BY DEF Fine, AllLinksUp
<1> QED
  BY <1>3, <1>4 DEF Down

\* A write that fails was one of a worker on a closed channel, in clear.
LEMMA FailsInClear ==
  ASSUME TypeOK, Handover, Fine, NEW p \in Peers, NEW c \in Channels, WriteFailed(p, c)
  PROVE  c \in hist[p].safe /\ UNCHANGED <<net, seq>>
<1>1. chan[p][c].closed \/ Down(p, c)
  BY DEF WriteFailed
<1>2. c \in hist[p].safe
  BY <1>1, Open
<1>3. chan[p][c].closed \/ chan[Other(p)][c].closed
  BY <1>1 DEF Down, Fine, AllLinksUp
<1>4. CloseInv(p, c) /\ CloseInv(Other(p), c) /\ Other(Other(p)) = p
  BY SidesTyped, PeersDistinct DEF Handover, Other, Peers
<1>5. Encrypts(c) => mgr[p].previous # c
  BY <1>3, <1>4 DEF CloseInv
<1>6. ~chan[p][c].crypt
  <2>1. SUFFICES ASSUME chan[p][c].crypt PROVE FALSE
    OBVIOUS
  <2>2. Encrypts(c) /\ (c = Act(p) \/ (c = Prior(p) /\ Stage(p) # "ending"))
    BY <2>1 DEF Handover, ChannelInv
  <2>3. c = Prior(p) /\ Stage(p) \notin {"ending", "halting", "told"}
    BY <1>2, <2>2, Standing
  <2> QED
    BY <1>5, <2>2, <2>3, Standing, NoneIsNoChannel DEF Stages
<1> QED
  BY <1>2, <1>6 DEF WriteFailed, NotSent, Encode

-----------------------------------------------------------------------------
(* Frames in flight *)

\* The step writes f on p's channel c, or takes the head of the queue.
Appends(p, c, f) ==
  /\ f \in Frames
  /\ net'[p][c] = Append(net[p][c], f)
  /\ \A r \in Peers, x \in Channels : r # p \/ x # c => net'[r][x] = net[r][x]
Takes(q, c) ==
  /\ net[q][c] # << >>
  /\ net'[q][c] = Tail(net[q][c])
  /\ \A r \in Peers, x \in Channels : r # q \/ x # c => net'[r][x] = net[r][x]
SameNet == \A r \in Peers, x \in Channels : net'[r][x] = net[r][x]
SameSeq == \A r \in Peers : seq'[r].sent = seq[r].sent /\ seq'[r].received = seq[r].received

FrameOf(p, c, kind, arg) == [kind |-> kind, seq |-> Stamp(p, c), arg |-> arg]

\* EndpointChannel::Write appends the frame, with the next number if it is encrypted.
LEMMA SentAppends ==
  ASSUME TypeOK, NEW p \in Peers, NEW c \in Channels, NEW kind, NEW arg,
         [kind |-> kind, seq |-> 0, arg |-> arg] \in Frames, Sent(p, c, kind, arg)
  PROVE  /\ Appends(p, c, FrameOf(p, c, kind, arg))
         /\ FrameOf(p, c, kind, arg).kind = kind /\ FrameOf(p, c, kind, arg).arg = arg
         /\ FrameOf(p, c, kind, arg).seq = IF chan[p][c].crypt THEN seq[p].sent + 1 ELSE 0
         /\ \A r \in Peers : seq'[r].received = seq[r].received
                             /\ (r # p => seq'[r].sent = seq[r].sent)
         /\ seq'[p].sent = IF chan[p][c].crypt THEN seq[p].sent + 1 ELSE seq[p].sent
<1> DEFINE f == FrameOf(p, c, kind, arg)
<1>1. f.kind = kind /\ f.arg = arg /\ f.seq = IF chan[p][c].crypt THEN seq[p].sent + 1 ELSE 0
  BY DEF FrameOf, Stamp
<1>2. f \in Frames
  BY SidesTyped DEF Frames, FrameOf, Stamp
<1>3. net' = [net EXCEPT ![p][c] = Append(@, f)]
  BY DEF Sent, FrameOf
<1>4. seq' = IF chan[p][c].crypt THEN [seq EXCEPT ![p].sent = @ + 1] ELSE seq
  BY DEF Sent, Encode
<1> HIDE DEF f
<1>5. Appends(p, c, f)
  BY <1>2, <1>3 DEF Appends, TypeOK, ChannelsTypeOK
<1>6. /\ \A r \in Peers : seq'[r].received = seq[r].received
                          /\ (r # p => seq'[r].sent = seq[r].sent)
      /\ seq'[p].sent = IF chan[p][c].crypt THEN seq[p].sent + 1 ELSE seq[p].sent
  BY <1>4 DEF TypeOK, ChannelsTypeOK
<1> QED
  BY <1>1, <1>5, <1>6 DEF f

\* EndpointChannel::Read takes the head of the peer's queue.
LEMMA PoppedTakes ==
  ASSUME TypeOK, NEW p \in Peers, NEW c \in Channels, CanRead(p, c), net' = Popped(p, c)
  PROVE  Takes(Other(p), c)
BY SidesTyped DEF Takes, CanRead, Incoming, Popped, TypeOK, ChannelsTypeOK

\* The first numbered frame is the one the peer's context decodes next.
LEMMA HeadNext ==
  ASSUME TypeOK, WireInv, Handover, Fine, NEW q \in Peers, NEW c \in Channels,
         net[q][c] # << >>, Head(net[q][c]).seq # 0
  PROVE  c = Cur(q) /\ Head(net[q][c]).seq = seq[Other(q)].received + 1
<1> DEFINE h == Head(net[q][c]).seq
           t == Numbers(Tail(net[q][c]))
           r == seq[Other(q)].received
<1>1. net[q][c] \in Seq(Frames) /\ r \in Nat /\ seq[q].sent \in Nat
  BY SidesTyped
<1>2. Numbers(net[q][c]) = t \cup {h}
  BY <1>1, TailNumbers
<1>3. NumberInv(q) /\ Increasing(net[q][c])
  BY DEF Handover, WireInv, DeviceInv, Ordered, Fine
<1>4. c = Cur(q)
  BY <1>2, <1>3 DEF NumberInv
<1>5. t \cup {h} = (r + 1)..seq[q].sent
  BY <1>2, <1>3, <1>4 DEF NumberInv
<1>6. \A n \in t : h < n
  BY <1>1, <1>3, TailNumbers
<1> HIDE DEF h, t, r
<1>7. h \in (r + 1)..seq[q].sent
  BY <1>5
<1>8. r + 1 \in t \cup {h}
  BY <1>1, <1>5, <1>7
<1>9. h = r + 1
  BY <1>1, <1>6, <1>7, <1>8
<1> QED
  BY <1>4, <1>9 DEF h, r

\* Numbering goes on when nothing is written or read, ...
LEMMA NumberSame ==
  ASSUME NEW q \in Peers, NumberInv(q), Cur(q)' = Cur(q),
         \A x \in Channels : net'[q][x] = net[q][x], Cur(q) \in Channels,
         seq'[q].sent = seq[q].sent, seq'[Other(q)].received = seq[Other(q)].received
  PROVE  NumberInv(q)'
BY DEF NumberInv

\* ... when a frame is written on the channel in turn, or one in clear, ...
LEMMA NumberAppends ==
  ASSUME TypeOK, NEW p \in Peers, NEW c \in Channels, NEW f, NEW q \in Peers,
         NumberInv(q), Cur(q)' = Cur(q), Cur(q) \in Channels, Appends(p, c, f),
         seq'[Other(q)].received = seq[Other(q)].received,
         q # p => seq'[q].sent = seq[q].sent,
         q = p => \/ f.seq = 0 /\ seq'[q].sent = seq[q].sent
                  \/ /\ f.seq = seq[q].sent + 1 /\ seq'[q].sent = seq[q].sent + 1
                     /\ c = Cur(q)
  PROVE  NumberInv(q)'
<1>1. /\ seq[q].sent \in Nat /\ seq[Other(q)].received \in Nat
      /\ net[p][c] \in Seq(Frames) /\ f \in Frames
  BY SidesTyped DEF Appends
<1>2. CASE q # p
  BY <1>2, NumberSame DEF Appends
<1>3. CASE q = p
  <2>1. \A x \in Channels : x # c => Numbers(net'[q][x]) = Numbers(net[q][x])
    BY <1>3 DEF Appends
  <2>2. Numbers(net'[q][c]) = Numbers(net[q][c]) \cup ({f.seq} \ {0})
    <3>1. net'[q][c] = Append(net[q][c], f)
      BY <1>3 DEF Appends
    <3>2. net[q][c] \in Seq(Frames) /\ f \in Frames
      BY <1>1, <1>3
    <3>3. Numbers(Append(net[q][c], f)) = Numbers(net[q][c]) \cup ({f.seq} \ {0})
      BY <3>2, AppendNumbers
    <3> QED
      BY <3>1, <3>3
  <2>3. CASE f.seq = 0 /\ seq'[q].sent = seq[q].sent
    <3>1. \A x \in Channels : Numbers(net'[q][x]) = Numbers(net[q][x])
      BY <2>1, <2>2, <2>3
    <3> QED
      BY <2>3, <3>1 DEF NumberInv
  <2>4. CASE f.seq = seq[q].sent + 1 /\ seq'[q].sent = seq[q].sent + 1 /\ c = Cur(q)
    <3>1. \A x \in Channels \ {Cur(q)} : Numbers(net'[q][x]) = {}
      BY <2>1, <2>4 DEF NumberInv
    <3>2. Numbers(net[q][c]) = (seq[Other(q)].received + 1)..seq[q].sent
          /\ seq[Other(q)].received <= seq[q].sent
      BY <2>4 DEF NumberInv
    <3>3. Numbers(net'[q][c]) = (seq'[Other(q)].received + 1)..seq'[q].sent
          /\ seq'[Other(q)].received <= seq'[q].sent
      BY <1>1, <2>2, <2>4, <3>2
    <3> QED
      BY <2>4, <3>1, <3>3 DEF NumberInv
  <2> QED
    BY <1>3, <2>3, <2>4
<1> QED
  BY <1>2, <1>3

\* ... and when a frame is read, and decoded if it is numbered.
LEMMA NumberTakes ==
  ASSUME TypeOK, WireInv, Handover, Fine, NEW q \in Peers, NEW c \in Channels, Takes(q, c),
         NEW r \in Peers, Cur(r)' = Cur(r), \A s \in Peers : seq'[s].sent = seq[s].sent,
         seq'[q].received = seq[q].received,
         seq'[Other(q)].received = IF Head(net[q][c]).seq # 0
                                   THEN seq[Other(q)].received + 1 ELSE seq[Other(q)].received
  PROVE  NumberInv(r)'
<1>1. NumberInv(r) /\ Cur(r) \in Channels
  BY Standing DEF Handover
<1>2. CASE r # q
  <2>1. Other(r) = q
    BY <1>2 DEF Other, Peers
  <2> QED
    BY <1>1, <1>2, <2>1, NumberSame DEF Takes
<1>3. CASE r = q
  <2> DEFINE h == Head(net[q][c])
             n == seq[Other(q)].received
             t == Numbers(Tail(net[q][c]))
  <2>1. /\ net[q][c] \in Seq(Frames) /\ net[q][c] # << >> /\ n \in Nat /\ seq[q].sent \in Nat
        /\ net'[q][c] = Tail(net[q][c])
    BY SidesTyped DEF Takes
  <2>2. Numbers(net[q][c]) = t \cup ({h.seq} \ {0})
    BY <2>1, TailNumbers
  <2>3. \A x \in Channels : x # c => Numbers(net'[q][x]) = Numbers(net[q][x])
    BY DEF Takes
  <2>4. CASE h.seq = 0
    <3>1. \A x \in Channels : Numbers(net'[q][x]) = Numbers(net[q][x])
      BY <2>1, <2>2, <2>3, <2>4
    <3> QED
      BY <1>1, <1>3, <2>4, <3>1 DEF NumberInv
  <2>5. CASE h.seq # 0
    <3>1. c = Cur(q) /\ h.seq = n + 1
      BY <2>1, <2>5, HeadNext
    <3>2. \A m \in t : n + 1 < m
      <4>1. Increasing(net[q][c])
        BY DEF WireInv, DeviceInv, Ordered, Fine
      <4> QED
        BY <2>1, <2>5, <3>1, <4>1, TailNumbers
    <3>3. t \cup {n + 1} = (n + 1)..seq[q].sent
      BY <1>1, <1>3, <2>2, <2>5, <3>1 DEF NumberInv
    <3> HIDE DEF n, t
    <3>4. t = (n + 2)..seq[q].sent
      <4>1. t \subseteq (n + 2)..seq[q].sent
        <5>1. ASSUME NEW m \in t PROVE m \in (n + 2)..seq[q].sent
          BY <2>1, <3>2, <3>3
        <5> QED
          BY <5>1
      <4>2. ASSUME NEW m \in (n + 2)..seq[q].sent PROVE m \in t
        BY <2>1, <3>3
      <4> QED
        BY <4>1, <4>2
    <3>5. n + 1 <= seq[q].sent
      BY <2>1, <3>3
    <3>6. n + 1 + 1 = n + 2
      BY <2>1 DEF n
    <3>7. /\ Numbers(net'[q][c]) = (seq'[Other(q)].received + 1)..seq'[q].sent
          /\ seq'[Other(q)].received <= seq'[q].sent
      BY <2>1, <2>5, <3>4, <3>5, <3>6 DEF n, t
    <3>8. \A x \in Channels \ {c} : Numbers(net'[q][x]) = {}
      BY <1>1, <1>3, <2>3, <3>1 DEF NumberInv
    <3> QED
      BY <1>3, <3>1, <3>7, <3>8 DEF NumberInv
  <2> QED
    BY <2>4, <2>5
<1> QED
  BY <1>2, <1>3

-----------------------------------------------------------------------------
(* Steps that leave the handover where it is *)

SameView(p) ==
  /\ Stage(p)' = Stage(p) /\ Act(p)' = Act(p) /\ Prior(p)' = Prior(p)
  /\ hist'[p].safe = hist[p].safe /\ mgr'[p].previous = mgr[p].previous

\* p may close x without losing anything; the step closes no other channel.
MayClose(p, x) ==
  /\ Spent(p, x) /\ Spent(Other(p), x)
  /\ Encrypts(x) => mgr[p].previous # x /\ mgr[Other(p)].previous # x
StillClosed(p) == \A x \in Channels :
  /\ chan[p][x].closed => chan'[p][x].closed
  /\ chan'[p][x].closed => chan[p][x].closed \/ MayClose(p, x)

LateSteps == {"last", "disconnect", "drain", "finish"}

\* Outside the five steps of the shutdown (RunUpgradeProtocol and
\* ProcessSafeToClosePriorChannelEvent), the active channel, the prior channel and the
\* SAFEs written tell how far a device is.
LEMMA SameViewOf ==
  ASSUME NEW p \in Peers, conn'[p].active = conn[p].active, hist'[p].safe = hist[p].safe,
         mgr'[p].previous = mgr[p].previous,
         \/ bwu'[p].pc = bwu[p].pc /\ bwu'[p].old = bwu[p].old
         \/ bwu'[p].pc \notin LateSteps /\ bwu[p].pc \notin LateSteps
         \/ bwu'[p].pc = "drain" /\ bwu[p].pc = "disconnect" /\ bwu'[p].old = bwu[p].old
  PROVE  SameView(p)
<1>1. Act(p)' = Act(p)
  BY DEF Act
<1>2. Stage(p)' = Stage(p)
  BY DEF Stage, LateSteps
<1>3. \/ bwu'[p].old = bwu[p].old
      \/ Stage(p) \notin {"halting", "ending"}
  BY DEF Stage, LateSteps
<1>4. Prior(p)' = Prior(p)
  BY <1>2, <1>3 DEF Prior
<1> QED
  BY <1>1, <1>2, <1>4 DEF SameView

\* Queue s has a frame or a task of this kind as q has, and no second one.
Alike(s, q, kind) ==
  /\ HasKind(s, kind) <=> HasKind(q, kind)
  /\ OnceKind(q, kind) => OnceKind(s, kind)

QuietView == \A p \in Peers : SameView(p) /\ StillClosed(p)
\* The ends of the channels: what was read remains read, and nobody tells the end
\* of a channel but one that has been read to its end.
QuietEnds == \A p \in Peers, x \in Channels :
  /\ HasKind(net'[p][x], "DISC") =>
       HasKind(net[p][x], "DISC") \/ (Spent(Other(p), x) /\ mgr[p].previous # x)
  /\ Spent(p, x) => Spent(p, x)'
QuietNet ==
  /\ QuietEnds
  /\ \A p \in Peers, x \in Channels : \A kind \in {"LAST", "SAFE"} :
        Alike(net'[p][x], net[p][x], kind)
QuietTasks == \A p \in Peers :
  /\ \A kind \in {"LAST", "SAFE"} : Alike(tasks'[p], tasks[p], kind)
  /\ NoneAfter(tasks[p], "SAFE", "LAST") => NoneAfter(tasks'[p], "SAFE", "LAST")
QuietDue == \A p \in Peers : LastDue(p)' <=> LastDue(p)

\* A connection has two ends.
LEMMA Two ==
  /\ Advertiser \in Peers /\ Discoverer \in Peers /\ Advertiser # Discoverer
  /\ Other(Advertiser) = Discoverer /\ Other(Discoverer) = Advertiser
  /\ \A p \in Peers : /\ Other(p) \in Peers /\ Other(p) # p /\ Other(Other(p)) = p
                      /\ p = Advertiser \/ p = Discoverer
                      /\ \A r \in Peers : r = p \/ r = Other(p)
BY PeersDistinct DEF Peers, Other

\* A step that takes neither device further keeps the two in step, ...
LEMMA PairKept ==
  ASSUME TypeOK, Handover, Fine, QuietView, NEW p \in Peers
  PROVE  PairInv(p)'
<1> DEFINE q == Other(p)
<1>1. SameView(p) /\ SameView(q) /\ StillClosed(p)
  BY Two DEF QuietView
<1>2. Behind(p)' = Behind(p) /\ Behind(q)' = Behind(q)
  BY <1>1, Two DEF SameView, Behind
<1>3. Stage(q) \in {"agreed", "ending"} => Prior(q) \in Channels
  BY Standing, Two
<1>4. PairInv(p)
  BY DEF Handover
<1> QED
  BY <1>1, <1>2, <1>3, <1>4 DEF PairInv, SameView, StillClosed

\* ... keeps the closed channels empty but for DISCONNECTIONs, ...
LEMMA CloseKept ==
  ASSUME TypeOK, Handover, QuietView, QuietEnds, NEW p \in Peers, NEW x \in Channels
  PROVE  CloseInv(p, x)'
<1> DEFINE q == Other(p)
<1>1. q \in Peers /\ CloseInv(p, x)
  BY Two DEF Handover
<1>2. (Spent(p, x) => Spent(p, x)') /\ (Spent(q, x) => Spent(q, x)')
  BY <1>1 DEF QuietEnds
<1>3. HasKind(net'[p][x], "DISC") =>
         HasKind(net[p][x], "DISC") \/ (Spent(q, x) /\ mgr[p].previous # x)
  BY DEF QuietEnds
<1>4. chan'[p][x].closed => chan[p][x].closed \/ MayClose(p, x)
  BY DEF QuietView, StillClosed
<1>5. SameView(p) /\ SameView(q)
  BY <1>1 DEF QuietView
<1> HIDE DEF q
<1> QED
  BY <1>1, <1>2, <1>3, <1>4, <1>5 DEF CloseInv, MayClose, SameView, q

\* ... accounts for LAST_WRITE_TO_PRIOR_CHANNEL, if it moves none, ...
LEMMA LastKept ==
  ASSUME Handover, NEW p \in Peers, SameView(p), SameView(Other(p)),
         \A x \in Channels : Alike(net'[p][x], net[p][x], "LAST"),
         Alike(tasks'[Other(p)], tasks[Other(p)], "LAST"),
         LastDue(Other(p))' <=> LastDue(Other(p)),
         NoneAfter(tasks[Other(p)], "SAFE", "LAST") => NoneAfter(tasks'[Other(p)], "SAFE", "LAST")
  PROVE  LastInv(p)'
<1> DEFINE q == Other(p)
<1>1. LastInv(p)
  BY DEF Handover
<1>2. /\ LastSent(p)' <=> LastSent(p)
      /\ LastGot(q)' <=> LastGot(q)
      /\ OnceKind(tasks[q], "LAST") => OnceKind(tasks'[q], "LAST")
  BY DEF Alike, LastSent, LastGot
<1>3. \A x \in Channels : HasKind(net'[p][x], "LAST") =>
        HasKind(net[p][x], "LAST")
        /\ (OnceKind(net[p][x], "LAST") => OnceKind(net'[p][x], "LAST"))
  BY DEF Alike
<1>4. Stage(p)' = Stage(p) /\ Stage(q)' = Stage(q) /\ Prior(p)' = Prior(p)
  BY DEF SameView
<1>5. LastDue(q)' <=> LastDue(q)
  OBVIOUS
<1>6. NoneAfter(tasks[q], "SAFE", "LAST") => NoneAfter(tasks'[q], "SAFE", "LAST")
  OBVIOUS
<1> HIDE DEF q
<1> QED
  BY <1>1, <1>2, <1>3, <1>4, <1>5, <1>6 DEF LastInv, q

\* ... and for SAFE_TO_CLOSE_PRIOR_CHANNEL, ...
LEMMA SafeKept ==
  ASSUME TypeOK, Handover, NEW p \in Peers, SameView(p), SameView(Other(p)),
         \A x \in Channels : Alike(net'[p][x], net[p][x], "SAFE"),
         \A x \in Channels : Spent(p, x) => Spent(p, x)',
         Alike(tasks'[Other(p)], tasks[Other(p)], "SAFE")
  PROVE  SafeInv(p)'
<1> DEFINE q == Other(p)
<1>1. SafeInv(p)
  BY DEF Handover
<1>2. /\ SafeSent(p)' <=> SafeSent(p)
      /\ SafeGot(q)' <=> SafeGot(q)
      /\ OnceKind(tasks[q], "SAFE") => OnceKind(tasks'[q], "SAFE")
  BY DEF Alike, SafeSent, SafeGot
<1>3. \A x \in Channels : HasKind(net'[p][x], "SAFE") => HasKind(net[p][x], "SAFE")
  BY DEF Alike
<1>4. Stage(p)' = Stage(p) /\ Stage(q)' = Stage(q) /\ Prior(q)' = Prior(q)
  BY DEF SameView
<1>5. ASSUME SafeGot(q)
      PROVE  Spent(p, Prior(q))'
  <2>1. Spent(p, Prior(q))
    BY <1>1, <1>5 DEF SafeInv
  <2>2. hist[p] \in Histories
    BY DEF TypeOK, WorkersTypeOK
  <2>3. Prior(q) \in Channels
    BY <2>1, <2>2 DEF Spent, Histories
  <2> QED
    BY <1>4, <2>1, <2>3 DEF Spent
<1> HIDE DEF q
<1> QED
  BY <1>1, <1>2, <1>3, <1>4, <1>5 DEF SafeInv, q

\* ... and so leaves the shutdown of the prior channel where it was.
LEMMA QuietKept ==
  ASSUME TypeOK, Handover, Fine, QuietView, QuietNet, QuietTasks, QuietDue, NEW p \in Peers
  PROVE  ShutFine(p)'
<1>1. Other(p) \in Peers
  BY Two
<1>2. SameView(p) /\ SameView(Other(p))
  BY <1>1 DEF QuietView
<1>3. PairInv(p)'
  BY PairKept
<1>4. \A x \in Channels : CloseInv(p, x)'
  BY CloseKept DEF QuietNet
<1>5. LastInv(p)'
  BY <1>1, <1>2, LastKept DEF QuietNet, QuietTasks, QuietDue
<1>6. SafeInv(p)'
  BY <1>1, <1>2, SafeKept DEF QuietNet, QuietTasks, QuietEnds
<1> QED
  BY <1>3, <1>4, <1>5, <1>6 DEF ShutFine

-----------------------------------------------------------------------------
(* The offers *)

\* Where a device stands with regard to an offer.
SameRole ==
  /\ \A p \in Peers : /\ Act(p)' = Act(p) /\ (Behind(p)' => Behind(p))
                      /\ \A c \in Channels : FreshFor(p, c) => FreshFor(p, c)'
  /\ Stage(Advertiser) = "ease" => Stage(Advertiser)' = "ease"
  /\ \A c \in Channels :
       /\ Arriving(c) => /\ Stage(Discoverer) = "ease" => Stage(Discoverer)' = "ease"
                         /\ Stage(Discoverer) \in Early => Stage(Discoverer)' \in Early
       /\ Switching(Discoverer, c) /\ Stage(Advertiser) \in Early =>
            Stage(Advertiser)' \in Early

\* No step of an offer, or one that ends it or passes it on.
FewerOffers ==
  /\ \A c \in Channels :
       /\ PathAt(c)' => PathAt(c)
       /\ PathSent(c)' \/ PathGot(c)' => PathSent(c) \/ PathGot(c)
       /\ Arriving(c)' <=> Arriving(c)
       /\ link'[c].dialled => link[c].dialled
       /\ Switching(Discoverer, c)' <=> Switching(Discoverer, c)
       /\ Failing(c)' => Failing(c)
       /\ FailsOnce(c) => FailsOnce(c)'
       /\ Underway(c)' /\ mgr[Advertiser].inProgress => mgr'[Advertiser].inProgress
       /\ PathAt(c)' /\ ~mgr[Advertiser].inProgress => ~mgr'[Advertiser].inProgress
       /\ link'[c].dialled /\ c \in mgr[Advertiser].listening => c \in mgr'[Advertiser].listening
  /\ opened' = opened
  /\ NoneAfter(tasks[Discoverer], "PATH", "SAFE") =>
       NoneAfter(tasks'[Discoverer], "PATH", "SAFE")

\* Whether a channel arrives, or is switched to, after the step.
LEMMA ArrivingAt ==
  ASSUME NEW c, NEW x, x' = c
  PROVE  /\ Arriving(x)' <=> Arriving(c)'
         /\ \A p : Switching(p, x)' <=> Switching(p, c)'
BY DEF Arriving, Accepted, Switching

\* A step that makes no offer, and takes none further, leaves the offers as they were.
LEMMA OffersKept ==
  ASSUME TypeOK, Handover, Fine, SameRole, FewerOffers
  PROVE  OffersFine'
<1> DEFINE A == Advertiser
           D == Discoverer
<1>1. A \in Peers /\ D \in Peers /\ Other(A) = D /\ Other(D) = A
  BY Two
<1>2. /\ Act(A)' = Act(A) /\ Act(D)' = Act(D)
      /\ (Behind(A)' => Behind(A)) /\ (Behind(D)' => Behind(D))
      /\ \A c \in Channels : /\ FreshFor(A, c) => FreshFor(A, c)'
                             /\ FreshFor(D, c) => FreshFor(D, c)'
  BY <1>1 DEF SameRole
<1>3. BehindInv /\ \A c \in Channels : FreshInv(c) /\ FlowInv(c) /\ JoinInv(c)
  BY DEF Handover
<1>4. ASSUME NEW c \in Channels
      PROVE  /\ PathAt(c)' => PathAt(c)
             /\ PathSent(c)' \/ PathGot(c)' => PathSent(c) \/ PathGot(c)
             /\ Arriving(c)' <=> Arriving(c)
             /\ Switching(D, c)' <=> Switching(D, c)
             /\ Failing(c)' => Failing(c)
             /\ Offered(c)' => Offered(c)
             /\ Underway(c)' => Underway(c)
  BY DEF FewerOffers, Offered, Underway
<1>5. BehindInv'
  <2>1. Act(A) \in Channels /\ Act(D) \in Channels
    BY <1>1, Standing
  <2>2. ASSUME NEW c \in Channels, c = Act(D), Act(D)' = c
        PROVE  Arriving(Act(D)) => Arriving(Act(D))'
    <3>1. Arriving(Act(D))' <=> Arriving(c)'
      BY <2>2, ArrivingAt
    <3> QED
      BY <1>4, <2>2, <3>1
  <2>3. ASSUME NEW c \in Channels, c = Act(A), Act(A)' = c
        PROVE  Switching(D, Act(A)) => Switching(D, Act(A))'
    <3>1. Switching(D, Act(A))' <=> Switching(D, c)'
      BY <2>3, ArrivingAt
    <3> QED
      BY <1>4, <2>3, <3>1
  <2> QED
    BY <1>2, <1>3, <2>1, <2>2, <2>3 DEF BehindInv, FewerOffers
<1>6. ASSUME NEW c \in Channels
      PROVE  FreshInv(c)' /\ FlowInv(c)' /\ JoinInv(c)'
  <2>1. FreshInv(c)'
    BY <1>2, <1>3, <1>4 DEF FreshInv, FewerOffers
  <2>2. FlowInv(c)'
    BY <1>3, <1>4 DEF FlowInv, FewerOffers, SameRole
  <2>3. JoinInv(c)'
    BY <1>2, <1>3, <1>4 DEF JoinInv, FewerOffers, SameRole
  <2> QED
    BY <2>1, <2>2, <2>3
<1> QED
  BY <1>5, <1>6 DEF OffersFine

\* Who is behind, and what is fresh, is a matter of how far each device is.
LEMMA SameRoleOf ==
  ASSUME \A p \in Peers : SameView(p)
  PROVE  SameRole
<1>1. \A p \in Peers : Act(p)' = Act(p) /\ Stage(p)' = Stage(p)
      /\ \A c \in Channels : FreshFor(p, c) => FreshFor(p, c)'
  BY DEF SameView, FreshFor
<1>2. \A p \in Peers : Behind(p)' => Behind(p)
  BY <1>1, Two DEF Behind
<1> QED
  BY <1>1, <1>2, Two DEF SameRole

\* Tokens of an offer, in the queues, ...
QuietOffers ==
  /\ \A d, c \in Channels :
       /\ Has(net'[Advertiser][d], "PATH", c) <=> Has(net[Advertiser][d], "PATH", c)
       /\ Has(net'[Discoverer][d], "FAIL", c) <=> Has(net[Discoverer][d], "FAIL", c)
       /\ Once(net[Discoverer][d], "FAIL", c) => Once(net'[Discoverer][d], "FAIL", c)
  /\ \A c \in Channels :
       /\ Has(tasks'[Discoverer], "PATH", c) <=> Has(tasks[Discoverer], "PATH", c)
       /\ Has(tasks'[Advertiser], "INCOMING", c) <=> Has(tasks[Advertiser], "INCOMING", c)
       /\ Has(tasks'[Advertiser], "FAIL", c) <=> Has(tasks[Advertiser], "FAIL", c)
       /\ Once(tasks[Advertiser], "FAIL", c) => Once(tasks'[Advertiser], "FAIL", c)
       /\ link'[c].dialled <=> link[c].dialled
  /\ NoneAfter(tasks[Discoverer], "PATH", "SAFE") =>
       NoneAfter(tasks'[Discoverer], "PATH", "SAFE")

\* ... and in a thread.
OfferSteps == {"path", "ack", "replace", "fail"}
QuietThread(p) ==
  \/ bwu'[p].pc = bwu[p].pc /\ bwu'[p].chan = bwu[p].chan
  \/ bwu[p].pc \notin OfferSteps /\ bwu'[p].pc \notin OfferSteps
  \/ /\ bwu[p].pc \in {"ack", "replace"} /\ bwu'[p].pc \in {"ack", "replace"}
     /\ bwu'[p].chan = bwu[p].chan

\* A step of no offer: no PATH, FAIL, INCOMING or SAFE moves.
LEMMA FewerOf ==
  ASSUME QuietOffers, \A p \in Peers : QuietThread(p), opened' = opened,
         \A c \in Channels :
            /\ Underway(c) /\ mgr[Advertiser].inProgress => mgr'[Advertiser].inProgress
            /\ PathAt(c) /\ ~mgr[Advertiser].inProgress => ~mgr'[Advertiser].inProgress
            /\ link[c].dialled /\ c \in mgr[Advertiser].listening =>
                 c \in mgr'[Advertiser].listening
  PROVE  FewerOffers
<1> SUFFICES ASSUME NEW c \in Channels
             PROVE  /\ PathAt(c)' <=> PathAt(c)
                    /\ PathSent(c)' <=> PathSent(c)
                    /\ PathGot(c)' <=> PathGot(c)
                    /\ Arriving(c)' <=> Arriving(c)
                    /\ link'[c].dialled <=> link[c].dialled
                    /\ Switching(Discoverer, c)' <=> Switching(Discoverer, c)
                    /\ Failing(c)' <=> Failing(c)
                    /\ FailsOnce(c) => FailsOnce(c)'
                    /\ Underway(c)' <=> Underway(c)
  BY DEF FewerOffers, QuietOffers
<1>1. /\ PathSent(c)' <=> PathSent(c)
      /\ PathGot(c)' <=> PathGot(c)
      /\ Accepted(c)' <=> Accepted(c)
      /\ link'[c].dialled <=> link[c].dialled
      /\ FailSent(c)' <=> FailSent(c)
      /\ FailGot(c)' <=> FailGot(c)
  BY DEF QuietOffers, PathSent, PathGot, Accepted, FailSent, FailGot
<1>2. QuietThread(Advertiser) /\ QuietThread(Discoverer)
  BY Two
<1>3. /\ PathAt(c)' <=> PathAt(c)
      /\ FailAt(c)' <=> FailAt(c)
  BY <1>2 DEF QuietThread, OfferSteps, PathAt, FailAt
<1>4. /\ Switching(Advertiser, c)' <=> Switching(Advertiser, c)
      /\ Switching(Discoverer, c)' <=> Switching(Discoverer, c)
  BY <1>2 DEF QuietThread, OfferSteps, Switching
<1>5. FailsOnce(c) => FailsOnce(c)'
  BY <1>1, <1>3 DEF FailsOnce, QuietOffers
<1> QED
  BY <1>1, <1>3, <1>4, <1>5 DEF Arriving, Failing, Underway

-----------------------------------------------------------------------------
(* Writing and reading in turn *)

\* A queue that is left alone, is read, or takes a frame that belongs there.
Belongs(p, x, f) ==
  /\ f.seq # 0 <=> Encrypts(x) /\ f.kind \notin Clear
  /\ x \in hist[p].safe => f.kind = "DISC"
  /\ x \notin hist[p].safe => f.kind \notin {"SAFE", "DISC"}
  /\ Mute(p, x) => f.kind \in {"INTRO", "ACK"}

\* A queue stays as a channel's state demands when a frame that belongs there is
\* written, or one is read.
LEMMA QueueKept ==
  ASSUME TypeOK, NEW p \in Peers, NEW x \in Channels, QueueInv(p, x),
         x \in hist'[p].safe <=> x \in hist[p].safe, Mute(p, x)' => Mute(p, x),
         \/ net'[p][x] = net[p][x]
         \/ net[p][x] # << >> /\ net'[p][x] = Tail(net[p][x])
         \/ \E f \in Frames : net'[p][x] = Append(net[p][x], f) /\ Belongs(p, x, f)
  PROVE  QueueInv(p, x)'
<1>1. net[p][x] \in Seq(Frames)
  BY SidesTyped
<1>2. CASE net'[p][x] = net[p][x]
  BY <1>2 DEF QueueInv
<1>3. CASE net[p][x] # << >> /\ net'[p][x] = Tail(net[p][x])
  <2>1. /\ \A kind : HasKind(net'[p][x], kind) => HasKind(net[p][x], kind)
        /\ \A ks : Only(net[p][x], ks) => Only(net'[p][x], ks)
    BY <1>1, <1>3, TailKinds
  <2>2. Sealed(net[p][x]) => Sealed(net'[p][x])
    BY <1>1, <1>3, SealedKinds
  <2>3. Stamped(net[p][x], x) => Stamped(net'[p][x], x)
    BY <1>1, <1>3, TailNumbers
  <2> QED
    BY <2>1, <2>2, <2>3 DEF QueueInv
<1>4. ASSUME NEW f \in Frames, net'[p][x] = Append(net[p][x], f), Belongs(p, x, f)
      PROVE  QueueInv(p, x)'
  <2>1. /\ \A kind : HasKind(net'[p][x], kind) <=> HasKind(net[p][x], kind) \/ f.kind = kind
        /\ \A ks : Only(net[p][x], ks) /\ f.kind \in ks => Only(net'[p][x], ks)
    BY <1>1, <1>4, AppendKinds
  <2>2. Sealed(net[p][x]) /\ f.kind = "DISC" => Sealed(net'[p][x])
    BY <1>1, <1>4, SealedKinds
  <2>3. Stamped(net[p][x], x) => Stamped(net'[p][x], x)
    BY <1>1, <1>4, AppendNumbers DEF Belongs
  <2> QED
    BY <1>4, <2>1, <2>2, <2>3 DEF QueueInv, Belongs
<1> QED
  BY <1>2, <1>3, <1>4

\* A step that takes the device no further leaves it mute where it was.
LEMMA MuteKept ==
  ASSUME NEW p \in Peers, NEW x \in Channels, SameView(p), StillClosed(p)
  PROVE  Mute(p, x)' => Mute(p, x)
BY DEF SameView, StillClosed, Mute

\* What a device still writes on is the channel in turn.
LEMMA InTurn ==
  ASSUME TypeOK, Handover, Fine, NEW p \in Peers, NEW c \in Channels,
         ~chan[p][c].paused, c \notin hist[p].safe,
         c = Act(p) \/ c = Prior(p) \/ chan[p][c].closed
  PROVE  c = Cur(p) /\ ~Mute(p, c) /\ (chan[p][c].crypt <=> Encrypts(c))
<1>1. ~chan[p][c].closed
  BY Open
<1>2. ChannelInv(p)
  BY DEF Handover
<1>3. CASE c = Act(p)
  <2>1. Stage(p) = "ease"
    BY <1>2, <1>3 DEF ChannelInv
  <2> QED
    BY <1>2, <1>3, <2>1 DEF ChannelInv, Cur, Mute
<1>4. CASE c = Prior(p)
  <2>1. Stage(p) \in {"halting", "told"}
    BY <1>4, Standing, NoneIsNoChannel DEF Stages
  <2> QED
    BY <1>2, <1>4, <2>1 DEF ChannelInv, Cur, Mute
<1> QED
  BY <1>1, <1>3, <1>4

\* A worker's frame, an offer or a failure, on the channel in turn.
Plain == {"KEEP", "KEEPACK", "DATA", "PATH", "FAIL"}

\* A frame of a worker, or an answer to an offer, is numbered next on the channel in
\* turn (EncodeMessageToPeer under writer_mutex_).
LEMMA WriteKept ==
  ASSUME TypeOK, Handover, Fine, NEW p \in Peers, NEW c \in Channels, NEW kind \in Plain,
         NEW arg, [kind |-> kind, seq |-> 0, arg |-> arg] \in Frames,
         Written(p, c, kind, arg), c \notin hist[p].safe,
         c = Act(p) \/ c = Prior(p) \/ chan[p][c].closed,
         \A r \in Peers : SameView(r) /\ StillClosed(r)
  PROVE  /\ \A r \in Peers : NumberInv(r)'
         /\ \A r \in Peers, x \in Channels : QueueInv(r, x)'
         /\ QuietNet
         /\ Appends(p, c, FrameOf(p, c, kind, arg))
         /\ FrameOf(p, c, kind, arg).kind = kind /\ FrameOf(p, c, kind, arg).arg = arg
<1> DEFINE f == FrameOf(p, c, kind, arg)
<1>1. Sent(p, c, kind, arg) /\ ~chan[p][c].paused
  BY DEF Written
<1>2. /\ Appends(p, c, f) /\ f.kind = kind /\ f.arg = arg
      /\ f.seq = IF chan[p][c].crypt THEN seq[p].sent + 1 ELSE 0
      /\ \A r \in Peers : seq'[r].received = seq[r].received
                          /\ (r # p => seq'[r].sent = seq[r].sent)
      /\ seq'[p].sent = IF chan[p][c].crypt THEN seq[p].sent + 1 ELSE seq[p].sent
  BY <1>1, SentAppends
<1>3. c = Cur(p) /\ ~Mute(p, c) /\ (chan[p][c].crypt <=> Encrypts(c))
  BY <1>1, InTurn
<1> HIDE DEF f
<1>4. seq[p].sent \in Nat
  BY SidesTyped
<1>5. Belongs(p, c, f)
  <2>1. kind \notin Clear /\ kind \notin {"SAFE", "DISC"}
    BY DEF Plain, Clear
  <2>2. f.seq # 0 <=> chan[p][c].crypt
    BY <1>2, <1>4
  <2> QED
    BY <1>2, <1>3, <2>1, <2>2 DEF Belongs
<1>6. ASSUME NEW r \in Peers
      PROVE  NumberInv(r)'
  <2>1. Cur(r)' = Cur(r)
    BY DEF SameView, Cur
  <2>2. Cur(r) \in Channels /\ NumberInv(r) /\ Other(r) \in Peers
    BY Standing, SidesTyped DEF Handover
  <2>3. \/ f.seq = 0 /\ seq'[p].sent = seq[p].sent
        \/ f.seq = seq[p].sent + 1 /\ seq'[p].sent = seq[p].sent + 1
    BY <1>2
  <2> QED
    BY <1>2, <1>3, <2>1, <2>2, <2>3, NumberAppends
<1>7. ASSUME NEW r \in Peers, NEW x \in Channels
      PROVE  QueueInv(r, x)'
  <2>1. QueueInv(r, x) /\ (Mute(r, x)' => Mute(r, x)) /\ hist'[r].safe = hist[r].safe
    BY MuteKept DEF Handover, SameView
  <2>2. \/ net'[r][x] = net[r][x]
        \/ \E g \in Frames : net'[r][x] = Append(net[r][x], g) /\ Belongs(r, x, g)
    BY <1>2, <1>5 DEF Appends
  <2> QED
    BY <2>1, <2>2, QueueKept
<1>8. QuietNet
  <2>1. ASSUME NEW r \in Peers, NEW x \in Channels
        PROVE  /\ \A k \in {"LAST", "SAFE"} : Alike(net'[r][x], net[r][x], k)
               /\ HasKind(net'[r][x], "DISC") => HasKind(net[r][x], "DISC")
               /\ Spent(r, x) => Spent(r, x)'
    <3>1. CASE r # p \/ x # c
      <4>1. net'[r][x] = net[r][x] /\ hist'[r].safe = hist[r].safe
        BY <1>2, <3>1 DEF Appends, SameView
      <4> QED
        BY <4>1 DEF Alike, Spent
    <3>2. CASE r = p /\ x = c
      <4>1. net[p][c] \in Seq(Frames) /\ net'[p][c] = Append(net[p][c], f) /\ f \in Frames
        BY <1>2, SidesTyped DEF Appends
      <4>2. f.kind \notin {"LAST", "SAFE", "DISC"}
        BY <1>2 DEF Plain
      <4>3. \A k \in {"LAST", "SAFE", "DISC"} : Alike(net'[p][c], net[p][c], k)
        BY <4>1, <4>2, AppendKinds DEF Alike
      <4> QED
        BY <3>2, <4>3 DEF Spent, Alike
    <3> QED
      BY <3>1, <3>2
  <2> QED
    BY <2>1 DEF QuietNet, QuietEnds
<1> QED
  BY <1>2, <1>6, <1>7, <1>8 DEF f

\* A frame, or a task, of another kind than these is untouched.
Keeps(s, q, kinds) ==
  /\ \A kind : kind \notin kinds =>
       /\ HasKind(s, kind) <=> HasKind(q, kind)
       /\ OnceKind(q, kind) => OnceKind(s, kind)
       /\ \A c : /\ Has(s, kind, c) <=> Has(q, kind, c)
                 /\ Once(q, kind, c) => Once(s, kind, c)
  /\ \A a, b : b \notin kinds /\ NoneAfter(q, a, b) => NoneAfter(s, a, b)

\* Appending, or taking the head, touches one kind only.
LEMMA KeepsKinds ==
  ASSUME NEW S, NEW q \in Seq(S)
  PROVE  /\ Keeps(q, q, {})
         /\ \A f \in S : Keeps(Append(q, f), q, {f.kind})
         /\ q # << >> => /\ Keeps(Tail(q), q, {Head(q).kind})
                         /\ \A f \in S : Keeps(Append(Tail(q), f), q, {Head(q).kind, f.kind})
<1>1. Keeps(q, q, {})
  BY DEF Keeps
<1>2. ASSUME NEW r \in Seq(S), NEW f \in S
      PROVE  Keeps(Append(r, f), r, {f.kind})
  BY <1>2, AppendKinds DEF Keeps
<1>3. ASSUME q # << >>
      PROVE  Keeps(Tail(q), q, {Head(q).kind})
  BY <1>3, TailKinds DEF Keeps
<1>4. ASSUME q # << >>, NEW f \in S
      PROVE  Keeps(Append(Tail(q), f), q, {Head(q).kind, f.kind})
  <2>1. Keeps(Tail(q), q, {Head(q).kind}) /\ Tail(q) \in Seq(S)
    BY <1>3, <1>4
  <2>2. Keeps(Append(Tail(q), f), Tail(q), {f.kind})
    BY <1>2, <2>1
  <2> QED
    BY <2>1, <2>2 DEF Keeps
<1> QED
  BY <1>1, <1>2, <1>3, <1>4

\* The queues of tasks after a step that leaves these kinds alone.
KeepsTasks(kinds) == \A p \in Peers : Keeps(tasks'[p], tasks[p], kinds)

\* Tasks of other kinds do not bear on the shutdown.
LEMMA TasksQuiet ==
  ASSUME NEW kinds, KeepsTasks(kinds)
  PROVE  /\ "LAST" \notin kinds /\ "SAFE" \notin kinds => QuietTasks
         /\ "OVER" \notin kinds => \A p \in Peers : OverIn(tasks'[p]) <=> OverIn(tasks[p])
         /\ "SAFE" \notin kinds => (NoneAfter(tasks[Discoverer], "PATH", "SAFE") =>
                                    NoneAfter(tasks'[Discoverer], "PATH", "SAFE"))
<1>1. "LAST" \notin kinds /\ "SAFE" \notin kinds => QuietTasks
  BY DEF KeepsTasks, Keeps, QuietTasks, Alike
<1>2. "OVER" \notin kinds => \A p \in Peers : OverIn(tasks'[p]) <=> OverIn(tasks[p])
  BY DEF KeepsTasks, Keeps, HasKind, OverIn
<1>3. "SAFE" \notin kinds => (NoneAfter(tasks[Discoverer], "PATH", "SAFE") =>
                              NoneAfter(tasks'[Discoverer], "PATH", "SAFE"))
  BY Two DEF KeepsTasks, Keeps
<1> QED
  BY <1>1, <1>2, <1>3

\* What posting a task, running one, or posting an upgrade request (INIT) does to the
\* queues of the BwuManager threads.
LEMMA TasksKeep ==
  ASSUME TypeOK, TypeOK', NEW p \in Peers
  PROVE  /\ UNCHANGED tasks => KeepsTasks({})
         /\ \A kind, arg : tasks' = [tasks EXCEPT ![p] = Post(p, kind, arg)] =>
              KeepsTasks({kind}) /\ tasks'[p] = Append(tasks[p], [kind |-> kind, arg |-> arg])
         /\ \A kind : Task(p, kind) /\ TakeTask(p) =>
              KeepsTasks({kind}) /\ tasks'[p] = Tail(tasks[p])
         /\ \A kind : Task(p, kind) /\ AddsInit(p, Tail(tasks[p])) => KeepsTasks({kind, "INIT"})
<1>1. \A r \in Peers : tasks[r] \in Seq(Tasks) /\ tasks'[r] \in Seq(Tasks)
  BY DEF TypeOK, WorkersTypeOK
<1>2. \A r \in Peers : \A kinds : tasks'[r] = tasks[r] => Keeps(tasks'[r], tasks[r], kinds)
  BY DEF Keeps
<1>3. UNCHANGED tasks => KeepsTasks({})
  BY <1>2 DEF KeepsTasks
<1>4. ASSUME NEW kind, NEW arg, tasks' = [tasks EXCEPT ![p] = Post(p, kind, arg)]
      PROVE  KeepsTasks({kind}) /\ tasks'[p] = Append(tasks[p], [kind |-> kind, arg |-> arg])
  <2> DEFINE t == [kind |-> kind, arg |-> arg]
  <2>1. /\ tasks'[p] = Append(tasks[p], t)
        /\ \A r \in Peers : r # p => tasks'[r] = tasks[r]
    BY <1>4 DEF Post, TypeOK, WorkersTypeOK
  <2>2. t.kind = kind
    OBVIOUS
  <2> HIDE DEF t
  <2>3. t \in Tasks
    <3>1. Len(tasks[p]) + 1 \in DOMAIN tasks'[p] /\ tasks'[p][Len(tasks[p]) + 1] = t
      BY <1>1, <2>1
    <3> QED
      BY <1>1, <3>1
  <2>4. Keeps(tasks'[p], tasks[p], {kind})
    <3>1. \A g \in Tasks : Keeps(Append(tasks[p], g), tasks[p], {g.kind})
      BY <1>1, KeepsKinds
    <3>2. Keeps(Append(tasks[p], t), tasks[p], {t.kind})
      BY <2>3, <3>1
    <3> QED
      BY <2>1, <2>2, <3>2
  <2> QED
    BY <1>2, <2>1, <2>4 DEF KeepsTasks, t
<1>5. ASSUME NEW kind, Task(p, kind)
      PROVE  tasks[p] # << >> /\ Head(tasks[p]).kind = kind
  BY <1>5 DEF Task
<1>6. ASSUME NEW kind, Task(p, kind), TakeTask(p)
      PROVE  KeepsTasks({kind}) /\ tasks'[p] = Tail(tasks[p])
  <2>1. /\ tasks'[p] = Tail(tasks[p])
        /\ \A r \in Peers : r # p => tasks'[r] = tasks[r]
    BY <1>6 DEF TakeTask, TypeOK, WorkersTypeOK
  <2> QED
    BY <1>1, <1>2, <1>5, <1>6, <2>1, KeepsKinds DEF KeepsTasks
<1>7. ASSUME NEW kind, Task(p, kind), AddsInit(p, Tail(tasks[p]))
      PROVE  KeepsTasks({kind, "INIT"})
  <2>1. /\ \A r \in Peers : r # p => tasks'[r] = tasks[r]
        /\ \/ tasks'[p] = Tail(tasks[p])
           \/ \E medium : tasks'[p] = Append(Tail(tasks[p]), [kind |-> "INIT", arg |-> medium])
    BY <1>7 DEF AddsInit
  <2>2. CASE tasks'[p] = Tail(tasks[p])
    <3>1. Keeps(tasks'[p], tasks[p], {kind})
      BY <1>1, <1>5, <1>7, <2>2, KeepsKinds
    <3>2. Keeps(tasks'[p], tasks[p], {kind, "INIT"})
      BY <3>1 DEF Keeps
    <3> QED
      BY <1>2, <2>1, <3>2 DEF KeepsTasks
  <2>3. ASSUME NEW medium, tasks'[p] = Append(Tail(tasks[p]), [kind |-> "INIT", arg |-> medium])
        PROVE  Keeps(tasks'[p], tasks[p], {kind, "INIT"})
    <3> DEFINE t == [kind |-> "INIT", arg |-> medium]
    <3>1. t.kind = "INIT" /\ tasks'[p] = Append(Tail(tasks[p]), t)
      BY <2>3
    <3> HIDE DEF t
    <3>2. Tail(tasks[p]) \in Seq(Tasks) /\ tasks[p] # << >>
      BY <1>1, <1>5, <1>7
    <3>3. t \in Tasks
      <4>1. Len(Tail(tasks[p])) + 1 \in DOMAIN tasks'[p]
            /\ tasks'[p][Len(Tail(tasks[p])) + 1] = t
        BY <3>1, <3>2
      <4> QED
        BY <1>1, <4>1
    <3> QED
      BY <1>1, <1>5, <1>7, <3>1, <3>3, KeepsKinds
  <2> QED
    BY <1>2, <2>1, <2>2, <2>3 DEF KeepsTasks
<1> QED
  BY <1>3, <1>4, <1>6, <1>7

\* A frame is read.
LEMMA ReadKept ==
  ASSUME TypeOK, WireInv, Handover, Fine, NEW q \in Peers, NEW c \in Channels, Takes(q, c),
         \A r \in Peers : seq'[r].sent = seq[r].sent, seq'[q].received = seq[q].received,
         seq'[Other(q)].received = IF Head(net[q][c]).seq # 0
                                   THEN seq[Other(q)].received + 1 ELSE seq[Other(q)].received,
         QuietView
  PROVE  (\A r \in Peers : WireFine(r)') /\ QuietEnds
<1>1. ASSUME NEW r \in Peers
      PROVE  WireFine(r)'
  <2>1. Cur(r)' = Cur(r)
    BY DEF QuietView, SameView, Cur
  <2>2. NumberInv(r)'
    BY <2>1, NumberTakes
  <2>3. ASSUME NEW x \in Channels
        PROVE  QueueInv(r, x)'
    <3>1. QueueInv(r, x) /\ (Mute(r, x)' => Mute(r, x)) /\ hist'[r].safe = hist[r].safe
      BY MuteKept DEF Handover, QuietView, SameView
    <3>2. \/ net'[r][x] = net[r][x]
          \/ net[r][x] # << >> /\ net'[r][x] = Tail(net[r][x])
      BY DEF Takes
    <3> QED
      BY <3>1, <3>2, QueueKept
  <2> QED
    BY <2>2, <2>3 DEF WireFine
<1>2. ASSUME NEW r \in Peers, NEW x \in Channels
      PROVE  /\ HasKind(net'[r][x], "DISC") => HasKind(net[r][x], "DISC")
             /\ Spent(r, x) => Spent(r, x)'
  <2>1. hist'[r].safe = hist[r].safe /\ net[r][x] \in Seq(Frames)
    BY SidesTyped DEF QuietView, SameView
  <2>2. CASE net'[r][x] = net[r][x]
    BY <2>1, <2>2 DEF Spent
  <2>3. CASE r = q /\ x = c
    <3>1. net[r][x] # << >> /\ net'[r][x] = Tail(net[r][x])
      BY <2>3 DEF Takes
    <3> QED
      BY <2>1, <2>3, <3>1, TailKinds DEF Spent
  <2> QED
    BY <2>2, <2>3 DEF Takes
<1> QED
  BY <1>1, <1>2 DEF QuietEnds

\* Frames in clear are read or written.
InClear(r, x) ==
  \/ net'[r][x] = net[r][x]
  \/ net[r][x] # << >> /\ net'[r][x] = Tail(net[r][x]) /\ Head(net[r][x]).kind \in Clear
  \/ \E f \in Frames : /\ net'[r][x] = Append(net[r][x], f)
                       /\ f.kind \in Clear /\ f.seq = 0 /\ Belongs(r, x, f)
                       /\ f.kind = "DISC" => Spent(Other(r), x) /\ mgr[r].previous # x

\* A frame in clear bears no number: writing it, or reading it, leaves the numbers and
\* the other kinds alone.
LEMMA ClearNumbers ==
  ASSUME TypeOK, NEW r \in Peers, NEW x \in Channels, QueueInv(r, x), InClear(r, x)
  PROVE  /\ Numbers(net'[r][x]) = Numbers(net[r][x])
         /\ \A k : k \notin Clear => Alike(net'[r][x], net[r][x], k)
         /\ Only(net[r][x], {"DISC"}) /\ x \in hist[r].safe => Only(net'[r][x], {"DISC"})
         /\ HasKind(net'[r][x], "DISC") =>
              HasKind(net[r][x], "DISC") \/ (Spent(Other(r), x) /\ mgr[r].previous # x)
<1>1. net[r][x] \in Seq(Frames) /\ Stamped(net[r][x], x)
  BY SidesTyped DEF QueueInv
<1>2. CASE net'[r][x] = net[r][x]
  BY <1>2 DEF Alike
<1>3. CASE net[r][x] # << >> /\ net'[r][x] = Tail(net[r][x]) /\ Head(net[r][x]).kind \in Clear
  <2>1. Numbers(net[r][x]) = Numbers(Tail(net[r][x])) \cup ({Head(net[r][x]).seq} \ {0})
        /\ Head(net[r][x]).seq = 0
    BY <1>1, <1>3, TailNumbers
  <2>2. /\ \A k : HasKind(net[r][x], k) <=> Head(net[r][x]).kind = k \/ HasKind(net'[r][x], k)
        /\ \A k : OnceKind(net[r][x], k) => OnceKind(net'[r][x], k)
        /\ \A ks : Only(net[r][x], ks) => Only(net'[r][x], ks)
    BY <1>1, <1>3, TailKinds
  <2> QED
    BY <1>3, <2>1, <2>2 DEF Alike
<1>4. ASSUME NEW f \in Frames, net'[r][x] = Append(net[r][x], f),
             f.kind \in Clear /\ f.seq = 0 /\ Belongs(r, x, f),
             f.kind = "DISC" => Spent(Other(r), x) /\ mgr[r].previous # x
      PROVE  /\ Numbers(net'[r][x]) = Numbers(net[r][x])
             /\ \A k : k \notin Clear => Alike(net'[r][x], net[r][x], k)
             /\ Only(net[r][x], {"DISC"}) /\ x \in hist[r].safe => Only(net'[r][x], {"DISC"})
             /\ HasKind(net'[r][x], "DISC") =>
                  HasKind(net[r][x], "DISC") \/ (Spent(Other(r), x) /\ mgr[r].previous # x)
  <2>1. Numbers(net'[r][x]) = Numbers(net[r][x])
    BY <1>1, <1>4, AppendNumbers
  <2>2. /\ \A k : HasKind(net'[r][x], k) <=> HasKind(net[r][x], k) \/ f.kind = k
        /\ \A k : OnceKind(net[r][x], k) /\ (f.kind = k => ~HasKind(net[r][x], k)) =>
                  OnceKind(net'[r][x], k)
        /\ \A ks : Only(net'[r][x], ks) <=> Only(net[r][x], ks) /\ f.kind \in ks
    BY <1>1, <1>4, AppendKinds
  <2> QED
    BY <1>4, <2>1, <2>2 DEF Alike, Belongs
<1> QED
  BY <1>2, <1>3, <1>4 DEF InClear

\* DISCONNECTION, CLIENT_INTRODUCTION and its acknowledgement do not disturb the
\* numbers.
LEMMA ClearKept ==
  ASSUME TypeOK, Handover, Fine, UNCHANGED seq, QuietView,
         \A r \in Peers, x \in Channels : InClear(r, x)
  PROVE  (\A r \in Peers : WireFine(r)') /\ QuietNet
<1>1. ASSUME NEW r \in Peers, NEW x \in Channels
      PROVE  QueueInv(r, x)'
  <2>1. QueueInv(r, x) /\ (Mute(r, x)' => Mute(r, x)) /\ hist'[r].safe = hist[r].safe
    BY MuteKept DEF Handover, QuietView, SameView
  <2>2. InClear(r, x)
    OBVIOUS
  <2> QED
    BY <2>1, <2>2, QueueKept DEF InClear
<1>2. ASSUME NEW r \in Peers, NEW x \in Channels
      PROVE  /\ Numbers(net'[r][x]) = Numbers(net[r][x])
             /\ \A k \in {"LAST", "SAFE"} : Alike(net'[r][x], net[r][x], k)
             /\ Spent(r, x) => Spent(r, x)'
             /\ HasKind(net'[r][x], "DISC") =>
                  HasKind(net[r][x], "DISC") \/ (Spent(Other(r), x) /\ mgr[r].previous # x)
  <2>1. QueueInv(r, x) /\ hist'[r].safe = hist[r].safe
    BY DEF Handover, QuietView, SameView
  <2>2. InClear(r, x)
    OBVIOUS
  <2> QED
    BY <2>1, <2>2, ClearNumbers DEF Spent, Clear
<1>3. ASSUME NEW r \in Peers
      PROVE  NumberInv(r)'
  <2>1. Cur(r)' = Cur(r) /\ Cur(r) \in Channels /\ NumberInv(r)
    BY Standing DEF QuietView, SameView, Cur, Handover
  <2> QED
    BY <1>2, <2>1 DEF NumberInv
<1> QED
  BY <1>1, <1>2, <1>3 DEF WireFine, QuietNet, QuietEnds

\* Nothing is read or written.
LEMMA WireKept ==
  ASSUME TypeOK, Handover, Fine, UNCHANGED <<net, seq>>, QuietView
  PROVE  (\A r \in Peers : WireFine(r)') /\ QuietNet
BY ClearKept DEF InClear

-----------------------------------------------------------------------------
(* A device that the step does not move *)

\* A worker goes on with its channel, or fetches the active one.
Moves(l, loop, active) ==
  \/ l = loop
  \/ l.pc \in {"fetch", "done"}
  \/ l.chan = active
  \/ l.chan = loop.chan /\ loop.pc \in {"idle", "read", "ack"}
LoopsMove(p) ==
  /\ Moves(reader'[p], reader[p], Act(p))
  /\ Moves(keeper'[p], keeper[p], Act(p))
  /\ Moves(writer'[p], writer[p], Act(p))

Still(p) ==
  /\ chan'[p] = chan[p] /\ conn'[p].active = conn[p].active
  /\ bwu'[p] = bwu[p] /\ LoopsMove(p)
  /\ mgr'[p].previous = mgr[p].previous /\ mgr'[p].upgraded = mgr[p].upgraded
  /\ \/ mgr'[p].inProgress = mgr[p].inProgress
     \/ p = Advertiser /\ Stage(p) = "ease" /\ bwu[p].pc # "replace"
  /\ hist'[p].safe = hist[p].safe /\ hist'[p].desync = hist[p].desync
  /\ OverIn(tasks'[p]) => OverIn(tasks[p])

\* A step of another part of the program: the device is as far as it was.
LEMMA StillKept ==
  ASSUME NEW p \in Peers, Handover, Still(p)
  PROVE  DeviceFine(p)' /\ SameView(p) /\ StillClosed(p) /\ (LastDue(p)' <=> LastDue(p))
<1>1. SameView(p)
  BY SameViewOf DEF Still
<1>2. StillClosed(p)
  BY DEF Still, StillClosed
<1>3. LastDue(p)' <=> LastDue(p)
  BY DEF Still, LastDue
<1>4. Stage(p)' = Stage(p) /\ Act(p)' = Act(p) /\ Prior(p)' = Prior(p)
  BY <1>1 DEF SameView
<1>5. StageInv(p) /\ ProgressInv(p) /\ ChannelInv(p) /\ HoldsInv(p) /\ ~hist[p].desync
  BY DEF Handover
<1>6. StageInv(p)'
  BY <1>4, <1>5 DEF StageInv, Still
<1>7. ProgressInv(p)'
  BY <1>4, <1>5, Two DEF ProgressInv, Still
<1>8. ChannelInv(p)'
  BY <1>4, <1>5 DEF ChannelInv, Still
<1>9. HoldsInv(p)'
  <2>1. ASSUME NEW l, NEW loop, Moves(l, loop, Act(p)), Holds(p, loop)
        PROVE  l.pc \in {"idle", "read", "ack"} =>
                 l.chan = Act(p)' \/ l.chan = Prior(p)' \/ chan'[p][l.chan].closed
    BY <1>4, <2>1 DEF Moves, Holds, Still
  <2> QED
    BY <1>5, <2>1 DEF HoldsInv, Holds, LoopsMove, Still
<1> QED
  BY <1>1, <1>2, <1>3, <1>5, <1>6, <1>7, <1>8, <1>9 DEF DeviceFine, Still

\* The parts make up the invariant.
LEMMA Together ==
  ASSUME ConnectedInv', OffersFine',
         \A p \in Peers : DeviceFine(p)' /\ ShutFine(p)' /\ WireFine(p)'
  PROVE  Handover'
BY DEF Handover, OffersFine, DeviceFine, ShutFine, WireFine

\* The queues of frames after a step that leaves these kinds alone.
KeepsNet(kinds) ==
  \A p \in Peers, x \in Channels : Keeps(net'[p][x], net[p][x], kinds)

\* One frame written or read touches the frames of its kind.
LEMMA NetKeeps ==
  ASSUME TypeOK
  PROVE  /\ UNCHANGED net => KeepsNet({})
         /\ \A p \in Peers, c \in Channels : \A f :
               Appends(p, c, f) => KeepsNet({f.kind})
         /\ \A p \in Peers, c \in Channels :
               Takes(p, c) => KeepsNet({Head(net[p][c]).kind})
<1>1. \A r \in Peers, x \in Channels : net[r][x] \in Seq(Frames)
  BY SidesTyped
<1>2. ASSUME NEW kinds, NEW r \in Peers, NEW x \in Channels, net'[r][x] = net[r][x]
      PROVE  Keeps(net'[r][x], net[r][x], kinds)
  BY <1>2 DEF Keeps
<1>3. UNCHANGED net => KeepsNet({})
  BY <1>2 DEF KeepsNet
<1>4. ASSUME NEW p \in Peers, NEW c \in Channels, NEW f, Appends(p, c, f)
      PROVE  KeepsNet({f.kind})
  <2>1. Keeps(net'[p][c], net[p][c], {f.kind})
    BY <1>1, <1>4, KeepsKinds DEF Appends
  <2> QED
    BY <1>2, <1>4, <2>1 DEF Appends, KeepsNet
<1>5. ASSUME NEW p \in Peers, NEW c \in Channels, Takes(p, c)
      PROVE  KeepsNet({Head(net[p][c]).kind})
  <2>1. Keeps(net'[p][c], net[p][c], {Head(net[p][c]).kind})
    BY <1>1, <1>5, KeepsKinds DEF Takes
  <2> QED
    BY <1>2, <1>5, <2>1 DEF Takes, KeepsNet
<1> QED
  BY <1>3, <1>4, <1>5

\* Frames other than LAST and SAFE do not bear on the shutdown, ...
LEMMA QuietNetOf ==
  ASSUME QuietEnds, NEW kinds, KeepsNet(kinds), "LAST" \notin kinds, "SAFE" \notin kinds
  PROVE  QuietNet
BY DEF QuietNet, KeepsNet, Keeps, Alike

\* ... and frames and tasks other than PATH, FAIL, INCOMING and SAFE not on the offers.
LEMMA QuietOffersOf ==
  ASSUME NEW kinds, NEW posted, KeepsNet(kinds), KeepsTasks(posted),
         \A c \in Channels : link'[c].dialled <=> link[c].dialled,
         "PATH" \notin kinds, "FAIL" \notin kinds,
         \A kind \in {"PATH", "INCOMING", "FAIL", "SAFE"} : kind \notin posted
  PROVE  QuietOffers
BY Two DEF KeepsNet, KeepsTasks, Keeps, QuietOffers

\* A step that moves neither the shutdown of a prior channel nor an offer.
LEMMA QuietStep ==
  ASSUME TypeOK, Handover, Fine, QuietView, QuietNet, QuietDue,
         \A r \in Peers : DeviceFine(r)' /\ WireFine(r)' /\ QuietThread(r),
         NEW kinds, NEW posted, KeepsNet(kinds), KeepsTasks(posted),
         "PATH" \notin kinds, "FAIL" \notin kinds,
         \A kind \in {"PATH", "INCOMING", "FAIL", "LAST", "SAFE"} : kind \notin posted,
         \A c \in Channels :
            /\ link'[c].dialled <=> link[c].dialled
            /\ Underway(c) /\ mgr[Advertiser].inProgress => mgr'[Advertiser].inProgress
            /\ PathAt(c) /\ ~mgr[Advertiser].inProgress => ~mgr'[Advertiser].inProgress
            /\ link[c].dialled /\ c \in mgr[Advertiser].listening =>
                 c \in mgr'[Advertiser].listening,
         opened' = opened, ConnectedInv'
  PROVE  Handover'
<1>1. QuietOffers
  BY QuietOffersOf
<1>2. FewerOffers
  BY <1>1, FewerOf
<1>3. SameRole
  BY SameRoleOf DEF QuietView
<1>4. OffersFine'
  BY <1>2, <1>3, OffersKept
<1>5. QuietTasks
  BY TasksQuiet
<1>6. \A r \in Peers : ShutFine(r)'
  BY <1>5, QuietKept
<1> QED
  BY <1>4, <1>6, Together

\* A step of a worker that leaves both devices where they are.
LEMMA StillStep ==
  ASSUME TypeOK, Handover, Fine, \A r \in Peers : Still(r) /\ WireFine(r)', QuietNet,
         NEW kinds, NEW posted, KeepsNet(kinds), KeepsTasks(posted),
         "PATH" \notin kinds, "FAIL" \notin kinds,
         \A kind \in {"PATH", "INCOMING", "FAIL", "LAST", "SAFE"} : kind \notin posted,
         UNCHANGED <<link, bwu, opened>>,
         mgr'[Advertiser].inProgress = mgr[Advertiser].inProgress,
         mgr'[Advertiser].listening = mgr[Advertiser].listening, ConnectedInv'
  PROVE  Handover'
<1>1. QuietView /\ QuietDue /\ \A r \in Peers : DeviceFine(r)'
  BY StillKept DEF QuietView, QuietDue
<1>2. \A r \in Peers : QuietThread(r)
  BY DEF QuietThread
<1> QED
  BY <1>1, <1>2, QuietStep

-----------------------------------------------------------------------------
(* The workers *)

\* Steps that only move a worker, or the connection's report to the client.
LEMMA LoopsHandover ==
  ASSUME Now, NEW p \in Peers, UNCHANGED <<mgr, bwu, opened, requests>>,
         \/ ReaderFetch(p) \/ ReaderRead(p) \/ ReaderFail(p) \/ KeeperFetch(p)
         \/ WriterFetch(p) \/ KeeperTimeout(p) \/ Leave(p) \/ OnConnectionAccepted(p)
  PROVE  Handover'
<1>1. TypeOK /\ Handover /\ Fine
  BY DEF Now
<1>2. UNCHANGED <<chan, net, seq, link, tasks, hist, mgr, bwu, opened>>
  BY DEF ReaderFetch, ReaderRead, ReaderFail, KeeperFetch, WriterFetch, KeeperTimeout, Leave,
         OnConnectionAccepted, channelVars, workerVars
<1>3. ASSUME NEW r \in Peers
      PROVE  /\ conn'[r].active = conn[r].active
             /\ conn[r].connected => conn'[r].connected
  <2>1. conn \in [Peers -> Connections]
    BY <1>1 DEF TypeOK, WorkersTypeOK
  <2>2. UNCHANGED conn \/ Leave(p) \/ OnConnectionAccepted(p)
    BY DEF ReaderFetch, ReaderRead, ReaderFail, KeeperFetch, WriterFetch, KeeperTimeout
  <2>3. CASE UNCHANGED conn
    BY <2>3
  <2>4. CASE Leave(p)
    BY <2>1, <2>4 DEF Leave, Connections
  <2>5. CASE OnConnectionAccepted(p)
    BY <2>1, <2>5 DEF OnConnectionAccepted, Connections
  <2> QED
    BY <2>2, <2>3, <2>4, <2>5
<1>4. ASSUME NEW r \in Peers
      PROVE  LoopsMove(r)
  <2>1. /\ reader \in [Peers -> Loops] /\ keeper \in [Peers -> Loops]
        /\ writer \in [Peers -> Loops]
    BY <1>1 DEF TypeOK, WorkersTypeOK
  <2>2. \A loop \in Loops : Moves(LoopFetch(p, loop), loop, Act(p))
    BY DEF LoopFetch, Moves, Loops, Act
  <2>3. \A loop \in Loops : Moves(LoopFailed(loop), loop, Act(p))
    BY DEF LoopFailed, Moves, Loops
  <2>4. \/ UNCHANGED reader
        \/ /\ Moves(reader'[p], reader[p], Act(p))
           /\ \A s \in Peers : s # p => reader'[s] = reader[s]
    <3>1. CASE ReaderFetch(p)
      BY <2>1, <2>2, <3>1 DEF ReaderFetch
    <3>2. CASE ReaderRead(p)
      BY <2>1, <3>2 DEF ReaderRead, Moves, Loops
    <3>3. CASE ReaderFail(p)
      BY <2>1, <2>3, <3>3 DEF ReaderFail
    <3> QED
      BY <3>1, <3>2, <3>3 DEF KeeperFetch, WriterFetch, KeeperTimeout, Leave,
         OnConnectionAccepted, workerVars
  <2>5. \/ UNCHANGED keeper
        \/ /\ Moves(keeper'[p], keeper[p], Act(p))
           /\ \A s \in Peers : s # p => keeper'[s] = keeper[s]
    <3>1. CASE KeeperFetch(p)
      BY <2>1, <2>2, <3>1 DEF KeeperFetch
    <3>2. CASE KeeperTimeout(p)
      BY <2>1, <3>2 DEF KeeperTimeout, Moves, Loops
    <3> QED
      BY <3>1, <3>2 DEF ReaderFetch, ReaderRead, ReaderFail, WriterFetch, Leave,
         OnConnectionAccepted, workerVars
  <2>6. \/ UNCHANGED writer
        \/ /\ Moves(writer'[p], writer[p], Act(p))
           /\ \A s \in Peers : s # p => writer'[s] = writer[s]
    <3>1. CASE WriterFetch(p)
      BY <2>1, <3>1 DEF WriterFetch, Moves, Loops, Act
    <3> QED
      BY <3>1 DEF ReaderFetch, ReaderRead, ReaderFail, KeeperFetch, KeeperTimeout, Leave,
         OnConnectionAccepted, workerVars
  <2> QED
    BY <2>4, <2>5, <2>6 DEF LoopsMove, Moves
<1>5. \A r \in Peers : Still(r)
  BY <1>2, <1>3, <1>4 DEF Still
<1>6. QuietView
  BY <1>1, <1>5, StillKept DEF QuietView
<1>7. (\A r \in Peers : WireFine(r)') /\ QuietNet
  BY <1>1, <1>2, <1>6, WireKept
<1>8. KeepsNet({}) /\ KeepsTasks({})
  BY <1>1, <1>2, NetKeeps, TasksKeep DEF Now
<1>9. ConnectedInv'
  <2>1. ConnectedInv /\ InitiallyConnected \subseteq Peers
    BY <1>1, WorkersTyped DEF Handover
  <2> QED
    BY <1>2, <1>3, <2>1, Two DEF ConnectedInv
<1> QED
  BY <1>1, <1>2, <1>5, <1>7, <1>8, <1>9, StillStep

\* What a worker's write comes to: the channel is one that the device still has, and
\* SAFE has not been written on it.
LEMMA WorkerWrite ==
  ASSUME Now, NEW p \in Peers, UNCHANGED <<mgr, bwu, opened, requests>>,
         ReaderAck(p) \/ KeeperWrite(p) \/ WriterWrite(p)
  PROVE  /\ UNCHANGED <<chan, link, conn, tasks>>
         /\ \A r \in Peers : LoopsMove(r)
         /\ \A r \in Peers : hist'[r].safe = hist[r].safe /\ hist'[r].desync = hist[r].desync
         /\ \E c \in Channels, kind \in {"KEEPACK", "KEEP", "DATA"}, arg \in Nat :
              /\ c = Act(p) \/ c = Prior(p) \/ chan[p][c].closed
              /\ [kind |-> kind, seq |-> 0, arg |-> arg] \in Frames
              /\ \/ Written(p, c, kind, arg) /\ c \notin hist[p].safe
                 \/ WriteFailed(p, c)
<1>1. TypeOK /\ Handover /\ Fine /\ Fine' /\ HoldsInv(p)
  BY DEF Now, Handover
<1>2. /\ reader \in [Peers -> Loops] /\ keeper \in [Peers -> Loops]
      /\ writer \in [Peers -> Loops] /\ hist \in [Peers -> Histories]
  BY <1>1 DEF TypeOK, WorkersTypeOK
<1>3. ~hist'[p].late
  BY <1>1 DEF Fine
<1>4. ASSUME NEW c \in Channels, hist' = Noted(p, c)
      PROVE  /\ c \notin hist[p].safe
             /\ \A r \in Peers : hist'[r].safe = hist[r].safe /\ hist'[r].desync = hist[r].desync
  BY <1>2, <1>3, <1>4 DEF Noted, Histories
<1>5. \A loop \in Loops : Moves(LoopFailed(loop), loop, Act(p))
  BY DEF LoopFailed, Moves, Loops
<1>6. /\ [kind |-> "KEEPACK", seq |-> 0, arg |-> 0] \in Frames
      /\ [kind |-> "KEEP", seq |-> 0, arg |-> 0] \in Frames
      /\ \A n \in Nat : [kind |-> "DATA", seq |-> 0, arg |-> n] \in Frames
  BY ConstantsTyped DEF Frames, FrameKinds
<1>7. CASE ReaderAck(p)
  <2> DEFINE c == reader[p].chan
  <2>1. c \in Channels /\ (c = Act(p) \/ c = Prior(p) \/ chan[p][c].closed)
    BY <1>1, <1>2, <1>7 DEF ReaderAck, HoldsInv, Holds, Loops
  <2>2. \A r \in Peers : Moves(reader'[r], reader[r], Act(r))
    <3>1. reader' = [reader EXCEPT ![p].pc = "idle"] \/ reader' = [reader EXCEPT ![p] = LoopFailed(@)]
      BY <1>7 DEF ReaderAck
    <3> QED
      BY <1>2, <1>5, <1>7, <3>1 DEF ReaderAck, Moves, Loops
  <2>3. UNCHANGED <<chan, link, conn, tasks, keeper, writer>>
    BY <1>7 DEF ReaderAck
  <2>4. \/ Written(p, c, "KEEPACK", 0) /\ hist' = Noted(p, c)
        \/ WriteFailed(p, c) /\ UNCHANGED hist
    BY <1>7 DEF ReaderAck
  <2> HIDE DEF c
  <2>5. (\/ Written(p, c, "KEEPACK", 0) /\ c \notin hist[p].safe
         \/ WriteFailed(p, c))
        /\ \A r \in Peers : hist'[r].safe = hist[r].safe /\ hist'[r].desync = hist[r].desync
    BY <1>4, <2>1, <2>4
  <2> QED
    BY <1>6, <2>1, <2>2, <2>3, <2>5 DEF LoopsMove, Moves
<1>8. CASE KeeperWrite(p)
  <2> DEFINE c == keeper[p].chan
  <2>1. c \in Channels /\ (c = Act(p) \/ c = Prior(p) \/ chan[p][c].closed)
    BY <1>1, <1>2, <1>8 DEF KeeperWrite, HoldsInv, Holds, Loops
  <2>2. \A r \in Peers : Moves(keeper'[r], keeper[r], Act(r))
    <3>1. keeper' = [keeper EXCEPT ![p].count = @ + 1] \/ keeper' = [keeper EXCEPT ![p] = LoopFailed(@)]
      BY <1>8 DEF KeeperWrite
    <3> QED
      BY <1>2, <1>5, <1>8, <3>1 DEF KeeperWrite, Moves, Loops
  <2>3. UNCHANGED <<chan, link, conn, tasks, reader, writer>>
    BY <1>8 DEF KeeperWrite
  <2>4. \/ Written(p, c, "KEEP", 0) /\ hist' = Noted(p, c)
        \/ WriteFailed(p, c) /\ UNCHANGED hist
    BY <1>8 DEF KeeperWrite
  <2> HIDE DEF c
  <2>5. (\/ Written(p, c, "KEEP", 0) /\ c \notin hist[p].safe
         \/ WriteFailed(p, c))
        /\ \A r \in Peers : hist'[r].safe = hist[r].safe /\ hist'[r].desync = hist[r].desync
    BY <1>4, <2>1, <2>4
  <2> QED
    BY <1>6, <2>1, <2>2, <2>3, <2>5 DEF LoopsMove, Moves
<1>9. CASE WriterWrite(p)
  <2> DEFINE c == writer[p].chan
             n == writer[p].count + 1
  <2>1. c \in Channels /\ (c = Act(p) \/ c = Prior(p) \/ chan[p][c].closed) /\ n \in Nat
    BY <1>1, <1>2, <1>9 DEF WriterWrite, HoldsInv, Holds, Loops
  <2>2. \A r \in Peers : Moves(writer'[r], writer[r], Act(r))
    BY <1>2, <1>9 DEF WriterWrite, Moves, Loops
  <2>3. UNCHANGED <<chan, link, conn, tasks, reader, keeper>>
    BY <1>9 DEF WriterWrite
  <2>4. \/ /\ Written(p, c, "DATA", n)
           /\ hist' = IF c \in hist[p].safe
                      THEN [hist EXCEPT ![p].overdue = @ \cup {n}, ![p].late = TRUE]
                      ELSE [hist EXCEPT ![p].intime = @ \cup {n}]
        \/ WriteFailed(p, c) /\ UNCHANGED hist
    BY <1>9 DEF WriterWrite
  <2> HIDE DEF c, n
  <2>5. (\/ Written(p, c, "DATA", n) /\ c \notin hist[p].safe
         \/ WriteFailed(p, c))
        /\ \A r \in Peers : hist'[r].safe = hist[r].safe /\ hist'[r].desync = hist[r].desync
    <3>1. CASE UNCHANGED hist
      BY <2>4, <3>1, <1>2, <1>3 DEF Histories
    <3>2. CASE c \in hist[p].safe /\ ~UNCHANGED hist
      <4>1. hist' = [hist EXCEPT ![p].overdue = @ \cup {n}, ![p].late = TRUE]
        BY <2>4, <3>2
      <4>2. hist'[p].late
        BY <1>2, <4>1 DEF Histories
      <4> QED
        BY <1>3, <4>2
    <3>3. CASE c \notin hist[p].safe /\ ~UNCHANGED hist
      <4>1. hist' = [hist EXCEPT ![p].intime = @ \cup {n}] /\ Written(p, c, "DATA", n)
        BY <2>4, <3>3
      <4> QED
        BY <1>2, <3>3, <4>1 DEF Histories
    <3> QED
      BY <3>1, <3>2, <3>3
  <2> QED
    BY <1>6, <2>1, <2>2, <2>3, <2>5 DEF LoopsMove, Moves
<1> QED
  BY <1>7, <1>8, <1>9

\* What the workers write (HandleKeepAlive, SendTransferFrameBytes) keeps the invariant:
\* on a channel without SAFE it is the next frame, and one with SAFE takes no more.
LEMMA WritesHandover ==
  ASSUME Now, NEW p \in Peers, UNCHANGED <<mgr, bwu, opened, requests>>,
         ReaderAck(p) \/ KeeperWrite(p) \/ WriterWrite(p)
  PROVE  Handover'
<1>1. TypeOK /\ TypeOK' /\ Handover /\ Fine
  BY DEF Now
<1>2. /\ UNCHANGED <<chan, link, conn, tasks>>
      /\ \A r \in Peers : LoopsMove(r)
      /\ \A r \in Peers : hist'[r].safe = hist[r].safe /\ hist'[r].desync = hist[r].desync
  BY WorkerWrite
<1>3. \A r \in Peers : Still(r)
  BY <1>2 DEF Still
<1>4. QuietView
  BY <1>1, <1>3, StillKept DEF QuietView
<1>5. PICK c \in Channels, kind \in {"KEEPACK", "KEEP", "DATA"}, arg \in Nat :
        /\ c = Act(p) \/ c = Prior(p) \/ chan[p][c].closed
        /\ [kind |-> kind, seq |-> 0, arg |-> arg] \in Frames
        /\ \/ Written(p, c, kind, arg) /\ c \notin hist[p].safe
           \/ WriteFailed(p, c)
  BY WorkerWrite
<1>6. (\A r \in Peers : WireFine(r)') /\ QuietNet /\ \E k \in {"KEEPACK", "KEEP", "DATA"} : KeepsNet({k})
  <2>1. CASE Written(p, c, kind, arg) /\ c \notin hist[p].safe
    <3>1. kind \in Plain /\ kind \in {"KEEPACK", "KEEP", "DATA"}
      BY <1>5 DEF Plain
    <3>2. \A r \in Peers : SameView(r) /\ StillClosed(r)
      BY <1>4 DEF QuietView
    <3>3. /\ \A r \in Peers : NumberInv(r)'
          /\ \A r \in Peers, x \in Channels : QueueInv(r, x)'
          /\ QuietNet
          /\ Appends(p, c, FrameOf(p, c, kind, arg)) /\ FrameOf(p, c, kind, arg).kind = kind
      BY <1>1, <1>5, <2>1, <3>1, <3>2, WriteKept
    <3>4. KeepsNet({kind})
      BY <1>1, <3>3, NetKeeps
    <3> QED
      BY <3>1, <3>3, <3>4 DEF WireFine
  <2>2. CASE WriteFailed(p, c)
    <3>1. UNCHANGED <<net, seq>>
      BY <1>1, <2>2, FailsInClear
    <3>2. KeepsNet({})
      BY <1>1, <3>1, NetKeeps
    <3>3. KeepsNet({"KEEP"})
      BY <3>2 DEF KeepsNet, Keeps
    <3> QED
      BY <1>1, <1>4, <3>1, <3>3, WireKept
  <2> QED
    BY <1>5, <2>1, <2>2
<1>7. KeepsTasks({})
  BY <1>1, <1>2, TasksKeep
<1>8. ConnectedInv'
  BY <1>1, <1>2 DEF Handover, ConnectedInv
<1> QED
  BY <1>1, <1>2, <1>3, <1>6, <1>7, <1>8, StillStep

-----------------------------------------------------------------------------
(* A frame is read *)

\* An offer was made if a device has a prior channel.
LEMMA OpenedBefore ==
  ASSUME TypeOK, Handover, Fine, NEW p \in Peers, Stage(p) \notin {"ease", "finishing"}
  PROVE  opened > 0
<1>1. Act(p) \in Channels /\ Prior(p) \in Channels /\ Act(p) # Prior(p)
  BY Standing
<1>2. opened \in Nat /\ \A c \in Channels : c \in Nat
  BY OpenedTyped, ConstantsTyped
<1>3. \A c \in Channels : c > opened => c # Act(p) /\ c # Prior(p)
  BY Two DEF Handover, FreshInv, FreshFor
<1>4. ~(Act(p) > opened) /\ ~(Prior(p) > opened)
  BY <1>1, <1>3
<1> QED
  BY <1>1, <1>2, <1>4

\* A device to which a shutdown frame was sent expects it.
LEMMA Awaited ==
  ASSUME TypeOK, Handover, Fine, NEW p \in Peers,
         LastSent(Other(p)) \/ SafeSent(Other(p)) \/ LastGot(p) \/ SafeGot(p)
  PROVE  conn[p].connected /\ (bwu[p].pc = "idle" => mgr[p].inProgress)
<1> DEFINE q == Other(p)
<1>1. q \in Peers /\ Other(q) = p
  BY Two
<1>2. LastInv(q) /\ SafeInv(q) /\ ProgressInv(p) /\ StageInv(p) /\ ConnectedInv /\ BehindInv
  BY <1>1 DEF Handover
<1>3. \/ Stage(p) \in {"told", "agreed"}
      \/ Stage(q) = "told"
  BY <1>1, <1>2 DEF LastInv, SafeInv
<1>4. opened > 0
  BY <1>1, <1>3, OpenedBefore
<1>5. Stage(p) = "ease" => Behind(p)
  BY <1>3 DEF Behind, Early
<1>6. Stage(p) \in Stages
  BY Standing
<1>7. Stage(p) # "ease" => mgr[p].inProgress
  BY <1>2 DEF ProgressInv
<1>8. CASE p = Advertiser
  <2>1. conn[p].connected
    BY <1>2, <1>4, <1>8 DEF ConnectedInv
  <2>2. ASSUME Stage(p) = "ease"
        PROVE  mgr[p].inProgress
    <3>1. Arriving(Act(Discoverer)) /\ Act(Discoverer) \in Channels
      BY <1>2, <1>5, <1>8, <2>2, Two, Standing DEF BehindInv
    <3> QED
      BY <1>8, <3>1 DEF Handover, FlowInv, Underway
  <2> QED
    BY <1>7, <2>1, <2>2
<1>9. CASE p = Discoverer
  <2>1. ASSUME Stage(p) = "ease"
        PROVE  bwu[p].pc \in {"ack", "replace"}
    BY <1>2, <1>5, <1>9, <2>1 DEF BehindInv, Switching
  <2>2. conn[p].connected
    BY <1>2, <1>7, <1>9, <2>1 DEF ConnectedInv
  <2> QED
    BY <1>7, <2>1, <2>2
<1> QED
  BY <1>8, <1>9, Two

\* With working transports a reader decodes every frame that has a number; what
\* was sent in clear it decodes too, unless the channel is still encrypted there.
LEMMA ReadDecodes ==
  ASSUME TypeOK, WireInv, Handover, Fine, NEW p \in Peers, NEW c \in Channels,
         reader[p].pc = "read", reader[p].chan = c, CanRead(p, c)
  PROVE  LET f == Head(Incoming(p, c))
             d == Decoding(p, c, f)
         IN  /\ f \in Frames
             /\ f.seq # 0 => d = "decoded" /\ f.kind \notin Clear
             /\ f.seq = 0 => \/ d = "clear" /\ ~chan[p][c].crypt
                             \/ d = "invalid" /\ f.kind \in Clear
<1> DEFINE q == Other(p)
           f == Head(net[q][c])
           d == Decoding(p, c, f)
<1>1. q \in Peers /\ Other(q) = p /\ Incoming(p, c) = net[q][c]
  BY Two DEF Incoming
<1>2. net[q][c] # << >> /\ net[q][c] \in Seq(Frames) /\ ~chan[p][c].closed
  BY <1>1, SidesTyped DEF CanRead
<1>3. f \in Frames /\ f.seq \in Nat
  BY <1>2 DEF Frames
<1>4. f.seq # 0 <=> Encrypts(c) /\ f.kind \notin Clear
  <2>1. Stamped(net[q][c], c)
    BY <1>1 DEF Handover, QueueInv
  <2> QED
    BY <1>2, <2>1, TailNumbers
<1>5. seq[p].received \in Nat
  BY SidesTyped
<1>6. ChannelInv(p) /\ HoldsInv(p) /\ CloseInv(p, c)
  BY DEF Handover
<1>7. CASE f.seq # 0
  <2>1. f.seq = seq[p].received + 1
    BY <1>1, <1>2, <1>7, HeadNext
  <2>2. c = Act(p) \/ c = Prior(p)
    BY <1>2, <1>6 DEF HoldsInv, Holds
  <2>3. ~(c = Prior(p) /\ Stage(p) = "ending")
    <3>1. Only(net[q][c], {"DISC"}) => f.kind = "DISC"
      BY <1>2, TailKinds
    <3>2. f.kind # "DISC"
      BY <1>4, <1>7 DEF Clear
    <3> QED
      BY <1>6, <3>1, <3>2 DEF CloseInv, Spent
  <2>4. chan[p][c].crypt
    BY <1>4, <1>6, <1>7, <2>2, <2>3 DEF ChannelInv
  <2>5. d = "decoded"
    BY <2>1, <2>4 DEF Decoding
  <2> QED
    BY <1>1, <1>3, <1>4, <1>7, <2>5
<1>8. CASE f.seq = 0
  <2>1. f.seq # seq[p].received + 1
    BY <1>5, <1>8
  <2>2. CASE chan[p][c].crypt
    <3>1. f.kind \in Clear
      BY <1>4, <1>6, <1>8, <2>2 DEF ChannelInv
    <3>2. d = "invalid"
      BY <2>1, <2>2, <3>1 DEF Decoding, Clear
    <3> QED
      BY <1>1, <1>3, <1>8, <3>1, <3>2
  <2>3. CASE ~chan[p][c].crypt
    <3>1. d = "clear"
      BY <1>8, <2>3 DEF Decoding
    <3> QED
      BY <1>1, <1>3, <1>8, <2>3, <3>1
  <2> QED
    BY <2>2, <2>3
<1> QED
  BY <1>7, <1>8


\* What reading a frame comes to: it is dropped or noted, posted to the BwuManager
\* thread, or it closes the channel; no numbered frame is refused.
FrameRead(p, q, c, f) ==
  /\ c \in Channels /\ f \in Frames /\ f = Head(net[q][c]) /\ Takes(q, c)
  /\ \A r \in Peers : seq'[r].sent = seq[r].sent
  /\ seq'[q].received = seq[q].received
  /\ seq'[p].received = IF f.seq # 0 THEN seq[p].received + 1 ELSE seq[p].received
  /\ UNCHANGED <<link, conn>>
  /\ \A r \in Peers : /\ hist'[r].safe = hist[r].safe /\ hist'[r].desync = hist[r].desync
                      /\ LoopsMove(r)
Dropped(p, f) == UNCHANGED <<chan, tasks>> /\ (f.kind \notin Negotiation \/ Unconfirmed(p, f))
Posted(p, f) ==
  /\ f.kind \in Negotiation /\ UNCHANGED chan
  /\ tasks' = [tasks EXCEPT ![p] = Post(p, f.kind, f.arg)]
Closes(p, c, f) ==
  f.kind = "DISC" /\ ~chan[p][c].crypt /\ chan' = Closed(p, c) /\ UNCHANGED tasks

\* HandleData: every frame the reader takes is dropped, posted to BwuManager or closes the
\* channel, and none that is numbered is refused.
LEMMA FrameTaken ==
  ASSUME TypeOK, WireInv, Handover, Fine, NEW p \in Peers, ReaderFrame(p)
  PROVE  \E c, f : /\ FrameRead(p, Other(p), c, f)
                   /\ Dropped(p, f) \/ Posted(p, f) \/ Closes(p, c, f)
<1> DEFINE q == Other(p)
           c == reader[p].chan
           f == Head(Incoming(p, c))
           d == Decoding(p, c, f)
           noticed == [hist EXCEPT ![p].desync = @ \/ f.seq # 0]
           heard == [hist EXCEPT ![p].got = Append(@, f.arg)]
<1>1. /\ reader \in [Peers -> Loops] /\ hist \in [Peers -> Histories]
      /\ seq \in [Peers -> [sent : Nat, received : Nat]]
  BY DEF TypeOK, WorkersTypeOK, ChannelsTypeOK
<1>2. c \in Channels /\ reader[p].pc = "read" /\ CanRead(p, c) /\ net' = Popped(p, c)
  BY <1>1 DEF ReaderFrame, Loops
<1>3. /\ f \in Frames
      /\ f.seq # 0 => d = "decoded" /\ f.kind \notin Clear
      /\ f.seq = 0 => \/ d = "clear" /\ ~chan[p][c].crypt
                      \/ d = "invalid" /\ f.kind \in Clear
  BY <1>2, ReadDecodes
<1>4. Takes(q, c) /\ f = Head(net[q][c])
  BY <1>2, PoppedTakes DEF Incoming
<1>5. seq' = IF d = "decoded" THEN [seq EXCEPT ![p].received = @ + 1] ELSE seq
  BY DEF ReaderFrame
<1>6. /\ UNCHANGED <<link, conn, keeper, writer>>
      /\ \/ /\ d = "invalid"
            /\ reader' = [reader EXCEPT ![p] = LoopFailed(@)]
            /\ hist' = noticed
            /\ UNCHANGED <<chan, tasks>>
         \/ /\ d = "garbage" \/ (d \in {"decoded", "clear"} /\ Unconfirmed(p, f))
            /\ reader' = [reader EXCEPT ![p].pc = "idle"]
            /\ UNCHANGED <<chan, tasks, hist>>
         \/ /\ d \in {"decoded", "clear"}
            /\ Route(p, c, f)
  BY DEF ReaderFrame
<1> HIDE DEF c, f, d, noticed, heard
<1>7. /\ \A r \in Peers : seq'[r].sent = seq[r].sent
      /\ seq'[q].received = seq[q].received
      /\ seq'[p].received = IF f.seq # 0 THEN seq[p].received + 1 ELSE seq[p].received
  <2>1. d = "decoded" <=> f.seq # 0
    BY <1>3
  <2> QED
    BY <1>1, <1>5, <2>1, Two
<1>8. \/ reader' = [reader EXCEPT ![p] = LoopFailed(@)]
      \/ \E pc : reader' = [reader EXCEPT ![p].pc = pc]
  BY <1>6 DEF Route
<1>9. ASSUME NEW r \in Peers
      PROVE  LoopsMove(r)
  <2>1. Moves(reader'[r], reader[r], Act(r))
    <3>1. CASE r # p
      BY <1>1, <1>8, <3>1 DEF Moves
    <3>2. CASE r = p /\ reader' = [reader EXCEPT ![p] = LoopFailed(@)]
      BY <1>1, <3>2 DEF Moves, LoopFailed, Loops
    <3>3. ASSUME NEW pc, reader' = [reader EXCEPT ![p].pc = pc]
          PROVE  reader'[p].chan = reader[p].chan
      BY <1>1, <3>3 DEF Loops
    <3> QED
      BY <1>2, <1>8, <3>1, <3>2, <3>3 DEF Moves
  <2> QED
    BY <1>6, <2>1 DEF LoopsMove, Moves
<1>10. \A r \in Peers : hist'[r].safe = hist[r].safe /\ hist'[r].desync = hist[r].desync
  <2>1. \/ UNCHANGED hist
        \/ hist' = noticed /\ f.seq = 0
        \/ hist' = heard
    <3>1. d = "invalid" => f.seq = 0
      BY <1>3
    <3>2. Route(p, c, f) => UNCHANGED hist \/ hist' = heard
      BY DEF Route, heard
    <3>3. \/ d = "invalid" /\ hist' = noticed
          \/ UNCHANGED hist
          \/ Route(p, c, f)
      BY <1>6
    <3> QED
      BY <3>1, <3>2, <3>3
  <2>2. hist[p].desync \in BOOLEAN
    BY <1>1 DEF Histories
  <2>3. CASE hist' = noticed /\ f.seq = 0
    <3>1. hist'[p].desync = (hist[p].desync \/ f.seq # 0)
      BY <1>1, <2>3 DEF Histories, noticed
    <3>2. hist'[p].desync = hist[p].desync
      BY <2>2, <2>3, <3>1
    <3>3. \A r \in Peers : hist'[r].safe = hist[r].safe
                          /\ (r # p => hist'[r].desync = hist[r].desync)
      BY <1>1, <2>3 DEF Histories, noticed
    <3> QED
      BY <3>2, <3>3
  <2>4. CASE hist' = heard
    BY <1>1, <2>4 DEF Histories, heard
  <2> QED
    BY <2>1, <2>3, <2>4
<1>11. Dropped(p, f) \/ Posted(p, f) \/ Closes(p, c, f)
  <2>1. CASE d = "invalid" /\ UNCHANGED <<chan, tasks>>
    <3>1. f.kind \notin Negotiation
      BY <1>3, <2>1 DEF Clear, Negotiation
    <3> QED
      BY <2>1, <3>1 DEF Dropped
  <2>2. CASE d \in {"decoded", "clear"} /\ Unconfirmed(p, f) /\ UNCHANGED <<chan, tasks>>
    BY <2>2 DEF Dropped
  <2>3. CASE d \in {"decoded", "clear"} /\ Route(p, c, f)
    <3>1. f.kind = "DISC" => ~chan[p][c].crypt
      BY <1>3, <2>3 DEF Clear
    <3> QED
      BY <2>3, <3>1 DEF Route, Dropped, Posted, Closes, Negotiation
  <2>4. d # "garbage"
    BY <1>3
  <2> QED
    BY <1>6, <2>1, <2>2, <2>3, <2>4
<1> QED
  BY <1>2, <1>3, <1>4, <1>6, <1>7, <1>9, <1>10, <1>11 DEF FrameRead

\* The hypotheses about a frame read by p, in the lemmas below.
Reading(p, q, c, f) ==
  /\ Now /\ p \in Peers /\ q = Other(p) /\ FrameRead(p, q, c, f)
  /\ UNCHANGED <<mgr, bwu, opened, requests>>

\* A frame that closes no channel leaves both devices where they are; the frames
\* of the other kinds stay in flight.
LEMMA ReadStill ==
  ASSUME NEW p, NEW q, NEW c, NEW f, Reading(p, q, c, f), UNCHANGED chan,
         NEW posted \in SUBSET Negotiation, KeepsTasks(posted)
  PROVE  /\ p \in Peers /\ q \in Peers /\ p # q /\ Other(q) = p
         /\ \A r \in Peers : Still(r) /\ WireFine(r)' /\ DeviceFine(r)'
         /\ QuietView /\ QuietEnds /\ QuietDue
         /\ KeepsNet({f.kind}) /\ ConnectedInv'
         /\ \A r \in Peers : QuietThread(r)
<1>1. TypeOK /\ WireInv /\ Handover /\ Fine
  BY DEF Reading, Now
<1>2. p \in Peers /\ q \in Peers /\ p # q /\ Other(q) = p
  BY Two DEF Reading
<1>3. /\ FrameRead(p, q, c, f) /\ UNCHANGED <<mgr, bwu, opened, requests>>
  BY DEF Reading
<1>4. \A r \in Peers : Still(r)
  <2>1. "OVER" \notin posted
    BY DEF Negotiation
  <2> QED
    BY <1>3, <2>1, TasksQuiet DEF FrameRead, Still
<1>5. QuietView /\ QuietDue /\ \A r \in Peers : DeviceFine(r)'
  BY <1>1, <1>4, StillKept DEF QuietView, QuietDue
<1>6. (\A r \in Peers : WireFine(r)') /\ QuietEnds
  <2>1. c \in Channels /\ f = Head(net[q][c]) /\ Takes(q, c)
        /\ (\A r \in Peers : seq'[r].sent = seq[r].sent) /\ seq'[q].received = seq[q].received
        /\ seq'[p].received = IF f.seq # 0 THEN seq[p].received + 1 ELSE seq[p].received
    BY <1>3 DEF FrameRead
  <2> QED
    BY <1>1, <1>2, <1>5, <2>1, ReadKept
<1>7. KeepsNet({f.kind})
  BY <1>1, <1>2, <1>3, NetKeeps DEF FrameRead
<1>8. ConnectedInv'
  <2>1. ConnectedInv /\ UNCHANGED conn
    BY <1>1, <1>3 DEF Handover, FrameRead
  <2>2. \A kind \in {"INIT", "RETRY"} :
           HasKind(tasks'[Advertiser], kind) <=> HasKind(tasks[Advertiser], kind)
    BY Two DEF KeepsTasks, Keeps, Negotiation
  <2> QED
    BY <1>3, <2>1, <2>2 DEF ConnectedInv
<1>9. \A r \in Peers : QuietThread(r)
  BY <1>3 DEF QuietThread
<1> QED
  BY <1>2, <1>4, <1>5, <1>6, <1>7, <1>8, <1>9

\* Every frame but an offer, a failure and the frames of the shutdown is read
\* without effect on either.
LEMMA ReadsPlain ==
  ASSUME NEW p, NEW q, NEW c, NEW f, Reading(p, q, c, f), UNCHANGED <<chan, tasks>>,
         f.kind \notin Negotiation
  PROVE  Handover'
<1>1. TypeOK /\ TypeOK' /\ Handover /\ Fine /\ UNCHANGED <<link, mgr, bwu, opened>>
  BY DEF Reading, Now, FrameRead
<1>2. KeepsTasks({}) /\ {} \in SUBSET Negotiation
  BY <1>1, TasksKeep DEF Reading
<1>3. /\ \A r \in Peers : Still(r) /\ WireFine(r)'
      /\ QuietEnds /\ KeepsNet({f.kind}) /\ ConnectedInv'
  BY <1>2, ReadStill
<1>4. QuietNet
  BY <1>3, QuietNetOf DEF Negotiation
<1> QED
  BY <1>1, <1>2, <1>3, <1>4, StillStep DEF Negotiation

\* An offer or a failure on its way: it is posted, or an offer is dropped.
LEMMA ReadsOffer ==
  ASSUME NEW p, NEW q, NEW c, NEW f, Reading(p, q, c, f), UNCHANGED chan,
         f.kind \in {"PATH", "FAIL"}, KeepsTasks({f.kind}),
         \/ f.kind = "PATH" /\ UNCHANGED tasks
         \/ tasks'[p] = Append(tasks[p], [kind |-> f.kind, arg |-> f.arg])
  PROVE  Handover'
<1> DEFINE A == Advertiser
           D == Discoverer
<1>1. /\ TypeOK /\ TypeOK' /\ Handover /\ Fine /\ WireInv /\ RoleInv
      /\ UNCHANGED <<link, mgr, bwu, opened>>
  BY DEF Reading, Now, FrameRead
<1>2. {f.kind} \in SUBSET Negotiation
  BY DEF Negotiation
<1>3. /\ p \in Peers /\ q \in Peers /\ p # q /\ Other(q) = p
      /\ \A r \in Peers : Still(r) /\ WireFine(r)' /\ DeviceFine(r)'
      /\ QuietView /\ QuietEnds /\ QuietDue /\ KeepsNet({f.kind}) /\ ConnectedInv'
  BY <1>2, ReadStill
<1>4. c \in Channels /\ f \in Frames /\ f = Head(net[q][c]) /\ Takes(q, c)
  BY DEF Reading, FrameRead
<1>5. /\ net[q][c] \in Seq(Frames) /\ net[q][c] # << >> /\ net'[q][c] = Tail(net[q][c])
      /\ tasks[p] \in Seq(Tasks)
  BY <1>1, <1>3, <1>4, SidesTyped DEF Takes
<1>6. HasKind(net[q][c], f.kind)
  BY <1>4, <1>5, TailKinds
<1>7. /\ f.kind = "PATH" => q = A /\ p = D
      /\ f.kind = "FAIL" => q = D /\ p = A
  BY <1>1, <1>3, <1>4, <1>6, Two DEF RoleInv
<1>8. QuietNet /\ QuietTasks
  BY <1>3, QuietNetOf, TasksQuiet
<1>9. \A r \in Peers : ShutFine(r)'
  BY <1>1, <1>3, <1>8, QuietKept
<1>10. SameRole
  BY <1>3, SameRoleOf DEF QuietView
<1>11. FewerOffers
  <2>1. ASSUME tasks'[p] = Append(tasks[p], [kind |-> f.kind, arg |-> f.arg])
        PROVE  /\ \A k, x : Has(tasks'[p], k, x) <=>
                   Has(tasks[p], k, x) \/ (f.kind = k /\ f.arg = x)
               /\ \A k, x : Once(tasks[p], k, x)
                             /\ (f.kind = k /\ f.arg = x => ~Has(tasks[p], k, x))
                            => Once(tasks'[p], k, x)
    <3> DEFINE t == [kind |-> f.kind, arg |-> f.arg]
    <3>1. t.kind = f.kind /\ t.arg = f.arg /\ tasks'[p] = Append(tasks[p], t)
      BY <2>1
    <3> HIDE DEF t
    <3>2. tasks'[p] \in Seq(Tasks)
      BY <1>1, <1>3 DEF TypeOK, WorkersTypeOK
    <3>3. t \in Tasks
      <4>1. Len(tasks[p]) + 1 \in DOMAIN tasks'[p] /\ tasks'[p][Len(tasks[p]) + 1] = t
        BY <1>5, <3>1
      <4> QED
        BY <3>2, <4>1
    <3> QED
      BY <1>5, <3>1, <3>3, AppendKinds
  <2>2. /\ \A k, x : Has(net[q][c], k, x) <=>
            (f.kind = k /\ f.arg = x) \/ Has(net'[q][c], k, x)
        /\ \A k, x : Once(net[q][c], k, x) =>
              /\ Once(net'[q][c], k, x)
              /\ f.kind = k /\ f.arg = x => ~Has(net'[q][c], k, x)
        /\ \A d \in Channels : d # c => net'[q][d] = net[q][d]
    BY <1>3, <1>4, <1>5, TailKinds DEF Takes
  <2>3. UNCHANGED tasks => tasks'[p] = tasks[p]
    OBVIOUS
  <2>4. NoneAfter(tasks[D], "PATH", "SAFE") => NoneAfter(tasks'[D], "PATH", "SAFE")
    BY TasksQuiet
  <2> SUFFICES ASSUME NEW x \in Channels
               PROVE  /\ PathAt(x)' <=> PathAt(x)
                      /\ PathSent(x)' \/ PathGot(x)' => PathSent(x) \/ PathGot(x)
                      /\ Arriving(x)' <=> Arriving(x)
                      /\ Switching(D, x)' <=> Switching(D, x)
                      /\ Failing(x)' => Failing(x)
                      /\ FailsOnce(x) => FailsOnce(x)'
    BY <1>1, <2>4 DEF FewerOffers
  <2>5. /\ PathAt(x)' <=> PathAt(x)
        /\ FailAt(x)' <=> FailAt(x)
        /\ Switching(A, x)' <=> Switching(A, x)
        /\ Switching(D, x)' <=> Switching(D, x)
        /\ link'[x].dialled <=> link[x].dialled
    BY <1>1 DEF PathAt, FailAt, Switching
  <2>6. Accepted(x)' <=> Accepted(x)
    BY Two DEF KeepsTasks, Keeps, Accepted
  <2>7. CASE f.kind = "PATH"
    <3>1. /\ FailSent(x)' <=> FailSent(x)
          /\ FailGot(x)' <=> FailGot(x)
          /\ FailsOnce(x) => FailsOnce(x)'
      BY <1>3, <2>5, <2>7, Two DEF KeepsTasks, KeepsNet, Keeps, FailSent, FailGot, FailsOnce
    <3>2. PathSent(x)' => PathSent(x)
      BY <1>7, <2>2, <2>7 DEF PathSent
    <3>3. PathGot(x)' => PathGot(x) \/ PathSent(x)
      BY <1>4, <1>7, <2>1, <2>2, <2>3, <2>7 DEF PathGot, PathSent
    <3> QED
      BY <2>5, <2>6, <3>1, <3>2, <3>3 DEF Arriving, Failing
  <2>8. CASE f.kind = "FAIL"
    <3>1. /\ PathSent(x)' <=> PathSent(x)
          /\ PathGot(x)' <=> PathGot(x)
      BY <1>3, <2>8, Two DEF KeepsTasks, KeepsNet, Keeps, PathSent, PathGot
    <3>2. /\ FailSent(x)' => FailSent(x)
          /\ f.arg = x => FailSent(x)
      BY <1>4, <1>7, <2>2, <2>8 DEF FailSent
    <3>3. FailGot(x)' <=> FailGot(x) \/ f.arg = x
      BY <1>7, <2>1, <2>8 DEF FailGot
    <3>4. ASSUME FailsOnce(x)
          PROVE  FailsOnce(x)'
      <4>1. f.arg = x => ~FailSent(x)'
        <5>1. \A d \in Channels : Has(net[D][d], "FAIL", x) /\ f.arg = x => d = c
          BY <1>4, <1>7, <2>2, <2>8, <3>4 DEF FailsOnce
        <5>2. f.arg = x => ~Has(net'[D][c], "FAIL", x)
          BY <1>4, <1>7, <2>2, <2>8, <3>4 DEF FailsOnce
        <5> QED
          BY <1>7, <2>2, <2>8, <5>1, <5>2 DEF FailSent
      <4>2. \A d \in Channels :
              /\ Has(net'[D][d], "FAIL", x) => Has(net[D][d], "FAIL", x)
              /\ Once(net[D][d], "FAIL", x) => Once(net'[D][d], "FAIL", x)
        BY <1>7, <2>2, <2>8
      <4>3. Once(tasks'[A], "FAIL", x)
        BY <1>7, <2>1, <2>8, <3>2, <3>4 DEF FailsOnce, FailGot
      <4> QED
        BY <2>5, <3>2, <3>3, <3>4, <4>1, <4>2, <4>3 DEF FailsOnce
    <3> QED
      BY <2>5, <2>6, <3>1, <3>2, <3>3, <3>4 DEF Arriving, Failing
  <2> QED
    BY <2>7, <2>8
<1>12. OffersFine'
  BY <1>1, <1>10, <1>11, OffersKept
<1> QED
  BY <1>3, <1>9, <1>12, Together

\* LAST_WRITE_TO_PRIOR_CHANNEL is posted: nothing else waits with it, neither a LAST
\* nor the peer's SAFE, which is written after it.
LEMMA ReadsLast ==
  ASSUME NEW p, NEW q, NEW c, NEW f, Reading(p, q, c, f), UNCHANGED chan,
         f.kind = "LAST", KeepsTasks({"LAST"}),
         tasks'[p] = Append(tasks[p], [kind |-> "LAST", arg |-> f.arg]),
         tasks'[q] = tasks[q]
  PROVE  Handover'
<1>1. /\ TypeOK /\ TypeOK' /\ Handover /\ Fine
      /\ UNCHANGED <<link, mgr, bwu, opened>>
  BY DEF Reading, Now, FrameRead
<1>2. {"LAST"} \in SUBSET Negotiation
  BY DEF Negotiation
<1>3. /\ p \in Peers /\ q \in Peers /\ p # q /\ Other(q) = p /\ Other(p) = q
      /\ \A r \in Peers : Still(r) /\ WireFine(r)' /\ DeviceFine(r)'
      /\ QuietView /\ QuietEnds /\ QuietDue /\ KeepsNet({f.kind}) /\ ConnectedInv'
      /\ \A r \in Peers : QuietThread(r)
  BY <1>2, ReadStill DEF Reading
<1>4. c \in Channels /\ f \in Frames /\ f = Head(net[q][c]) /\ Takes(q, c)
  BY DEF Reading, FrameRead
<1>5. /\ net[q][c] \in Seq(Frames) /\ net[q][c] # << >> /\ net'[q][c] = Tail(net[q][c])
      /\ tasks[p] \in Seq(Tasks)
      /\ \A r \in Peers, x \in Channels : r # q \/ x # c => net'[r][x] = net[r][x]
  BY <1>1, <1>3, <1>4, SidesTyped DEF Takes
<1>6. HasKind(net[q][c], "LAST") /\ LastSent(q)
  BY <1>4, <1>5, TailKinds DEF LastSent
<1>7. LastInv(p) /\ LastInv(q) /\ SafeInv(p) /\ SafeInv(q) /\ PairInv(p)
  BY <1>1, <1>3 DEF Handover
<1>8. ~LastGot(p) /\ ~LastDue(p) /\ c = Prior(q) /\ OnceKind(net[q][c], "LAST")
  BY <1>3, <1>4, <1>6, <1>7 DEF LastInv
<1>9. ~SafeGot(p)
  <2>1. SUFFICES ASSUME SafeGot(p) PROVE FALSE
    OBVIOUS
  <2>2. Spent(q, Prior(p))
    BY <1>3, <1>7, <2>1 DEF SafeInv
  <2>3. hist[q].safe \subseteq Channels
    BY <1>1, <1>3 DEF TypeOK, WorkersTypeOK, Histories
  <2>4. Prior(p) \in Channels
    BY <2>2, <2>3 DEF Spent
  <2>5. Prior(p) = c
    BY <1>3, <1>4, <1>7, <1>8, <2>4, ConstantsTyped DEF PairInv
  <2> QED
    BY <1>5, <1>6, <2>2, <2>5, SealedKinds DEF Spent
<1>10. ~LastSent(q)'
  <2>1. ~HasKind(net'[q][c], "LAST")
    BY <1>4, <1>5, <1>8, TailKinds
  <2>2. \A x \in Channels : HasKind(net[q][x], "LAST") => x = c
    BY <1>7, <1>8 DEF LastInv
  <2> QED
    BY <1>3, <1>5, <2>1, <2>2 DEF LastSent
<1>11. LastGot(p)' /\ OnceKind(tasks'[p], "LAST") /\ NoneAfter(tasks'[p], "SAFE", "LAST")
  <2> DEFINE t == [kind |-> "LAST", arg |-> f.arg]
  <2>1. t.kind = "LAST" /\ tasks'[p] = Append(tasks[p], t)
    OBVIOUS
  <2> HIDE DEF t
  <2>2. tasks'[p] \in Seq(Tasks)
    BY <1>1, <1>3 DEF TypeOK, WorkersTypeOK
  <2>3. t \in Tasks
    <3>1. Len(tasks[p]) + 1 \in DOMAIN tasks'[p] /\ tasks'[p][Len(tasks[p]) + 1] = t
      BY <1>5, <2>1
    <3> QED
      BY <2>2, <3>1
  <2>4. OnceKind(tasks[p], "LAST") /\ NoneAfter(tasks[p], "SAFE", "LAST")
    BY <1>3, <1>7, <1>8 DEF LastInv, LastGot, OnceKind, HasKind
  <2> QED
    BY <1>5, <1>8, <1>9, <2>1, <2>3, <2>4, AppendKinds DEF LastGot, SafeGot
<1>12. /\ \A r \in Peers : SameView(r)
       /\ LastDue(p)' <=> LastDue(p)
  BY <1>3 DEF QuietView, QuietDue
<1>13. LastInv(q)'
  <2>1. Stage(p)' = Stage(p) /\ Stage(q)' = Stage(q)
    BY <1>3, <1>12 DEF SameView
  <2>2. \A x \in Channels : ~HasKind(net'[q][x], "LAST")
    BY <1>10 DEF LastSent
  <2> QED
    BY <1>3, <1>6, <1>7, <1>8, <1>10, <1>11, <1>12, <2>1, <2>2 DEF LastInv
<1>14. LastInv(p)'
  <2>1. /\ \A x \in Channels : Alike(net'[p][x], net[p][x], "LAST")
        /\ Alike(tasks'[q], tasks[q], "LAST")
        /\ tasks'[q] = tasks[q]
    BY <1>3, <1>5 DEF Alike, Reading
  <2> QED
    BY <1>1, <1>3, <1>12, <2>1, LastKept DEF QuietDue
<1>15. ASSUME NEW r \in Peers
       PROVE  ShutFine(r)'
  <2>1. Other(r) \in Peers /\ (r = p \/ r = q)
    BY <1>3, Two
  <2>2. SafeInv(r)'
    <3>1. \A x \in Channels : Alike(net'[r][x], net[r][x], "SAFE")
      BY <1>3 DEF KeepsNet, Keeps, Alike
    <3>2. Alike(tasks'[Other(r)], tasks[Other(r)], "SAFE")
      BY <2>1 DEF KeepsTasks, Keeps, Alike
    <3> QED
      BY <1>1, <1>3, <1>12, <2>1, <3>1, <3>2, SafeKept DEF QuietEnds
  <2> QED
    BY <1>1, <1>3, <1>13, <1>14, <2>1, <2>2, PairKept, CloseKept DEF ShutFine
<1>16. OffersFine'
  <2>1. QuietOffers
    BY <1>1, <1>3, QuietOffersOf
  <2>2. FewerOffers
    BY <1>1, <1>3, <2>1, FewerOf
  <2> QED
    BY <1>1, <1>12, <2>2, SameRoleOf, OffersKept
<1> QED
  BY <1>3, <1>15, <1>16, Together

\* SAFE_TO_CLOSE_PRIOR_CHANNEL is posted: the peer's frames on the prior channel have
\* all been read, and on the Discoverer no offer waits before it.
LEMMA ReadsSafe ==
  ASSUME NEW p, NEW q, NEW c, NEW f, Reading(p, q, c, f), UNCHANGED chan,
         f.kind = "SAFE", KeepsTasks({"SAFE"}),
         tasks'[p] = Append(tasks[p], [kind |-> "SAFE", arg |-> f.arg]),
         tasks'[q] = tasks[q]
  PROVE  Handover'
<1>1. /\ TypeOK /\ TypeOK' /\ Handover /\ Fine
      /\ UNCHANGED <<link, mgr, bwu, opened>>
  BY DEF Reading, Now, FrameRead
<1>2. {"SAFE"} \in SUBSET Negotiation
  BY DEF Negotiation
<1>3. /\ p \in Peers /\ q \in Peers /\ p # q /\ Other(q) = p /\ Other(p) = q
      /\ \A r \in Peers : Still(r) /\ WireFine(r)' /\ DeviceFine(r)'
      /\ QuietView /\ QuietEnds /\ QuietDue /\ KeepsNet({f.kind}) /\ ConnectedInv'
      /\ \A r \in Peers : QuietThread(r)
  BY <1>2, ReadStill DEF Reading
<1>4. c \in Channels /\ f \in Frames /\ f = Head(net[q][c]) /\ Takes(q, c)
  BY DEF Reading, FrameRead
<1>5. /\ net[q][c] \in Seq(Frames) /\ net[q][c] # << >> /\ net'[q][c] = Tail(net[q][c])
      /\ tasks[p] \in Seq(Tasks)
      /\ \A r \in Peers, x \in Channels : r # q \/ x # c => net'[r][x] = net[r][x]
  BY <1>1, <1>3, <1>4, SidesTyped DEF Takes
<1>6. HasKind(net[q][c], "SAFE") /\ SafeSent(q)
  BY <1>4, <1>5, TailKinds DEF SafeSent
<1>7. /\ LastInv(p) /\ LastInv(q) /\ SafeInv(p) /\ SafeInv(q) /\ PairInv(q)
      /\ QueueInv(q, c) /\ CloseInv(q, c)
  BY <1>1, <1>3, <1>4 DEF Handover
<1>8. c = Prior(p) /\ c \in hist[q].safe /\ ~Only(net[q][c], {"DISC"})
  <2>1. c = Prior(p)
    BY <1>3, <1>4, <1>6, <1>7 DEF SafeInv
  <2>2. c \in hist[q].safe
    BY <1>6, <1>7 DEF QueueInv
  <2> QED
    BY <1>5, <1>6, <2>1, <2>2, SealedKinds
<1>9. ~SafeGot(p)
  BY <1>3, <1>7, <1>8 DEF SafeInv, Spent
<1>10. /\ Only(net'[q][c], {"DISC"})
       /\ \A x \in Channels : ~HasKind(net'[q][x], "SAFE")
  <2>1. Only(Tail(net[q][c]), {"DISC"})
    BY <1>4, <1>5, <1>7, <1>8, SealedKinds DEF QueueInv
  <2>2. Tail(net[q][c]) \in Seq(Frames)
    BY <1>5
  <2>3. ~HasKind(net'[q][c], "SAFE")
    BY <1>5, <2>1, <2>2, SealedKinds
  <2>4. \A x \in Channels : HasKind(net[q][x], "SAFE") => x = c
    BY <1>3, <1>7, <1>8 DEF SafeInv
  <2> QED
    BY <1>3, <1>5, <2>1, <2>3, <2>4
<1>11. /\ SafeGot(p)' /\ OnceKind(tasks'[p], "SAFE")
       /\ NoneAfter(tasks[p], "SAFE", "LAST") => NoneAfter(tasks'[p], "SAFE", "LAST")
       /\ ~HasKind(tasks[p], "PATH") /\ NoneAfter(tasks[p], "PATH", "SAFE") =>
            NoneAfter(tasks'[p], "PATH", "SAFE")
  <2> DEFINE t == [kind |-> "SAFE", arg |-> f.arg]
  <2>1. t.kind = "SAFE" /\ tasks'[p] = Append(tasks[p], t)
    OBVIOUS
  <2> HIDE DEF t
  <2>2. tasks'[p] \in Seq(Tasks)
    BY <1>1, <1>3 DEF TypeOK, WorkersTypeOK
  <2>3. t \in Tasks
    <3>1. Len(tasks[p]) + 1 \in DOMAIN tasks'[p] /\ tasks'[p][Len(tasks[p]) + 1] = t
      BY <1>5, <2>1
    <3> QED
      BY <2>2, <3>1
  <2>4. OnceKind(tasks[p], "SAFE") /\ ~HasKind(tasks[p], "SAFE")
    BY <1>9 DEF SafeGot, OnceKind, HasKind
  <2> QED
    BY <1>5, <2>1, <2>3, <2>4, AppendKinds DEF SafeGot
<1>12. /\ \A r \in Peers : SameView(r)
       /\ \A r \in Peers : Stage(r)' = Stage(r) /\ Prior(r)' = Prior(r)
       /\ \A r \in Peers : LastDue(r)' <=> LastDue(r)
  BY <1>3 DEF QuietView, QuietDue, SameView
<1>13. SafeInv(q)'
  <2>1. Spent(q, Prior(p))'
    BY <1>3, <1>8, <1>10, <1>12 DEF Spent, SameView
  <2>2. ~SafeSent(q)'
    BY <1>10 DEF SafeSent
  <2> QED
    BY <1>3, <1>6, <1>7, <1>10, <1>11, <1>12, <2>1, <2>2 DEF SafeInv
<1>14. SafeInv(p)'
  <2>1. /\ \A x \in Channels : Alike(net'[p][x], net[p][x], "SAFE")
        /\ Alike(tasks'[q], tasks[q], "SAFE")
    BY <1>3, <1>5 DEF Alike
  <2> QED
    BY <1>1, <1>3, <1>12, <2>1, SafeKept DEF QuietEnds
<1>15. ASSUME NEW r \in Peers
       PROVE  ShutFine(r)'
  <2>1. Other(r) \in Peers /\ (r = p \/ r = q)
    BY <1>3, Two
  <2>2. LastInv(r)'
    <3>1. \A x \in Channels : Alike(net'[r][x], net[r][x], "LAST")
      BY <1>3 DEF KeepsNet, Keeps, Alike
    <3>2. Alike(tasks'[Other(r)], tasks[Other(r)], "LAST")
      BY <2>1 DEF KeepsTasks, Keeps, Alike
    <3>3. NoneAfter(tasks[Other(r)], "SAFE", "LAST") => NoneAfter(tasks'[Other(r)], "SAFE", "LAST")
      BY <1>3, <1>11, <2>1
    <3> QED
      BY <1>1, <1>3, <1>12, <2>1, <3>1, <3>2, <3>3, LastKept
  <2> QED
    BY <1>1, <1>3, <1>13, <1>14, <2>1, <2>2, PairKept, CloseKept DEF ShutFine
<1>16. ~HasKind(tasks[p], "PATH") \/ p = Advertiser
  <2>1. SUFFICES ASSUME HasKind(tasks[p], "PATH"), p = Discoverer, q = Advertiser
                 PROVE  FALSE
    BY <1>3, Two
  <2>2. PICK i \in DOMAIN tasks[p] : tasks[p][i].kind = "PATH"
    BY <2>1 DEF HasKind
  <2>3. tasks[p][i] \in Tasks
    BY <1>5, <2>2
  <2>4. tasks[p][i].arg \in Channels
    BY <2>2, <2>3 DEF Tasks
  <2>5. PathGot(tasks[p][i].arg)
    BY <2>1, <2>2 DEF PathGot, Has
  <2>6. Stage(q) = "ease"
    BY <1>1, <2>1, <2>4, <2>5 DEF Handover, FlowInv
  <2>7. Stage(p) = "agreed"
    BY <1>3, <1>6, <1>7, <2>6 DEF SafeInv
  <2>8. chan[q][Prior(p)].closed
    BY <1>3, <1>7, <2>6, <2>7 DEF PairInv
  <2>9. Spent(q, c)
    BY <1>7, <1>8, <2>8 DEF CloseInv
  <2> QED
    BY <1>8, <2>9 DEF Spent
<1>17. OffersFine'
  <2>1. NoneAfter(tasks[Discoverer], "PATH", "SAFE") => NoneAfter(tasks'[Discoverer], "PATH", "SAFE")
    BY <1>3, <1>11, <1>16, Two
  <2>2. QuietOffers
    BY <1>1, <1>3, <2>1, Two DEF KeepsNet, KeepsTasks, Keeps, QuietOffers
  <2>3. FewerOffers
    BY <1>1, <1>3, <2>2, FewerOf
  <2> QED
    BY <1>1, <1>12, <2>3, SameRoleOf, OffersKept
<1> QED
  BY <1>3, <1>15, <1>17, Together

\* A DISCONNECTION closes the channel it is read on: both devices are through with it.
LEMMA ReadsClose ==
  ASSUME NEW p, NEW q, NEW c, NEW f, Reading(p, q, c, f), Closes(p, c, f)
  PROVE  Handover'
<1>1. /\ TypeOK /\ TypeOK' /\ WireInv /\ Handover /\ Fine
      /\ UNCHANGED <<link, mgr, bwu, opened, conn>>
  BY DEF Reading, Now, FrameRead
<1>2. p \in Peers /\ q \in Peers /\ p # q /\ Other(q) = p /\ Other(p) = q
  BY Two DEF Reading
<1>3. /\ c \in Channels /\ f \in Frames /\ f = Head(net[q][c]) /\ Takes(q, c)
      /\ \A r \in Peers : seq'[r].sent = seq[r].sent
      /\ seq'[q].received = seq[q].received
      /\ seq'[p].received = IF f.seq # 0 THEN seq[p].received + 1 ELSE seq[p].received
      /\ \A r \in Peers : /\ hist'[r].safe = hist[r].safe /\ hist'[r].desync = hist[r].desync
                          /\ LoopsMove(r)
  BY DEF Reading, FrameRead
<1>4. f.kind = "DISC" /\ ~chan[p][c].crypt /\ chan' = Closed(p, c) /\ UNCHANGED tasks
  BY DEF Closes
<1>5. net[q][c] \in Seq(Frames) /\ net[q][c] # << >>
  BY <1>1, <1>2, <1>3, SidesTyped DEF Takes
<1>6. HasKind(net[q][c], "DISC")
  BY <1>3, <1>4, <1>5, TailKinds
<1>7. /\ QueueInv(q, c) /\ CloseInv(q, c) /\ ChannelInv(p) /\ HoldsInv(p)
      /\ StageInv(p) /\ ProgressInv(p) /\ ~hist[p].desync
  BY <1>1, <1>2, <1>3 DEF Handover
<1>8. MayClose(p, c)
  <2>1. Spent(p, c) /\ mgr[q].previous # c
    BY <1>2, <1>6, <1>7 DEF CloseInv
  <2>2. Spent(q, c)
    BY <1>3, <1>4, <1>5, <1>6, <1>7, SealedKinds DEF QueueInv, Spent
  <2>3. Encrypts(c) => mgr[p].previous # c
    <3>1. SUFFICES ASSUME Encrypts(c), mgr[p].previous = c PROVE FALSE
      OBVIOUS
    <3>2. Stage(p) \in {"told", "agreed"} /\ Prior(p) = c
      BY <1>1, <1>2, <1>3, <3>1, Standing, ConstantsTyped
    <3> QED
      BY <1>3, <1>4, <1>7, <3>1, <3>2 DEF ChannelInv
  <2> QED
    BY <1>2, <2>1, <2>2, <2>3 DEF MayClose
<1>9. c # Act(p) /\ ~chan[p][c].paused
  BY <1>3, <1>7, <1>8 DEF ChannelInv, MayClose, Spent
<1>10. /\ \A x \in Channels : /\ chan'[p][x].closed <=> chan[p][x].closed \/ x = c
                              /\ chan'[p][x].paused <=> chan[p][x].paused
                              /\ chan'[p][x].crypt <=> chan[p][x].crypt
       /\ chan'[q] = chan[q]
  <2>1. chan \in [Peers -> [Channels -> ChannelStates]]
    BY <1>1 DEF TypeOK, ChannelsTypeOK
  <2> QED
    BY <1>2, <1>3, <1>4, <1>9, <2>1 DEF Closed, ChannelStates
<1>11. \A r \in Peers : SameView(r)
  BY <1>1, <1>3, SameViewOf
<1>12. StillClosed(p)
  BY <1>8, <1>10 DEF StillClosed
<1>13. DeviceFine(p)'
  <2>1. Stage(p)' = Stage(p) /\ Act(p)' = Act(p) /\ Prior(p)' = Prior(p)
    BY <1>2, <1>11 DEF SameView
  <2>2. StageInv(p)'
    BY <1>1, <1>2, <1>3, <1>4, <1>7, <2>1 DEF StageInv
  <2>3. ProgressInv(p)'
    BY <1>1, <1>7, <2>1 DEF ProgressInv
  <2>4. ChannelInv(p)'
    BY <1>2, <1>3, <1>7, <1>10, <2>1 DEF ChannelInv
  <2>5. HoldsInv(p)'
    <3>1. ASSUME NEW l, NEW loop \in Loops, Moves(l, loop, Act(p)), Holds(p, loop)
          PROVE  l.pc \in {"idle", "read", "ack"} =>
                   l.chan = Act(p)' \/ l.chan = Prior(p)' \/ chan'[p][l.chan].closed
      <4>1. loop.chan \in Channels
        BY DEF Loops
      <4> QED
        BY <1>10, <2>1, <3>1, <4>1 DEF Moves, Holds
    <3>2. reader[p] \in Loops /\ keeper[p] \in Loops /\ writer[p] \in Loops
      BY <1>1, <1>2 DEF TypeOK, WorkersTypeOK
    <3> QED
      BY <1>2, <1>3, <1>7, <3>1, <3>2 DEF HoldsInv, Holds, LoopsMove
  <2> QED
    BY <1>2, <1>3, <1>7, <2>2, <2>3, <2>4, <2>5 DEF DeviceFine
<1>14. Still(q)
  BY <1>1, <1>2, <1>3, <1>4, <1>10 DEF Still
<1>15. StillClosed(q) /\ DeviceFine(q)'
  BY <1>1, <1>2, <1>14, StillKept
<1>16. QuietView
  BY <1>2, <1>11, <1>12, <1>15, Two DEF QuietView
<1>17. (\A r \in Peers : WireFine(r)') /\ QuietEnds
  BY <1>1, <1>2, <1>3, <1>16, ReadKept
<1>18. KeepsNet({"DISC"}) /\ KeepsTasks({})
  BY <1>1, <1>2, <1>3, <1>4, NetKeeps, TasksKeep
<1>19. QuietNet
  BY <1>17, <1>18, QuietNetOf
<1>20. QuietDue /\ \A r \in Peers : QuietThread(r)
  BY <1>1 DEF QuietDue, LastDue, QuietThread
<1>21. ConnectedInv'
  BY <1>1, <1>4 DEF Handover, ConnectedInv
<1>22. \A r \in Peers : DeviceFine(r)' /\ WireFine(r)' /\ QuietThread(r)
  BY <1>2, <1>13, <1>15, <1>17, <1>20, Two
<1> QED
  BY <1>1, <1>16, <1>18, <1>19, <1>20, <1>21, <1>22, QuietStep

\* A frame that was routed without being posted is not one of the shutdown.
LEMMA ReaderHandover ==
  ASSUME Now, NEW p \in Peers, UNCHANGED <<mgr, bwu, opened, requests>>, ReaderFrame(p)
  PROVE  Handover'
<1> DEFINE q == Other(p)
<1>1. TypeOK /\ TypeOK' /\ WireInv /\ RoleInv /\ Handover /\ Fine
  BY DEF Now
<1>2. PICK c, f : /\ FrameRead(p, q, c, f)
                  /\ Dropped(p, f) \/ Posted(p, f) \/ Closes(p, c, f)
  BY <1>1, FrameTaken
<1>3. Reading(p, q, c, f)
  BY <1>2 DEF Reading
<1>4. q \in Peers /\ q # p /\ Other(q) = p /\ \A r \in Peers : r = p \/ r = q
  BY Two
<1>5. c \in Channels /\ f \in Frames /\ HasKind(net[q][c], f.kind) /\ Has(net[q][c], f.kind, f.arg)
  <2>1. c \in Channels /\ f \in Frames /\ f = Head(net[q][c]) /\ net[q][c] # << >>
    BY <1>2 DEF FrameRead, Takes
  <2>2. net[q][c] \in Seq(Frames)
    BY <1>1, <1>4, <2>1, SidesTyped
  <2> QED
    BY <2>1, <2>2, TailKinds
<1>6. CASE Closes(p, c, f)
  BY <1>3, <1>6, ReadsClose
<1>7. CASE Dropped(p, f)
  <2>1. CASE f.kind \notin Negotiation
    BY <1>3, <1>7, <2>1, ReadsPlain DEF Dropped
  <2>2. CASE f.kind \in Negotiation
    <3>1. ~conn[p].connected
      BY <1>7, <2>2 DEF Dropped, Unconfirmed
    <3>2. f.kind \notin {"LAST", "SAFE"}
      BY <1>1, <1>5, <3>1, Awaited DEF LastSent, SafeSent
    <3>3. f.kind # "FAIL"
      <4>1. SUFFICES ASSUME f.kind = "FAIL" PROVE FALSE
        OBVIOUS
      <4>2. q = Discoverer /\ p = Advertiser
        BY <1>1, <1>4, <1>5, <4>1, Two DEF RoleInv
      <4>3. f.arg \in Channels
        BY <1>5, <4>1 DEF Frames
      <4>4. Underway(f.arg)
        BY <1>5, <4>1, <4>2 DEF Underway, Failing, FailSent
      <4>5. opened > 0
        BY <1>1, <4>3, <4>4 DEF Handover, FlowInv
      <4> QED
        BY <1>1, <3>1, <4>2, <4>5 DEF Handover, ConnectedInv
    <3>4. f.kind = "PATH"
      BY <2>2, <3>2, <3>3 DEF Negotiation
    <3>5. UNCHANGED <<chan, tasks>>
      BY <1>7 DEF Dropped
    <3>6. KeepsTasks({"PATH"})
      <4>1. KeepsTasks({})
        BY <1>1, <3>5, TasksKeep
      <4> QED
        BY <4>1 DEF KeepsTasks, Keeps
    <3> QED
      BY <1>3, <3>4, <3>5, <3>6, ReadsOffer
  <2> QED
    BY <2>1, <2>2
<1>8. CASE Posted(p, f)
  <2>1. /\ f.kind \in Negotiation /\ UNCHANGED chan
        /\ tasks' = [tasks EXCEPT ![p] = Post(p, f.kind, f.arg)]
    BY <1>8 DEF Posted
  <2>2. /\ KeepsTasks({f.kind})
        /\ tasks'[p] = Append(tasks[p], [kind |-> f.kind, arg |-> f.arg])
    <3>1. \A kind, arg : tasks' = [tasks EXCEPT ![p] = Post(p, kind, arg)] =>
            KeepsTasks({kind}) /\ tasks'[p] = Append(tasks[p], [kind |-> kind, arg |-> arg])
      BY <1>1, TasksKeep
    <3> QED
      BY <2>1, <3>1, Zenon
  <2>3. tasks'[q] = tasks[q]
    BY <1>1, <1>4, <2>1 DEF TypeOK, WorkersTypeOK
  <2>4. CASE f.kind = "LAST"
    BY <1>3, <2>1, <2>2, <2>3, <2>4, ReadsLast
  <2>5. CASE f.kind = "SAFE"
    BY <1>3, <2>1, <2>2, <2>3, <2>5, ReadsSafe
  <2>6. CASE f.kind \in {"PATH", "FAIL"}
    BY <1>3, <2>1, <2>2, <2>6, ReadsOffer
  <2> QED
    BY <2>1, <2>4, <2>5, <2>6 DEF Negotiation
<1> QED
  BY <1>2, <1>6, <1>7, <1>8

-----------------------------------------------------------------------------
(* Calls from other threads *)

\* What leaves workers, channels and frames alone leaves a device where it is.
LEMMA CallStill ==
  ASSUME TypeOK, Handover, Fine, UNCHANGED <<chan, net, seq, conn, workerVars, hist, bwu>>,
         NEW posted, KeepsTasks(posted), "OVER" \notin posted,
         \A r \in Peers : /\ mgr'[r].previous = mgr[r].previous
                          /\ mgr'[r].upgraded = mgr[r].upgraded
                          /\ mgr'[r].inProgress = mgr[r].inProgress
  PROVE  /\ \A r \in Peers : Still(r) /\ WireFine(r)' /\ DeviceFine(r)' /\ QuietThread(r)
         /\ QuietView /\ QuietNet /\ QuietDue /\ KeepsNet({})
<1>1. \A r \in Peers : Still(r)
  BY TasksQuiet DEF Still, LoopsMove, Moves, workerVars
<1>2. QuietView /\ QuietDue /\ \A r \in Peers : DeviceFine(r)'
  BY <1>1, StillKept DEF QuietView, QuietDue
<1>3. (\A r \in Peers : WireFine(r)') /\ QuietNet
  BY <1>2, WireKept
<1>4. KeepsNet({})
  BY NetKeeps
<1>5. \A r \in Peers : QuietThread(r)
  BY DEF QuietThread
<1> QED
  BY <1>1, <1>2, <1>3, <1>4, <1>5

\* The client's requests and the alarm add a task on the Advertiser, which is connected.
LEMMA CallsHandover ==
  ASSUME Now, NEW p \in Peers, RequestUpgrade(p) \/ RetryAlarm(p)
  PROVE  Handover'
<1>1. /\ TypeOK /\ TypeOK' /\ Handover /\ Fine /\ RoleInv
      /\ Requesters \subseteq {Advertiser}
      /\ mgr \in [Peers -> Managers]
  BY DEF Now, Undisturbed, TypeOK
<1>2. UNCHANGED <<chan, net, seq, link, conn, workerVars, hist, bwu, opened>>
  BY DEF RequestUpgrade, RetryAlarm, channelVars
<1>3. p = Advertiser
  BY <1>1, Two DEF RequestUpgrade, RetryAlarm, RoleInv
<1>4. conn[Advertiser].connected
  BY <1>1, <1>3 DEF RequestUpgrade, RetryAlarm, Handover, ConnectedInv
<1>5. \E arg : \E kind \in {"INIT", "RETRY"} : tasks' = [tasks EXCEPT ![p] = Post(p, kind, arg)]
  BY DEF RequestUpgrade, RetryAlarm
<1>6. PICK kind \in {"INIT", "RETRY"} : KeepsTasks({kind})
  <2>1. \A kind, arg : tasks' = [tasks EXCEPT ![p] = Post(p, kind, arg)] => KeepsTasks({kind})
    BY <1>1, TasksKeep
  <2> QED
    BY <1>5, <2>1
<1>7. \A r \in Peers : /\ mgr'[r].previous = mgr[r].previous
                       /\ mgr'[r].upgraded = mgr[r].upgraded
                       /\ mgr'[r].inProgress = mgr[r].inProgress
                       /\ mgr'[r].listening = mgr[r].listening
                       /\ mgr'[r].retry => mgr[r].retry
  BY <1>1 DEF RequestUpgrade, RetryAlarm, Managers
<1>8. /\ \A r \in Peers : Still(r) /\ WireFine(r)'
      /\ QuietNet /\ KeepsNet({})
  BY <1>1, <1>2, <1>6, <1>7, CallStill
<1>9. ConnectedInv'
  <2>1. ConnectedInv
    BY <1>1 DEF Handover
  <2> QED
    BY <1>2, <1>4, <1>7, <2>1, Two DEF ConnectedInv
<1> QED
  BY <1>1, <1>2, <1>6, <1>7, <1>8, <1>9, Two, StillStep

\* A channel is accepted while the Advertiser listens, and handed to its thread.
LEMMA AcceptHandover ==
  ASSUME Now, NEW c \in Channels, Accept(c)
  PROVE  Handover'
<1> DEFINE A == Advertiser
           D == Discoverer
<1>1. /\ TypeOK /\ TypeOK' /\ Handover /\ Fine /\ link \in [Channels -> Links]
  BY DEF Now, TypeOK, ChannelsTypeOK
<1>2. /\ UNCHANGED <<net, seq, conn, workerVars, hist, mgr, bwu, opened>>
      /\ link[c].dialled /\ link' = [link EXCEPT ![c].dialled = FALSE]
  BY DEF Accept
<1>3. c \in mgr[A].listening
  BY <1>1, <1>2 DEF Handover, JoinInv
<1>4. tasks' = [tasks EXCEPT ![A] = Post(A, "INCOMING", c)] /\ UNCHANGED chan
  BY <1>3 DEF Accept
<1>5. KeepsTasks({"INCOMING"}) /\ tasks'[A] = Append(tasks[A], [kind |-> "INCOMING", arg |-> c])
  <2>1. \A kind, arg : tasks' = [tasks EXCEPT ![A] = Post(A, kind, arg)] =>
          KeepsTasks({kind}) /\ tasks'[A] = Append(tasks[A], [kind |-> kind, arg |-> arg])
    BY <1>1, Two, TasksKeep
  <2> QED
    BY <1>4, <2>1, Zenon
<1>6. /\ \A r \in Peers : WireFine(r)' /\ DeviceFine(r)'
      /\ QuietView /\ QuietNet /\ QuietDue /\ KeepsNet({})
  BY <1>1, <1>2, <1>4, <1>5, CallStill
<1>7. /\ \A x \in Channels : link'[x].dialled <=> link[x].dialled /\ x # c
      /\ \A x \in Channels : Accepted(x)' <=> Accepted(x) \/ x = c
  <2> DEFINE t == [kind |-> "INCOMING", arg |-> c]
  <2>1. t \in Tasks /\ t.kind = "INCOMING" /\ t.arg = c /\ tasks'[A] = Append(tasks[A], t)
    BY <1>5 DEF Tasks
  <2>2. tasks[A] \in Seq(Tasks)
    BY <1>1, Two DEF TypeOK, WorkersTypeOK
  <2> HIDE DEF t
  <2>3. \A x \in Channels : Accepted(x)' <=> Accepted(x) \/ x = c
    BY <2>1, <2>2, AppendKinds DEF Accepted
  <2>4. \A x \in Channels : link'[x].dialled <=> link[x].dialled /\ x # c
    BY <1>1, <1>2 DEF Links
  <2> QED
    BY <2>3, <2>4
<1>8. FewerOffers
  <2>1. NoneAfter(tasks[D], "PATH", "SAFE") => NoneAfter(tasks'[D], "PATH", "SAFE")
    BY <1>5, TasksQuiet
  <2> SUFFICES ASSUME NEW x \in Channels
               PROVE  /\ PathAt(x)' <=> PathAt(x)
                      /\ PathSent(x)' <=> PathSent(x)
                      /\ PathGot(x)' <=> PathGot(x)
                      /\ Arriving(x)' <=> Arriving(x)
                      /\ Switching(D, x)' <=> Switching(D, x)
                      /\ Failing(x)' <=> Failing(x)
                      /\ FailsOnce(x) => FailsOnce(x)'
    BY <1>2, <1>7, <2>1 DEF FewerOffers
  <2>2. /\ PathAt(x)' <=> PathAt(x)
        /\ FailAt(x)' <=> FailAt(x)
        /\ Switching(A, x)' <=> Switching(A, x)
        /\ Switching(D, x)' <=> Switching(D, x)
        /\ PathSent(x)' <=> PathSent(x)
        /\ FailSent(x)' <=> FailSent(x)
    BY <1>2 DEF PathAt, FailAt, Switching, PathSent, FailSent
  <2>3. /\ PathGot(x)' <=> PathGot(x)
        /\ FailGot(x)' <=> FailGot(x)
        /\ Once(tasks[A], "FAIL", x) => Once(tasks'[A], "FAIL", x)
    BY <1>5, Two DEF KeepsTasks, Keeps, PathGot, FailGot
  <2>4. FailsOnce(x) => FailsOnce(x)'
    BY <1>2, <2>2, <2>3 DEF FailsOnce
  <2>5. Arriving(x)' <=> Arriving(x)
    BY <1>2, <1>7, <2>2 DEF Arriving
  <2> QED
    BY <2>2, <2>3, <2>4, <2>5 DEF Failing
<1>9. OffersFine'
  BY <1>1, <1>6, <1>8, SameRoleOf, OffersKept DEF QuietView
<1>10. \A r \in Peers : ShutFine(r)'
  BY <1>1, <1>5, <1>6, TasksQuiet, QuietKept
<1>11. ConnectedInv'
  <2>1. ConnectedInv
    BY <1>1 DEF Handover
  <2>2. \A kind \in {"INIT", "RETRY"} : HasKind(tasks'[A], kind) <=> HasKind(tasks[A], kind)
    BY <1>5, Two DEF KeepsTasks, Keeps
  <2> QED
    BY <1>2, <2>1, <2>2 DEF ConnectedInv
<1> QED
  BY <1>6, <1>9, <1>10, <1>11, Together

-----------------------------------------------------------------------------
(* The BwuManager thread: offers *)

\* What the other device sees of a step of p's thread.
LEMMA ThreadOther ==
  ASSUME TypeOK, Handover, NEW p \in Peers, NEW r \in Peers, r # p, ThreadStep(p),
         UNCHANGED workerVars, hist'[r] = hist[r], tasks'[r] = tasks[r]
  PROVE  /\ Still(r) /\ DeviceFine(r)' /\ SameView(r) /\ StillClosed(r) /\ QuietThread(r)
         /\ LastDue(r)' <=> LastDue(r)
<1>1. Apart(r)
  BY ThreadApart
<1>2. Still(r)
  BY <1>1 DEF Apart, Still, LoopsMove, Moves, workerVars
<1>3. QuietThread(r)
  BY <1>1 DEF Apart, QuietThread
<1> QED
  BY <1>2, <1>3, StillKept

\* What trying the next medium, or a failed upgrade, does to BwuManager's state.
LEMMA NextBestState ==
  ASSUME TypeOK, NEW p \in Peers, NEW m \in Managers, NEW S, NEW q, TryNextBest(p, m, S, q)
  PROVE  /\ mgr'[p].previous = m.previous /\ mgr'[p].upgraded = m.upgraded
         /\ mgr'[p].inProgress = m.inProgress /\ mgr'[p].listening = m.listening
         /\ \A r \in Peers \ {p} : mgr'[r] = mgr[r]
         /\ AddsInit(p, q)
<1>1. PICK next \in Choices(m.medium, S) :
        \/ ManagerOf(p, [m EXCEPT !.retry = TRUE])
        \/ ManagerOf(p, m)
        \/ ManagerOf(p, [m EXCEPT !.medium = next])
  BY DEF TryNextBest
<1>2. /\ mgr'[p].previous = m.previous /\ mgr'[p].upgraded = m.upgraded
      /\ mgr'[p].inProgress = m.inProgress /\ mgr'[p].listening = m.listening
  BY <1>1 DEF ManagerOf, Managers, TypeOK
<1> QED
  BY <1>2, TryNextBestShape

\* ProcessUpgradeFailureEvent gives the upgrade up, and may post a request for the next
\* medium.
LEMMA FailureState ==
  ASSUME TypeOK, NEW p \in Peers, NEW m \in Managers, NEW medium, NEW q,
         UpgradeFailure(p, m, medium, q)
  PROVE  /\ mgr'[p].previous = m.previous /\ mgr'[p].upgraded = m.upgraded
         /\ ~mgr'[p].inProgress
         /\ \A r \in Peers \ {p} : mgr'[r] = mgr[r]
         /\ AddsInit(p, q)
<1> DEFINE cleared == [m EXCEPT !.inProgress = FALSE]
           n == IF m.medium = None THEN cleared ELSE Reverted(cleared)
<1>1. /\ cleared \in Managers /\ cleared.previous = m.previous
      /\ cleared.upgraded = m.upgraded /\ ~cleared.inProgress
  BY DEF Managers
<1> HIDE DEF cleared
<1>2. /\ Reverted(cleared).previous = cleared.previous
      /\ Reverted(cleared).upgraded = cleared.upgraded
      /\ Reverted(cleared).inProgress = cleared.inProgress
  BY <1>1 DEF Reverted, Managers
<1>3. n \in Managers /\ n.previous = m.previous /\ n.upgraded = m.upgraded /\ ~n.inProgress
  BY <1>1, <1>2, RevertedTyped
<1>4. TryNextBest(p, n, Untried(medium), q)
  BY DEF UpgradeFailure, cleared
<1> HIDE DEF n
<1> QED
  BY <1>3, <1>4, NextBestState

\* Whom a kind of task is for.
LEMMA TaskFor ==
  ASSUME TypeOK, RoleInv, Handover, NEW p \in Peers, NEW kind, Task(p, kind)
  PROVE  /\ HasKind(tasks[p], kind) /\ bwu[p].pc = "idle" /\ tasks[p] # << >>
         /\ Has(tasks[p], kind, Arg(p))
         /\ kind \in {"FAIL", "INIT", "RETRY", "INCOMING"} => p = Advertiser
         /\ kind = "PATH" => p = Discoverer
         /\ kind # "OVER"
         /\ kind \in Negotiation \cup {"INCOMING"} => Arg(p) \in Channels
<1>1. tasks[p] \in Seq(Tasks) /\ tasks[p] # << >> /\ Head(tasks[p]).kind = kind
      /\ bwu[p].pc = "idle"
  BY DEF Task, TypeOK, WorkersTypeOK
<1>2. 1 \in DOMAIN tasks[p] /\ tasks[p][1] = Head(tasks[p])
  BY <1>1, TailElements
<1>3. HasKind(tasks[p], kind) /\ Has(tasks[p], kind, Arg(p))
  BY <1>1, <1>2 DEF HasKind, Has, Arg
<1>4. kind # "OVER"
  BY <1>3 DEF HasKind, OverIn, StageInv, Handover
<1>5. kind \in Negotiation \cup {"INCOMING"} => Arg(p) \in Channels
  <2>1. Head(tasks[p]) \in Tasks
    BY <1>1
  <2> QED
    BY <1>1, <2>1 DEF Tasks, Arg, Negotiation
<1> QED
  BY <1>1, <1>3, <1>4, <1>5, Two DEF RoleInv

\* An offer that is not yet, or no longer, being joined.
LEMMA OfferAlone ==
  ASSUME TypeOK, Handover, Fine, \A p \in Peers : SameView(p), opened' >= opened,
         opened' \in Nat,
         \A x \in Channels :
           /\ ~Arriving(x) /\ ~Switching(Discoverer, x)
           /\ ~Arriving(x)' /\ ~Switching(Discoverer, x)'
           /\ Offered(x)' \/ Failing(x)' => x = opened' /\ opened' > 0
           /\ Offered(x)' => FreshFor(Advertiser, x) /\ FreshFor(Discoverer, x)
           /\ PathAt(x)' => ~mgr'[Advertiser].inProgress
           /\ PathSent(x)' \/ PathGot(x)' \/ Failing(x)' =>
                mgr'[Advertiser].inProgress /\ Stage(Advertiser) = "ease"
           /\ FailsOnce(x)' /\ (Failing(x)' => ~Offered(x)'),
         NoneAfter(tasks'[Discoverer], "PATH", "SAFE")
  PROVE  OffersFine'
<1> DEFINE A == Advertiser
           D == Discoverer
<1>1. SameRole
  BY SameRoleOf
<1>2. BehindInv /\ \A x \in Channels : FreshInv(x) /\ FlowInv(x) /\ JoinInv(x)
  BY DEF Handover
<1>3. A \in Peers /\ D \in Peers /\ Act(A) \in Channels /\ Act(D) \in Channels
  BY Two, Standing
<1>4. BehindInv'
  BY <1>1, <1>2, <1>3 DEF BehindInv, SameRole
<1>5. ASSUME NEW x \in Channels
      PROVE  FreshInv(x)' /\ FlowInv(x)' /\ JoinInv(x)'
  <2>1. /\ FreshFor(A, x) => FreshFor(A, x)'
        /\ FreshFor(D, x) => FreshFor(D, x)'
        /\ Stage(A)' = Stage(A)
    BY <1>1, <1>3 DEF SameRole, SameView
  <2>2. x > opened' => x > opened
    BY OpenedTyped, ConstantsTyped
  <2>3. FreshInv(x)'
    BY <1>2, <2>1, <2>2 DEF FreshInv
  <2>4. FlowInv(x)'
    BY <2>1 DEF FlowInv, Underway, Offered
  <2>5. JoinInv(x)'
    BY DEF JoinInv, Arriving
  <2> QED
    BY <2>3, <2>4, <2>5
<1> QED
  BY <1>4, <1>5 DEF OffersFine

Asking == {"idle"} \cup OfferSteps

\* A step of p's thread about an offer: it moves no worker and no channel, and
\* leaves what the shutdown of the prior channel rests on.
OfferStep(p, posted) ==
  /\ p \in Peers /\ ThreadStep(p) /\ UNCHANGED <<chan, conn, workerVars, hist>>
  /\ KeepsTasks(posted) /\ \A kind \in {"OVER", "LAST", "SAFE"} : kind \notin posted
  /\ \A r \in Peers : r # p => tasks'[r] = tasks[r]
  /\ mgr'[p].previous = mgr[p].previous /\ mgr'[p].upgraded = mgr[p].upgraded
  /\ bwu[p].pc \in Asking /\ bwu'[p].pc \in Asking
  /\ bwu'[p].pc = "idle" \/ Stage(p) = "ease"
  /\ bwu'[p].pc = "path" => bwu'[p].old = Act(p)
  /\ Stage(p) # "ease" \/ bwu'[p].pc = "replace" => mgr'[p].inProgress
  /\ p = Discoverer /\ mgr'[p].inProgress => Stage(p) # "ease" \/ bwu'[p].pc = "replace"

\* Such a step leaves both devices where they are (UpgradeFailure, TryNextBest and the
\* handlers of an offer).
LEMMA OfferMove ==
  ASSUME TypeOK, TypeOK', Handover, Fine, NEW p \in Peers, NEW posted, OfferStep(p, posted)
  PROVE  /\ QuietView /\ QuietDue /\ QuietTasks /\ SameRole
         /\ \A r \in Peers : DeviceFine(r)'
         /\ \A r \in Peers : r # p => QuietThread(r)
<1>1. /\ UNCHANGED <<chan, conn, workerVars, hist>>
      /\ KeepsTasks(posted) /\ \A kind \in {"OVER", "LAST", "SAFE"} : kind \notin posted
      /\ mgr'[p].previous = mgr[p].previous /\ mgr'[p].upgraded = mgr[p].upgraded
      /\ bwu[p].pc \in Asking /\ bwu'[p].pc \in Asking
      /\ bwu'[p].pc = "idle" \/ Stage(p) = "ease"
      /\ bwu'[p].pc = "path" => bwu'[p].old = Act(p)
      /\ Stage(p) # "ease" \/ bwu'[p].pc = "replace" => mgr'[p].inProgress
      /\ p = Discoverer /\ mgr'[p].inProgress => Stage(p) # "ease" \/ bwu'[p].pc = "replace"
  BY DEF OfferStep
<1>2. SameView(p)
  BY <1>1, SameViewOf DEF Asking, OfferSteps, LateSteps
<1>3. StillClosed(p) /\ (LastDue(p)' <=> LastDue(p))
  BY <1>1 DEF StillClosed, LastDue, Asking, OfferSteps
<1>4. DeviceFine(p)'
  <2>1. Stage(p)' = Stage(p) /\ Act(p)' = Act(p) /\ Prior(p)' = Prior(p)
    BY <1>2 DEF SameView
  <2>2. StageInv(p) /\ ChannelInv(p) /\ HoldsInv(p) /\ ~hist[p].desync
    BY DEF Handover
  <2>3. StageInv(p)'
    <3>1. OverIn(tasks'[p]) => OverIn(tasks[p])
      BY <1>1, TasksQuiet
    <3>2. bwu'[p].pc # "idle" => mgr[p].previous = None
      <4>1. bwu[p].pc \notin LateSteps
        BY <1>1 DEF Asking, OfferSteps, LateSteps
      <4> QED
        BY <1>1, <4>1 DEF Stage, LateSteps
    <3> QED
      BY <1>1, <2>1, <2>2, <3>1, <3>2 DEF StageInv, Asking, OfferSteps
  <2>4. ProgressInv(p)'
    BY <1>1, <2>1 DEF ProgressInv
  <2>5. ChannelInv(p)'
    BY <1>1, <2>1, <2>2 DEF ChannelInv
  <2>6. HoldsInv(p)'
    BY <1>1, <2>1, <2>2 DEF HoldsInv, Holds, workerVars
  <2> QED
    BY <1>1, <2>2, <2>3, <2>4, <2>5, <2>6 DEF DeviceFine
<1>5. ASSUME NEW r \in Peers, r # p
      PROVE  /\ DeviceFine(r)' /\ SameView(r) /\ StillClosed(r) /\ QuietThread(r)
             /\ LastDue(r)' <=> LastDue(r)
  <2>1. UNCHANGED workerVars /\ hist'[r] = hist[r] /\ tasks'[r] = tasks[r] /\ ThreadStep(p)
    BY <1>5 DEF OfferStep
  <2> QED
    BY <1>5, <2>1, ThreadOther
<1>6. QuietView /\ QuietDue /\ \A r \in Peers : DeviceFine(r)'
  BY <1>2, <1>3, <1>4, <1>5 DEF QuietView, QuietDue
<1>7. QuietTasks
  BY <1>1, TasksQuiet
<1> QED
  BY <1>5, <1>6, <1>7, SameRoleOf DEF QuietView

\* The Advertiser's thread: the Discoverer's part of ConnectedInv is untouched.
LEMMA ConnectedKept ==
  ASSUME TypeOK, Handover, NEW p \in Peers, ThreadStep(p), UNCHANGED conn,
         p = Advertiser => conn[p].connected,
         p = Discoverer => /\ tasks'[Advertiser] = tasks[Advertiser] /\ opened' = opened
                           /\ mgr'[p].inProgress \/ bwu'[p].pc \in {"ack", "replace"} =>
                                conn[p].connected
  PROVE  ConnectedInv'
<1>1. ConnectedInv
  BY DEF Handover
<1>2. CASE p = Advertiser
  <2>1. mgr'[Discoverer] = mgr[Discoverer] /\ bwu'[Discoverer] = bwu[Discoverer]
    BY <1>2, Two, ThreadApart DEF Apart
  <2> QED
    BY <1>1, <1>2, <2>1 DEF ConnectedInv
<1>3. CASE p = Discoverer
  <2>1. mgr'[Advertiser] = mgr[Advertiser]
    BY <1>3, Two, ThreadApart DEF Apart
  <2> QED
    BY <1>1, <1>3, <2>1 DEF ConnectedInv
<1> QED
  BY <1>2, <1>3, Two

\* Such a step keeps the invariant if the queues and the offers are in order after it.
LEMMA OfferTogether ==
  ASSUME TypeOK, TypeOK', Handover, Fine, NEW p \in Peers, NEW posted, OfferStep(p, posted),
         QuietNet, \A r \in Peers : WireFine(r)', OffersFine', ConnectedInv'
  PROVE  Handover'
<1>1. QuietView /\ QuietDue /\ QuietTasks /\ \A r \in Peers : DeviceFine(r)'
  BY OfferMove
<1>2. \A r \in Peers : ShutFine(r)'
  BY <1>1, QuietKept
<1> QED
  BY <1>1, <1>2, Together

\* The Advertiser chooses a medium, or gives up on one, before it has offered anything;
\* an offer that is under way it leaves alone (RetryUpgrade, InitiateBwuForEndpoint).
LEMMA QuietAsk ==
  ASSUME Now, NEW p \in Peers, p = Advertiser, ThreadStep(p), conn[p].connected,
         UNCHANGED <<channelVars, link, conn, workerVars, hist, bwu, opened>>,
         NEW posted \in SUBSET {"INIT", "RETRY"}, KeepsTasks(posted),
         mgr'[p].previous = mgr[p].previous, mgr'[p].upgraded = mgr[p].upgraded,
         mgr'[p].inProgress = mgr[p].inProgress,
         mgr'[p].listening = mgr[p].listening \/ ~mgr[p].inProgress
  PROVE  Handover'
<1>1. TypeOK /\ TypeOK' /\ Handover /\ Fine
  BY DEF Now
<1>2. \A kind \in {"PATH", "INCOMING", "FAIL", "LAST", "SAFE", "OVER"} : kind \notin posted
  OBVIOUS
<1>3. \A r \in Peers : /\ mgr'[r].previous = mgr[r].previous
                       /\ mgr'[r].upgraded = mgr[r].upgraded
                       /\ mgr'[r].inProgress = mgr[r].inProgress
  BY <1>1, ThreadApart DEF Apart
<1>4. UNCHANGED <<chan, net, seq, conn, workerVars, hist, bwu, link, opened>>
  BY DEF channelVars
<1>5. /\ \A r \in Peers : WireFine(r)' /\ DeviceFine(r)' /\ QuietThread(r)
      /\ QuietView /\ QuietNet /\ QuietDue /\ KeepsNet({})
  BY <1>1, <1>2, <1>3, <1>4, CallStill
<1>6. ConnectedInv'
  BY <1>1, <1>4, ConnectedKept, Two
<1>7. ASSUME NEW c \in Channels
      PROVE  /\ link'[c].dialled <=> link[c].dialled
             /\ Underway(c) /\ mgr[Advertiser].inProgress => mgr'[Advertiser].inProgress
             /\ PathAt(c) /\ ~mgr[Advertiser].inProgress => ~mgr'[Advertiser].inProgress
             /\ link[c].dialled /\ c \in mgr[Advertiser].listening =>
                  c \in mgr'[Advertiser].listening
  <2>1. link[c].dialled => mgr[Advertiser].inProgress
    BY <1>1 DEF Handover, FlowInv, Underway, Arriving
  <2> QED
    BY <1>4, <2>1
<1> QED
  BY <1>1, <1>2, <1>4, <1>5, <1>6, <1>7, QuietStep

\* The retry alarm's task tries the next medium, if the endpoint is still connected.
LEMMA RetryHandover ==
  ASSUME Now, NEW p \in Peers, RetryUpgrade(p)
  PROVE  Handover'
<1>1. /\ TypeOK /\ TypeOK' /\ Handover /\ Fine /\ RoleInv
      /\ mgr[p] \in Managers /\ Task(p, "RETRY") /\ ThreadStep(p)
      /\ UNCHANGED <<channelVars, link, conn, workerVars, hist, bwu, opened>>
  BY SidesTyped DEF Now, RetryUpgrade, ThreadStep
<1>2. p = Advertiser /\ HasKind(tasks[p], "RETRY")
  BY <1>1, TaskFor
<1>3. conn[p].connected
  BY <1>1, <1>2 DEF Handover, ConnectedInv
<1>4. TryNextBest(p, mgr[p], AllUpgradeMediums, Tail(tasks[p]))
  BY <1>3 DEF RetryUpgrade
<1>5. /\ mgr'[p].previous = mgr[p].previous /\ mgr'[p].upgraded = mgr[p].upgraded
      /\ mgr'[p].inProgress = mgr[p].inProgress /\ mgr'[p].listening = mgr[p].listening
      /\ AddsInit(p, Tail(tasks[p]))
  BY <1>1, <1>4, NextBestState
<1>6. KeepsTasks({"RETRY", "INIT"})
  BY <1>1, <1>5, TasksKeep
<1> QED
  BY <1>1, <1>2, <1>3, <1>5, <1>6, QuietAsk

\* InitiateBwuForEndpoint ends without an offer: a Wi-Fi LAN is in the way, an upgrade
\* is in progress, the medium is no better, or the upgrade path cannot be initialised.
LEMMA InitiateIdle ==
  ASSUME Now, NEW p \in Peers, InitiateUpgrade(p), UNCHANGED <<link, opened, bwu>>
  PROVE  Handover'
<1> DEFINE set == [mgr[p] EXCEPT !.medium = Arg(p)]
           started == [set EXCEPT !.retry = FALSE]
<1>1. /\ TypeOK /\ TypeOK' /\ Handover /\ Fine /\ RoleInv
      /\ mgr[p] \in Managers /\ Task(p, "INIT") /\ ThreadStep(p)
      /\ UNCHANGED <<channelVars, conn, workerVars, hist>>
  BY SidesTyped DEF Now, InitiateUpgrade, ThreadStep
<1>2. p = Advertiser /\ HasKind(tasks[p], "INIT") /\ Arg(p) \in Mediums \cup {None}
  <2>1. Head(tasks[p]) \in Tasks /\ Head(tasks[p]).kind = "INIT"
    BY <1>1 DEF Task, TypeOK, WorkersTypeOK
  <2> QED
    BY <1>1, <2>1, TaskFor DEF Tasks, Arg, Negotiation
<1>3. conn[p].connected
  BY <1>1, <1>2 DEF Handover, ConnectedInv
<1>4. \A m \in {set, started} :
        /\ m \in Managers /\ m.previous = mgr[p].previous /\ m.upgraded = mgr[p].upgraded
        /\ m.inProgress = mgr[p].inProgress /\ m.listening = mgr[p].listening
  BY <1>1, <1>2 DEF Managers
<1>5. \/ TakeTask(p) /\ (UNCHANGED mgr \/ ManagerOf(p, set) \/ ManagerOf(p, started))
      \/ /\ ~mgr[p].inProgress
         /\ UpgradeFailure(p, started, Arg(p), Tail(tasks[p]))
      \/ /\ opened + 1 <= MaxAttempts /\ opened' = opened + 1
  BY DEF InitiateUpgrade
<1> HIDE DEF set, started
<1>6. opened' # opened + 1
  BY <1>1, OpenedTyped
<1>7. CASE TakeTask(p) /\ (UNCHANGED mgr \/ ManagerOf(p, set) \/ ManagerOf(p, started))
  <2>1. KeepsTasks({"INIT"})
    BY <1>1, <1>7, TasksKeep
  <2>2. /\ mgr'[p].previous = mgr[p].previous /\ mgr'[p].upgraded = mgr[p].upgraded
        /\ mgr'[p].inProgress = mgr[p].inProgress /\ mgr'[p].listening = mgr[p].listening
    BY <1>1, <1>4, <1>7 DEF ManagerOf, TypeOK
  <2> QED
    BY <1>1, <1>2, <1>3, <2>1, <2>2, QuietAsk
<1>8. CASE ~mgr[p].inProgress /\ UpgradeFailure(p, started, Arg(p), Tail(tasks[p]))
  <2>1. /\ mgr'[p].previous = started.previous /\ mgr'[p].upgraded = started.upgraded
        /\ ~mgr'[p].inProgress /\ AddsInit(p, Tail(tasks[p]))
    BY <1>1, <1>4, <1>8, FailureState
  <2>2. KeepsTasks({"INIT"})
    <3>1. KeepsTasks({"INIT", "INIT"})
      BY <1>1, <2>1, TasksKeep
    <3> QED
      BY <3>1
  <2>3. mgr'[p].inProgress = mgr[p].inProgress
    <3>1. mgr'[p].inProgress \in BOOLEAN /\ mgr[p].inProgress \in BOOLEAN
      BY <1>1 DEF TypeOK, Managers
    <3> QED
      BY <1>8, <2>1, <3>1
  <2> QED
    BY <1>1, <1>2, <1>3, <1>4, <1>8, <2>1, <2>2, <2>3, QuietAsk
<1> QED
  BY <1>5, <1>6, <1>7, <1>8

\* No offer is under way while the Advertiser has no upgrade in progress and is not
\* about to write one.
LEMMA NoOffer ==
  ASSUME Handover, ~mgr[Advertiser].inProgress, NEW x \in Channels
  PROVE  /\ ~PathSent(x) /\ ~PathGot(x) /\ ~Arriving(x) /\ ~Switching(Discoverer, x)
         /\ ~FailAt(x) /\ ~FailSent(x) /\ ~FailGot(x)
BY DEF Handover, FlowInv, Underway, Failing

\* An upgrade is offered: the channel is a new one.
LEMMA InitiateHandover ==
  ASSUME Now, NEW p \in Peers, InitiateUpgrade(p)
  PROVE  Handover'
<1> DEFINE c == opened + 1
           A == Advertiser
           D == Discoverer
           started == [mgr[p] EXCEPT !.medium = Arg(p), !.retry = FALSE]
<1>1. /\ TypeOK /\ TypeOK' /\ Handover /\ Fine /\ RoleInv
      /\ mgr[p] \in Managers /\ Task(p, "INIT") /\ ThreadStep(p)
      /\ UNCHANGED <<chan, net, seq, conn, workerVars, hist>>
      /\ link \in [Channels -> Links] /\ tasks \in [Peers -> Seq(Tasks)]
  BY SidesTyped DEF Now, InitiateUpgrade, ThreadStep, channelVars, TypeOK, ChannelsTypeOK,
     WorkersTypeOK
<1>2. /\ p = A /\ HasKind(tasks[p], "INIT") /\ Arg(p) \in Mediums \cup {None}
      /\ bwu[p].pc = "idle"
  <2>1. Head(tasks[p]) \in Tasks /\ Head(tasks[p]).kind = "INIT"
    BY <1>1 DEF Task
  <2> QED
    BY <1>1, <2>1, TaskFor DEF Tasks, Arg, Negotiation
<1>3. conn[p].connected
  BY <1>1, <1>2 DEF Handover, ConnectedInv
<1>4. CASE UNCHANGED <<link, opened, bwu>>
  BY <1>4, InitiateIdle
<1>5. CASE ~UNCHANGED <<link, opened, bwu>>
  <2>1. /\ ~mgr[p].inProgress /\ c <= MaxAttempts
        /\ ManagerOf(p, [started EXCEPT !.listening = @ \cup {c}])
        /\ opened' = c
        /\ link' = [link EXCEPT ![c].medium = Arg(p)]
        /\ At(p, "path", c, conn[p].active)
        /\ TakeTask(p)
    BY <1>5 DEF InitiateUpgrade
  <2>2. /\ mgr'[p].previous = mgr[p].previous /\ mgr'[p].upgraded = mgr[p].upgraded
        /\ mgr'[p].inProgress = mgr[p].inProgress
    BY <1>1, <1>2, <2>1 DEF ManagerOf, TypeOK, Managers
  <2>3. bwu'[p].pc = "path" /\ bwu'[p].chan = c /\ bwu'[p].old = Act(p) /\ bwu'[D] = bwu[D]
    <3>1. bwu \in [Peers -> Threads]
      BY <1>1 DEF TypeOK
    <3> QED
      BY <1>2, <2>1, <3>1, Two DEF At, Act
  <2>4. KeepsTasks({"INIT"}) /\ \A r \in Peers : r # p => tasks'[r] = tasks[r]
    BY <1>1, <2>1, TasksKeep DEF TakeTask
  <2>5. Stage(p) = "ease"
    BY <1>1, <2>1 DEF Handover, ProgressInv
  <2>6. OfferStep(p, {"INIT"})
    BY <1>1, <1>2, <2>1, <2>2, <2>3, <2>4, <2>5, Two DEF OfferStep, Asking, OfferSteps
  <2>7. QuietView /\ SameRole
    BY <1>1, <2>6, OfferMove
  <2>8. (\A r \in Peers : WireFine(r)') /\ QuietNet
    BY <1>1, <2>7, WireKept
  <2>9. ConnectedInv'
    BY <1>1, <1>2, <1>3, ConnectedKept, Two
  <2>10. c \in Channels /\ c > 0 /\ c > opened /\ opened' \in Nat /\ opened' >= opened
    BY <1>1, <2>1, OpenedTyped, BoundsTyped DEF Channels
  <2> HIDE DEF c, started
  <2>11. OffersFine'
    <3>1. ASSUME NEW x \in Channels
          PROVE  /\ ~Arriving(x)' /\ ~Switching(D, x)' /\ ~PathSent(x)' /\ ~PathGot(x)'
                 /\ (PathAt(x)' => x = c)
                 /\ ~FailAt(x)' /\ ~FailSent(x)' /\ ~FailGot(x)'
                 /\ FailsOnce(x)'
      <4>1. /\ ~PathSent(x) /\ ~PathGot(x) /\ ~Arriving(x) /\ ~Switching(D, x)
            /\ ~FailAt(x) /\ ~FailSent(x) /\ ~FailGot(x) /\ FailsOnce(x)
        BY <1>1, <1>2, <2>1, NoOffer DEF Handover, FlowInv
      <4>2. link'[x].dialled <=> link[x].dialled
        BY <1>1, <2>1, <2>10 DEF Links
      <4>3. ~Arriving(x)'
        BY <1>2, <2>3, <2>4, <4>1, <4>2, Two DEF Arriving, Accepted, Switching, KeepsTasks, Keeps
      <4>4. ~PathSent(x)' /\ ~PathGot(x)' /\ ~Switching(D, x)' /\ (PathAt(x)' => x = c)
        BY <1>1, <1>2, <2>3, <2>4, <4>1, Two DEF PathSent, PathGot, PathAt, Switching
      <4>5. ~FailAt(x)' /\ ~FailSent(x)' /\ ~FailGot(x)'
        BY <1>1, <1>2, <2>3, <2>4, <4>1, Two DEF FailAt, FailSent, FailGot, KeepsTasks, Keeps
      <4>6. FailsOnce(x)'
        BY <1>1, <1>2, <2>3, <2>4, <4>1, <4>5, Two DEF FailsOnce, FailSent, KeepsTasks, Keeps
      <4> QED
        BY <4>3, <4>4, <4>5, <4>6
    <3>2. \A x \in Channels : ~Arriving(x) /\ ~Switching(D, x)
      BY <1>2, <1>1, <2>1, NoOffer
    <3>3. FreshFor(A, c) /\ FreshFor(D, c)
      BY <1>1, <2>10 DEF Handover, FreshInv
    <3>4. NoneAfter(tasks'[D], "PATH", "SAFE")
      BY <1>1, <1>2, <2>4, Two DEF Handover, BehindInv
    <3>5. \A r \in Peers : SameView(r)
      BY <2>7 DEF QuietView
    <3>6. ~mgr'[A].inProgress
      BY <1>2, <2>1, <2>2
    <3> QED
      BY <1>1, <2>1, <2>10, <3>1, <3>2, <3>3, <3>4, <3>5, <3>6, OfferAlone DEF Offered, Failing
  <2> QED
    BY <1>1, <2>6, <2>8, <2>9, <2>11, OfferTogether
<1> QED
  BY <1>4, <1>5

\* UPGRADE_PATH_AVAILABLE is written on the active channel.
LEMMA WritePathHandover ==
  ASSUME Now, NEW p \in Peers, WritePath(p)
  PROVE  Handover'
<1> DEFINE c == bwu[p].chan
           A == Advertiser
           D == Discoverer
<1>1. /\ TypeOK /\ TypeOK' /\ Handover /\ Fine /\ RoleInv
      /\ mgr \in [Peers -> Managers] /\ bwu \in [Peers -> Threads] /\ bwu[p] \in Threads
      /\ bwu[p].pc = "path" /\ ThreadStep(p) /\ Idle(p)
      /\ UNCHANGED <<chan, link, conn, workerVars, hist, opened>>
  BY SidesTyped DEF Now, WritePath, ThreadStep, TypeOK
<1>2. p = A /\ c \in Channels
  BY <1>1, Two DEF RoleInv, Threads
<1>3. bwu[p].old = Act(p) /\ Act(p) \in Channels /\ Act(p) \notin hist[p].safe /\ Stage(p) = "ease"
  BY <1>1, Standing DEF Handover, StageInv
<1>4. PathAt(c) /\ c = opened /\ opened > 0 /\ ~mgr[A].inProgress
  BY <1>1, <1>2 DEF PathAt, Handover, FlowInv
<1>5. conn[p].connected
  BY <1>1, <1>2, <1>4 DEF Handover, ConnectedInv
<1>6. ~WriteFailed(p, Act(p))
  BY <1>1, <1>3, FailsInClear
<1>7. /\ Written(p, Act(p), "PATH", c) /\ UNCHANGED tasks
      /\ ManagerOf(p, [mgr[p] EXCEPT !.inProgress = TRUE])
  BY <1>3, <1>6 DEF WritePath
<1>8. /\ mgr'[p].previous = mgr[p].previous /\ mgr'[p].upgraded = mgr[p].upgraded
      /\ mgr'[p].inProgress
  BY <1>1, <1>7 DEF ManagerOf, Managers
<1>9. bwu'[p].pc = "idle" /\ bwu'[D] = bwu[D]
  BY <1>1, <1>2, Two DEF Idle, At
<1>10. KeepsTasks({})
  BY <1>1, <1>7, TasksKeep
<1>11. OfferStep(p, {})
  BY <1>1, <1>2, <1>3, <1>7, <1>8, <1>9, <1>10, Two DEF OfferStep, Asking, OfferSteps
<1>12. QuietView /\ \A r \in Peers : SameView(r) /\ StillClosed(r)
  BY <1>1, <1>11, OfferMove DEF QuietView
<1> HIDE DEF c
<1> DEFINE f == FrameOf(p, Act(p), "PATH", c)
<1>13. /\ \A r \in Peers : NumberInv(r)'
       /\ \A r \in Peers, x \in Channels : QueueInv(r, x)'
       /\ QuietNet /\ Appends(p, Act(p), f) /\ f.kind = "PATH" /\ f.arg = c
  <2>1. [kind |-> "PATH", seq |-> 0, arg |-> c] \in Frames /\ "PATH" \in Plain
    BY <1>2 DEF Frames, FrameKinds, Negotiation, Plain
  <2> QED
    BY <1>1, <1>3, <1>7, <1>12, <2>1, WriteKept
<1> HIDE DEF f
<1>14. ConnectedInv'
  BY <1>1, <1>2, <1>5, ConnectedKept, Two
<1>15. KeepsNet({"PATH"})
  BY <1>1, <1>3, <1>13, NetKeeps
<1>16. OffersFine'
  <2>1. ASSUME NEW x \in Channels
        PROVE  /\ ~Arriving(x)' /\ ~Switching(D, x)' /\ ~PathAt(x)' /\ ~PathGot(x)'
               /\ (PathSent(x)' => x = c)
               /\ ~FailAt(x)' /\ ~FailSent(x)' /\ ~FailGot(x)'
               /\ FailsOnce(x)'
    <3>1. /\ ~PathSent(x) /\ ~PathGot(x) /\ ~Arriving(x) /\ ~Switching(D, x)
          /\ ~FailAt(x) /\ ~FailSent(x) /\ ~FailGot(x) /\ FailsOnce(x)
      BY <1>1, <1>4, NoOffer DEF Handover, FlowInv
    <3>2. ~Arriving(x)' /\ ~Switching(D, x)' /\ ~PathAt(x)' /\ ~PathGot(x)'
      BY <1>1, <1>2, <1>7, <1>9, <3>1 DEF Arriving, Accepted, Switching, PathAt, PathGot
    <3>3. /\ ~FailAt(x)' /\ ~FailSent(x)' /\ ~FailGot(x)'
          /\ FailsOnce(x)'
      BY <1>2, <1>7, <1>9, <1>15, <3>1, Two DEF FailAt, FailSent, FailGot, FailsOnce, KeepsNet, Keeps
    <3>4. PathSent(x)' => x = c
      <4>1. \A d \in Channels : Has(net'[A][d], "PATH", x) => Has(net[A][d], "PATH", x) \/ x = c
        <5>1. /\ net[A][Act(p)] \in Seq(Frames) /\ f \in Frames
              /\ net'[A][Act(p)] = Append(net[A][Act(p)], f)
              /\ \A d \in Channels : d # Act(p) => net'[A][d] = net[A][d]
          BY <1>1, <1>2, <1>3, <1>13, SidesTyped DEF Appends
        <5>2. Has(net'[A][Act(p)], "PATH", x) => Has(net[A][Act(p)], "PATH", x) \/ x = c
          BY <1>13, <5>1, AppendKinds
        <5> QED
          BY <5>1, <5>2
      <4> QED
        BY <3>1, <4>1 DEF PathSent
    <3> QED
      BY <3>2, <3>3, <3>4
  <2>2. \A x \in Channels : ~Arriving(x) /\ ~Switching(D, x)
    BY <1>1, <1>4, NoOffer
  <2>3. FreshFor(A, c) /\ FreshFor(D, c)
    BY <1>1, <1>2, <1>4 DEF Handover, FreshInv, Offered
  <2>4. NoneAfter(tasks'[D], "PATH", "SAFE")
    BY <1>1, <1>7 DEF Handover, BehindInv
  <2>5. opened' >= opened /\ opened' \in Nat /\ c = opened' /\ opened' > 0
    BY <1>1, <1>4, OpenedTyped
  <2> QED
    BY <1>1, <1>2, <1>3, <1>8, <1>12, <2>1, <2>2, <2>3, <2>4, <2>5, OfferAlone DEF Offered, Failing
<1> QED
  BY <1>1, <1>11, <1>13, <1>14, <1>16, OfferTogether DEF WireFine

\* A task that is not of InitiateBwuForEndpoint was queued before.
LEMMA InitAdds ==
  ASSUME TypeOK', NEW p \in Peers, NEW q \in Seq(Tasks), AddsInit(p, q)
  PROVE  \A x : Has(tasks'[p], "FAIL", x) => Has(q, "FAIL", x)
<1>1. tasks'[p] \in Seq(Tasks)
  BY DEF TypeOK, WorkersTypeOK
<1>2. ASSUME NEW medium, tasks'[p] = Append(q, [kind |-> "INIT", arg |-> medium]), NEW x
      PROVE  Has(tasks'[p], "FAIL", x) => Has(q, "FAIL", x)
  <2> DEFINE t == [kind |-> "INIT", arg |-> medium]
  <2>1. t.kind = "INIT" /\ tasks'[p] = Append(q, t)
    BY <1>2
  <2> HIDE DEF t
  <2>2. t \in Tasks
    <3>1. Len(q) + 1 \in DOMAIN tasks'[p] /\ tasks'[p][Len(q) + 1] = t
      BY <2>1
    <3> QED
      BY <1>1, <3>1
  <2>3. Has(Append(q, t), "FAIL", x) <=> Has(q, "FAIL", x) \/ (t.kind = "FAIL" /\ t.arg = x)
    BY <2>2, AppendKinds
  <2> QED
    BY <2>1, <2>3
<1> QED
  BY <1>2 DEF AddsInit

\* UPGRADE_FAILURE is answered: nothing is left of the offer, and the next medium may
\* be tried.
LEMMA FailureHandover ==
  ASSUME Now, NEW p \in Peers, ProcessUpgradeFailure(p)
  PROVE  Handover'
<1> DEFINE c == Arg(p)
           A == Advertiser
           D == Discoverer
<1>1. /\ TypeOK /\ TypeOK' /\ Handover /\ Fine /\ RoleInv
      /\ mgr \in [Peers -> Managers] /\ mgr[p] \in Managers
      /\ Task(p, "FAIL") /\ ThreadStep(p) /\ conn[p].connected
      /\ UpgradeFailure(p, mgr[p], link[c].medium, Tail(tasks[p]))
      /\ UNCHANGED <<chan, net, seq, link, conn, workerVars, hist, bwu, opened>>
  BY SidesTyped DEF Now, ProcessUpgradeFailure, ThreadStep, TypeOK, channelVars
<1>2. /\ p = A /\ c \in Channels /\ Has(tasks[A], "FAIL", c) /\ bwu[p].pc = "idle"
      /\ tasks[p] # << >>
  BY <1>1, TaskFor DEF Negotiation
<1> HIDE DEF c
<1>3. /\ FailGot(c) /\ c = opened /\ opened > 0 /\ mgr[A].inProgress /\ Stage(A) = "ease"
      /\ ~Offered(c) /\ ~Arriving(c) /\ ~Switching(D, c) /\ FailsOnce(c)
  BY <1>1, <1>2 DEF FailGot, Failing, Underway, Handover, FlowInv
<1>4. /\ mgr'[p].previous = mgr[p].previous /\ mgr'[p].upgraded = mgr[p].upgraded
      /\ ~mgr'[p].inProgress /\ AddsInit(p, Tail(tasks[p]))
  BY <1>1, FailureState
<1>5. KeepsTasks({"FAIL", "INIT"})
  BY <1>1, <1>4, TasksKeep
<1>6. \A r \in Peers : r # p => tasks'[r] = tasks[r]
  BY <1>4 DEF AddsInit
<1>7. OfferStep(p, {"FAIL", "INIT"})
  BY <1>1, <1>2, <1>3, <1>4, <1>5, <1>6, Two DEF OfferStep, Asking, OfferSteps
<1>8. QuietView
  BY <1>1, <1>7, OfferMove
<1>9. (\A r \in Peers : WireFine(r)') /\ QuietNet
  BY <1>1, <1>8, WireKept
<1>10. ConnectedInv'
  BY <1>1, <1>2, ConnectedKept, Two
<1>11. ~Has(tasks'[A], "FAIL", c)
  <2>1. tasks[A] \in Seq(Tasks) /\ Head(tasks[A]).kind = "FAIL" /\ Head(tasks[A]).arg = c
    BY <1>1, <1>2 DEF Task, c, Arg, TypeOK, WorkersTypeOK
  <2>2. ~Has(Tail(tasks[A]), "FAIL", c) /\ Tail(tasks[A]) \in Seq(Tasks)
    BY <1>2, <1>3, <2>1, TailKinds DEF FailsOnce
  <2> QED
    BY <1>1, <1>2, <1>4, <2>2, InitAdds, Two
<1>12. OffersFine'
  <2>1. ASSUME NEW x \in Channels
        PROVE  /\ ~Arriving(x) /\ ~Switching(D, x)
               /\ ~Arriving(x)' /\ ~Switching(D, x)' /\ ~Offered(x)' /\ ~Failing(x)'
               /\ FailsOnce(x)'
    <3>1. ~Offered(x) /\ ~Arriving(x) /\ ~Switching(D, x) /\ (Failing(x) => x = c) /\ FailsOnce(x)
      BY <1>1, <1>3 DEF Handover, FlowInv, Underway, Offered
    <3>2. ~Arriving(x)' /\ ~Switching(D, x)' /\ ~Offered(x)'
      BY <1>1, <1>2, <1>5, <3>1, Two DEF Arriving, Accepted, Switching, Offered, PathAt, PathSent,
         PathGot, KeepsTasks, Keeps
    <3>3. ~FailAt(x) /\ ~FailSent(x)
      BY <1>3, <3>1 DEF FailsOnce, Failing
    <3>4. ~FailGot(x)'
      <4>1. CASE x = c
        BY <1>11, <4>1 DEF FailGot
      <4>2. CASE x # c
        <5>1. ~Has(tasks[A], "FAIL", x)
          BY <3>1, <4>2 DEF FailGot, Failing
        <5>2. tasks[A] \in Seq(Tasks) /\ Tail(tasks[A]) \in Seq(Tasks)
          BY <1>1, <1>2, Two DEF TypeOK, WorkersTypeOK
        <5>3. ~Has(Tail(tasks[A]), "FAIL", x)
          BY <1>2, <5>1, <5>2, TailKinds
        <5> QED
          BY <1>1, <1>2, <1>4, <5>2, <5>3, InitAdds, Two DEF FailGot
      <4> QED
        BY <4>1, <4>2
    <3>5. ~FailAt(x)' /\ ~FailSent(x)' /\ FailsOnce(x)'
      <4>1. Once(tasks'[A], "FAIL", x)
        BY <3>4 DEF FailGot, Has, Once
      <4> QED
        BY <1>1, <3>1, <3>3, <4>1 DEF FailAt, FailSent, FailsOnce
    <3> QED
      BY <3>1, <3>2, <3>4, <3>5 DEF Failing
  <2>2. NoneAfter(tasks'[D], "PATH", "SAFE")
    BY <1>1, <1>2, <1>6, Two DEF Handover, BehindInv
  <2>3. opened' >= opened /\ opened' \in Nat
    BY <1>1, OpenedTyped
  <2>4. \A r \in Peers : SameView(r)
    BY <1>8 DEF QuietView
  <2> QED
    BY <1>1, <1>4, <2>1, <2>2, <2>3, <2>4, OfferAlone DEF Offered, Failing
<1> QED
  BY <1>1, <1>7, <1>9, <1>10, <1>12, OfferTogether

\* When UPGRADE_PATH_AVAILABLE is processed, neither device is switching, and no
\* other offer is under way.
LEMMA PathState ==
  ASSUME TypeOK, WireInv, RoleInv, Handover, Fine, NEW p \in Peers, Task(p, "PATH")
  PROVE  /\ p = Discoverer /\ Arg(p) \in Channels /\ Arg(p) = opened /\ opened > 0
         /\ PathGot(Arg(p)) /\ mgr[Advertiser].inProgress /\ Stage(Advertiser) = "ease"
         /\ Stage(p) = "ease" /\ ~mgr[p].inProgress
         /\ \A x \in Channels :
              /\ ~Arriving(x) /\ ~Switching(Discoverer, x) /\ ~Failing(x)
              /\ ~PathAt(x) /\ ~PathSent(x) /\ (PathGot(x) => x = Arg(p))
         /\ FreshFor(Advertiser, Arg(p)) /\ FreshFor(p, Arg(p)) /\ ~chan[p][Arg(p)].crypt
<1> DEFINE c == Arg(p)
           A == Advertiser
           D == Discoverer
<1>1. /\ p = D /\ c \in Channels /\ Has(tasks[D], "PATH", c) /\ bwu[p].pc = "idle"
      /\ HasKind(tasks[p], "PATH") /\ tasks[p] # << >>
  BY TaskFor DEF Negotiation
<1>2. tasks[p] \in Seq(Tasks) /\ Head(tasks[p]).kind = "PATH"
  BY DEF Task, TypeOK, WorkersTypeOK
<1> HIDE DEF c
<1>3. PathGot(c) /\ Offered(c)
  BY <1>1 DEF PathGot, Offered
<1>4. c = opened /\ opened > 0 /\ mgr[A].inProgress /\ Stage(A) = "ease" /\ ~Failing(c)
  BY <1>1, <1>3 DEF Handover, FlowInv, Underway
<1>5. /\ ~Switching(D, c) /\ ~Arriving(c) /\ ~chan[D][c].crypt /\ ~PathSent(c)
  BY <1>1, <1>3 DEF WireInv, OffersInv, OfferInv, Untouched, Unprepared, OfferedOnce
<1>6. FreshFor(A, c) /\ FreshFor(D, c)
  BY <1>1, <1>3 DEF Handover, FreshInv
<1>7. \A x \in Channels :
        /\ ~Arriving(x) /\ ~Switching(D, x) /\ ~Failing(x)
        /\ ~PathAt(x) /\ ~PathSent(x) /\ (PathGot(x) => x = c)
  BY <1>4, <1>5 DEF Handover, FlowInv, Underway
<1>8. Stage(p) \in {"ease", "told", "agreed"}
  BY <1>1, Standing
<1>9. Stage(p) # "told"
  <2>1. SUFFICES ASSUME Stage(p) = "told" PROVE FALSE
    OBVIOUS
  <2>2. Behind(A)
    BY <1>1, <1>4, <2>1, Two DEF Behind, Early
  <2>3. Arriving(Act(D)) /\ Act(D) \in Channels
    BY <2>2, Standing, Two DEF Handover, BehindInv
  <2> QED
    BY <1>7, <2>3
<1>10. Stage(p) # "agreed"
  <2>1. SUFFICES ASSUME Stage(p) = "agreed" PROVE FALSE
    OBVIOUS
  <2>2. PairInv(A) /\ SafeInv(A) /\ Prior(D) \in Channels
    BY <1>1, <2>1, Two, Standing DEF Handover
  <2>3. chan[A][Prior(D)].closed
    BY <1>1, <1>4, <2>1, <2>2, Two DEF PairInv
  <2>4. CloseInv(A, Prior(D))
    BY <2>2, Two DEF Handover
  <2>5. Spent(A, Prior(D))
    BY <2>3, <2>4 DEF CloseInv
  <2>6. net[A][Prior(D)] \in Seq(Frames)
    BY <2>2, Two, SidesTyped
  <2>7. ~HasKind(net[A][Prior(D)], "SAFE")
    BY <2>5, <2>6, SealedKinds DEF Spent
  <2>8. ~SafeSent(A)
    BY <2>2, <2>7, Two DEF SafeInv, SafeSent
  <2>9. SafeGot(D)
    BY <1>1, <1>4, <2>1, <2>2, <2>8, Two DEF SafeInv
  <2>10. NoneAfter(tasks[D], "PATH", "SAFE")
    BY DEF Handover, BehindInv
  <2>11. ~HasKind(tasks[p], "SAFE")
    BY <1>1, <1>2, <2>10, TailKinds
  <2> QED
    BY <1>1, <2>9, <2>11 DEF SafeGot
<1>11. Stage(p) = "ease"
  BY <1>8, <1>9, <1>10
<1>12. ~mgr[p].inProgress
  BY <1>1, <1>11 DEF Handover, ProgressInv
<1> QED
  BY <1>1, <1>3, <1>4, <1>5, <1>6, <1>7, <1>11, <1>12 DEF c

\* The offer cannot be taken up, and is about to be answered with UPGRADE_FAILURE.
LEMMA PathRefused ==
  ASSUME Now, NEW p \in Peers, Task(p, "PATH"), ThreadStep(p), TakeTask(p),
         At(p, "fail", Arg(p), None),
         UNCHANGED <<chan, net, seq, link, conn, workerVars, hist, opened>>,
         mgr'[p].previous = mgr[p].previous, mgr'[p].upgraded = mgr[p].upgraded,
         ~mgr'[p].inProgress
  PROVE  Handover'
<1> DEFINE c == Arg(p)
           A == Advertiser
           D == Discoverer
<1>1. TypeOK /\ TypeOK' /\ WireInv /\ RoleInv /\ Handover /\ Fine /\ bwu \in [Peers -> Threads]
  BY DEF Now, TypeOK
<1>2. /\ p = D /\ c \in Channels /\ c = opened /\ opened > 0 /\ mgr[A].inProgress
      /\ Stage(A) = "ease" /\ Stage(p) = "ease" /\ PathGot(c)
      /\ \A x \in Channels :
           /\ ~Arriving(x) /\ ~Switching(D, x) /\ ~Failing(x)
           /\ ~PathAt(x) /\ ~PathSent(x) /\ (PathGot(x) => x = c)
  BY <1>1, PathState
<1>3. bwu[p].pc = "idle" /\ tasks[p] # << >> /\ tasks[p] \in Seq(Tasks)
      /\ Head(tasks[p]).kind = "PATH" /\ Head(tasks[p]).arg = c
  BY <1>1 DEF Task, Arg, TypeOK, WorkersTypeOK
<1> HIDE DEF c
<1>4. KeepsTasks({"PATH"}) /\ tasks'[p] = Tail(tasks[p])
  BY <1>1, TasksKeep
<1>5. \A r \in Peers : r # p => tasks'[r] = tasks[r]
  BY <1>1 DEF TakeTask, TypeOK, WorkersTypeOK
<1>6. bwu'[p].pc = "fail" /\ bwu'[p].chan = c /\ bwu'[A] = bwu[A] /\ mgr'[A] = mgr[A]
  BY <1>1, <1>2, Two, ThreadApart DEF Apart, At, c
<1>7. OfferStep(p, {"PATH"})
  BY <1>2, <1>3, <1>4, <1>5, <1>6 DEF OfferStep, Asking, OfferSteps
<1>8. QuietView
  BY <1>1, <1>7, OfferMove
<1>9. (\A r \in Peers : WireFine(r)') /\ QuietNet
  BY <1>1, <1>8, WireKept
<1>10. ConnectedInv'
  BY <1>1, <1>2, <1>5, <1>6, ConnectedKept, Two
<1>11. ASSUME NEW x \in Channels
       PROVE  /\ ~Arriving(x)' /\ ~Switching(D, x)' /\ ~Offered(x)'
              /\ (Failing(x)' => x = c) /\ FailsOnce(x)'
  <2>1. ~PathGot(x)'
    <3>1. Once(tasks[D], "PATH", c)
      BY <1>1, <1>2 DEF WireInv, OffersInv, OfferInv, OfferedOnce
    <3>2. Has(Tail(tasks[D]), "PATH", x) => PathGot(x) /\ ~(x = c)
      BY <1>2, <1>3, <3>1, TailKinds DEF PathGot
    <3> QED
      BY <1>2, <1>4, <3>2 DEF PathGot
  <2>2. ~Arriving(x)' /\ ~Switching(D, x)' /\ ~PathAt(x)' /\ ~PathSent(x)'
    BY <1>2, <1>5, <1>6, Two DEF Arriving, Accepted, Switching, PathAt, PathSent
  <2>3. ~FailSent(x)' /\ ~FailGot(x)' /\ (FailAt(x)' => x = c)
    BY <1>2, <1>5, <1>6, Two DEF FailSent, FailGot, FailAt, Failing
  <2>4. FailsOnce(x)'
    <3>1. FailsOnce(x)
      BY <1>1 DEF Handover, FlowInv
    <3> QED
      BY <1>2, <1>5, <2>3, <3>1, Two DEF FailsOnce
  <2> QED
    BY <2>1, <2>2, <2>3, <2>4 DEF Offered, Failing
<1>12. OffersFine'
  <2>1. NoneAfter(tasks'[D], "PATH", "SAFE")
    BY <1>1, <1>4, TasksQuiet DEF Handover, BehindInv
  <2>2. opened' >= opened /\ opened' \in Nat /\ opened' = c /\ opened' > 0
    BY <1>1, <1>2, OpenedTyped
  <2>3. \A r \in Peers : SameView(r)
    BY <1>8 DEF QuietView
  <2> QED
    BY <1>1, <1>2, <1>6, <1>11, <2>1, <2>2, <2>3, OfferAlone DEF Offered
<1> QED
  BY <1>1, <1>7, <1>9, <1>10, <1>12, OfferTogether

\* The offer is taken up: the socket connects and CLIENT_INTRODUCTION is written on it
\* (ProcessBwuPathAvailableEventInternal).
LEMMA PathJoined ==
  ASSUME Now, NEW p \in Peers, Task(p, "PATH"), ThreadStep(p), conn[p].connected,
         NEW m \in Managers, Join(p, Arg(p), m),
         m.previous = mgr[p].previous, m.upgraded = mgr[p].upgraded, ~m.inProgress,
         UNCHANGED <<conn, workerVars, hist, opened>>
  PROVE  Handover'
<1> DEFINE A == Advertiser
           D == Discoverer
<1>0. PICK c : c = Arg(p)
  OBVIOUS
<1>1. /\ TypeOK /\ TypeOK' /\ WireInv /\ RoleInv /\ Handover /\ Fine
      /\ bwu \in [Peers -> Threads] /\ mgr \in [Peers -> Managers] /\ link \in [Channels -> Links]
  BY DEF Now, TypeOK, ChannelsTypeOK
<1>2. /\ p = D /\ c \in Channels /\ c = opened /\ opened > 0 /\ mgr[A].inProgress
      /\ Stage(A) = "ease" /\ Stage(p) = "ease" /\ PathGot(c)
      /\ \A x \in Channels :
           /\ ~Arriving(x) /\ ~Switching(D, x) /\ ~Failing(x)
           /\ ~PathAt(x) /\ ~PathSent(x) /\ (PathGot(x) => x = c)
      /\ FreshFor(A, c) /\ FreshFor(D, c) /\ ~chan[D][c].crypt
  BY <1>0, <1>1, PathState
<1>3. bwu[p].pc = "idle" /\ tasks[p] # << >> /\ tasks[p] \in Seq(Tasks)
      /\ Head(tasks[p]).kind = "PATH" /\ Head(tasks[p]).arg = c
  BY <1>0, <1>1 DEF Task, Arg, TypeOK, WorkersTypeOK
<1>4. /\ CanJoin(p, c, m) /\ Sent(p, c, "INTRO", 0)
      /\ link' = [link EXCEPT ![c].dialled = TRUE] /\ TakeTask(p) /\ UNCHANGED <<chan, faults>>
      /\ \/ ManagerOf(p, m) /\ At(p, "ack", c, None)
         \/ ManagerOf(p, [m EXCEPT !.inProgress = TRUE]) /\ At(p, "replace", c, None)
  BY <1>0 DEF Join
<1>5. KeepsTasks({"PATH"}) /\ tasks'[p] = Tail(tasks[p])
  BY <1>1, <1>4, TasksKeep
<1>6. \A r \in Peers : r # p => tasks'[r] = tasks[r]
  BY <1>4 DEF TakeTask, TypeOK, WorkersTypeOK
<1>7. /\ bwu'[p].pc \in {"ack", "replace"} /\ bwu'[p].chan = c /\ bwu'[A] = bwu[A]
      /\ mgr'[A] = mgr[A] /\ mgr'[p].previous = mgr[p].previous
      /\ mgr'[p].upgraded = mgr[p].upgraded /\ (mgr'[p].inProgress <=> bwu'[p].pc = "replace")
  <2>1. bwu'[A] = bwu[A] /\ mgr'[A] = mgr[A]
    BY <1>1, <1>2, Two, ThreadApart DEF Apart
  <2>2. /\ [m EXCEPT !.inProgress = TRUE].previous = m.previous
        /\ [m EXCEPT !.inProgress = TRUE].upgraded = m.upgraded
        /\ [m EXCEPT !.inProgress = TRUE].inProgress
    BY DEF Managers
  <2>3. CASE ManagerOf(p, m) /\ At(p, "ack", c, None)
    BY <1>1, <2>1, <2>3 DEF ManagerOf, At
  <2>4. CASE ManagerOf(p, [m EXCEPT !.inProgress = TRUE]) /\ At(p, "replace", c, None)
    <3>1. bwu'[p].pc = "replace" /\ bwu'[p].chan = c
      BY <1>1, <2>4 DEF At
    <3>2. mgr'[p] = [m EXCEPT !.inProgress = TRUE]
      BY <1>1, <2>4 DEF ManagerOf
    <3> QED
      BY <2>1, <2>2, <3>1, <3>2
  <2> QED
    BY <1>4, <2>3, <2>4
<1>8. OfferStep(p, {"PATH"})
  BY <1>2, <1>3, <1>4, <1>5, <1>6, <1>7 DEF OfferStep, Asking, OfferSteps
<1>9. QuietView /\ SameRole
  BY <1>1, <1>8, OfferMove
<1> DEFINE f == FrameOf(p, c, "INTRO", 0)
<1>10. Appends(p, c, f) /\ f.kind = "INTRO" /\ f.seq = 0 /\ UNCHANGED seq
  <2>1. [kind |-> "INTRO", seq |-> 0, arg |-> 0] \in Frames
    BY ConstantsTyped DEF Frames, FrameKinds, Negotiation
  <2> QED
    <3>1. ~chan[p][c].crypt /\ Sent(p, c, "INTRO", 0)
      BY <1>2, <1>4
    <3>2. UNCHANGED seq
      BY <3>1 DEF Sent, Encode
    <3> QED
      BY <1>1, <1>2, <2>1, <3>1, <3>2, SentAppends
<1> HIDE DEF f
<1>11. \A r \in Peers, x \in Channels : InClear(r, x)
  <2>1. Belongs(p, c, f)
    BY <1>2, <1>10 DEF Belongs, FreshFor, Clear
  <2> QED
    BY <1>10, <2>1 DEF InClear, Appends, Clear
<1>12. (\A r \in Peers : WireFine(r)') /\ QuietNet
  BY <1>1, <1>9, <1>10, <1>11, ClearKept
<1>13. KeepsNet({"INTRO"})
  BY <1>1, <1>2, <1>10, NetKeeps
<1>14. ConnectedInv'
  BY <1>1, <1>2, <1>6, <1>8, ConnectedKept, Two
<1>15. ASSUME NEW x \in Channels
       PROVE  /\ Arriving(x)' => x = c
              /\ Switching(D, x)' <=> x = c
              /\ link'[x].dialled => x = c
              /\ ~Offered(x)' /\ ~Failing(x)' /\ FailsOnce(x)'
              /\ ~PathAt(x)' /\ ~PathSent(x)' /\ ~PathGot(x)'
  <2>1. ~PathGot(x)'
    <3>1. Once(tasks[D], "PATH", c)
      BY <1>1, <1>2 DEF WireInv, OffersInv, OfferInv, OfferedOnce
    <3>2. Has(Tail(tasks[D]), "PATH", x) => PathGot(x) /\ ~(x = c)
      BY <1>2, <1>3, <3>1, TailKinds DEF PathGot
    <3> QED
      BY <1>2, <1>5, <3>2 DEF PathGot
  <2>2. link'[x].dialled => x = c
    BY <1>1, <1>2, <1>4 DEF Arriving
  <2>3. (Arriving(x)' => x = c) /\ (Switching(D, x)' <=> x = c)
    BY <1>2, <1>6, <1>7, <2>2, Two DEF Arriving, Accepted, Switching
  <2>4. ~PathAt(x)' /\ ~PathSent(x)'
    BY <1>2, <1>7, <1>13, Two DEF PathAt, PathSent, KeepsNet, Keeps
  <2>5. ~FailAt(x)' /\ ~FailSent(x)' /\ ~FailGot(x)'
    BY <1>2, <1>6, <1>7, <1>13, Two DEF FailAt, FailSent, FailGot, Failing, KeepsNet, Keeps
  <2>6. FailsOnce(x)'
    <3>1. FailsOnce(x)
      BY <1>1 DEF Handover, FlowInv
    <3>2. \A d \in Channels : Once(net'[D][d], "FAIL", x)
      BY <1>13, <3>1, Two DEF FailsOnce, KeepsNet, Keeps
    <3> QED
      BY <1>2, <1>6, <2>5, <3>1, <3>2, Two DEF FailsOnce, FailSent
  <2> QED
    BY <2>1, <2>2, <2>3, <2>4, <2>5, <2>6 DEF Offered, Failing
<1>16. link'[c].dialled /\ Arriving(c)'
  <2>1. link'[c].dialled
    BY <1>1, <1>2, <1>4 DEF Links
  <2> QED
    BY <2>1 DEF Arriving
<1>17. OffersFine'
  <2>1. BehindInv'
    <3>1. NoneAfter(tasks'[D], "PATH", "SAFE")
      BY <1>1, <1>5, TasksQuiet DEF Handover, BehindInv
    <3>2. ~Behind(A) /\ ~Behind(D)
      BY <1>1, <1>2, Two, Standing DEF Handover, BehindInv
    <3> QED
      BY <1>9, <3>1, <3>2, Two DEF BehindInv, SameRole
  <2>2. Stage(A)' = "ease" /\ Stage(D)' = "ease"
    BY <1>2, <1>9, Two DEF QuietView, SameView
  <2>3. ASSUME NEW x \in Channels
        PROVE  FreshInv(x)' /\ FlowInv(x)' /\ JoinInv(x)'
    <3>1. /\ FreshFor(A, x) => FreshFor(A, x)'
          /\ FreshFor(D, x) => FreshFor(D, x)'
      BY <1>9, Two DEF SameRole
    <3>2. FreshInv(x)'
      <4>1. FreshInv(x)
        BY <1>1 DEF Handover
      <4> QED
        BY <1>2, <1>15, <3>1, <4>1 DEF FreshInv
    <3>3. FlowInv(x)'
      BY <1>2, <1>7, <1>15, <2>2 DEF FlowInv, Underway
    <3>4. c \in mgr'[A].listening
      BY <1>2, <1>4, <1>7, Two DEF CanJoin
    <3>5. JoinInv(x)'
      BY <1>15, <1>16, <2>2, <3>4 DEF JoinInv
    <3> QED
      BY <3>2, <3>3, <3>5
  <2> QED
    BY <2>1, <2>3 DEF OffersFine
<1> QED
  BY <1>1, <1>8, <1>12, <1>14, <1>17, OfferTogether

\* UPGRADE_PATH_AVAILABLE is answered: joined, or refused (ProcessBwuPathAvailableEvent).
LEMMA ProcessPathHandover ==
  ASSUME Now, NEW p \in Peers, ProcessPath(p)
  PROVE  Handover'
<1> DEFINE c == Arg(p)
           mine == IF mgr[p].medium = None THEN [mgr[p] EXCEPT !.medium = link[c].medium]
                   ELSE mgr[p]
<1>1. /\ TypeOK /\ WireInv /\ RoleInv /\ Handover /\ Fine
      /\ mgr \in [Peers -> Managers] /\ link \in [Channels -> Links]
  BY DEF Now, TypeOK, ChannelsTypeOK
<1>2. Task(p, "PATH") /\ ThreadStep(p) /\ UNCHANGED <<conn, workerVars, hist, opened>>
  BY DEF ProcessPath, ThreadStep
<1>3. p = Discoverer /\ c \in Channels /\ ~mgr[p].inProgress /\ p # Advertiser
  BY <1>1, <1>2, PathState, Two
<1>4. /\ mine \in Managers /\ mine.previous = mgr[p].previous
      /\ mine.upgraded = mgr[p].upgraded /\ mine.inProgress = mgr[p].inProgress
  BY <1>1, <1>3 DEF Managers, Links
<1>5. \/ /\ UNCHANGED <<mgr, channelVars, link>> /\ At(p, "fail", c, None) /\ TakeTask(p)
      \/ conn[p].connected /\ Join(p, c, mine)
      \/ JoinFails(p, c, mine)
  BY <1>3 DEF ProcessPath
<1> HIDE DEF mine, c
<1>6. CASE UNCHANGED <<mgr, channelVars, link>> /\ At(p, "fail", c, None) /\ TakeTask(p)
  BY <1>2, <1>3, <1>6, PathRefused DEF channelVars, c
<1>7. CASE conn[p].connected /\ Join(p, c, mine)
  BY <1>2, <1>3, <1>4, <1>7, PathJoined DEF c
<1>8. CASE JoinFails(p, c, mine)
  <2>1. /\ ManagerOf(p, mine) /\ At(p, "fail", c, None) /\ TakeTask(p)
        /\ UNCHANGED <<chan, net, seq, link>>
    BY <1>8 DEF JoinFails, channelVars
  <2>2. mgr'[p] = mine
    BY <1>1, <2>1 DEF ManagerOf
  <2> QED
    BY <1>2, <1>3, <1>4, <2>1, <2>2, PathRefused DEF c
<1> QED
  BY <1>5, <1>6, <1>7, <1>8

\* No read alarm fires.
LEMMA NoAlarm ==
  ASSUME TypeOK, Undisturbed
  PROVE  ~Adverse("read alarm")
<1>1. faults \in 0..MaxFaults
  BY DEF TypeOK, ChannelsTypeOK
<1>2. MaxFaults = 0 => ~(faults < MaxFaults)
  BY <1>1
<1> QED
  BY <1>2 DEF Undisturbed, Adverse, Fault

\* What AwaitAck reads is the answer to CLIENT_INTRODUCTION: nothing else is in flight
\* on the new channel.
LEMMA AckRead ==
  ASSUME Now, NEW p \in Peers, AwaitAck(p)
  PROVE  LET c == bwu[p].chan
         IN  /\ bwu[p].pc = "ack" /\ p = Discoverer /\ ThreadStep(p)
             /\ UNCHANGED <<seq, link, conn, workerVars, tasks, hist, opened, requests>>
             /\ c \in Channels /\ Switching(Discoverer, c) /\ Stage(p) = "ease"
             /\ UNCHANGED <<chan, faults>>
             /\ mgr' = [mgr EXCEPT ![p].inProgress = TRUE] /\ At(p, "replace", c, None)
             /\ Takes(Advertiser, c) /\ Head(net[Advertiser][c]).kind \in {"INTRO", "ACK"}
<1> DEFINE A == Advertiser
           D == Discoverer
<1>0. PICK c : c = bwu[p].chan
  OBVIOUS
<1>1. /\ TypeOK /\ TypeOK' /\ WireInv /\ RoleInv /\ Handover /\ Fine
      /\ bwu \in [Peers -> Threads] /\ mgr \in [Peers -> Managers]
  BY DEF Now, TypeOK
<1>2. /\ bwu[p].pc = "ack" /\ p = D /\ ThreadStep(p)
      /\ UNCHANGED <<seq, link, conn, workerVars, tasks, hist, opened, requests>>
  <2>1. p # A
    BY <1>1 DEF AwaitAck, RoleInv
  <2> QED
    BY <2>1, Two DEF AwaitAck, ThreadStep
<1>3. c \in Channels /\ Switching(D, c) /\ Stage(p) = "ease"
  <2>1. bwu[p] \in Threads
    BY <1>1
  <2> QED
    BY <1>0, <1>1, <1>2, <2>1, Standing DEF Switching, Threads
<1>4. FreshFor(D, c) /\ JoinInv(c) /\ FreshInv(c)
  BY <1>1, <1>3 DEF Handover, FreshInv
<1>5. ~ReadFails(p, c)
  BY <1>1, <1>2, <1>3, <1>4, Open DEF ReadFails, FreshFor
<1>6. /\ CanRead(p, c) /\ net' = Popped(p, c) /\ UNCHANGED <<chan, faults>>
      /\ mgr' = [mgr EXCEPT ![p].inProgress = TRUE] /\ At(p, "replace", c, None)
  BY <1>0, <1>1, <1>5, NoAlarm DEF AwaitAck, Now
<1>7. Takes(A, c)
  BY <1>1, <1>2, <1>3, <1>6, PoppedTakes, Two
<1>8. Mute(A, c)
  <2>1. FreshFor(A, c) \/ (Stage(A) \in Early /\ Act(A) = c)
    BY <1>3, <1>4 DEF JoinInv, FreshInv
  <2>2. ~chan[A][c].closed
    BY <1>1, <1>3, <1>4, Open, Two DEF FreshFor
  <2> QED
    BY <1>1, <2>1, <2>2, Standing, Two DEF FreshFor, Mute, Early
<1>9. Head(net[A][c]).kind \in {"INTRO", "ACK"}
  <2>1. Only(net[A][c], {"INTRO", "ACK"})
    BY <1>1, <1>3, <1>8, Two DEF Handover, QueueInv
  <2>2. net[A][c] # << >> /\ net[A][c] \in Seq(Frames)
    BY <1>1, <1>3, <1>7, SidesTyped, Two DEF Takes
  <2> QED
    BY <2>1, <2>2, TailKinds
<1> QED
  BY <1>0, <1>2, <1>3, <1>6, <1>7, <1>9

\* The acknowledgement of CLIENT_INTRODUCTION is read (ReadClientIntroductionAckFrame).
LEMMA AwaitAckHandover ==
  ASSUME Now, NEW p \in Peers, AwaitAck(p)
  PROVE  Handover'
<1> DEFINE A == Advertiser
           D == Discoverer
<1>0. PICK c : c = bwu[p].chan
  OBVIOUS
<1>1. /\ TypeOK /\ TypeOK' /\ WireInv /\ RoleInv /\ Handover /\ Fine
      /\ bwu \in [Peers -> Threads] /\ mgr \in [Peers -> Managers]
  BY DEF Now, TypeOK
<1>2. /\ bwu[p].pc = "ack" /\ p = D /\ ThreadStep(p)
      /\ UNCHANGED <<seq, link, conn, workerVars, tasks, hist, opened, requests>>
  BY AckRead
<1>3. c \in Channels /\ Switching(D, c) /\ Stage(p) = "ease"
  BY <1>0, AckRead
<1>6. /\ UNCHANGED <<chan, faults>>
      /\ mgr' = [mgr EXCEPT ![p].inProgress = TRUE] /\ At(p, "replace", c, None)
  BY <1>0, AckRead
<1>7. Takes(A, c) /\ Head(net[A][c]).kind \in {"INTRO", "ACK"}
  BY <1>0, AckRead
<1>10. /\ bwu'[p].pc = "replace" /\ bwu'[p].chan = c /\ mgr'[A] = mgr[A]
       /\ mgr'[p].previous = mgr[p].previous /\ mgr'[p].upgraded = mgr[p].upgraded
       /\ mgr'[p].inProgress /\ \A r \in Peers : tasks'[r] = tasks[r]
  <2>1. bwu'[p].pc = "replace" /\ bwu'[p].chan = c
    BY <1>1, <1>6 DEF At
  <2>2. mgr[p] \in Managers
    BY <1>1
  <2>3. /\ mgr'[p].previous = mgr[p].previous /\ mgr'[p].upgraded = mgr[p].upgraded
        /\ mgr'[p].inProgress
    BY <1>1, <1>6, <2>2 DEF Managers
  <2> QED
    BY <1>1, <1>2, <1>6, <2>1, <2>3, Two
<1>11. KeepsTasks({})
  BY <1>1, <1>2, TasksKeep
<1>12. OfferStep(p, {})
  BY <1>2, <1>3, <1>6, <1>10, <1>11 DEF OfferStep, Asking, OfferSteps
<1>13. /\ QuietView /\ QuietDue /\ \A r \in Peers : DeviceFine(r)'
       /\ \A r \in Peers : r # p => QuietThread(r)
  BY <1>1, <1>12, OfferMove
<1>14. \A r \in Peers : QuietThread(r)
  BY <1>0, <1>2, <1>10, <1>13 DEF QuietThread
<1>15. \A r \in Peers, x \in Channels : InClear(r, x)
  BY <1>7 DEF InClear, Takes, Clear
<1>16. (\A r \in Peers : WireFine(r)') /\ QuietNet
  BY <1>1, <1>2, <1>13, <1>15, ClearKept
<1>17. KeepsNet({Head(net[A][c]).kind})
  BY <1>1, <1>3, <1>7, NetKeeps, Two
<1>18. ConnectedInv'
  <2>1. conn[p].connected
    BY <1>1, <1>2 DEF Handover, ConnectedInv
  <2> QED
    BY <1>1, <1>2, <1>10, <2>1, ConnectedKept, Two
<1> DEFINE kinds == {Head(net[A][c]).kind}
<1>19. KeepsNet(kinds) /\ "PATH" \notin kinds /\ "FAIL" \notin kinds
  BY <1>7, <1>17
<1> HIDE DEF kinds
<1> QED
  BY <1>1, <1>2, <1>10, <1>11, <1>13, <1>14, <1>16, <1>18, <1>19, QuietStep

\* The Discoverer answers an offer with UPGRADE_FAILURE (RunUpgradeFailedProtocol).
LEMMA WriteFailureHandover ==
  ASSUME Now, NEW p \in Peers, WriteFailure(p)
  PROVE  Handover'
<1> DEFINE A == Advertiser
           D == Discoverer
<1>0. PICK c, a : c = bwu[p].chan /\ a = Act(p)
  OBVIOUS
<1>1. /\ TypeOK /\ TypeOK' /\ WireInv /\ RoleInv /\ Handover /\ Fine
      /\ bwu \in [Peers -> Threads] /\ mgr \in [Peers -> Managers]
  BY DEF Now, TypeOK
<1>2. /\ bwu[p].pc = "fail" /\ p = D /\ ThreadStep(p) /\ Idle(p)
      /\ UNCHANGED <<link, faults, conn, workerVars, tasks, hist, opened, requests>>
  <2>1. p # A
    BY <1>1 DEF WriteFailure, RoleInv
  <2> QED
    BY <2>1, Two DEF WriteFailure, ThreadStep
<1>3. c \in Channels /\ FailAt(c) /\ Failing(c) /\ Stage(p) = "ease"
  <2>1. bwu[p] \in Threads
    BY <1>1
  <2> QED
    BY <1>0, <1>1, <1>2, <2>1, Standing DEF FailAt, Failing, Threads
<1>4. a \in Channels /\ a \notin hist[p].safe /\ a # None
  BY <1>0, <1>1, Standing, NoneIsNoChannel
<1>5. ~WriteFailed(p, a)
  BY <1>1, <1>4, FailsInClear
<1>6. /\ Written(p, a, "FAIL", c) /\ UNCHANGED chan
      /\ ManagerOf(p, [RevertedFor(p, a, mgr[p]) EXCEPT !.inProgress = FALSE])
  BY <1>0, <1>4, <1>5 DEF WriteFailure, Act
<1>7. /\ mgr'[p].previous = mgr[p].previous /\ mgr'[p].upgraded = mgr[p].upgraded
      /\ ~mgr'[p].inProgress /\ mgr'[A] = mgr[A] /\ bwu'[p].pc = "idle" /\ bwu'[A] = bwu[A]
      /\ \A r \in Peers : tasks'[r] = tasks[r]
  <2>1. mgr[p] \in Managers /\ RevertedFor(p, a, mgr[p]) = [mgr[p] EXCEPT !.medium = None]
    BY <1>1, <1>2, Two DEF RevertedFor
  <2>2. mgr'[p] = [[mgr[p] EXCEPT !.medium = None] EXCEPT !.inProgress = FALSE]
    BY <1>1, <1>6, <2>1, ManagerOfOthers
  <2>3. /\ mgr'[p].previous = mgr[p].previous /\ mgr'[p].upgraded = mgr[p].upgraded
        /\ ~mgr'[p].inProgress
    BY <2>1, <2>2 DEF Managers
  <2> QED
    BY <1>1, <1>2, <2>3, IdleOthers, ThreadApart, Two DEF Apart
<1>8. KeepsTasks({})
  BY <1>1, <1>2, TasksKeep
<1>9. OfferStep(p, {})
  BY <1>2, <1>3, <1>6, <1>7, <1>8 DEF OfferStep, Asking, OfferSteps
<1>10. QuietView
  BY <1>1, <1>9, OfferMove
<1> DEFINE f == FrameOf(p, a, "FAIL", c)
<1>11. /\ \A r \in Peers : WireFine(r)'
       /\ QuietNet /\ Appends(p, a, f) /\ f.kind = "FAIL" /\ f.arg = c
  <2>1. [kind |-> "FAIL", seq |-> 0, arg |-> c] \in Frames
    BY <1>3 DEF Frames, FrameKinds, Negotiation
  <2>2. "FAIL" \in Plain
    BY DEF Plain
  <2> QED
    BY <1>0, <1>1, <1>4, <1>6, <1>10, <2>1, <2>2, WriteKept DEF QuietView, WireFine
<1> HIDE DEF f
<1>12. KeepsNet({"FAIL"})
  BY <1>1, <1>4, <1>11, NetKeeps
<1>13. /\ c = opened /\ opened > 0 /\ mgr[A].inProgress /\ Stage(A) = "ease"
       /\ ~FailSent(c) /\ ~FailGot(c)
       /\ \A x \in Channels :
            /\ ~Arriving(x) /\ ~Switching(D, x) /\ ~Offered(x) /\ (Failing(x) => x = c)
  <2>1. \A x \in Channels : FlowInv(x)
    BY <1>1 DEF Handover
  <2>2. /\ c = opened /\ opened > 0 /\ mgr[A].inProgress /\ Stage(A) = "ease"
        /\ ~FailSent(c) /\ ~FailGot(c) /\ ~Arriving(c) /\ ~Switching(D, c) /\ ~Offered(c)
    BY <1>3, <2>1 DEF FlowInv, Underway, FailsOnce
  <2>3. \A x \in Channels : (Underway(x) => x = c) /\ ~PathAt(x)
    BY <2>1, <2>2 DEF FlowInv
  <2> QED
    BY <2>2, <2>3 DEF Underway, Offered
<1>14. ASSUME NEW x \in Channels
       PROVE  /\ ~Arriving(x)' /\ ~Switching(D, x)' /\ ~Offered(x)'
              /\ (Failing(x)' => x = c) /\ FailsOnce(x)'
  <2>1. ~Arriving(x)' /\ ~Switching(D, x)'
    BY <1>2, <1>7, <1>13, Two DEF Arriving, Accepted, Switching
  <2>2. ~Offered(x)'
    BY <1>7, <1>12, <1>13, Two DEF Offered, PathAt, PathSent, PathGot, KeepsNet, Keeps
  <2>3. net[D][a] \in Seq(Frames) /\ f \in Frames /\ net'[D][a] = Append(net[D][a], f)
    BY <1>1, <1>2, <1>4, <1>11, SidesTyped DEF Appends
  <2>4. \A d \in Channels : d # a => net'[D][d] = net[D][d]
    BY <1>2, <1>11 DEF Appends
  <2>5. /\ Has(net'[D][a], "FAIL", x) <=> Has(net[D][a], "FAIL", x) \/ x = c
        /\ Once(net[D][a], "FAIL", x) /\ (x = c => ~Has(net[D][a], "FAIL", x)) =>
             Once(net'[D][a], "FAIL", x)
    BY <1>11, <2>3, AppendKinds
  <2>6. FailsOnce(x) /\ (x = c => \A d \in Channels : ~Has(net[D][d], "FAIL", x))
    BY <1>1, <1>13 DEF Handover, FlowInv, FailSent
  <2>7. ~FailAt(x)' /\ (FailSent(x)' => FailSent(x) \/ x = c) /\ (FailGot(x)' <=> FailGot(x))
    BY <1>2, <1>4, <1>7, <2>4, <2>5, Two DEF FailAt, FailSent, FailGot
  <2>8. \A d \in Channels : Once(net'[D][d], "FAIL", x)
    BY <2>4, <2>5, <2>6 DEF FailsOnce
  <2>9. \A d, e \in Channels :
          Has(net'[D][d], "FAIL", x) /\ Has(net'[D][e], "FAIL", x) => d = e
    BY <2>4, <2>5, <2>6 DEF FailsOnce
  <2>10. FailSent(x)' => ~FailGot(x)'
    BY <1>13, <2>6, <2>7 DEF FailsOnce
  <2>11. Once(tasks'[A], "FAIL", x)
    BY <1>7, <2>6, Two DEF FailsOnce
  <2>12. FailsOnce(x)'
    BY <2>7, <2>8, <2>9, <2>10, <2>11 DEF FailsOnce
  <2>13. Failing(x)' => x = c
    BY <1>13, <2>7 DEF Failing
  <2> QED
    BY <2>1, <2>2, <2>12, <2>13
<1>15. OffersFine'
  <2>1. NoneAfter(tasks'[D], "PATH", "SAFE")
    BY <1>1, <1>7, Two DEF Handover, BehindInv
  <2>2. opened' >= opened /\ opened' \in Nat /\ opened' = c /\ opened' > 0
    BY <1>1, <1>2, <1>13, OpenedTyped
  <2>3. \A r \in Peers : SameView(r)
    BY <1>10 DEF QuietView
  <2> QED
    BY <1>1, <1>7, <1>13, <1>14, <2>1, <2>2, <2>3, OfferAlone DEF Offered
<1>16. ConnectedInv'
  BY <1>1, <1>2, <1>7, ConnectedKept, Two
<1> QED
  BY <1>1, <1>9, <1>11, <1>15, <1>16, OfferTogether

\* A socket BwuManager hears of is the offered channel's, the upgrade is under way, and
\* the introduction is at hand.
LEMMA IncomingRead ==
  ASSUME Now, NEW p \in Peers, IncomingConnection(p)
  PROVE  LET c == Arg(p)
             A == Advertiser
             D == Discoverer
         IN  /\ Task(p, "INCOMING") /\ TakeTask(p) /\ ThreadStep(p)
             /\ UNCHANGED <<seq, link, conn, workerVars, hist, opened, requests>>
             /\ p = A /\ c \in Channels /\ Accepted(c) /\ bwu[p].pc = "idle" /\ tasks[p] # << >>
             /\ tasks[p] \in Seq(Tasks) /\ Head(tasks[p]).kind = "INCOMING"
             /\ Head(tasks[p]).arg = c
             /\ Arriving(c) /\ FreshFor(A, c) /\ JoinInv(c) /\ FreshInv(c) /\ FlowInv(c)
             /\ mgr[p].inProgress /\ Stage(p) = "ease"
             /\ ~Down(p, c) /\ ~chan[D][c].closed
             /\ CanRead(p, c)
             /\ net' = [net EXCEPT ![D][c] = Tail(@), ![A][c] = @ \o IntroductionAnswer]
             /\ mgr' = [mgr EXCEPT ![p].retry = FALSE] /\ At(p, "replace", c, None) /\ UNCHANGED chan
             /\ Mute(D, c) /\ net[D][c] # << >> /\ net[D][c] \in Seq(Frames)
             /\ net[A][c] \in Seq(Frames) /\ Head(net[D][c]).kind \in {"INTRO", "ACK"}
<1> DEFINE A == Advertiser
           D == Discoverer
<1>0. PICK c : c = Arg(p)
  OBVIOUS
<1>1. /\ TypeOK /\ TypeOK' /\ WireInv /\ RoleInv /\ Handover /\ Fine
      /\ bwu \in [Peers -> Threads] /\ mgr \in [Peers -> Managers]
      /\ net \in [Peers -> [Channels -> Seq(Frames)]]
  BY DEF Now, TypeOK, ChannelsTypeOK
<1>2. /\ Task(p, "INCOMING") /\ TakeTask(p) /\ ThreadStep(p)
      /\ UNCHANGED <<seq, link, conn, workerVars, hist, opened, requests>>
  BY DEF IncomingConnection, ThreadStep
<1>3. /\ p = A /\ c \in Channels /\ Accepted(c) /\ bwu[p].pc = "idle" /\ tasks[p] # << >>
      /\ tasks[p] \in Seq(Tasks) /\ Head(tasks[p]).kind = "INCOMING" /\ Head(tasks[p]).arg = c
  <2>1. /\ p = A /\ c \in Channels /\ Has(tasks[p], "INCOMING", c) /\ bwu[p].pc = "idle"
        /\ tasks[p] # << >>
    BY <1>0, <1>1, <1>2, TaskFor
  <2> QED
    BY <1>0, <1>1, <1>2, <2>1 DEF Accepted, Task, Arg, TypeOK, WorkersTypeOK
<1>4. Arriving(c) /\ FreshFor(A, c) /\ JoinInv(c) /\ FreshInv(c) /\ FlowInv(c)
  BY <1>1, <1>3 DEF Handover, FreshInv, Arriving
<1>5. mgr[p].inProgress /\ Stage(p) = "ease"
  BY <1>3, <1>4 DEF FlowInv, Underway
<1>6. ~Down(p, c) /\ ~chan[D][c].closed
  BY <1>1, <1>3, <1>4, Open, Two DEF FreshFor
<1>7. /\ CanRead(p, c)
      /\ net' = [net EXCEPT ![D][c] = Tail(@), ![A][c] = @ \o IntroductionAnswer]
      /\ mgr' = [mgr EXCEPT ![p].retry = FALSE] /\ At(p, "replace", c, None) /\ UNCHANGED chan
  BY <1>0, <1>1, <1>3, <1>5, <1>6, NoAlarm, Two DEF IncomingConnection, Now
<1>8. Mute(D, c)
  <2>1. FreshFor(D, c) \/ (Stage(D) \in Early /\ Act(D) = c)
    BY <1>4 DEF JoinInv, FreshInv
  <2> QED
    BY <1>1, <1>6, <2>1, Standing, Two DEF FreshFor, Mute, Early
<1>9. /\ net[D][c] # << >> /\ net[D][c] \in Seq(Frames) /\ net[A][c] \in Seq(Frames)
      /\ Head(net[D][c]).kind \in {"INTRO", "ACK"}
  <2>1. Only(net[D][c], {"INTRO", "ACK"})
    BY <1>1, <1>3, <1>8, Two DEF Handover, QueueInv
  <2>2. net[D][c] # << >> /\ net[D][c] \in Seq(Frames) /\ net[A][c] \in Seq(Frames)
    BY <1>1, <1>3, <1>7, SidesTyped, Two DEF CanRead, Incoming
  <2> QED
    BY <2>1, <2>2, TailKinds
<1> QED
  BY <1>0, <1>2, <1>3, <1>4, <1>5, <1>6, <1>7, <1>8, <1>9

\* Accepting the offered channel passes the offer on: CLIENT_INTRODUCTION is read, and
\* acknowledged in clear (OnIncomingConnection).
LEMMA IncomingHandover ==
  ASSUME Now, NEW p \in Peers, IncomingConnection(p)
  PROVE  Handover'
<1> DEFINE A == Advertiser
           D == Discoverer
<1>0. PICK c : c = Arg(p)
  OBVIOUS
<1>1. /\ TypeOK /\ TypeOK' /\ WireInv /\ RoleInv /\ Handover /\ Fine
      /\ bwu \in [Peers -> Threads] /\ mgr \in [Peers -> Managers]
      /\ net \in [Peers -> [Channels -> Seq(Frames)]]
  BY DEF Now, TypeOK, ChannelsTypeOK
<1>2. /\ Task(p, "INCOMING") /\ TakeTask(p) /\ ThreadStep(p)
      /\ UNCHANGED <<seq, link, conn, workerVars, hist, opened, requests>>
  BY <1>0, IncomingRead
<1>3. /\ p = A /\ c \in Channels /\ Accepted(c) /\ bwu[p].pc = "idle" /\ tasks[p] # << >>
      /\ tasks[p] \in Seq(Tasks) /\ Head(tasks[p]).kind = "INCOMING" /\ Head(tasks[p]).arg = c
  BY <1>0, IncomingRead
<1>4. Arriving(c) /\ FreshFor(A, c) /\ JoinInv(c) /\ FreshInv(c) /\ FlowInv(c)
  BY <1>0, IncomingRead
<1>5. mgr[p].inProgress /\ Stage(p) = "ease"
  BY <1>0, IncomingRead
<1>6. ~Down(p, c) /\ ~chan[D][c].closed
  BY <1>0, IncomingRead
<1>7. /\ CanRead(p, c)
      /\ net' = [net EXCEPT ![D][c] = Tail(@), ![A][c] = @ \o IntroductionAnswer]
      /\ mgr' = [mgr EXCEPT ![p].retry = FALSE] /\ At(p, "replace", c, None) /\ UNCHANGED chan
  BY <1>0, IncomingRead
<1>8. Mute(D, c)
  BY <1>0, IncomingRead
<1>9. /\ net[D][c] # << >> /\ net[D][c] \in Seq(Frames) /\ net[A][c] \in Seq(Frames)
      /\ Head(net[D][c]).kind \in {"INTRO", "ACK"}
  BY <1>0, IncomingRead
<1> DEFINE f == [kind |-> "ACK", seq |-> 0, arg |-> 0]
<1>10. f \in Frames /\ f.kind = "ACK" /\ f.seq = 0
  BY ConstantsTyped DEF Frames, FrameKinds, Negotiation
<1>11. /\ net'[D][c] = Tail(net[D][c])
       /\ net'[A][c] = Append(net[A][c], f) \/ net'[A][c] = net[A][c]
       /\ \A r \in Peers, x \in Channels : x # c => net'[r][x] = net[r][x]
  <2>1. /\ net'[D][c] = Tail(net[D][c]) /\ net'[A][c] = net[A][c] \o IntroductionAnswer
        /\ \A r \in Peers, x \in Channels : x # c => net'[r][x] = net[r][x]
    BY <1>1, <1>3, <1>7, Two
  <2>2. net[A][c] \o <<f>> = Append(net[A][c], f)
    BY <1>9, <1>10
  <2>3. net[A][c] \o << >> = net[A][c]
    BY <1>9
  <2> QED
    BY <2>1, <2>2, <2>3 DEF IntroductionAnswer
<1> HIDE DEF f
<1>12. /\ bwu'[p].pc = "replace" /\ bwu'[p].chan = c
       /\ mgr'[p].previous = mgr[p].previous /\ mgr'[p].upgraded = mgr[p].upgraded
       /\ mgr'[p].inProgress /\ mgr'[p].listening = mgr[p].listening
       /\ \A r \in Peers : r # p => tasks'[r] = tasks[r] /\ bwu'[r] = bwu[r]
       /\ tasks'[p] = Tail(tasks[p])
  <2>1. bwu'[p].pc = "replace" /\ bwu'[p].chan = c /\ \A r \in Peers : r # p => bwu'[r] = bwu[r]
    BY <1>1, <1>7 DEF At
  <2>2. /\ mgr'[p].previous = mgr[p].previous /\ mgr'[p].upgraded = mgr[p].upgraded
        /\ mgr'[p].inProgress /\ mgr'[p].listening = mgr[p].listening
    BY <1>1, <1>5, <1>7 DEF Managers
  <2>3. tasks'[p] = Tail(tasks[p]) /\ \A r \in Peers : r # p => tasks'[r] = tasks[r]
    BY <1>1, <1>2 DEF TakeTask, TypeOK, WorkersTypeOK
  <2> QED
    BY <2>1, <2>2, <2>3
<1>13. KeepsTasks({"INCOMING"})
  BY <1>1, <1>2, TasksKeep
<1>14. OfferStep(p, {"INCOMING"})
  BY <1>2, <1>3, <1>5, <1>7, <1>12, <1>13, Two DEF OfferStep, Asking, OfferSteps
<1>15. QuietView /\ SameRole
  BY <1>1, <1>14, OfferMove
<1>16. \A r \in Peers, x \in Channels : InClear(r, x)
  <2>1. Belongs(A, c, f)
    BY <1>4, <1>10 DEF Belongs, FreshFor, Clear
  <2>2. InClear(A, c) /\ InClear(D, c)
    BY <1>9, <1>10, <1>11, <2>1 DEF InClear, Clear
  <2>3. ASSUME NEW r \in Peers, NEW x \in Channels, x # c
        PROVE  InClear(r, x)
    BY <1>11, <2>3 DEF InClear
  <2>4. \A r \in Peers : InClear(r, c)
    BY <2>2, Two
  <2> QED
    BY <2>3, <2>4
<1>17. (\A r \in Peers : WireFine(r)') /\ QuietNet
  BY <1>1, <1>2, <1>15, <1>16, ClearKept
<1>18. KeepsNet({"INTRO", "ACK"})
  <2>1. Keeps(net'[D][c], net[D][c], {"INTRO", "ACK"})
    <3>1. Keeps(Tail(net[D][c]), net[D][c], {Head(net[D][c]).kind})
      BY <1>9, KeepsKinds
    <3> QED
      BY <1>9, <1>11, <3>1 DEF Keeps
  <2>2. Keeps(net'[A][c], net[A][c], {"INTRO", "ACK"})
    <3>1. Keeps(Append(net[A][c], f), net[A][c], {f.kind})
      BY <1>9, <1>10, KeepsKinds
    <3> QED
      BY <1>10, <1>11, <3>1 DEF Keeps
  <2>3. \A r \in Peers, x \in Channels : net'[r][x] = net[r][x] =>
           Keeps(net'[r][x], net[r][x], {"INTRO", "ACK"})
    BY DEF Keeps
  <2> QED
    BY <1>11, <2>1, <2>2, <2>3, Two DEF KeepsNet
<1>19. FewerOffers
  <2>1. ASSUME NEW x \in Channels
        PROVE  Arriving(x)' <=> Arriving(x)
    <3>1. Has(tasks[A], "INCOMING", x) <=> x = c \/ Has(Tail(tasks[A]), "INCOMING", x)
      BY <1>3, TailKinds
    <3>2. Switching(A, x)' <=> x = c
      BY <1>3, <1>12 DEF Switching
    <3>3. ~Switching(A, x) /\ (link'[x].dialled <=> link[x].dialled)
      BY <1>2, <1>3 DEF Switching
    <3>4. (Accepted(x) <=> x = c \/ Accepted(x)')
      BY <1>3, <1>12, <3>1 DEF Accepted
    <3> QED
      BY <3>2, <3>3, <3>4 DEF Arriving
  <2>2. ASSUME NEW x \in Channels
        PROVE  /\ ~PathAt(x)' /\ (PathSent(x)' <=> PathSent(x)) /\ (PathGot(x)' <=> PathGot(x))
               /\ Switching(D, x)' <=> Switching(D, x)
               /\ Failing(x)' <=> Failing(x)
               /\ FailsOnce(x) => FailsOnce(x)'
    <3>1. ~PathAt(x)' /\ (PathSent(x)' <=> PathSent(x)) /\ (PathGot(x)' <=> PathGot(x))
      BY <1>3, <1>12, <1>18, Two DEF PathAt, PathSent, PathGot, KeepsNet, Keeps
    <3>2. (Switching(D, x)' <=> Switching(D, x)) /\ (FailAt(x)' <=> FailAt(x))
      BY <1>3, <1>12, Two DEF Switching, FailAt
    <3>3. (FailSent(x)' <=> FailSent(x)) /\ (FailGot(x)' <=> FailGot(x))
      BY <1>13, <1>18, Two DEF FailSent, FailGot, KeepsNet, KeepsTasks, Keeps
    <3>4. FailsOnce(x) => FailsOnce(x)'
      <4>1. \A d \in Channels :
              /\ Has(net'[D][d], "FAIL", x) <=> Has(net[D][d], "FAIL", x)
              /\ Once(net[D][d], "FAIL", x) => Once(net'[D][d], "FAIL", x)
        BY <1>18, Two DEF KeepsNet, Keeps
      <4>2. Once(tasks[A], "FAIL", x) => Once(tasks'[A], "FAIL", x)
        BY <1>13, Two DEF KeepsTasks, Keeps
      <4> QED
        BY <3>2, <3>3, <4>1, <4>2 DEF FailsOnce
    <3> QED
      BY <3>1, <3>2, <3>3, <3>4 DEF Failing
  <2>3. NoneAfter(tasks[D], "PATH", "SAFE") => NoneAfter(tasks'[D], "PATH", "SAFE")
    BY <1>3, <1>12, Two
  <2> QED
    BY <1>2, <1>3, <1>12, <2>1, <2>2, <2>3 DEF FewerOffers
<1>20. OffersFine'
  BY <1>1, <1>15, <1>19, OffersKept
<1>21. ConnectedInv'
  <2>1. conn[p].connected
    BY <1>1, <1>3, <1>4 DEF Handover, ConnectedInv, FlowInv, Underway
  <2> QED
    BY <1>1, <1>2, <1>3, <2>1, ConnectedKept, Two
<1> QED
  BY <1>1, <1>14, <1>17, <1>20, <1>21, OfferTogether

\* A shutdown frame, or a failed attempt, is always expected while the endpoint is
\* registered, and its disconnection is not processed then.
LEMMA NeverDropped ==
  ASSUME Now, NEW p \in Peers
  PROVE  ~DropFrame(p) /\ ~EndpointDisconnected(p)
<1>1. TypeOK /\ WireInv /\ RoleInv /\ Handover /\ Fine
  BY DEF Now
<1>2. ~EndpointDisconnected(p)
  BY <1>1, TaskFor DEF EndpointDisconnected
<1>3. ASSUME Task(p, "LAST") \/ Task(p, "SAFE")
      PROVE  Expected(p)
  <2>1. (LastGot(p) \/ SafeGot(p)) /\ bwu[p].pc = "idle"
    BY <1>1, <1>3, TaskFor DEF LastGot, SafeGot
  <2> QED
    BY <1>1, <2>1, Awaited DEF Expected
<1>4. ASSUME Task(p, "FAIL")
      PROVE  conn[p].connected
  <2>1. p = Advertiser /\ Arg(p) \in Channels /\ Has(tasks[p], "FAIL", Arg(p))
    BY <1>1, <1>4, TaskFor DEF Negotiation
  <2>2. PICK c \in Channels : Has(tasks[p], "FAIL", c)
    BY <2>1
  <2>3. opened > 0
    BY <1>1, <2>1, <2>2 DEF Handover, FlowInv, Underway, Failing, FailGot
  <2> QED
    BY <1>1, <2>1, <2>3 DEF Handover, ConnectedInv
<1> QED
  BY <1>2, <1>3, <1>4 DEF DropFrame

=============================================================================
