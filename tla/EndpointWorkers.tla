--------------------------- MODULE EndpointWorkers ---------------------------
(***************************************************************************)
(* The threads EndpointManager runs for one connected endpoint, on both    *)
(* devices: the reader and the KeepAlive worker (EndpointChannelLoop-      *)
(* Runnable), a payload thread in SendTransferFrameBytes, and the endpoint *)
(* manager thread that removes the endpoint.  Every worker fetches the     *)
(* active channel from EndpointChannelManager first and uses it later.     *)
(*                                                                         *)
(* Safe-to-disconnect is off for the endpoint (kEnableSafeToDisconnect,    *)
(* default false).                                                         *)
(***************************************************************************)
EXTENDS EndpointChannels

CONSTANTS
    FilterUnconfirmed,    \* kFilterUnconfirmedEndpointFrames (default true)
    InitiallyConnected,   \* devices whose client already reports the connection
    MaxPayloads,          \* bound per device: DATA frames written
    MaxKeepAlives         \* bound per device: KEEP_ALIVE frames written

ASSUME WorkersTyped ==
    /\ FilterUnconfirmed \in BOOLEAN
    /\ InitiallyConnected \subseteq Peers
    /\ MaxPayloads \in [Peers -> Nat]
    /\ MaxKeepAlives \in [Peers -> Nat]

VARIABLES
    conn,    \* conn[p]: the endpoint in EndpointChannelManager and ClientProxy
    reader,  \* reader[p]: the reader worker
    keeper,  \* keeper[p]: the KeepAlive worker
    writer,  \* writer[p]: a payload thread
    tasks,   \* tasks[p]: what is queued on p's BwuManager thread
    hist     \* hist[p]: history, never read by an action's guard

workerVars == <<reader, keeper, writer>>

Tasks ==
    [kind : Negotiation \cup {"INCOMING", "OVER"}, arg : Channels]
    \cup [kind : {"INIT", "RETRY"}, arg : Mediums \cup {None}]

\* em: what the endpoint manager thread has done about removing the endpoint.
Connections ==
    [active : Channels, connected : BOOLEAN, leaving : BOOLEAN, em : {"up", "closing"}]
    \cup [active : {None}, connected : BOOLEAN, leaving : BOOLEAN,
          em : {"removing", "cleaned", "gone"}]
Loops == [pc : {"fetch", "idle", "read", "ack", "done"},
          chan : Channels, failed : Mediums \cup {None}, count : Nat]
Histories == [got : Seq(Nat), intime : SUBSET Nat, overdue : SUBSET Nat,
              safe : SUBSET Channels, late : BOOLEAN, desync : BOOLEAN,
              notified : SUBSET Channels]

WorkersTypeOK ==
    /\ conn \in [Peers -> Connections]
    /\ reader \in [Peers -> Loops]
    /\ keeper \in [Peers -> Loops]
    /\ writer \in [Peers -> Loops]
    /\ tasks \in [Peers -> Seq(Tasks)]
    /\ hist \in [Peers -> Histories]

\* The workers of an established connection hold channel 0; payload threads
\* start later.
StartedLoop(pc) == [pc |-> pc, chan |-> 0, failed |-> None, count |-> 0]

WorkersInit ==
    /\ conn = [p \in Peers |-> [active |-> 0, connected |-> p \in InitiallyConnected,
                                leaving |-> FALSE, em |-> "up"]]
    /\ reader = [p \in Peers |-> StartedLoop("idle")]
    /\ keeper = [p \in Peers |-> StartedLoop("idle")]
    /\ writer = [p \in Peers |-> StartedLoop("fetch")]
    /\ tasks = [p \in Peers |-> << >>]
    /\ hist = [p \in Peers |->
                 [got |-> << >>, intime |-> {}, overdue |-> {}, safe |-> {},
                  late |-> FALSE, desync |-> FALSE, notified |-> {}]]

Post(p, kind, arg) == Append(tasks[p], [kind |-> kind, arg |-> arg])

-----------------------------------------------------------------------------
(* EndpointChannelLoopRunnable *)

\* EndpointChannelManager's mutex_, which every look at the active channel
\* takes, is held while the channel is being unregistered.
Unlocked(p) == conn[p].em # "closing"

\* The loop around a worker: take the active channel, unless the endpoint is
\* gone or its medium is the one that failed last.
LoopFetch(p, loop) ==
    LET c == conn[p].active
    IN  IF c = None THEN [loop EXCEPT !.pc = "done"]
        ELSE IF link[c].medium = loop.failed THEN [loop EXCEPT !.pc = "done"]
        ELSE [loop EXCEPT !.pc = "idle", !.chan = c]

\* kIo or kInvalidProtocolBuffer: look for another channel.
LoopFailed(loop) ==
    [loop EXCEPT !.pc = "fetch", !.failed = link[loop.chan].medium]

ReaderFetch(p) ==
    /\ reader[p].pc = "fetch"
    /\ Unlocked(p)
    /\ reader' = [reader EXCEPT ![p] = LoopFetch(p, @)]
    /\ UNCHANGED <<channelVars, link, faults, conn, keeper, writer, tasks, hist>>

\* Enter Read: reader_mutex_ is taken, and held until a frame arrives.
ReaderRead(p) ==
    /\ reader[p].pc = "idle"
    /\ reader' = [reader EXCEPT ![p].pc = "read"]
    /\ UNCHANGED <<channelVars, link, faults, conn, keeper, writer, tasks, hist>>

ReaderFail(p) ==
    /\ reader[p].pc = "read"
    /\ ReadFails(p, reader[p].chan)
    /\ reader' = [reader EXCEPT ![p] = LoopFailed(@)]
    /\ UNCHANGED <<channelVars, link, faults, conn, keeper, writer, tasks, hist>>

\* A frame the parser accepts is routed by its type (HandleData).
Route(p, c, f) ==
    \/ /\ f.kind \in Negotiation
       /\ tasks' = [tasks EXCEPT ![p] = Post(p, f.kind, f.arg)]
       /\ reader' = [reader EXCEPT ![p].pc = "idle"]
       /\ UNCHANGED <<chan, hist>>
    \/ /\ f.kind = "DATA"
       /\ hist' = [hist EXCEPT ![p].got = Append(@, f.arg)]
       /\ reader' = [reader EXCEPT ![p].pc = "idle"]
       /\ UNCHANGED <<chan, tasks>>
    \/ /\ f.kind = "DISC"
       /\ chan' = Closed(p, c)
       /\ reader' = [reader EXCEPT ![p].pc = "idle"]
       /\ UNCHANGED <<tasks, hist>>
    \/ /\ f.kind = "KEEP"
       /\ reader' = [reader EXCEPT ![p].pc =
                        IF chan[p][c].paused THEN "idle" ELSE "ack"]
       /\ UNCHANGED <<chan, tasks, hist>>
    \/ /\ f.kind \in {"KEEPACK", "INTRO", "ACK"}
       /\ reader' = [reader EXCEPT ![p].pc = "idle"]
       /\ UNCHANGED <<chan, tasks, hist>>

Unconfirmed(p, f) ==
    /\ FilterUnconfirmed
    /\ ~conn[p].connected
    /\ f.kind \notin {"KEEP", "KEEPACK", "DISC"}

ReaderFrame(p) ==
    LET c == reader[p].chan
        f == Head(Incoming(p, c))
        d == Decoding(p, c, f)
    IN  /\ reader[p].pc = "read"
        /\ CanRead(p, c)
        /\ net' = Popped(p, c)
        /\ seq' = IF d = "decoded" THEN [seq EXCEPT ![p].received = @ + 1] ELSE seq
        /\ \/ /\ d = "invalid"
              /\ reader' = [reader EXCEPT ![p] = LoopFailed(@)]
              /\ hist' = [hist EXCEPT ![p].desync = @ \/ f.seq # 0]
              /\ UNCHANGED <<chan, tasks>>
           \/ /\ d = "garbage" \/ (d \in {"decoded", "clear"} /\ Unconfirmed(p, f))
              /\ reader' = [reader EXCEPT ![p].pc = "idle"]
              /\ UNCHANGED <<chan, tasks, hist>>
           \/ /\ d \in {"decoded", "clear"} /\ ~Unconfirmed(p, f)
              /\ Route(p, c, f)
        /\ UNCHANGED <<link, faults, conn, keeper, writer>>

-----------------------------------------------------------------------------
(* Frames written by workers *)

\* What writing a worker's frame on c adds to the history.
Noted(p, c) ==
    [hist EXCEPT ![p].late = @ \/ c \in hist[p].safe]

\* The reader answers a KEEP_ALIVE on the channel it came in on.
ReaderAck(p) ==
    LET c == reader[p].chan
    IN  /\ reader[p].pc = "ack"
        /\ \/ /\ Written(p, c, "KEEPACK", 0)
              /\ reader' = [reader EXCEPT ![p].pc = "idle"]
              /\ hist' = Noted(p, c)
           \/ /\ WriteFailed(p, c)
              /\ reader' = [reader EXCEPT ![p] = LoopFailed(@)]
              /\ UNCHANGED hist
        /\ UNCHANGED <<chan, link, faults, conn, keeper, writer, tasks>>

KeeperFetch(p) ==
    /\ keeper[p].pc = "fetch"
    /\ Unlocked(p)
    /\ keeper' = [keeper EXCEPT ![p] = LoopFetch(p, @)]
    /\ UNCHANGED <<channelVars, link, faults, conn, reader, writer, tasks, hist>>

\* HandleKeepAlive, kept on the same channel until a write fails.
KeeperWrite(p) ==
    LET c == keeper[p].chan
    IN  /\ keeper[p].pc = "idle"
        /\ keeper[p].count < MaxKeepAlives[p]
        /\ \/ /\ Written(p, c, "KEEP", 0)
              /\ keeper' = [keeper EXCEPT ![p].count = @ + 1]
              /\ hist' = Noted(p, c)
           \/ /\ WriteFailed(p, c)
              /\ keeper' = [keeper EXCEPT ![p] = LoopFailed(@)]
              /\ UNCHANGED hist
        /\ UNCHANGED <<chan, link, faults, conn, reader, writer, tasks>>

\* Nothing was read for keep_alive_timeout.  A worker blocked in a write on a
\* paused channel does not get here.
KeeperTimeout(p) ==
    /\ Adverse("keep-alive")
    /\ keeper[p].pc = "idle"
    /\ keeper' = [keeper EXCEPT ![p].pc = "done"]
    /\ UNCHANGED <<channelVars, link, conn, reader, writer, tasks, hist>>

\* SendTransferFrameBytes, in its two steps.
WriterFetch(p) ==
    /\ writer[p].pc = "fetch"
    /\ Unlocked(p)
    /\ writer[p].count < MaxPayloads[p]
    /\ conn[p].active # None
    /\ writer' = [writer EXCEPT ![p].pc = "idle", ![p].chan = conn[p].active]
    /\ UNCHANGED <<channelVars, link, faults, conn, reader, keeper, tasks, hist>>

WriterWrite(p) ==
    LET c == writer[p].chan
        n == writer[p].count + 1
    IN  /\ writer[p].pc = "idle"
        /\ writer' = [writer EXCEPT ![p].pc = "fetch", ![p].count = n]
        /\ \/ /\ Written(p, c, "DATA", n)
              /\ hist' = IF c \in hist[p].safe
                         THEN [hist EXCEPT ![p].overdue = @ \cup {n}, ![p].late = TRUE]
                         ELSE [hist EXCEPT ![p].intime = @ \cup {n}]
           \/ WriteFailed(p, c) /\ UNCHANGED hist
        /\ UNCHANGED <<chan, link, faults, conn, reader, keeper, tasks>>

-----------------------------------------------------------------------------
(* Removing the endpoint *)

\* DiscardEndpoint was posted by a worker that ended, or the client left.
MustRemove(p) == reader[p].pc = "done" \/ keeper[p].pc = "done" \/ conn[p].leaving

\* RemoveEndpoint begins to unregister the channel: it is resumed, so that
\* writers waiting on it are released before it is closed.
BeginRemoval(p) ==
    LET c == conn[p].active
    IN  /\ conn[p].em = "up"
        /\ MustRemove(p)
        /\ ~chan[p][c].closed
        /\ chan' = Resumed(p, c)
        /\ conn' = [conn EXCEPT ![p].em = "closing"]
        /\ UNCHANGED <<net, seq, link, faults, workerVars, tasks, hist>>

\* ... the disconnection is reported on it, it is closed, and the frame
\* processors are told.
RemoveEndpoint(p) ==
    LET c == conn[p].active
    IN  /\ \/ /\ conn[p].em = "up"
              /\ MustRemove(p)
              /\ chan[p][c].closed
              /\ UNCHANGED channelVars
           \/ /\ conn[p].em = "closing"
              /\ Written(p, c, "DISC", 0) \/ WriteFailed(p, c)
              /\ chan' = Closed(p, c)
        /\ conn' = [conn EXCEPT ![p].active = None, ![p].em = "removing"]
        /\ tasks' = [tasks EXCEPT ![p] = Post(p, "OVER", c)]
        /\ UNCHANGED <<link, faults, workerVars, hist>>

\* The barrier opens, or WaitForEndpointDisconnectionProcessing times out.
Disconnected(p) ==
    /\ \/ conn[p].em = "cleaned" /\ UNCHANGED faults
       \/ conn[p].em = "removing" /\ Adverse("barrier")
    /\ conn' = [conn EXCEPT ![p].em = "gone", ![p].connected = FALSE]
    /\ UNCHANGED <<channelVars, link, workerVars, tasks, hist>>

\* The client calls DisconnectFromEndpoint.
Leave(p) ==
    /\ Adverse("leave")
    /\ conn[p].em = "up" /\ ~conn[p].leaving
    /\ conn' = [conn EXCEPT ![p].leaving = TRUE]
    /\ UNCHANGED <<channelVars, link, workerVars, tasks, hist>>

\* EvaluateConnectionResult reports the connection to the client.
OnConnectionAccepted(p) ==
    /\ ~conn[p].connected
    /\ conn[p].em = "up"
    /\ conn' = [conn EXCEPT ![p].connected = TRUE]
    /\ UNCHANGED <<channelVars, link, faults, workerVars, tasks, hist>>

BreakLink(c) ==
    /\ Break(c)
    /\ UNCHANGED <<conn, workerVars, tasks, hist>>

ReaderStep(p) ==
    ReaderFetch(p) \/ ReaderRead(p) \/ ReaderFail(p) \/ ReaderFrame(p) \/ ReaderAck(p)
KeeperStep(p) == KeeperFetch(p) \/ KeeperWrite(p)
WriterStep(p) == WriterFetch(p) \/ WriterWrite(p)
RemoveStep(p) ==
    BeginRemoval(p) \/ RemoveEndpoint(p) \/ (conn[p].em = "cleaned" /\ Disconnected(p))

WorkersNext ==
    \/ \E p \in Peers :
          \/ ReaderStep(p) \/ KeeperStep(p) \/ WriterStep(p)
          \/ BeginRemoval(p) \/ RemoveEndpoint(p) \/ Disconnected(p) \/ OnConnectionAccepted(p)
          \/ KeeperTimeout(p) \/ Leave(p)
    \/ \E c \in Channels : BreakLink(c)

=============================================================================
