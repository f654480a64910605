---------------------------- MODULE ChannelLocks ----------------------------
(***************************************************************************)
(* One BaseEndpointChannel under the threads of one device, lock by lock:  *)
(* is_paused_mutex_ with its condition variable, reader_mutex_,            *)
(* writer_mutex_ and crypto_mutex_ (base_endpoint_channel).  The channel   *)
(* is one that a bandwidth upgrade brings in paused, that carries the      *)
(* traffic, and that the next upgrade or the endpoint's removal ends.      *)
(*                                                                         *)
(* The other models take a Write, a Read or a Close as one step.           *)
(***************************************************************************)
EXTENDS Naturals, Sequences

CONSTANTS
    Writers,      \* payload and keep-alive threads
    Oversized,    \* those whose frames may be above max_allowed_read_bytes_
    Reader,       \* the EndpointManager thread that reads the channel
    Manager,      \* the serial BwuManager thread
    Remover,      \* the EndpointManager thread, removing the endpoint
    MaxWrites,    \* bound: calls of Write per writer
    MaxIncoming   \* bound: payload frames the peer sends

Threads == Writers \cup {Reader, Manager, Remover}

ASSUME ThreadsDistinct ==
    /\ Reader # Manager /\ Reader # Remover /\ Manager # Remover
    /\ Writers \cap {Reader, Manager, Remover} = {}
    /\ Oversized \subseteq Writers
ASSUME BoundsTyped == MaxWrites \in Nat /\ MaxIncoming \in Nat

\* seq = 0: in clear.  by: the writing thread; the peer's frames carry Reader.
Frames ==
    [kind : {"DATA", "LAST", "SAFE", "DISC", "KEEP", "NONE"}, seq : Nat, by : Threads]
Frame(kind, seq, by) == [kind |-> kind, seq |-> seq, by |-> by]
Parts == [part : {"header", "body"}, frame : Frames]

VARIABLES
    chan,    \* is_paused_, is_closed_, and whether crypto_context_ is set
    io,      \* reader_ and writer_ are open; the transport has failed
    ctx,     \* sequence numbers of the UKEY2 context, one per direction
    wire,    \* out: what the transport took, in parts; in: frames not read yet
    peer,    \* frames the peer has encrypted, and how far it is with the channel
    pc,      \* pc[t]: where thread t is, "ok" or "failed" after a call returned
    arg,     \* arg[t]: the frame t writes, or has read
    calls,   \* calls[w]: writes w has made
    life,    \* how far BwuManager, and the removal, have come with the channel
    hist     \* what Read returned, whether it lost an encrypted frame, and how
             \* many numbers went to frames that Write refused

vars == <<chan, io, ctx, wire, peer, pc, arg, calls, life, hist>>

Returned == {"ok", "failed"}
PCs == Returned \cup
    {"waiting", "woken", "writing", "locked", "encode", "header", "body",
     "reading", "read", "decoding", "decode", "closeReader", "closeWriter"}

\* (Mutants: writer_mutex_ taken after encoding; crypto_mutex_ held over IO.)
WriterHoldersLate == {t \in Threads : pc[t] \in {"header", "body"}}
CryptoHoldersLong ==
    {t \in Threads : pc[t] \in {"encode", "header", "body", "decode"}}

\* Who holds which mutex.  is_paused_mutex_ is never held across steps.
WriterHolders == {t \in Threads : pc[t] \in {"locked", "encode", "header", "body"}}

CryptoHolders == {t \in Threads : pc[t] \in {"encode", "decode"}}

ReaderHolders == {t \in Threads : pc[t] = "read"}

Stages == {"new", "fresh", "held", "active", "last", "shutdown", "safe",
           "plain", "disc", "drain", "closing", "over"}

\* (Mutants: the channel is registered before it is paused.)
ActiveEarly == life.stage \in {"new", "fresh", "held", "active"}
SharedEarly == TRUE

\* It is the endpoint's channel; workers can fetch it, or have done so.
Active == life.stage \in {"held", "active"}

Shared == life.stage \notin {"new", "fresh"}

\* No two threads are in sections of the same mutex.
Exclusive(section) ==
    \A t, u \in Threads : pc[t] \in section /\ pc[u] \in section => t = u

\* The types of the state; and each mutex has at most one holder.
TypeOK ==
    /\ chan \in [paused : BOOLEAN, closed : BOOLEAN, crypt : BOOLEAN]
    /\ io \in [reader : BOOLEAN, writer : BOOLEAN, broken : BOOLEAN]
    /\ ctx \in [sent : Nat, received : Nat]
    /\ wire \in [out : Seq(Parts), in : Seq(Frames)]
    /\ peer \in [sent : Nat, mode : {"up", "last", "safe", "done"}]
    /\ pc \in [Threads -> PCs]
    /\ arg \in [Threads -> Frames]
    /\ calls \in [Writers -> 0..MaxWrites]
    /\ life \in [stage : Stages, removal : {"up", "resumed", "telling", "closing"}]
    /\ hist \in [got : Seq(Frames), bad : BOOLEAN, refused : Nat]
    /\ Exclusive({"locked", "encode", "header", "body"})
    /\ Exclusive({"encode", "decode"})
    /\ Exclusive({"read"})

Init ==
    /\ chan = [paused |-> FALSE, closed |-> FALSE, crypt |-> FALSE]
    /\ io = [reader |-> TRUE, writer |-> TRUE, broken |-> FALSE]
    /\ ctx = [sent |-> 0, received |-> 0]
    /\ wire = [out |-> << >>, in |-> << >>]
    /\ peer = [sent |-> 0, mode |-> "up"]
    /\ pc = [t \in Threads |-> "ok"]
    /\ arg = [t \in Threads |-> Frame("NONE", 0, t)]
    /\ calls = [w \in Writers |-> 0]
    /\ life = [stage |-> "new", removal |-> "up"]
    /\ hist = [got |-> << >>, bad |-> FALSE, refused |-> 0]

Goto(t, label) == pc' = [pc EXCEPT ![t] = label]

-----------------------------------------------------------------------------
(* Pause, Resume, Close: what they do under is_paused_mutex_ *)

\* (Mutant: Notify wakes one waiter only.)
NotifyOne ==
    IF \E t \in Threads : pc[t] = "waiting"
    THEN [pc EXCEPT ![CHOOSE t \in Threads : pc[t] = "waiting"] = "woken"]
    ELSE pc

\* is_paused_cond_.Notify: every waiting writer must test is_paused_ again.
NotifyAll == [t \in Threads |-> IF pc[t] = "waiting" THEN "woken" ELSE pc[t]]

Resume ==
    /\ chan' = [chan EXCEPT !.paused = FALSE]
    /\ pc' = NotifyAll

\* Close, called by t: the second caller returns at once.
CallClose(t) ==
    \/ /\ chan.closed
       /\ Goto(t, "ok")
       /\ UNCHANGED chan
    \/ /\ ~chan.closed
       /\ chan' = [chan EXCEPT !.closed = TRUE, !.paused = FALSE]
       /\ pc' = [NotifyAll EXCEPT ![t] = "closeReader"]

\* (Mutant: CloseIo takes reader_mutex_.)
CloseReaderLocked(t) ==
    /\ pc[t] = "closeReader"
    /\ ReaderHolders = {}
    /\ io' = [io EXCEPT !.reader = FALSE]
    /\ Goto(t, "closeWriter")
    /\ UNCHANGED <<chan, ctx, wire, peer, arg, calls, life, hist>>

\* CloseIo takes neither reader_mutex_ ...
CloseReader(t) ==
    /\ pc[t] = "closeReader"
    /\ io' = [io EXCEPT !.reader = FALSE]
    /\ Goto(t, "closeWriter")
    /\ UNCHANGED <<chan, ctx, wire, peer, arg, calls, life, hist>>

\* ... nor writer_mutex_.
CloseWriter(t) ==
    /\ pc[t] = "closeWriter"
    /\ io' = [io EXCEPT !.writer = FALSE]
    /\ Goto(t, "ok")
    /\ UNCHANGED <<chan, ctx, wire, peer, arg, calls, life, hist>>

-----------------------------------------------------------------------------
(* Write *)

CallWrite(t, kind) ==
    /\ Goto(t, IF chan.paused THEN "waiting" ELSE "writing")
    /\ arg' = [arg EXCEPT ![t] = Frame(kind, 0, t)]

\* The loop of BlockUntilUnpaused, after a notification.
Woken(t) ==
    /\ pc[t] = "woken"
    /\ Goto(t, IF chan.paused THEN "waiting" ELSE "writing")
    /\ UNCHANGED <<chan, io, ctx, wire, peer, arg, calls, life, hist>>

LockWriter(t) ==
    /\ pc[t] = "writing"
    /\ WriterHolders = {}
    /\ Goto(t, "locked")
    /\ UNCHANGED <<chan, io, ctx, wire, peer, arg, calls, life, hist>>

LockToEncode(t) ==
    /\ pc[t] = "locked"
    /\ CryptoHolders = {}
    /\ Goto(t, "encode")
    /\ UNCHANGED <<chan, io, ctx, wire, peer, arg, calls, life, hist>>

\* Whether a frame is too long is a choice.
TooLong(t) == t \in Oversized

\* EncodeMessageToPeer takes a number; the size is tested afterwards, and a
\* frame that is refused leaves a gap.
Encode(t) ==
    /\ pc[t] = "encode"
    /\ IF chan.crypt
       THEN /\ ctx' = [ctx EXCEPT !.sent = @ + 1]
            /\ arg' = [arg EXCEPT ![t].seq = ctx.sent + 1]
       ELSE UNCHANGED <<ctx, arg>>
    /\ \/ Goto(t, "header") /\ UNCHANGED hist
       \/ /\ TooLong(t)
          /\ Goto(t, "failed")
          /\ hist' = [hist EXCEPT !.refused = IF chan.crypt THEN @ + 1 ELSE @]
    /\ UNCHANGED <<chan, io, wire, peer, calls, life>>

Taken(t, part) ==
    wire' = [wire EXCEPT !.out = Append(@, [part |-> part, frame |-> arg[t]])]

Writable == io.writer /\ ~io.broken

WriteHeader(t) ==
    /\ pc[t] = "header"
    /\ Writable
    /\ Taken(t, "header")
    /\ Goto(t, "body")
    /\ UNCHANGED <<chan, io, ctx, peer, arg, calls, life, hist>>

WriteBody(t) ==
    /\ pc[t] = "body"
    /\ Writable
    /\ Taken(t, "body")
    /\ Goto(t, "ok")
    /\ UNCHANGED <<chan, io, ctx, peer, arg, calls, life, hist>>

WriteFails(t) ==
    /\ pc[t] \in {"header", "body"}
    /\ ~Writable
    /\ Goto(t, "failed")
    /\ UNCHANGED <<chan, io, ctx, wire, peer, arg, calls, life, hist>>

-----------------------------------------------------------------------------
(* Read *)

LockReader(t) ==
    /\ pc[t] = "reading"
    /\ ReaderHolders = {}
    /\ Goto(t, "read")
    /\ UNCHANGED <<chan, io, ctx, wire, peer, arg, calls, life, hist>>

\* A frame is complete; reader_mutex_ is released before it is decoded.
TakeFrame(t) ==
    /\ pc[t] = "read"
    /\ io.reader
    /\ wire.in # << >>
    /\ arg' = [arg EXCEPT ![t] = Head(wire.in)]
    /\ wire' = [wire EXCEPT !.in = Tail(@)]
    /\ Goto(t, "decoding")
    /\ UNCHANGED <<chan, io, ctx, peer, calls, life, hist>>

ReadFails(t) ==
    /\ pc[t] = "read"
    /\ ~io.reader \/ io.broken
    /\ Goto(t, "failed")
    /\ UNCHANGED <<chan, io, ctx, wire, peer, arg, calls, life, hist>>

LockToDecode(t) ==
    /\ pc[t] = "decoding"
    /\ CryptoHolders = {}
    /\ Goto(t, "decode")
    /\ UNCHANGED <<chan, io, ctx, wire, peer, arg, calls, life, hist>>

\* A context decodes the next number only, and lets a KEEP_ALIVE in clear
\* through.  Without one Read returns ciphertext, which the parser rejects.
Decode(t) ==
    LET f == arg[t]
        next == f.seq = ctx.received + 1
    IN  /\ pc[t] = "decode"
        /\ \/ /\ chan.crypt /\ next
              /\ ctx' = [ctx EXCEPT !.received = @ + 1]
              /\ hist' = [hist EXCEPT !.got = Append(@, f)]
              /\ Goto(t, "ok")
              /\ UNCHANGED arg
           \/ /\ f.seq = 0
              /\ chan.crypt => f.kind = "KEEP"
              /\ hist' = [hist EXCEPT !.got = Append(@, f)]
              /\ Goto(t, "ok")
              /\ UNCHANGED <<ctx, arg>>
           \/ /\ f.seq # 0 /\ ~chan.crypt
              /\ hist' = [hist EXCEPT !.bad = TRUE]
              /\ Goto(t, "ok")
              /\ arg' = [arg EXCEPT ![t] = Frame("NONE", 0, t)]
              /\ UNCHANGED ctx
           \/ /\ chan.crypt /\ ~next /\ ~(f.seq = 0 /\ f.kind = "KEEP")
              /\ hist' = [hist EXCEPT !.bad = @ \/ f.seq # 0]
              /\ Goto(t, "failed")
              /\ UNCHANGED <<ctx, arg>>
        /\ UNCHANGED <<chan, io, wire, peer, calls, life>>

-----------------------------------------------------------------------------
(* The callers *)

CanCall(t) == pc[t] \in Returned

WriterCalls(w) ==
    /\ Shared
    /\ CanCall(w)
    /\ calls[w] < MaxWrites
    /\ calls' = [calls EXCEPT ![w] = @ + 1]
    /\ CallWrite(w, "DATA")
    /\ UNCHANGED <<chan, io, ctx, wire, peer, life, hist>>

\* HandleData: read until it fails, close on a DISCONNECTION.
ReaderCalls ==
    /\ Shared
    /\ pc[Reader] = "ok"
    /\ \/ /\ arg[Reader].kind = "DISC"
          /\ CallClose(Reader)
       \/ /\ arg[Reader].kind # "DISC"
          /\ Goto(Reader, "reading")
          /\ UNCHANGED chan
    /\ arg' = [arg EXCEPT ![Reader] = Frame("NONE", 0, Reader)]
    /\ UNCHANGED <<io, ctx, wire, peer, calls, life, hist>>

At(stage) == life.stage = stage /\ CanCall(Manager)
Reach(stage) == life' = [life EXCEPT !.stage = stage]

\* RunUpgradeProtocol pauses the new channel, ...
PauseNew ==
    /\ At("new")
    /\ Reach("fresh")
    /\ chan' = [chan EXCEPT !.paused = TRUE]
    /\ UNCHANGED <<io, ctx, wire, peer, pc, arg, calls, hist>>

\* ... then registers and encrypts it (ReplaceChannelForEndpoint).
Register ==
    /\ At("fresh")
    /\ CryptoHolders = {}
    /\ Reach("held")
    /\ chan' = [chan EXCEPT !.crypt = TRUE]
    /\ UNCHANGED <<io, ctx, wire, peer, pc, arg, calls, hist>>

\* The channel before it has been drained.
ResumeNew ==
    /\ At("held")
    /\ Reach("active")
    /\ Resume
    /\ UNCHANGED <<io, ctx, wire, peer, arg, calls, hist>>

\* The next upgrade replaces the channel, unless the lock of
\* EndpointChannelManager is held for a removal, and ends its traffic.
WriteLast ==
    /\ At("active")
    /\ life.removal \in {"up", "closing"}
    /\ Reach("last")
    /\ CallWrite(Manager, "LAST")
    /\ UNCHANGED <<chan, io, ctx, wire, peer, calls, hist>>

LastWritten ==
    /\ At("last")
    /\ Reach(IF pc[Manager] = "ok" THEN "shutdown" ELSE "over")
    /\ UNCHANGED <<chan, io, ctx, wire, peer, pc, arg, calls, hist>>

\* (Mutant: the prior channel is shut down without waiting for the peer.)
DeliveredAlready(kind) == TRUE

\* The reader has passed a frame of that kind on.
Delivered(kind) == \E i \in 1..Len(hist.got) : hist.got[i].kind = kind

\* ProcessLastWriteToPriorChannelEvent.
WriteSafe ==
    /\ At("shutdown")
    /\ Delivered("LAST")
    /\ Reach("safe")
    /\ CallWrite(Manager, "SAFE")
    /\ UNCHANGED <<chan, io, ctx, wire, peer, calls, hist>>

\* ProcessSafeToClosePriorChannelEvent: DisableEncryption, ...
Disable ==
    /\ At("safe")
    /\ pc[Manager] = "ok"
    /\ Delivered("SAFE")
    /\ CryptoHolders = {}
    /\ Reach("plain")
    /\ chan' = [chan EXCEPT !.crypt = FALSE]
    /\ UNCHANGED <<io, ctx, wire, peer, pc, arg, calls, hist>>

\* ... Write, ...
WriteDisc ==
    /\ At("plain")
    /\ Reach("disc")
    /\ CallWrite(Manager, "DISC")
    /\ UNCHANGED <<chan, io, ctx, wire, peer, calls, hist>>

\* ... Read, ...
Drain ==
    /\ At("disc")
    /\ Reach("drain")
    /\ Goto(Manager, "reading")
    /\ UNCHANGED <<chan, io, ctx, wire, peer, arg, calls, hist>>

\* ... Close.  Or SAFE_TO_CLOSE was not written, or the endpoint is
\* disconnected first.
ClosePrior ==
    /\ At("drain") \/ At("shutdown") \/ At("safe")
    /\ Reach("closing")
    /\ CallClose(Manager)
    /\ UNCHANGED <<io, ctx, wire, peer, arg, calls, hist>>

Remove(step) == life' = [life EXCEPT !.removal = step]

\* EndpointChannelManager's RemoveEndpoint: an open channel is resumed ...
ResumeRemoved ==
    /\ Active
    /\ life.removal = "up"
    /\ \/ chan.closed /\ Remove("telling") /\ UNCHANGED <<chan, pc>>
       \/ ~chan.closed /\ Remove("resumed") /\ Resume
    /\ UNCHANGED <<io, ctx, wire, peer, arg, calls, hist>>

\* ... and told of the disconnection, ...
WriteDisconnection ==
    /\ life.removal = "resumed"
    /\ CanCall(Remover)
    /\ Remove("telling")
    /\ CallWrite(Remover, "DISC")
    /\ UNCHANGED <<chan, io, ctx, wire, peer, calls, hist>>

\* ... and the last reference closes it.
CloseRemoved ==
    /\ life.removal = "telling"
    /\ CanCall(Remover)
    /\ Remove("closing")
    /\ CallClose(Remover)
    /\ UNCHANGED <<io, ctx, wire, peer, arg, calls, hist>>

-----------------------------------------------------------------------------
(* The peer *)

Arrives(kind, seq) ==
    wire' = [wire EXCEPT !.in = Append(@, Frame(kind, seq, Reader))]

PeerWrites(kind, mode) ==
    /\ peer' = [sent |-> peer.sent + 1, mode |-> mode]
    /\ Arrives(kind, peer.sent + 1)
    /\ UNCHANGED <<chan, io, ctx, pc, arg, calls, life, hist>>

WrittenToPeer(kind) ==
    \E i \in 1..Len(wire.out) :
        wire.out[i].part = "body" /\ wire.out[i].frame.kind = kind

\* Encrypted, in order: payload frames, its own end of the traffic, consent
\* to closing the channel once it has our LAST_WRITE; or it leaves.
PeerData ==
    peer.mode = "up" /\ peer.sent < MaxIncoming /\ PeerWrites("DATA", "up")
PeerLast == peer.mode = "up" /\ PeerWrites("LAST", "last")
PeerSafe ==
    peer.mode = "last" /\ WrittenToPeer("LAST") /\ PeerWrites("SAFE", "safe")
PeerLeaves == peer.mode \in {"up", "last"} /\ PeerWrites("DISC", "done")

\* After its SAFE_TO_CLOSE, and ours, it writes in clear: its DISCONNECTION,
\* or a late KEEP_ALIVE.
PeerWritesClear ==
    /\ peer.mode = "safe" /\ WrittenToPeer("SAFE")
    /\ peer' = [peer EXCEPT !.mode = "done"]
    /\ \E kind \in {"DISC", "KEEP"} : Arrives(kind, 0)
    /\ UNCHANGED <<chan, io, ctx, pc, arg, calls, life, hist>>

\* The peer closes its end, or the transport fails.
Break ==
    /\ ~io.broken
    /\ io' = [io EXCEPT !.broken = TRUE]
    /\ UNCHANGED <<chan, ctx, wire, peer, pc, arg, calls, life, hist>>

-----------------------------------------------------------------------------

\* What a thread does inside a call without waiting for the transport: it
\* runs on.  Nothing is promised of the transport, nor of the callers.
Computes(t) ==
    \/ Woken(t) \/ LockWriter(t) \/ LockToEncode(t) \/ Encode(t) \/ WriteFails(t)
    \/ LockReader(t) \/ ReadFails(t) \/ LockToDecode(t) \/ Decode(t)
    \/ CloseReader(t) \/ CloseWriter(t)

Transfers(t) == WriteHeader(t) \/ WriteBody(t) \/ TakeFrame(t)

Manages ==
    \/ PauseNew \/ Register \/ ResumeNew \/ WriteLast \/ LastWritten
    \/ WriteSafe \/ Disable \/ WriteDisc \/ Drain \/ ClosePrior

Removes == ResumeRemoved \/ WriteDisconnection \/ CloseRemoved

Next ==
    \/ \E t \in Threads : Computes(t) \/ Transfers(t)
    \/ \E w \in Writers : WriterCalls(w)
    \/ ReaderCalls \/ Manages \/ Removes
    \/ PeerData \/ PeerLast \/ PeerSafe \/ PeerLeaves \/ PeerWritesClear
    \/ Break

Spec == Init /\ [][Next]_vars

-----------------------------------------------------------------------------
(* Properties *)

\* The i-th part: headers and bodies alternate, numbers grow from frame to
\* frame by 1, or more if some were lost to refused frames, until all are in
\* clear.
IsHeader(i) == i % 2 = 1
Number(i) == (i + 1) \div 2
InOrder(out, i, refused) ==
    LET seq(j) == out[j].frame.seq
    IN  /\ out[i].part = IF IsHeader(i) THEN "header" ELSE "body"
        /\ ~IsHeader(i) => out[i].frame = out[i-1].frame
        /\ IsHeader(i) =>
             \/ seq(i) = 0
             \/ /\ seq(i) <= Number(i) + refused
                /\ \A j \in 1..(i-1) : 0 < seq(j) /\ seq(j) < seq(i)

\* What the transport takes are whole frames, header and body of one Write
\* next to each other (the last may be cut off), in the order of their
\* numbers, and no number is missing but those of refused frames: otherwise
\* the peer could not decrypt them.  writer_mutex_ is held from the encoding
\* to the flush.
WireInOrder == \A i \in 1..Len(wire.out) : InOrder(wire.out, i, hist.refused)

\* A thread sleeps in BlockUntilUnpaused only while the channel is paused,
\* whoever else waits, resumes or closes: no notification is lost.
NoLostWakeup == \A t \in Threads : pc[t] = "waiting" => chan.paused

\* Nothing is written on a new channel until it is resumed, or ended: the
\* channel before it still carries numbers of the same context.
HeldBack ==
    life.stage \in {"fresh", "held"} /\ life.removal = "up" /\ ~chan.closed
        => /\ wire.out = << >> /\ ctx.sent = 0
           /\ WriterHolders = {}

\* A closed channel is never paused again: Close would not unblock its
\* writers a second time.
ClosedNotPaused == chan.closed => ~chan.paused

\* Frames are decoded in the order the peer encoded them, though a Read
\* decodes after it has let the next Read in: no frame is lost to the
\* context, by the reader nor by BwuManager's draining Read.
DecodedInOrder ==
    /\ ~hist.bad
    /\ \A i \in 1..Len(hist.got) : hist.got[i].seq \in {0, i}

\* Nothing is left to do but by the callers and the transport.  A call takes
\* finitely many steps, and none is lost to another thread for ever: eventually
\* P, under weak fairness of Computes, is P in every such state.
InTheEnd == \A t \in Threads : ~ENABLED Computes(t)

\* Every call in progress on a channel that is closed returns: paused
\* writers, readers waiting for the peer, writers waiting for the transport.
CallsReturn ==
    chan.closed /\ (\E t \in Threads : pc[t] \notin Returned) => ~InTheEnd

\* A Read that has its frame ends, though a Write be stuck in the transport:
\* crypto_mutex_ is released before the write.
DecodingEnds == (\E t \in Threads : pc[t] \in {"decoding", "decode"}) => ~InTheEnd

=============================================================================
