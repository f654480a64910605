------------------------- MODULE ChannelLocksProofs -------------------------
(***************************************************************************)
(* Theorems of ChannelLocks, for any number of writers, writes and frames: *)
(* its types with mutual exclusion, that no notification of the pause is   *)
(* lost, that a new channel stays silent until it is resumed, that the     *)
(* transport takes whole frames in the order of their numbers, and that    *)
(* frames are decoded in the order the peer encoded them.                  *)
(***************************************************************************)
EXTENDS ChannelLocks, TLAPS

-----------------------------------------------------------------------------
(* TypeOK in two parts: where the threads are, and the rest *)

WriterSection == {"locked", "encode", "header", "body"}
CryptoSection == {"encode", "decode"}

Control ==
    /\ pc \in [Threads -> PCs]
    /\ Exclusive(WriterSection)
    /\ Exclusive(CryptoSection)
    /\ Exclusive({"read"})

Data ==
    /\ chan \in [paused : BOOLEAN, closed : BOOLEAN, crypt : BOOLEAN]
    /\ io \in [reader : BOOLEAN, writer : BOOLEAN, broken : BOOLEAN]
    /\ ctx \in [sent : Nat, received : Nat]
    /\ wire \in [out : Seq(Parts), in : Seq(Frames)]
    /\ peer \in [sent : Nat, mode : {"up", "last", "safe", "done"}]
    /\ arg \in [Threads -> Frames]
    /\ calls \in [Writers -> 0..MaxWrites]
    /\ life \in [stage : Stages, removal : {"up", "resumed", "telling", "closing"}]
    /\ hist \in [got : Seq(Frames), bad : BOOLEAN, refused : Nat]

LEMMA TypeSplit == TypeOK <=> Control /\ Data
BY DEF TypeOK, Control, Data, WriterSection, CryptoSection

LEMMA TypeSplitNext == TypeOK' <=> Control' /\ Data'
BY DEF TypeOK, Control, Data, WriterSection, CryptoSection

LEMMA Callers ==
    /\ Reader \in Threads /\ Manager \in Threads /\ Remover \in Threads
    /\ Writers \subseteq Threads
BY DEF Threads

\* A thread's frame, in clear, is a frame.
LEMMA FrameTyped ==
  ASSUME NEW kind \in {"DATA", "LAST", "SAFE", "DISC", "KEEP", "NONE"},
         NEW n \in Nat, NEW t \in Threads
  PROVE  Frame(kind, n, t) \in Frames
BY DEF Frame, Frames

\* A thread moves: into a section it must be in already, or find it empty.
LEMMA Moves ==
  ASSUME Control, NEW t \in Threads, NEW label \in PCs, Goto(t, label),
         label \in WriterSection => pc[t] \in WriterSection \/ WriterHolders = {},
         label \in CryptoSection => pc[t] \in CryptoSection \/ CryptoHolders = {},
         label = "read" => ReaderHolders = {}
  PROVE  Control'
<1>1. pc' \in [Threads -> PCs]
  BY DEF Control, Goto
<1>2. Exclusive(WriterSection)'
  BY DEF Control, Goto, Exclusive, WriterHolders, WriterSection
<1>3. Exclusive(CryptoSection)'
  BY DEF Control, Goto, Exclusive, CryptoHolders, CryptoSection
<1>4. Exclusive({"read"})'
  BY DEF Control, Goto, Exclusive, ReaderHolders
<1> QED
  BY <1>1, <1>2, <1>3, <1>4 DEF Control

\* A move that enters no section.
LEMMA Leaves ==
  ASSUME Control, NEW t \in Threads, NEW label \in PCs, Goto(t, label),
         label \notin {"locked", "encode", "header", "body", "decode", "read"}
  PROVE  Control'
BY Moves DEF WriterSection, CryptoSection

\* A notification moves waiting threads only.
LEMMA NotifyMoves ==
  ASSUME Control
  PROVE  /\ NotifyAll \in [Threads -> PCs]
         /\ \A t \in Threads : NotifyAll[t] \in {pc[t], "woken"}
         /\ \A t \in Threads : NotifyAll[t] # "woken" => NotifyAll[t] = pc[t]
         /\ \A t \in Threads : NotifyAll[t] # "waiting"
         /\ \A t \in Threads : pc[t] # "waiting" => NotifyAll[t] = pc[t]
BY DEF Control, NotifyAll, PCs, Returned

LEMMA ResumeMoves == ASSUME Control, pc' = NotifyAll PROVE Control'
<1>1. pc' \in [Threads -> PCs]
  BY NotifyMoves
<1> QED
  BY <1>1, NotifyMoves DEF Control, Exclusive, WriterSection, CryptoSection

\* Close leaves its caller outside every section.
LEMMA CloseMoves ==
  ASSUME TypeOK, NEW t \in Threads, CallClose(t)
  PROVE  /\ Control'
         /\ chan' \in [paused : BOOLEAN, closed : BOOLEAN, crypt : BOOLEAN]
<1>1. CASE chan.closed /\ Goto(t, "ok") /\ UNCHANGED chan
  <2>1. Control'
    BY <1>1, TypeSplit, Leaves DEF PCs, Returned
  <2> QED
    BY <1>1, <2>1 DEF TypeOK
<1>2. CASE /\ chan' = [chan EXCEPT !.closed = TRUE, !.paused = FALSE]
           /\ pc' = [NotifyAll EXCEPT ![t] = "closeReader"]
  <2>1. Control
    BY TypeSplit
  <2>2. pc' \in [Threads -> PCs]
    BY <1>2, <2>1, NotifyMoves DEF PCs
  <2>3. Control'
    BY <1>2, <2>1, <2>2, NotifyMoves
       DEF Control, Exclusive, WriterSection, CryptoSection
  <2> QED
    BY <1>2, <2>3 DEF TypeOK
<1> QED
  BY <1>1, <1>2 DEF CallClose

\* Write begins by waiting, or by queueing for writer_mutex_.
LEMMA WriteMoves ==
  ASSUME TypeOK, NEW t \in Threads,
         NEW kind \in {"DATA", "LAST", "SAFE", "DISC"}, CallWrite(t, kind)
  PROVE  Control' /\ arg' \in [Threads -> Frames]
<1>1. (IF chan.paused THEN "waiting" ELSE "writing") \in PCs
  BY DEF PCs
<1>2. Control'
  BY <1>1, TypeSplit, Leaves DEF CallWrite
<1>3. Frame(kind, 0, t) \in Frames
  BY FrameTyped
<1> QED
  BY <1>2, <1>3 DEF CallWrite, TypeOK

-----------------------------------------------------------------------------
(* TypeOK, action by action *)

LEMMA InitTyped == Init => TypeOK
BY ThreadsDistinct, BoundsTyped, FrameTyped
   DEF Init, TypeOK, PCs, Returned, Stages, Exclusive

LEMMA CloseReaderTyped ==
  ASSUME TypeOK, NEW t \in Threads, CloseReader(t)
  PROVE  TypeOK'
<1>1. Data'
  BY DEF TypeOK, Data, CloseReader
<1>2. Control'
  BY TypeSplit, Leaves DEF CloseReader, PCs, Returned
<1> QED
  BY <1>1, <1>2, TypeSplitNext

LEMMA CloseWriterTyped ==
  ASSUME TypeOK, NEW t \in Threads, CloseWriter(t)
  PROVE  TypeOK'
<1>1. Data'
  BY DEF TypeOK, Data, CloseWriter
<1>2. Control'
  BY TypeSplit, Leaves DEF CloseWriter, PCs, Returned
<1> QED
  BY <1>1, <1>2, TypeSplitNext

LEMMA LockWriterTyped ==
  ASSUME TypeOK, NEW t \in Threads, LockWriter(t)
  PROVE  TypeOK'
<1>1. Data'
  BY DEF TypeOK, Data, LockWriter
<1>2. Control'
  BY TypeSplit, Moves DEF LockWriter, PCs, Returned, WriterSection, CryptoSection
<1> QED
  BY <1>1, <1>2, TypeSplitNext

LEMMA LockToEncodeTyped ==
  ASSUME TypeOK, NEW t \in Threads, LockToEncode(t)
  PROVE  TypeOK'
<1>1. Data'
  BY DEF TypeOK, Data, LockToEncode
<1>2. Control'
  BY TypeSplit, Moves DEF LockToEncode, PCs, Returned, WriterSection, CryptoSection
<1> QED
  BY <1>1, <1>2, TypeSplitNext

LEMMA WriteFailsTyped ==
  ASSUME TypeOK, NEW t \in Threads, WriteFails(t)
  PROVE  TypeOK'
<1>1. Data'
  BY DEF TypeOK, Data, WriteFails
<1>2. Control'
  BY TypeSplit, Leaves DEF WriteFails, PCs, Returned
<1> QED
  BY <1>1, <1>2, TypeSplitNext

LEMMA LockReaderTyped ==
  ASSUME TypeOK, NEW t \in Threads, LockReader(t)
  PROVE  TypeOK'
<1>1. Data'
  BY DEF TypeOK, Data, LockReader
<1>2. Control'
  BY TypeSplit, Moves DEF LockReader, PCs, Returned, WriterSection, CryptoSection
<1> QED
  BY <1>1, <1>2, TypeSplitNext

LEMMA ReadFailsTyped ==
  ASSUME TypeOK, NEW t \in Threads, ReadFails(t)
  PROVE  TypeOK'
<1>1. Data'
  BY DEF TypeOK, Data, ReadFails
<1>2. Control'
  BY TypeSplit, Leaves DEF ReadFails, PCs, Returned
<1> QED
  BY <1>1, <1>2, TypeSplitNext

LEMMA LockToDecodeTyped ==
  ASSUME TypeOK, NEW t \in Threads, LockToDecode(t)
  PROVE  TypeOK'
<1>1. Data'
  BY DEF TypeOK, Data, LockToDecode
<1>2. Control'
  BY TypeSplit, Moves DEF LockToDecode, PCs, Returned, WriterSection, CryptoSection
<1> QED
  BY <1>1, <1>2, TypeSplitNext

LEMMA WokenTyped ==
  ASSUME TypeOK, NEW t \in Threads, Woken(t)
  PROVE  TypeOK'
<1>0. (IF chan.paused THEN "waiting" ELSE "writing") \in PCs
  BY DEF PCs
<1>1. Data'
  BY DEF TypeOK, Data, Woken
<1>2. Control'
  BY <1>0, TypeSplit, Leaves DEF Woken
<1> QED
  BY <1>1, <1>2, TypeSplitNext

LEMMA EncodeTyped ==
  ASSUME TypeOK, NEW t \in Threads, Encode(t)
  PROVE  TypeOK'
<1>0. Goto(t, "header") \/ Goto(t, "failed")
  BY DEF Encode
<1>1. Data'
  <2>0. ctx.sent + 1 \in Nat
    BY DEF TypeOK
  <2>1. ctx' \in [sent : Nat, received : Nat]
    BY <2>0 DEF Encode, TypeOK
  <2>2. arg' \in [Threads -> Frames]
    <3>1. CASE chan.crypt
      <4>1. arg[t] \in Frames
        BY DEF TypeOK
      <4>2. [arg[t] EXCEPT !.seq = ctx.sent + 1] \in Frames
        BY <2>0, <4>1 DEF Frames
      <4>3. arg' = [arg EXCEPT ![t] = [arg[t] EXCEPT !.seq = ctx.sent + 1]]
        BY <3>1 DEF Encode
      <4>4. arg \in [Threads -> Frames]
        BY DEF TypeOK
      <4> QED
        BY <4>2, <4>3, <4>4
    <3> QED
      BY <3>1 DEF Encode, TypeOK
  <2>3. hist' \in [got : Seq(Frames), bad : BOOLEAN, refused : Nat]
    <3>1. hist \in [got : Seq(Frames), bad : BOOLEAN, refused : Nat]
      BY DEF TypeOK
    <3>2. hist.refused + 1 \in Nat
      BY <3>1
    <3> QED
      BY <3>1, <3>2 DEF Encode
  <2> QED
    BY <2>1, <2>2, <2>3 DEF TypeOK, Data, Encode
<1>2. Control'
  <2>1. "header" \in PCs /\ "failed" \in PCs /\ pc[t] = "encode"
    BY DEF PCs, Returned, Encode
  <2> QED
    BY <1>0, <2>1, TypeSplit, Moves DEF WriterSection, CryptoSection
<1> QED
  BY <1>1, <1>2, TypeSplitNext

LEMMA WriteHeaderTyped ==
  ASSUME TypeOK, NEW t \in Threads, WriteHeader(t)
  PROVE  TypeOK'
<1>1. Data'
  <2>1. [part |-> "header", frame |-> arg[t]] \in Parts
    BY DEF TypeOK, Parts
  <2>2. Append(wire.out, [part |-> "header", frame |-> arg[t]]) \in Seq(Parts)
    BY <2>1 DEF TypeOK
  <2>3. wire' \in [out : Seq(Parts), in : Seq(Frames)]
    BY <2>2 DEF WriteHeader, Taken, TypeOK
  <2> QED
    BY <2>3 DEF TypeOK, Data, WriteHeader
<1>2. Control'
  BY TypeSplit, Moves DEF WriteHeader, PCs, Returned, WriterSection, CryptoSection
<1> QED
  BY <1>1, <1>2, TypeSplitNext

LEMMA WriteBodyTyped ==
  ASSUME TypeOK, NEW t \in Threads, WriteBody(t)
  PROVE  TypeOK'
<1>1. Data'
  <2>1. [part |-> "body", frame |-> arg[t]] \in Parts
    BY DEF TypeOK, Parts
  <2>2. Append(wire.out, [part |-> "body", frame |-> arg[t]]) \in Seq(Parts)
    BY <2>1 DEF TypeOK
  <2>3. wire' \in [out : Seq(Parts), in : Seq(Frames)]
    BY <2>2 DEF WriteBody, Taken, TypeOK
  <2> QED
    BY <2>3 DEF TypeOK, Data, WriteBody
<1>2. Control'
  BY TypeSplit, Moves DEF WriteBody, PCs, Returned, WriterSection, CryptoSection
<1> QED
  BY <1>1, <1>2, TypeSplitNext

LEMMA TakeFrameTyped ==
  ASSUME TypeOK, NEW t \in Threads, TakeFrame(t)
  PROVE  TypeOK'
<1>1. Data'
  <2>1. Head(wire.in) \in Frames /\ Tail(wire.in) \in Seq(Frames)
    BY DEF TakeFrame, TypeOK
  <2>2. wire' \in [out : Seq(Parts), in : Seq(Frames)]
    BY <2>1 DEF TakeFrame, TypeOK
  <2>3. arg' \in [Threads -> Frames]
    BY <2>1 DEF TakeFrame, TypeOK
  <2> QED
    BY <2>2, <2>3 DEF TypeOK, Data, TakeFrame
<1>2. Control'
  BY TypeSplit, Leaves DEF TakeFrame, PCs, Returned
<1> QED
  BY <1>1, <1>2, TypeSplitNext

LEMMA DecodeTyped ==
  ASSUME TypeOK, NEW t \in Threads, Decode(t)
  PROVE  TypeOK'
<1>1. Data'
  <2>1. ctx' \in [sent : Nat, received : Nat]
    BY DEF Decode, TypeOK
  <2>2. Append(hist.got, arg[t]) \in Seq(Frames) /\ Frame("NONE", 0, t) \in Frames
    BY FrameTyped DEF TypeOK
  <2>3. hist' \in [got : Seq(Frames), bad : BOOLEAN, refused : Nat]
    BY <2>2 DEF Decode, TypeOK
  <2>4. arg' \in [Threads -> Frames]
    BY <2>2 DEF Decode, TypeOK
  <2> QED
    BY <2>1, <2>3, <2>4 DEF TypeOK, Data, Decode
<1>2. Control'
  <2>1. Goto(t, "ok") \/ Goto(t, "failed")
    BY DEF Decode
  <2> QED
    BY <2>1, TypeSplit, Leaves DEF PCs, Returned
<1> QED
  BY <1>1, <1>2, TypeSplitNext

LEMMA WriterCallsTyped ==
  ASSUME TypeOK, NEW w \in Writers, WriterCalls(w)
  PROVE  TypeOK'
<1>0. calls' \in [Writers -> 0..MaxWrites]
  BY BoundsTyped DEF TypeOK, WriterCalls
<1>1. Data'
  BY <1>0, WriteMoves, Callers DEF TypeOK, Data, WriterCalls
<1>2. Control'
  BY WriteMoves, Callers DEF WriterCalls
<1> QED
  BY <1>1, <1>2, TypeSplitNext

LEMMA ReaderCallsTyped ==
  ASSUME TypeOK, ReaderCalls
  PROVE  TypeOK'
<1>1. Data'
  <2>1. Frame("NONE", 0, Reader) \in Frames
    BY FrameTyped, Callers
  <2>2. arg' \in [Threads -> Frames]
    BY <2>1 DEF ReaderCalls, TypeOK
  <2>3. chan' \in [paused : BOOLEAN, closed : BOOLEAN, crypt : BOOLEAN]
    BY CloseMoves, Callers DEF ReaderCalls, TypeOK
  <2> QED
    BY <2>2, <2>3 DEF TypeOK, Data, ReaderCalls
<1>2. Control'
  <2>1. CASE CallClose(Reader)
    BY <2>1, CloseMoves, Callers
  <2>2. CASE Goto(Reader, "reading")
    BY <2>2, TypeSplit, Leaves, Callers DEF PCs
  <2> QED
    BY <2>1, <2>2 DEF ReaderCalls
<1> QED
  BY <1>1, <1>2, TypeSplitNext

LEMMA PauseNewTyped ==
  ASSUME TypeOK, PauseNew
  PROVE  TypeOK'
<1>1. Data'
  BY DEF TypeOK, Data, PauseNew, Reach, Stages
<1>2. Control'
  BY TypeSplit DEF PauseNew, Control, Exclusive
<1> QED
  BY <1>1, <1>2, TypeSplitNext

LEMMA RegisterTyped ==
  ASSUME TypeOK, Register
  PROVE  TypeOK'
<1>1. Data'
  BY DEF TypeOK, Data, Register, Reach, Stages
<1>2. Control'
  BY TypeSplit DEF Register, Control, Exclusive
<1> QED
  BY <1>1, <1>2, TypeSplitNext

LEMMA DisableTyped ==
  ASSUME TypeOK, Disable
  PROVE  TypeOK'
<1>1. Data'
  BY DEF TypeOK, Data, Disable, Reach, Stages
<1>2. Control'
  BY TypeSplit DEF Disable, Control, Exclusive
<1> QED
  BY <1>1, <1>2, TypeSplitNext

LEMMA LastWrittenTyped ==
  ASSUME TypeOK, LastWritten
  PROVE  TypeOK'
<1>1. Data'
  BY DEF TypeOK, Data, LastWritten, Reach, Stages
<1>2. Control'
  BY TypeSplit DEF LastWritten, Control, Exclusive
<1> QED
  BY <1>1, <1>2, TypeSplitNext

LEMMA ResumeNewTyped ==
  ASSUME TypeOK, ResumeNew
  PROVE  TypeOK'
<1>1. Data'
  BY DEF TypeOK, Data, ResumeNew, Reach, Resume, Stages
<1>2. Control'
  BY TypeSplit, ResumeMoves DEF ResumeNew, Resume
<1> QED
  BY <1>1, <1>2, TypeSplitNext

LEMMA WriteLastTyped ==
  ASSUME TypeOK, WriteLast
  PROVE  TypeOK'
<1>0. Control' /\ arg' \in [Threads -> Frames]
  BY WriteMoves, Callers DEF WriteLast
<1>1. life' \in [stage : Stages, removal : {"up", "resumed", "telling", "closing"}]
  BY DEF TypeOK, WriteLast, Reach, Stages
<1>2. Data'
  BY <1>0, <1>1 DEF TypeOK, Data, WriteLast, CallWrite
<1> QED
  BY <1>0, <1>2, TypeSplitNext

LEMMA WriteSafeTyped ==
  ASSUME TypeOK, WriteSafe
  PROVE  TypeOK'
<1>0. Control' /\ arg' \in [Threads -> Frames]
  BY WriteMoves, Callers DEF WriteSafe
<1>1. life' \in [stage : Stages, removal : {"up", "resumed", "telling", "closing"}]
  BY DEF TypeOK, WriteSafe, Reach, Stages
<1>2. Data'
  BY <1>0, <1>1 DEF TypeOK, Data, WriteSafe, CallWrite
<1> QED
  BY <1>0, <1>2, TypeSplitNext

LEMMA WriteDiscTyped ==
  ASSUME TypeOK, WriteDisc
  PROVE  TypeOK'
<1>0. Control' /\ arg' \in [Threads -> Frames]
  BY WriteMoves, Callers DEF WriteDisc
<1>1. life' \in [stage : Stages, removal : {"up", "resumed", "telling", "closing"}]
  BY DEF TypeOK, WriteDisc, Reach, Stages
<1>2. Data'
  BY <1>0, <1>1 DEF TypeOK, Data, WriteDisc, CallWrite
<1> QED
  BY <1>0, <1>2, TypeSplitNext

LEMMA WriteDisconnectionTyped ==
  ASSUME TypeOK, WriteDisconnection
  PROVE  TypeOK'
<1>1. Data'
  BY WriteMoves, Callers DEF TypeOK, Data, WriteDisconnection, Remove
<1>2. Control'
  BY WriteMoves, Callers DEF WriteDisconnection
<1> QED
  BY <1>1, <1>2, TypeSplitNext

LEMMA DrainTyped ==
  ASSUME TypeOK, Drain
  PROVE  TypeOK'
<1>1. Data'
  BY DEF TypeOK, Data, Drain, Reach, Stages
<1>2. Control'
  BY TypeSplit, Leaves, Callers DEF Drain, PCs
<1> QED
  BY <1>1, <1>2, TypeSplitNext

LEMMA ClosePriorTyped ==
  ASSUME TypeOK, ClosePrior
  PROVE  TypeOK'
<1>1. Data'
  BY CloseMoves, Callers DEF TypeOK, Data, ClosePrior, Reach, Stages
<1>2. Control'
  BY CloseMoves, Callers DEF ClosePrior
<1> QED
  BY <1>1, <1>2, TypeSplitNext

LEMMA CloseRemovedTyped ==
  ASSUME TypeOK, CloseRemoved
  PROVE  TypeOK'
<1>1. Data'
  BY CloseMoves, Callers DEF TypeOK, Data, CloseRemoved, Remove
<1>2. Control'
  BY CloseMoves, Callers DEF CloseRemoved
<1> QED
  BY <1>1, <1>2, TypeSplitNext

LEMMA ResumeRemovedTyped ==
  ASSUME TypeOK, ResumeRemoved
  PROVE  TypeOK'
<1>1. Data'
  BY DEF TypeOK, Data, ResumeRemoved, Remove, Resume
<1>2. Control'
  <2>1. pc' = NotifyAll \/ UNCHANGED pc
    BY DEF ResumeRemoved, Resume
  <2> QED
    BY <2>1, TypeSplit, ResumeMoves DEF Control, Exclusive
<1> QED
  BY <1>1, <1>2, TypeSplitNext

\* What the peer sends arrives as frames; nothing moves here.
LEMMA ArrivesTyped ==
  ASSUME TypeOK, NEW n \in Nat,
         NEW kind \in {"DATA", "LAST", "SAFE", "DISC", "KEEP"}, Arrives(kind, n)
  PROVE  wire' \in [out : Seq(Parts), in : Seq(Frames)]
<1>1. Frame(kind, n, Reader) \in Frames
  BY FrameTyped, Callers
<1>2. Append(wire.in, Frame(kind, n, Reader)) \in Seq(Frames)
  BY <1>1 DEF TypeOK
<1> QED
  BY <1>2 DEF Arrives, TypeOK

LEMMA PeerWritesTyped ==
  ASSUME TypeOK, NEW kind \in {"DATA", "LAST", "SAFE", "DISC"},
         NEW mode \in {"up", "last", "safe", "done"}, PeerWrites(kind, mode)
  PROVE  TypeOK'
<1>1. peer.sent + 1 \in Nat
  BY DEF TypeOK
<1>2. wire' \in [out : Seq(Parts), in : Seq(Frames)]
  BY <1>1, ArrivesTyped DEF PeerWrites
<1>3. Data'
  BY <1>1, <1>2 DEF TypeOK, Data, PeerWrites
<1>4. Control'
  BY TypeSplit DEF PeerWrites, Control, Exclusive
<1> QED
  BY <1>3, <1>4, TypeSplitNext

LEMMA PeerWritesClearTyped ==
  ASSUME TypeOK, PeerWritesClear
  PROVE  TypeOK'
<1>1. Data'
  <2>1. wire' \in [out : Seq(Parts), in : Seq(Frames)]
    BY ArrivesTyped DEF PeerWritesClear
  <2> QED
    BY <2>1 DEF TypeOK, Data, PeerWritesClear
<1>2. Control'
  BY TypeSplit DEF PeerWritesClear, Control, Exclusive
<1> QED
  BY <1>1, <1>2, TypeSplitNext

LEMMA BreakTyped ==
  ASSUME TypeOK, Break
  PROVE  TypeOK'
<1>1. Data'
  BY DEF TypeOK, Data, Break
<1>2. Control'
  BY TypeSplit DEF Break, Control, Exclusive
<1> QED
  BY <1>1, <1>2, TypeSplitNext

LEMMA NextTyped == TypeOK /\ [Next]_vars => TypeOK'
<1> SUFFICES ASSUME TypeOK, [Next]_vars PROVE TypeOK'
  OBVIOUS
<1>1. CASE \E t \in Threads : Computes(t)
  BY <1>1, WokenTyped, LockWriterTyped, LockToEncodeTyped, EncodeTyped,
     WriteFailsTyped, LockReaderTyped, ReadFailsTyped, LockToDecodeTyped,
     DecodeTyped, CloseReaderTyped, CloseWriterTyped
     DEF Computes
<1>2. CASE \E t \in Threads : Transfers(t)
  BY <1>2, WriteHeaderTyped, WriteBodyTyped, TakeFrameTyped DEF Transfers
<1>3. CASE \E w \in Writers : WriterCalls(w)
  BY <1>3, WriterCallsTyped
<1>4. CASE ReaderCalls
  BY <1>4, ReaderCallsTyped
<1>5. CASE Manages
  BY <1>5, PauseNewTyped, RegisterTyped, ResumeNewTyped, WriteLastTyped,
     LastWrittenTyped, WriteSafeTyped, DisableTyped, WriteDiscTyped,
     DrainTyped, ClosePriorTyped
     DEF Manages
<1>6. CASE Removes
  BY <1>6, ResumeRemovedTyped, WriteDisconnectionTyped, CloseRemovedTyped DEF Removes
<1>7. CASE PeerData \/ PeerLast \/ PeerSafe \/ PeerLeaves
  BY <1>7, PeerWritesTyped DEF PeerData, PeerLast, PeerSafe, PeerLeaves
<1>8. CASE PeerWritesClear \/ Break
  BY <1>8, PeerWritesClearTyped, BreakTyped
<1>9. CASE UNCHANGED vars
  BY <1>9 DEF vars, TypeOK, Exclusive
<1> QED
  BY <1>1, <1>2, <1>3, <1>4, <1>5, <1>6, <1>7, <1>8, <1>9 DEF Next

\* Every reachable state has its types, and every mutex of the channel at
\* most one holder.
THEOREM TypeCorrect == Spec => []TypeOK
<1>1. Init => TypeOK
  BY InitTyped
<1>2. TypeOK /\ [Next]_vars => TypeOK'
  BY NextTyped
<1> QED
  BY <1>1, <1>2, PTL DEF Spec

-----------------------------------------------------------------------------
(* Pausing: LifeInv *)

\* Nobody has begun to write.
Quiet ==
    /\ wire.out = << >> /\ ctx.sent = 0
    /\ \A t \in Threads : pc[t] \notin {"woken", "writing"} \cup WriterSection

\* The channel is being brought in and nobody has ended it yet.
Incomer ==
    life.stage \in {"new", "fresh", "held"} /\ life.removal = "up" /\ ~chan.closed

\* Nobody calls a channel that is not registered; until it is resumed or
\* ended it is paused and quiet.
LifeInv ==
    /\ ClosedNotPaused
    /\ NoLostWakeup
    /\ life.stage \in {"new", "fresh"} =>
         /\ life.removal = "up" /\ ~chan.closed /\ ~chan.crypt
         /\ \A t \in Threads : pc[t] \in Returned
    /\ Incomer => Quiet
    /\ Incomer /\ life.stage # "new" => chan.paused

LEMMA InitLife == Init => LifeInv
BY DEF Init, LifeInv, ClosedNotPaused, NoLostWakeup, Incomer, Quiet, Returned,
       WriterSection

\* A thread moves, and nothing else that LifeInv looks at changes.
LEMMA LifeMoves ==
  ASSUME TypeOK, LifeInv, NEW t \in Threads, NEW label, Goto(t, label),
         UNCHANGED <<chan, life>>,
         Incomer => wire'.out = wire.out /\ ctx'.sent = ctx.sent,
         life.stage \in {"new", "fresh"} => label \in Returned,
         label = "waiting" => chan.paused,
         Incomer => label \notin {"woken", "writing"} \cup WriterSection
  PROVE  LifeInv'
<1>1. pc \in [Threads -> PCs]
  BY DEF TypeOK
<1>2. \A u \in Threads : pc'[u] = IF u = t THEN label ELSE pc[u]
  BY <1>1 DEF Goto
<1>3. ClosedNotPaused' /\ NoLostWakeup'
  BY <1>2 DEF LifeInv, ClosedNotPaused, NoLostWakeup
<1>4. (life.stage \in {"new", "fresh"} =>
         /\ life.removal = "up" /\ ~chan.closed /\ ~chan.crypt
         /\ \A u \in Threads : pc[u] \in Returned)'
  BY <1>2 DEF LifeInv
<1>5. (Incomer => Quiet)'
  BY <1>2 DEF LifeInv, Incomer, Quiet
<1>6. (Incomer /\ life.stage # "new" => chan.paused)'
  BY DEF LifeInv, Incomer
<1> QED
  BY <1>3, <1>4, <1>5, <1>6 DEF LifeInv

\* Resume wakes every waiter, once the channel is no longer an incomer.
LEMMA LifeResume ==
  ASSUME TypeOK, LifeInv, Resume, ~Incomer', life'.stage \notin {"new", "fresh"}
  PROVE  LifeInv'
<1>1. \A t \in Threads : pc'[t] # "waiting"
  BY TypeSplit, NotifyMoves DEF Resume
<1>2. ~chan'.paused
  BY DEF Resume, TypeOK
<1> QED
  BY <1>1, <1>2 DEF LifeInv, ClosedNotPaused, NoLostWakeup, Incomer

LEMMA LifeClose ==
  ASSUME TypeOK, LifeInv, NEW t \in Threads, CallClose(t),
         life.stage \notin {"new", "fresh"}, life'.stage \notin {"new", "fresh"}
  PROVE  LifeInv'
<1>1. pc \in [Threads -> PCs]
  BY DEF TypeOK
<1>2. CASE chan.closed /\ Goto(t, "ok") /\ UNCHANGED chan
  <2>1. \A u \in Threads : pc'[u] = "waiting" => pc[u] = "waiting"
    BY <1>1, <1>2 DEF Goto
  <2> QED
    BY <1>2, <2>1 DEF LifeInv, ClosedNotPaused, NoLostWakeup, Incomer
<1>3. CASE /\ chan' = [chan EXCEPT !.closed = TRUE, !.paused = FALSE]
           /\ pc' = [NotifyAll EXCEPT ![t] = "closeReader"]
  <2>1. chan'.closed /\ ~chan'.paused
    BY <1>3 DEF TypeOK
  <2>2. \A u \in Threads : pc'[u] # "waiting"
    BY <1>3, TypeSplit, NotifyMoves
  <2> QED
    BY <2>1, <2>2 DEF LifeInv, ClosedNotPaused, NoLostWakeup, Incomer
<1> QED
  BY <1>2, <1>3 DEF CallClose

\* A call of Write on an incomer waits.
LEMMA LifeWrite ==
  ASSUME TypeOK, LifeInv, NEW t \in Threads, NEW kind, CallWrite(t, kind),
         life.stage \notin {"new", "fresh"}, life'.stage \notin {"new", "fresh"},
         Incomer' => Incomer, UNCHANGED <<chan, wire, ctx>>
  PROVE  LifeInv'
<1>1. pc \in [Threads -> PCs]
  BY DEF TypeOK
<1>2. \A u \in Threads : pc'[u] =
         IF u = t THEN IF chan.paused THEN "waiting" ELSE "writing" ELSE pc[u]
  BY <1>1 DEF CallWrite, Goto
<1>3. Incomer => chan.paused
  BY DEF LifeInv, Incomer
<1>4. ClosedNotPaused' /\ NoLostWakeup'
  BY <1>2 DEF LifeInv, ClosedNotPaused, NoLostWakeup
<1>5. (Incomer => Quiet)'
  BY <1>2, <1>3 DEF LifeInv, Quiet, WriterSection
<1> QED
  BY <1>3, <1>4, <1>5 DEF LifeInv

LEMMA LockWriterLife ==
  ASSUME TypeOK, LifeInv, NEW t \in Threads, LockWriter(t)
  PROVE  LifeInv'
<1>1. life.stage \notin {"new", "fresh"} /\ ~Incomer
  BY DEF LockWriter, LifeInv, Incomer, Quiet, Returned, WriterSection
<1> QED
  BY <1>1, LifeMoves DEF LockWriter

LEMMA LockToEncodeLife ==
  ASSUME TypeOK, LifeInv, NEW t \in Threads, LockToEncode(t)
  PROVE  LifeInv'
<1>1. life.stage \notin {"new", "fresh"} /\ ~Incomer
  BY DEF LockToEncode, LifeInv, Incomer, Quiet, Returned, WriterSection
<1> QED
  BY <1>1, LifeMoves DEF LockToEncode

LEMMA WriteHeaderLife ==
  ASSUME TypeOK, LifeInv, NEW t \in Threads, WriteHeader(t)
  PROVE  LifeInv'
<1>1. life.stage \notin {"new", "fresh"} /\ ~Incomer
  BY DEF WriteHeader, LifeInv, Incomer, Quiet, Returned, WriterSection
<1> QED
  BY <1>1, LifeMoves DEF WriteHeader

LEMMA WriteBodyLife ==
  ASSUME TypeOK, LifeInv, NEW t \in Threads, WriteBody(t)
  PROVE  LifeInv'
<1>1. life.stage \notin {"new", "fresh"} /\ ~Incomer
  BY DEF WriteBody, LifeInv, Incomer, Quiet, Returned, WriterSection
<1> QED
  BY <1>1, LifeMoves DEF WriteBody

LEMMA EncodeLife ==
  ASSUME TypeOK, LifeInv, NEW t \in Threads, Encode(t)
  PROVE  LifeInv'
<1>1. life.stage \notin {"new", "fresh"} /\ ~Incomer
  BY DEF Encode, LifeInv, Incomer, Quiet, Returned, WriterSection
<1>2. Goto(t, "header") \/ Goto(t, "failed")
  BY DEF Encode
<1> QED
  BY <1>1, <1>2, LifeMoves DEF Encode

LEMMA WriteFailsLife ==
  ASSUME TypeOK, LifeInv, NEW t \in Threads, WriteFails(t)
  PROVE  LifeInv'
<1>1. life.stage \notin {"new", "fresh"} /\ ~Incomer
  BY DEF WriteFails, LifeInv, Incomer, Quiet, Returned, WriterSection
<1> QED
  BY <1>1, LifeMoves DEF WriteFails

LEMMA WokenLife ==
  ASSUME TypeOK, LifeInv, NEW t \in Threads, Woken(t)
  PROVE  LifeInv'
<1>1. life.stage \notin {"new", "fresh"} /\ ~Incomer
  BY DEF Woken, LifeInv, Incomer, Quiet, Returned, WriterSection
<1> QED
  BY <1>1, LifeMoves DEF Woken

LEMMA LockReaderLife ==
  ASSUME TypeOK, LifeInv, NEW t \in Threads, LockReader(t)
  PROVE  LifeInv'
<1>1. life.stage \notin {"new", "fresh"}
  BY DEF LockReader, LifeInv, Returned
<1> QED
  BY <1>1, LifeMoves DEF LockReader, WriterSection, Returned

LEMMA ReadFailsLife ==
  ASSUME TypeOK, LifeInv, NEW t \in Threads, ReadFails(t)
  PROVE  LifeInv'
<1>1. life.stage \notin {"new", "fresh"}
  BY DEF ReadFails, LifeInv, Returned
<1> QED
  BY <1>1, LifeMoves DEF ReadFails, WriterSection, Returned

LEMMA LockToDecodeLife ==
  ASSUME TypeOK, LifeInv, NEW t \in Threads, LockToDecode(t)
  PROVE  LifeInv'
<1>1. life.stage \notin {"new", "fresh"}
  BY DEF LockToDecode, LifeInv, Returned
<1> QED
  BY <1>1, LifeMoves DEF LockToDecode, WriterSection, Returned

LEMMA CloseReaderLife ==
  ASSUME TypeOK, LifeInv, NEW t \in Threads, CloseReader(t)
  PROVE  LifeInv'
<1>1. life.stage \notin {"new", "fresh"}
  BY DEF CloseReader, LifeInv, Returned
<1> QED
  BY <1>1, LifeMoves DEF CloseReader, WriterSection, Returned

LEMMA CloseWriterLife ==
  ASSUME TypeOK, LifeInv, NEW t \in Threads, CloseWriter(t)
  PROVE  LifeInv'
<1>1. life.stage \notin {"new", "fresh"}
  BY DEF CloseWriter, LifeInv, Returned
<1> QED
  BY <1>1, LifeMoves DEF CloseWriter, WriterSection, Returned

LEMMA TakeFrameLife ==
  ASSUME TypeOK, LifeInv, NEW t \in Threads, TakeFrame(t)
  PROVE  LifeInv'
<1>1. life.stage \notin {"new", "fresh"}
  BY DEF TakeFrame, LifeInv, Returned
<1>2. wire'.out = wire.out
  BY DEF TakeFrame, TypeOK
<1> QED
  BY <1>1, <1>2, LifeMoves DEF TakeFrame, WriterSection

LEMMA DecodeLife ==
  ASSUME TypeOK, LifeInv, NEW t \in Threads, Decode(t)
  PROVE  LifeInv'
<1>1. life.stage \notin {"new", "fresh"}
  BY DEF Decode, LifeInv, Returned
<1>2. ctx'.sent = ctx.sent
  BY DEF Decode, TypeOK
<1>3. Goto(t, "ok") \/ Goto(t, "failed")
  BY DEF Decode
<1> QED
  BY <1>1, <1>2, <1>3, LifeMoves DEF Decode, WriterSection, Returned

LEMMA WriterCallsLife ==
  ASSUME TypeOK, LifeInv, NEW w \in Writers, WriterCalls(w)
  PROVE  LifeInv'
BY LifeWrite, Callers DEF WriterCalls, Shared, Incomer

LEMMA ReaderCallsLife ==
  ASSUME TypeOK, LifeInv, ReaderCalls
  PROVE  LifeInv'
<1>1. CASE CallClose(Reader)
  BY <1>1, LifeClose, Callers DEF ReaderCalls, Shared
<1>2. CASE Goto(Reader, "reading") /\ UNCHANGED chan
  BY <1>2, LifeMoves, Callers DEF ReaderCalls, Shared, WriterSection
<1> QED
  BY <1>1, <1>2 DEF ReaderCalls

LEMMA PauseNewLife ==
  ASSUME TypeOK, LifeInv, PauseNew
  PROVE  LifeInv'
<1>1. UNCHANGED <<pc, wire, ctx>>
  BY DEF PauseNew
<1> QED
  BY <1>1 DEF PauseNew, LifeInv, TypeOK, ClosedNotPaused, NoLostWakeup, Incomer, Quiet,
              At, Reach, Returned, WriterSection

LEMMA RegisterLife ==
  ASSUME TypeOK, LifeInv, Register
  PROVE  LifeInv'
<1>1. UNCHANGED <<pc, wire, ctx>>
  BY DEF Register
<1> QED
  BY <1>1 DEF Register, LifeInv, TypeOK, ClosedNotPaused, NoLostWakeup, Incomer, Quiet,
              At, Reach, Returned, WriterSection

LEMMA DisableLife ==
  ASSUME TypeOK, LifeInv, Disable
  PROVE  LifeInv'
<1>1. UNCHANGED <<pc, wire, ctx>>
  BY DEF Disable
<1> QED
  BY <1>1 DEF Disable, LifeInv, TypeOK, ClosedNotPaused, NoLostWakeup, Incomer, Quiet,
              At, Reach, Returned, WriterSection

LEMMA LastWrittenLife ==
  ASSUME TypeOK, LifeInv, LastWritten
  PROVE  LifeInv'
<1>1. UNCHANGED <<pc, wire, ctx>>
  BY DEF LastWritten
<1> QED
  BY <1>1 DEF LastWritten, LifeInv, TypeOK, ClosedNotPaused, NoLostWakeup, Incomer, Quiet,
              At, Reach, Returned, WriterSection

LEMMA ResumeNewLife ==
  ASSUME TypeOK, LifeInv, ResumeNew
  PROVE  LifeInv'
<1>1. life'.stage = "active"
  BY DEF ResumeNew, Reach, TypeOK
<1> QED
  BY <1>1, LifeResume DEF ResumeNew, Incomer

LEMMA WriteLastLife ==
  ASSUME TypeOK, LifeInv, WriteLast
  PROVE  LifeInv'
<1>1. /\ life.stage \notin {"new", "fresh", "held"}
      /\ life'.stage \notin {"new", "fresh", "held"}
  BY DEF WriteLast, At, Reach, TypeOK
<1> QED
  BY <1>1, LifeWrite, Callers DEF WriteLast, Incomer

LEMMA WriteSafeLife ==
  ASSUME TypeOK, LifeInv, WriteSafe
  PROVE  LifeInv'
<1>1. /\ life.stage \notin {"new", "fresh", "held"}
      /\ life'.stage \notin {"new", "fresh", "held"}
  BY DEF WriteSafe, At, Reach, TypeOK
<1> QED
  BY <1>1, LifeWrite, Callers DEF WriteSafe, Incomer

LEMMA WriteDiscLife ==
  ASSUME TypeOK, LifeInv, WriteDisc
  PROVE  LifeInv'
<1>1. /\ life.stage \notin {"new", "fresh", "held"}
      /\ life'.stage \notin {"new", "fresh", "held"}
  BY DEF WriteDisc, At, Reach, TypeOK
<1> QED
  BY <1>1, LifeWrite, Callers DEF WriteDisc, Incomer

LEMMA DrainLife ==
  ASSUME TypeOK, LifeInv, Drain
  PROVE  LifeInv'
<1>1. /\ life.stage = "disc" /\ life'.stage = "drain"
  BY DEF Drain, At, Reach, TypeOK
<1>2. \A t \in Threads : pc'[t] = "waiting" => pc[t] = "waiting"
  BY Callers DEF Drain, Goto, TypeOK
<1> QED
  BY <1>1, <1>2 DEF Drain, LifeInv, ClosedNotPaused, NoLostWakeup, Incomer

LEMMA ClosePriorLife ==
  ASSUME TypeOK, LifeInv, ClosePrior
  PROVE  LifeInv'
<1>1. /\ life.stage \notin {"new", "fresh"} /\ life'.stage = "closing"
  BY DEF ClosePrior, At, Reach, TypeOK
<1> QED
  BY <1>1, LifeClose, Callers DEF ClosePrior

LEMMA ResumeRemovedLife ==
  ASSUME TypeOK, LifeInv, ResumeRemoved
  PROVE  LifeInv'
<1>1. /\ life'.stage \notin {"new", "fresh"} /\ life'.removal # "up"
  BY DEF ResumeRemoved, Active, Remove, TypeOK
<1>2. CASE Resume
  BY <1>1, <1>2, LifeResume DEF Incomer
<1>3. CASE UNCHANGED <<chan, pc>>
  BY <1>1, <1>3 DEF LifeInv, ClosedNotPaused, NoLostWakeup, Incomer
<1> QED
  BY <1>2, <1>3 DEF ResumeRemoved

LEMMA WriteDisconnectionLife ==
  ASSUME TypeOK, LifeInv, WriteDisconnection
  PROVE  LifeInv'
<1>1. life.stage \notin {"new", "fresh"} /\ life'.stage = life.stage
  BY DEF WriteDisconnection, LifeInv, Remove, TypeOK
<1>2. ~Incomer'
  BY DEF WriteDisconnection, Remove, TypeOK, Incomer
<1> QED
  BY <1>1, <1>2, LifeWrite, Callers DEF WriteDisconnection

LEMMA CloseRemovedLife ==
  ASSUME TypeOK, LifeInv, CloseRemoved
  PROVE  LifeInv'
<1>1. life.stage \notin {"new", "fresh"} /\ life'.stage = life.stage
  BY DEF CloseRemoved, LifeInv, Remove, TypeOK
<1> QED
  BY <1>1, LifeClose, Callers DEF CloseRemoved

\* What the peer and the transport do.
LEMMA OutsideLife ==
  ASSUME TypeOK, LifeInv, UNCHANGED <<chan, ctx, pc, life>>, wire'.out = wire.out
  PROVE  LifeInv'
BY DEF LifeInv, ClosedNotPaused, NoLostWakeup, Incomer, Quiet

LEMMA PeerKeepsOut ==
  ASSUME TypeOK,
         PeerData \/ PeerLast \/ PeerSafe \/ PeerLeaves \/ PeerWritesClear \/ Break
  PROVE  wire'.out = wire.out /\ UNCHANGED <<chan, ctx, pc, arg, life, hist>>
BY DEF PeerData, PeerLast, PeerSafe, PeerLeaves, PeerWrites, PeerWritesClear, Break,
       Arrives, TypeOK

LEMMA NextLife == TypeOK /\ LifeInv /\ [Next]_vars => LifeInv'
<1> SUFFICES ASSUME TypeOK, LifeInv, [Next]_vars PROVE LifeInv'
  OBVIOUS
<1>1. CASE \E t \in Threads : Computes(t)
  BY <1>1, WokenLife, LockWriterLife, LockToEncodeLife, EncodeLife, WriteFailsLife,
     LockReaderLife, ReadFailsLife, LockToDecodeLife, DecodeLife,
     CloseReaderLife, CloseWriterLife
     DEF Computes
<1>2. CASE \E t \in Threads : Transfers(t)
  BY <1>2, WriteHeaderLife, WriteBodyLife, TakeFrameLife DEF Transfers
<1>3. CASE \E w \in Writers : WriterCalls(w)
  BY <1>3, WriterCallsLife
<1>4. CASE ReaderCalls
  BY <1>4, ReaderCallsLife
<1>5. CASE Manages
  BY <1>5, PauseNewLife, RegisterLife, ResumeNewLife, WriteLastLife,
     LastWrittenLife, WriteSafeLife, DisableLife, WriteDiscLife, DrainLife,
     ClosePriorLife
     DEF Manages
<1>6. CASE Removes
  BY <1>6, ResumeRemovedLife, WriteDisconnectionLife, CloseRemovedLife DEF Removes
<1>7. CASE PeerData \/ PeerLast \/ PeerSafe \/ PeerLeaves \/ PeerWritesClear \/ Break
  BY <1>7, OutsideLife, PeerKeepsOut
<1>8. CASE UNCHANGED vars
  BY <1>8, OutsideLife DEF vars
<1> QED
  BY <1>1, <1>2, <1>3, <1>4, <1>5, <1>6, <1>7, <1>8 DEF Next

LEMMA LifeAlways == Spec => [](TypeOK /\ LifeInv)
<1>1. Init => TypeOK /\ LifeInv
  BY InitTyped, InitLife
<1>2. (TypeOK /\ LifeInv) /\ [Next]_vars => (TypeOK /\ LifeInv)'
  BY NextTyped, NextLife
<1> QED
  BY <1>1, <1>2, PTL DEF Spec

\* A thread sleeps only while the channel is paused: Resume and Close wake
\* all who wait, and whoever wakes tests again.
THEOREM NoneSleeps == Spec => []NoLostWakeup
<1>1. LifeInv => NoLostWakeup
  BY DEF LifeInv
<1> QED
  BY <1>1, LifeAlways, PTL

\* Close unblocks for good: the channel is paused before anybody can close it.
THEOREM ClosedStaysOpen == Spec => []ClosedNotPaused
<1>1. LifeInv => ClosedNotPaused
  BY DEF LifeInv
<1> QED
  BY <1>1, LifeAlways, PTL

\* Until the new channel is resumed or ended no writer is past the pause, no
\* number of the shared context is taken and nothing is in the transport.
THEOREM NothingEarly == Spec => []HeldBack
<1>1. LifeInv => HeldBack
  BY DEF LifeInv, HeldBack, Incomer, Quiet, WriterHolders, WriterSection
<1> QED
  BY <1>1, LifeAlways, PTL

-----------------------------------------------------------------------------
(* Writing: WriterInv, NumberInv, WireInOrder *)

\* The number s may go into the next frame.
Follows(s) ==
    \/ s = 0
    \/ /\ s <= Number(Len(wire.out) + 1) + hist.refused
       /\ \A i \in 1..Len(wire.out) :
            0 < wire.out[i].frame.seq /\ wire.out[i].frame.seq < s

\* A body follows its header; while the transport takes anything no header is
\* left alone, and the frame in a writer's hand has the next number.
WriterInv ==
    LET n == Len(wire.out)
    IN  /\ \A t \in Threads : pc[t] = "body" =>
             IsHeader(n) /\ n > 0 /\ wire.out[n].frame = arg[t]
        /\ Writable /\ (\A t \in Threads : pc[t] # "body") => ~IsHeader(n)
        /\ \A t \in Threads : Writable /\ pc[t] = "header" => Follows(arg[t].seq)
        /\ \A t \in Threads :
             pc[t] \in {"waiting", "woken", "writing", "locked", "encode"}
                => arg[t].seq = 0

\* While the channel encrypts, its writes and its refusals use up every number.
NumberInv ==
    LET n == Len(wire.out)
        lost == 2 * hist.refused
    IN  /\ hist.refused <= ctx.sent
        /\ Writable /\ chan.crypt =>
             /\ \A i \in 1..n : 0 < wire.out[i].frame.seq
                                /\ wire.out[i].frame.seq <= ctx.sent
             /\ (\A t \in Threads : pc[t] \notin {"header", "body"})
                   => 2 * ctx.sent = n + lost
             /\ \A t \in Threads : pc[t] = "header" =>
                  arg[t].seq = ctx.sent /\ 2 * ctx.sent = n + 2 + lost
             /\ \A t \in Threads : pc[t] = "body" => 2 * ctx.sent = n + 1 + lost

WireInv == WireInOrder /\ WriterInv /\ NumberInv

LEMMA Alternate ==
  ASSUME NEW n \in Nat
  PROVE  IsHeader(n + 1) <=> ~IsHeader(n)
BY DEF IsHeader

LEMMA NextNumber ==
  ASSUME NEW n \in Nat, NEW k \in Nat, NEW r \in Nat, 2 * k = n + 2 * r
  PROVE  Number(n + 1) + r = k + 1
BY DEF Number

\* InOrder(out, i) reads nothing of out beyond i.
LEMMA InOrderPrefix ==
  ASSUME NEW out, NEW more, NEW n \in Nat, NEW i \in 1..n, NEW r,
         \A j \in 1..n : more[j] = out[j], InOrder(out, i, r)
  PROVE  InOrder(more, i, r)
<1>1. more[i] = out[i] /\ \A j \in 1..(i-1) : j \in 1..n /\ more[j] = out[j]
  OBVIOUS
<1>2. ~IsHeader(i) => i - 1 \in 1..n
  <2>1. i = 1 => IsHeader(i)
    BY DEF IsHeader
  <2> QED
    BY <2>1
<1>3. ~IsHeader(i) => more[i-1] = out[i-1]
  BY <1>2
<1> QED
  BY <1>1, <1>3 DEF InOrder

\* One more number may be missing.
LEMMA InOrderMore ==
  ASSUME NEW out, NEW i \in Nat, NEW r \in Nat, InOrder(out, i, r),
         out[i].frame.seq \in Nat
  PROVE  InOrder(out, i, r + 1)
<1>1. Number(i) \in Nat
  BY DEF Number
<1>2. out[i].frame.seq <= Number(i) + r => out[i].frame.seq <= Number(i) + (r + 1)
  BY <1>1
<1> QED
  BY <1>2 DEF InOrder

LEMMA InitWire == Init => WireInv
<1> SUFFICES ASSUME Init PROVE WireInv
  OBVIOUS
<1>1. /\ wire.out = << >> /\ Len(wire.out) = 0 /\ ~chan.crypt
      /\ hist.refused = 0 /\ ctx.sent = 0
  BY DEF Init
<1>2. (\A t \in Threads : pc[t] = "ok") /\ ~IsHeader(0)
  BY DEF Init, IsHeader
<1> QED
  BY <1>1, <1>2 DEF WireInv, WireInOrder, WriterInv, NumberInv

EarlyWriting == {"waiting", "woken", "writing", "locked", "encode"}

\* A step that writes nothing, encodes nothing, and lets nobody in.
LEMMA WireStays ==
  ASSUME WireInv, wire'.out = wire.out, ctx'.sent = ctx.sent,
         hist'.refused = hist.refused,
         Writable' => Writable, chan'.crypt => chan.crypt,
         \A u \in Threads : pc'[u] = "header" => pc[u] = "header",
         \A u \in Threads : pc'[u] = "body" => pc[u] = "body",
         Writable' => \A u \in Threads : pc[u] \in {"header", "body"} => pc'[u] = pc[u],
         \A u \in Threads : pc[u] \in {"header", "body"} => arg'[u] = arg[u],
         \A u \in Threads : pc'[u] \in EarlyWriting => arg'[u].seq = 0
  PROVE  WireInv'
<1> DEFINE n == Len(wire.out)
<1>1. WireInOrder'
  BY DEF WireInv, WireInOrder
<1>2. WriterInv'
  <2>1. \A t \in Threads : pc'[t] = "body" =>
           IsHeader(n) /\ n > 0 /\ wire.out[n].frame = arg'[t]
    BY DEF WireInv, WriterInv
  <2>2. Writable' /\ (\A t \in Threads : pc'[t] # "body") => ~IsHeader(n)
    BY DEF WireInv, WriterInv
  <2>3. ASSUME NEW t \in Threads, Writable', pc'[t] = "header"
        PROVE  Follows(arg'[t].seq)
    <3>1. Writable /\ pc[t] = "header" /\ arg'[t] = arg[t]
      BY <2>3
    <3> QED
      BY <3>1 DEF WireInv, WriterInv
  <2>4. ASSUME NEW s, Follows(s) PROVE Follows(s)'
    BY <2>4 DEF Follows
  <2>5. \A t \in Threads : Writable' /\ pc'[t] = "header" => Follows(arg[t].seq)'
    BY <2>3, <2>4
  <2> QED
    BY <2>1, <2>2, <2>5 DEF WriterInv, EarlyWriting
<1>3. NumberInv'
  <2> SUFFICES ASSUME Writable', chan'.crypt
               PROVE  /\ \A i \in 1..n : 0 < wire.out[i].frame.seq
                                         /\ wire.out[i].frame.seq <= ctx.sent
                      /\ (\A t \in Threads : pc'[t] \notin {"header", "body"})
                            => 2 * ctx.sent = n + 2 * hist.refused
                      /\ \A t \in Threads : pc'[t] = "header" =>
                           arg'[t].seq = ctx.sent
                           /\ 2 * ctx.sent = n + 2 + 2 * hist.refused
                      /\ \A t \in Threads : pc'[t] = "body" =>
                           2 * ctx.sent = n + 1 + 2 * hist.refused
    BY DEF WireInv, NumberInv
  <2>1. Writable /\ chan.crypt
    OBVIOUS
  <2> QED
    BY <2>1 DEF WireInv, NumberInv
<1> QED
  BY <1>1, <1>2, <1>3 DEF WireInv

\* One thread moves, outside header and body.
LEMMA WireMoves ==
  ASSUME TypeOK, WireInv, NEW t \in Threads, NEW label, Goto(t, label),
         wire'.out = wire.out, ctx'.sent = ctx.sent,
         hist'.refused = hist.refused,
         Writable' => Writable, chan'.crypt => chan.crypt,
         label \notin {"header", "body"},
         Writable' => pc[t] \notin {"header", "body"},
         \A u \in Threads : u # t => arg'[u] = arg[u],
         pc[t] \in {"header", "body"} => arg'[t] = arg[t],
         label \in EarlyWriting => arg'[t].seq = 0
  PROVE  WireInv'
<1>1. pc \in [Threads -> PCs]
  BY DEF TypeOK
<1>2. \A u \in Threads : pc'[u] = IF u = t THEN label ELSE pc[u]
  BY <1>1 DEF Goto
<1>3. \A u \in Threads : pc'[u] \in EarlyWriting => arg'[u].seq = 0
  BY <1>2 DEF WireInv, WriterInv, EarlyWriting
<1> QED
  BY <1>2, <1>3, WireStays

\* Waiting threads wake up.
LEMMA WireResume ==
  ASSUME TypeOK, WireInv, pc' = NotifyAll, UNCHANGED <<wire, ctx, io, arg, hist>>,
         chan'.crypt => chan.crypt
  PROVE  WireInv'
<1>1. \A u \in Threads : pc'[u] \in {pc[u], "woken"} /\
                          (pc[u] # "waiting" => pc'[u] = pc[u])
  BY TypeSplit, NotifyMoves
<1>2. \A u \in Threads : pc'[u] = "woken" => pc[u] \in {"waiting", "woken"}
  BY <1>1
<1>3. \A u \in Threads : pc'[u] \in EarlyWriting => arg'[u].seq = 0
  BY <1>1, <1>2 DEF WireInv, WriterInv, EarlyWriting
<1>4. Writable' => Writable
  BY DEF Writable
<1> QED
  BY <1>1, <1>3, <1>4, WireStays DEF EarlyWriting

LEMMA WireClose ==
  ASSUME TypeOK, WireInv, NEW t \in Threads, CallClose(t), CanCall(t),
         UNCHANGED <<wire, ctx, io, hist>>,
         \A u \in Threads : u # t => arg'[u] = arg[u]
  PROVE  WireInv'
<1>0. Writable' => Writable
  BY DEF Writable
<1>1. CASE Goto(t, "ok") /\ UNCHANGED chan
  BY <1>0, <1>1, WireMoves DEF CanCall, Returned, EarlyWriting
<1>2. CASE /\ chan' = [chan EXCEPT !.closed = TRUE, !.paused = FALSE]
           /\ pc' = [NotifyAll EXCEPT ![t] = "closeReader"]
  <2>1. \A u \in Threads : u # t =>
           pc'[u] \in {pc[u], "woken"} /\ (pc[u] # "waiting" => pc'[u] = pc[u])
    BY <1>2, TypeSplit, NotifyMoves
  <2>2. pc'[t] = "closeReader"
    BY <1>2, TypeSplit, NotifyMoves
  <2>3. \A u \in Threads : pc'[u] \in EarlyWriting => arg'[u].seq = 0
    <3> SUFFICES ASSUME NEW u \in Threads, pc'[u] \in EarlyWriting PROVE arg'[u].seq = 0
      OBVIOUS
    <3>1. u # t /\ pc[u] \in EarlyWriting
      BY <2>1, <2>2 DEF EarlyWriting
    <3> QED
      BY <3>1 DEF WireInv, WriterInv, EarlyWriting
  <2>4. chan'.crypt = chan.crypt
    BY <1>2 DEF TypeOK
  <2> QED
    BY <1>0, <2>1, <2>2, <2>3, <2>4, WireStays DEF CanCall, Returned
<1> QED
  BY <1>1, <1>2 DEF CallClose

LEMMA WireCallWrite ==
  ASSUME TypeOK, WireInv, NEW t \in Threads, NEW kind, CallWrite(t, kind), CanCall(t),
         UNCHANGED <<wire, ctx, io, chan, hist>>
  PROVE  WireInv'
<1>1. arg'[t].seq = 0 /\ \A u \in Threads : u # t => arg'[u] = arg[u]
  BY DEF CallWrite, TypeOK, Frame
<1>2. Writable' => Writable
  BY DEF Writable
<1> QED
  BY <1>1, <1>2, WireMoves DEF CallWrite, CanCall, Returned

\* Frames on the wire have numbers.
LEMMA WireNumbers ==
  ASSUME TypeOK
  PROVE  \A i \in 1..Len(wire.out) : wire.out[i].frame.seq \in Nat
<1> SUFFICES ASSUME NEW i \in 1..Len(wire.out) PROVE wire.out[i].frame.seq \in Nat
  OBVIOUS
<1>1. wire.out \in Seq(Parts)
  BY DEF TypeOK
<1>2. wire.out[i] \in Parts
  BY <1>1
<1>3. wire.out[i].frame \in Frames
  BY <1>2 DEF Parts
<1> QED
  BY <1>3 DEF Frames

\* One more number, and one more frame or one more refusal.
LEMMA CountOn ==
  ASSUME NEW a \in Nat, NEW b \in Nat, NEW c \in Nat, 2 * a = b + 2 * c
  PROVE  2 * (a + 1) = b + 2 + 2 * c /\ 2 * (a + 1) = b + 2 * (c + 1)
OBVIOUS

\* Only one thread is past writer_mutex_.
LEMMA OneWriter ==
  ASSUME TypeOK, NEW t \in Threads, pc[t] \in WriterSection
  PROVE  \A u \in Threads : u # t => pc[u] \notin WriterSection
BY DEF TypeOK, Exclusive, WriterSection

LEMMA WokenWire ==
  ASSUME TypeOK, WireInv, NEW t \in Threads, Woken(t)
  PROVE  WireInv'
<1>1. Writable' => Writable
  BY DEF Woken, Writable, TypeOK
<1>2. pc[t] \in EarlyWriting => arg[t].seq = 0
  BY DEF WireInv, WriterInv, EarlyWriting
<1> QED
  BY <1>1, <1>2, WireMoves DEF Woken, EarlyWriting

LEMMA LockWriterWire ==
  ASSUME TypeOK, WireInv, NEW t \in Threads, LockWriter(t)
  PROVE  WireInv'
<1>1. Writable' => Writable
  BY DEF LockWriter, Writable, TypeOK
<1>2. pc[t] \in EarlyWriting => arg[t].seq = 0
  BY DEF WireInv, WriterInv, EarlyWriting
<1> QED
  BY <1>1, <1>2, WireMoves DEF LockWriter, EarlyWriting

LEMMA LockToEncodeWire ==
  ASSUME TypeOK, WireInv, NEW t \in Threads, LockToEncode(t)
  PROVE  WireInv'
<1>1. Writable' => Writable
  BY DEF LockToEncode, Writable, TypeOK
<1>2. pc[t] \in EarlyWriting => arg[t].seq = 0
  BY DEF WireInv, WriterInv, EarlyWriting
<1> QED
  BY <1>1, <1>2, WireMoves DEF LockToEncode, EarlyWriting

LEMMA LockReaderWire ==
  ASSUME TypeOK, WireInv, NEW t \in Threads, LockReader(t)
  PROVE  WireInv'
<1>1. Writable' => Writable
  BY DEF LockReader, Writable, TypeOK
<1>2. pc[t] \in EarlyWriting => arg[t].seq = 0
  BY DEF WireInv, WriterInv, EarlyWriting
<1> QED
  BY <1>1, <1>2, WireMoves DEF LockReader, EarlyWriting

LEMMA ReadFailsWire ==
  ASSUME TypeOK, WireInv, NEW t \in Threads, ReadFails(t)
  PROVE  WireInv'
<1>1. Writable' => Writable
  BY DEF ReadFails, Writable, TypeOK
<1>2. pc[t] \in EarlyWriting => arg[t].seq = 0
  BY DEF WireInv, WriterInv, EarlyWriting
<1> QED
  BY <1>1, <1>2, WireMoves DEF ReadFails, EarlyWriting

LEMMA LockToDecodeWire ==
  ASSUME TypeOK, WireInv, NEW t \in Threads, LockToDecode(t)
  PROVE  WireInv'
<1>1. Writable' => Writable
  BY DEF LockToDecode, Writable, TypeOK
<1>2. pc[t] \in EarlyWriting => arg[t].seq = 0
  BY DEF WireInv, WriterInv, EarlyWriting
<1> QED
  BY <1>1, <1>2, WireMoves DEF LockToDecode, EarlyWriting

LEMMA CloseReaderWire ==
  ASSUME TypeOK, WireInv, NEW t \in Threads, CloseReader(t)
  PROVE  WireInv'
<1>1. Writable' => Writable
  BY DEF CloseReader, Writable, TypeOK
<1>2. pc[t] \in EarlyWriting => arg[t].seq = 0
  BY DEF WireInv, WriterInv, EarlyWriting
<1> QED
  BY <1>1, <1>2, WireMoves DEF CloseReader, EarlyWriting

LEMMA CloseWriterWire ==
  ASSUME TypeOK, WireInv, NEW t \in Threads, CloseWriter(t)
  PROVE  WireInv'
<1>1. Writable' => Writable
  BY DEF CloseWriter, Writable, TypeOK
<1>2. pc[t] \in EarlyWriting => arg[t].seq = 0
  BY DEF WireInv, WriterInv, EarlyWriting
<1> QED
  BY <1>1, <1>2, WireMoves DEF CloseWriter, EarlyWriting

LEMMA WriteFailsWire ==
  ASSUME TypeOK, WireInv, NEW t \in Threads, WriteFails(t)
  PROVE  WireInv'
<1>1. ~Writable'
  BY DEF WriteFails, Writable
<1> QED
  BY <1>1, WireMoves DEF WriteFails, EarlyWriting

LEMMA TakeFrameWire ==
  ASSUME TypeOK, WireInv, NEW t \in Threads, TakeFrame(t)
  PROVE  WireInv'
<1>1. wire'.out = wire.out /\ (Writable' => Writable)
  BY DEF TakeFrame, Writable, TypeOK
<1>2. \A u \in Threads : u # t => arg'[u] = arg[u]
  BY DEF TakeFrame, TypeOK
<1> QED
  BY <1>1, <1>2, WireMoves DEF TakeFrame, EarlyWriting

LEMMA DecodeWire ==
  ASSUME TypeOK, WireInv, NEW t \in Threads, Decode(t)
  PROVE  WireInv'
<1>1. ctx'.sent = ctx.sent /\ hist'.refused = hist.refused /\ (Writable' => Writable)
  BY DEF Decode, Writable, TypeOK
<1>2. \A u \in Threads : u # t => arg'[u] = arg[u]
  BY DEF Decode, TypeOK
<1>3. Goto(t, "ok") \/ Goto(t, "failed")
  BY DEF Decode
<1> QED
  BY <1>1, <1>2, <1>3, WireMoves DEF Decode, EarlyWriting

LEMMA EncodeWire ==
  ASSUME TypeOK, WireInv, NEW t \in Threads, Encode(t)
  PROVE  WireInv'
<1> DEFINE n == Len(wire.out)
<1>0. /\ n \in Nat /\ ctx.sent \in Nat /\ hist.refused \in Nat
      /\ wire' = wire /\ chan' = chan /\ (Writable' => Writable)
  BY DEF TypeOK, Encode, Writable
<1>1. /\ \A u \in Threads : pc[u] \notin {"header", "body"}
      /\ \A u \in Threads : u # t => arg'[u] = arg[u]
  BY OneWriter DEF Encode, WriterSection, TypeOK
<1>2. /\ pc'[t] \in {"header", "failed"}
      /\ \A u \in Threads : u # t => pc'[u] = pc[u]
  BY DEF Encode, Goto, TypeOK
<1>3. \A u \in Threads : pc'[u] # "body" /\ (pc'[u] = "header" => u = t)
  BY <1>1, <1>2
<1>4. \A u \in Threads : pc'[u] \in EarlyWriting => arg'[u].seq = 0
  BY <1>1, <1>2 DEF WireInv, WriterInv, EarlyWriting
<1>5. Writable' => ~IsHeader(n)
  BY <1>0, <1>1 DEF WireInv, WriterInv
<1>6. CASE chan.crypt /\ pc'[t] = "header"
  <2>1. ctx'.sent = ctx.sent + 1 /\ arg'[t].seq = ctx.sent + 1
    BY <1>6 DEF Encode, TypeOK, Frames
  <2>2. hist' = hist
    BY <1>6 DEF Encode, Goto, TypeOK
  <2>3. /\ hist.refused <= ctx.sent
        /\ Writable => /\ 2 * ctx.sent = n + 2 * hist.refused
                       /\ \A i \in 1..n : 0 < wire.out[i].frame.seq
                                          /\ wire.out[i].frame.seq <= ctx.sent
    BY <1>1, <1>6 DEF WireInv, NumberInv
  <2>4. Writable => Number(n + 1) + hist.refused = ctx.sent + 1
    <3> SUFFICES ASSUME Writable PROVE Number(n + 1) + hist.refused = ctx.sent + 1
      OBVIOUS
    <3>1. 2 * ctx.sent = n + 2 * hist.refused
      BY <2>3
    <3> HIDE DEF n
    <3> QED
      BY <1>0, <3>1, NextNumber
  <2>5. WriterInv'
    <3>1. \A i \in 1..n : wire.out[i].frame.seq \in Nat
      BY WireNumbers
    <3>2. Writable => \A i \in 1..n : 0 < wire.out[i].frame.seq
                                      /\ wire.out[i].frame.seq < ctx.sent + 1
      BY <1>0, <2>3, <3>1
    <3>3. Writable' => Follows(arg[t].seq)'
      BY <1>0, <2>1, <2>2, <2>4, <3>2 DEF Follows
    <3> QED
      BY <1>0, <1>3, <1>4, <1>5, <3>3 DEF WriterInv, EarlyWriting
  <2>6. NumberInv'
    <3>1. \A i \in 1..n : wire.out[i].frame.seq \in Nat
      BY WireNumbers
    <3>2. Writable => \A i \in 1..n : 0 < wire.out[i].frame.seq
                                      /\ wire.out[i].frame.seq <= ctx.sent + 1
      BY <1>0, <2>3, <3>1
    <3>0. Writable => 2 * ctx.sent = n + 2 * hist.refused
      BY <2>3
    <3>3. Writable => 2 * (ctx.sent + 1) = n + 2 + 2 * hist.refused
      <4>1. HAVE Writable
      <4>2. 2 * ctx.sent = n + 2 * hist.refused
        BY <3>0, <4>1
      <4> QED
        BY <1>0, <4>2, CountOn
    <3>4. hist.refused <= ctx.sent + 1
      BY <1>0, <2>3
    <3> QED
      BY <1>0, <1>3, <1>6, <2>1, <2>2, <3>2, <3>3, <3>4 DEF NumberInv
  <2>7. WireInOrder'
    BY <1>0, <2>2 DEF WireInv, WireInOrder
  <2> QED
    BY <2>5, <2>6, <2>7 DEF WireInv
<1>7. CASE chan.crypt /\ pc'[t] = "failed"
  <2>1. ctx'.sent = ctx.sent + 1 /\ hist'.refused = hist.refused + 1
    BY <1>7 DEF Encode, Goto, TypeOK
  <2>2. /\ hist.refused <= ctx.sent
        /\ Writable => /\ 2 * ctx.sent = n + 2 * hist.refused
                       /\ \A i \in 1..n : 0 < wire.out[i].frame.seq
                                          /\ wire.out[i].frame.seq <= ctx.sent
    BY <1>1, <1>7 DEF WireInv, NumberInv
  <2>3. \A i \in 1..n : wire.out[i].frame.seq \in Nat
    BY WireNumbers
  <2>4. \A u \in Threads : pc'[u] \notin {"header", "body"}
    BY <1>3, <1>7
  <2>5. WriterInv'
    BY <1>0, <1>4, <1>5, <2>4 DEF WriterInv, EarlyWriting
  <2>6. NumberInv'
    <3>1. Writable => \A i \in 1..n : 0 < wire.out[i].frame.seq
                                      /\ wire.out[i].frame.seq <= ctx.sent + 1
      BY <1>0, <2>2, <2>3
    <3>0. Writable => 2 * ctx.sent = n + 2 * hist.refused
      BY <2>2
    <3>2. Writable => 2 * (ctx.sent + 1) = n + 2 * (hist.refused + 1)
      <4>1. HAVE Writable
      <4>2. 2 * ctx.sent = n + 2 * hist.refused
        BY <3>0, <4>1
      <4> QED
        BY <1>0, <4>2, CountOn
    <3>3. hist.refused + 1 <= ctx.sent + 1
      BY <1>0, <2>2
    <3> QED
      BY <1>0, <2>1, <2>4, <3>1, <3>2, <3>3 DEF NumberInv
  <2>7. WireInOrder'
    <3> SUFFICES ASSUME NEW i \in 1..n
                 PROVE  InOrder(wire.out, i, hist.refused + 1)
      BY <1>0, <2>1 DEF WireInOrder
    <3>1. InOrder(wire.out, i, hist.refused)
      BY DEF WireInv, WireInOrder
    <3> QED
      BY <1>0, <2>3, <3>1, InOrderMore
  <2> QED
    BY <2>5, <2>6, <2>7 DEF WireInv
<1>8. CASE ~chan.crypt
  <2>1. UNCHANGED <<ctx, arg>> /\ hist'.refused = hist.refused
    BY <1>8 DEF Encode, TypeOK
  <2>2. arg[t].seq = 0
    BY DEF Encode, WireInv, WriterInv
  <2>3. WriterInv'
    <3>1. Follows(arg[t].seq)'
      BY <2>1, <2>2 DEF Follows
    <3> QED
      BY <1>0, <1>3, <1>4, <1>5, <3>1 DEF WriterInv, EarlyWriting
  <2>4. NumberInv'
    BY <1>0, <1>8, <2>1 DEF WireInv, NumberInv
  <2>5. WireInOrder'
    BY <1>0, <2>1 DEF WireInv, WireInOrder
  <2> QED
    BY <2>3, <2>4, <2>5 DEF WireInv
<1> QED
  BY <1>2, <1>6, <1>7, <1>8

LEMMA WriteHeaderWire ==
  ASSUME TypeOK, WireInv, NEW t \in Threads, WriteHeader(t)
  PROVE  WireInv'
<1> DEFINE n == Len(wire.out)
           x == [part |-> "header", frame |-> arg[t]]
<1>0. wire.out \in Seq(Parts) /\ n \in Nat /\ x \in Parts /\ hist.refused \in Nat
  BY DEF TypeOK, Parts
<1>1. wire'.out = Append(wire.out, x)
  BY DEF WriteHeader, Taken, TypeOK
<1>2. /\ Len(wire'.out) = n + 1 /\ wire'.out[n + 1] = x
      /\ \A i \in 1..n : wire'.out[i] = wire.out[i]
  BY <1>0, <1>1
<1>3. UNCHANGED <<chan, io, ctx, arg, hist>> /\ Writable /\ (Writable' <=> Writable)
  BY DEF WriteHeader, Writable
<1>4. /\ pc[t] = "header" /\ pc'[t] = "body"
      /\ \A u \in Threads : u # t => pc'[u] = pc[u] /\ pc[u] \notin WriterSection
  BY OneWriter DEF WriteHeader, Goto, TypeOK, WriterSection
<1>5. \A u \in Threads : pc'[u] \in EarlyWriting => arg'[u].seq = 0
  BY <1>3, <1>4 DEF WireInv, WriterInv, EarlyWriting
<1>6. ~IsHeader(n) /\ IsHeader(n + 1)
  <2>1. \A u \in Threads : pc[u] # "body"
    BY <1>4 DEF WriterSection
  <2> QED
    BY <1>0, <1>3, <2>1, Alternate DEF WireInv, WriterInv
<1>7. Follows(arg[t].seq)
  BY <1>3, <1>4 DEF WireInv, WriterInv
<1>8. WireInOrder'
  <2> SUFFICES ASSUME NEW i \in 1..(n + 1)
               PROVE  InOrder(wire'.out, i, hist.refused)
    BY <1>2, <1>3 DEF WireInOrder
  <2>1. CASE i \in 1..n
    <3>1. InOrder(wire.out, i, hist.refused)
      BY <2>1 DEF WireInv, WireInOrder
    <3> QED
      BY <1>0, <1>2, <2>1, <3>1, InOrderPrefix
  <2>2. CASE i = n + 1
    <3>1. wire'.out[i].frame = arg[t] /\ wire'.out[i].part = "header"
      BY <1>2, <2>2
    <3>3. \A j \in 1..(i-1) : j \in 1..n /\ wire'.out[j] = wire.out[j]
      BY <1>0, <1>2, <2>2
    <3> QED
      BY <1>6, <1>7, <2>2, <3>1, <3>3 DEF InOrder, Follows
  <2> QED
    BY <1>0, <2>1, <2>2
<1>9. WriterInv'
  <2>1. \A u \in Threads : pc'[u] # "header" /\ (pc'[u] = "body" => u = t)
    BY <1>4 DEF WriterSection
  <2> QED
    BY <1>2, <1>3, <1>4, <1>5, <1>6, <2>1 DEF WriterInv, EarlyWriting
<1>10. NumberInv'
  <2>0. hist.refused <= ctx.sent
    BY DEF WireInv, NumberInv
  <2> SUFFICES ASSUME chan.crypt PROVE NumberInv'
    BY <1>3, <2>0 DEF NumberInv
  <2>1. /\ \A i \in 1..n : 0 < wire.out[i].frame.seq
                           /\ wire.out[i].frame.seq <= ctx.sent
        /\ arg[t].seq = ctx.sent /\ 2 * ctx.sent = n + 2 + 2 * hist.refused
    BY <1>3, <1>4 DEF WireInv, NumberInv
  <2>2. ctx.sent \in Nat /\ 0 < ctx.sent
    <3>1. ctx.sent \in Nat
      BY DEF TypeOK
    <3> QED
      BY <1>0, <2>1, <3>1
  <2>3. \A i \in 1..(n + 1) : 0 < wire'.out[i].frame.seq
                              /\ wire'.out[i].frame.seq <= ctx.sent
    <3> SUFFICES ASSUME NEW i \in 1..(n + 1)
                 PROVE  0 < wire'.out[i].frame.seq
                        /\ wire'.out[i].frame.seq <= ctx.sent
      OBVIOUS
    <3>1. CASE i \in 1..n
      BY <1>2, <2>1, <3>1
    <3>2. CASE i = n + 1
      BY <1>2, <2>1, <2>2, <3>2
    <3> QED
      BY <1>0, <3>1, <3>2
  <2>4. \A u \in Threads : pc'[u] # "header"
    BY <1>4 DEF WriterSection
  <2>5. 2 * ctx.sent = (n + 1) + 1 + 2 * hist.refused
    BY <1>0, <2>1, <2>2
  <2> QED
    BY <1>2, <1>3, <1>4, <2>0, <2>3, <2>4, <2>5 DEF NumberInv
<1> QED
  BY <1>8, <1>9, <1>10 DEF WireInv

LEMMA WriteBodyWire ==
  ASSUME TypeOK, WireInv, NEW t \in Threads, WriteBody(t)
  PROVE  WireInv'
<1> DEFINE n == Len(wire.out)
           x == [part |-> "body", frame |-> arg[t]]
<1>0. wire.out \in Seq(Parts) /\ n \in Nat /\ x \in Parts /\ hist.refused \in Nat
  BY DEF TypeOK, Parts
<1>1. wire'.out = Append(wire.out, x)
  BY DEF WriteBody, Taken, TypeOK
<1>2. /\ Len(wire'.out) = n + 1 /\ wire'.out[n + 1] = x
      /\ \A i \in 1..n : wire'.out[i] = wire.out[i]
  BY <1>0, <1>1
<1>3. UNCHANGED <<chan, io, ctx, arg, hist>> /\ Writable /\ (Writable' <=> Writable)
  BY DEF WriteBody, Writable
<1>4. /\ pc[t] = "body" /\ pc'[t] = "ok"
      /\ \A u \in Threads : u # t => pc'[u] = pc[u] /\ pc[u] \notin WriterSection
  BY OneWriter DEF WriteBody, Goto, TypeOK, WriterSection
<1>5. \A u \in Threads : pc'[u] \in EarlyWriting => arg'[u].seq = 0
  BY <1>3, <1>4 DEF WireInv, WriterInv, EarlyWriting
<1>6. IsHeader(n) /\ n > 0 /\ ~IsHeader(n + 1) /\ wire.out[n].frame = arg[t]
  BY <1>0, <1>4, Alternate DEF WireInv, WriterInv
<1>7. n \in 1..n
  BY <1>0, <1>6
<1>8. WireInOrder'
  <2> SUFFICES ASSUME NEW i \in 1..(n + 1)
               PROVE  InOrder(wire'.out, i, hist.refused)
    BY <1>2, <1>3 DEF WireInOrder
  <2>1. CASE i \in 1..n
    <3>1. InOrder(wire.out, i, hist.refused)
      BY <2>1 DEF WireInv, WireInOrder
    <3> QED
      BY <1>0, <1>2, <2>1, <3>1, InOrderPrefix
  <2>2. CASE i = n + 1
    <3>1. wire'.out[i].frame = arg[t] /\ wire'.out[i].part = "body"
      BY <1>2, <2>2
    <3>2. i - 1 = n /\ wire'.out[n].frame = arg[t]
      BY <1>0, <1>2, <1>6, <1>7, <2>2
    <3> QED
      BY <1>6, <2>2, <3>1, <3>2 DEF InOrder
  <2> QED
    BY <1>0, <2>1, <2>2
<1>9. WriterInv'
  <2>1. \A u \in Threads : pc'[u] \notin {"header", "body"}
    BY <1>4 DEF WriterSection
  <2> QED
    BY <1>2, <1>5, <1>6, <2>1 DEF WriterInv, EarlyWriting
<1>10. NumberInv'
  <2>0. hist.refused <= ctx.sent
    BY DEF WireInv, NumberInv
  <2> SUFFICES ASSUME chan.crypt PROVE NumberInv'
    BY <1>3, <2>0 DEF NumberInv
  <2>1. /\ \A i \in 1..n : 0 < wire.out[i].frame.seq
                           /\ wire.out[i].frame.seq <= ctx.sent
        /\ 2 * ctx.sent = n + 1 + 2 * hist.refused
    BY <1>3, <1>4 DEF WireInv, NumberInv
  <2>2. \A i \in 1..(n + 1) : 0 < wire'.out[i].frame.seq
                              /\ wire'.out[i].frame.seq <= ctx.sent
    <3> SUFFICES ASSUME NEW i \in 1..(n + 1)
                 PROVE  0 < wire'.out[i].frame.seq
                        /\ wire'.out[i].frame.seq <= ctx.sent
      OBVIOUS
    <3>1. CASE i \in 1..n
      BY <1>2, <2>1, <3>1
    <3>2. CASE i = n + 1
      BY <1>2, <1>6, <1>7, <2>1, <3>2
    <3> QED
      BY <1>0, <3>1, <3>2
  <2>3. \A u \in Threads : pc'[u] \notin {"header", "body"}
    BY <1>4 DEF WriterSection
  <2> QED
    BY <1>2, <1>3, <2>0, <2>1, <2>2, <2>3 DEF NumberInv
<1> QED
  BY <1>8, <1>9, <1>10 DEF WireInv

LEMMA WriterCallsWire ==
  ASSUME TypeOK, WireInv, NEW w \in Writers, WriterCalls(w)
  PROVE  WireInv'
BY WireCallWrite, Callers DEF WriterCalls

LEMMA ReaderCallsWire ==
  ASSUME TypeOK, WireInv, ReaderCalls
  PROVE  WireInv'
<1>1. \A u \in Threads : u # Reader => arg'[u] = arg[u]
  BY DEF ReaderCalls, TypeOK
<1>2. CASE CallClose(Reader)
  BY <1>1, <1>2, WireClose, Callers DEF ReaderCalls, CanCall, Returned
<1>3. CASE Goto(Reader, "reading") /\ UNCHANGED chan
  <2>1. Writable' => Writable
    BY DEF ReaderCalls, Writable
  <2> QED
    BY <1>1, <1>3, <2>1, WireMoves, Callers DEF ReaderCalls, EarlyWriting
<1> QED
  BY <1>2, <1>3 DEF ReaderCalls

LEMMA PauseNewWire ==
  ASSUME TypeOK, WireInv, PauseNew
  PROVE  WireInv'
<1>1. (Writable' => Writable) /\ (chan'.crypt => chan.crypt)
  BY DEF PauseNew, Writable, TypeOK
<1>2. \A u \in Threads : pc[u] \in EarlyWriting => arg[u].seq = 0
  BY DEF WireInv, WriterInv, EarlyWriting
<1> QED
  BY <1>1, <1>2, WireStays DEF PauseNew

LEMMA DisableWire ==
  ASSUME TypeOK, WireInv, Disable
  PROVE  WireInv'
<1>1. (Writable' => Writable) /\ (chan'.crypt => chan.crypt)
  BY DEF Disable, Writable, TypeOK
<1>2. \A u \in Threads : pc[u] \in EarlyWriting => arg[u].seq = 0
  BY DEF WireInv, WriterInv, EarlyWriting
<1> QED
  BY <1>1, <1>2, WireStays DEF Disable

LEMMA LastWrittenWire ==
  ASSUME TypeOK, WireInv, LastWritten
  PROVE  WireInv'
<1>1. (Writable' => Writable) /\ (chan'.crypt => chan.crypt)
  BY DEF LastWritten, Writable, TypeOK
<1>2. \A u \in Threads : pc[u] \in EarlyWriting => arg[u].seq = 0
  BY DEF WireInv, WriterInv, EarlyWriting
<1> QED
  BY <1>1, <1>2, WireStays DEF LastWritten

LEMMA RegisterWire ==
  ASSUME TypeOK, LifeInv, WireInv, Register
  PROVE  WireInv'
<1>0. wire.out = << >> /\ Len(wire.out) = 0 /\ ctx.sent = 0
  BY DEF Register, At, LifeInv, Incomer, Quiet
<1>1. wire.out = << >> /\ Len(wire.out) = 0 /\ ctx.sent = 0 /\ hist.refused = 0
  BY <1>0 DEF TypeOK, WireInv, NumberInv
<1>2. \A u \in Threads : pc[u] \in Returned
  BY DEF Register, At, LifeInv
<1>3. UNCHANGED <<wire, ctx, pc, arg, hist>>
  BY DEF Register
<1>4. \A u \in Threads :
         pc[u] \notin {"header", "body"} \cup EarlyWriting
  BY <1>2 DEF Returned, EarlyWriting
<1>5. ~IsHeader(0)
  BY DEF IsHeader
<1>6. WireInOrder'
  BY <1>1, <1>3 DEF WireInOrder
<1>7. WriterInv'
  BY <1>1, <1>3, <1>4, <1>5 DEF WriterInv, EarlyWriting
<1>8. NumberInv'
  BY <1>1, <1>3, <1>4 DEF NumberInv
<1> QED
  BY <1>6, <1>7, <1>8 DEF WireInv

LEMMA ResumeNewWire ==
  ASSUME TypeOK, WireInv, ResumeNew
  PROVE  WireInv'
<1>1. chan'.crypt = chan.crypt
  BY DEF ResumeNew, Resume, TypeOK
<1> QED
  BY <1>1, WireResume DEF ResumeNew, Resume

LEMMA WriteLastWire ==
  ASSUME TypeOK, WireInv, WriteLast
  PROVE  WireInv'
BY WireCallWrite, Callers DEF WriteLast, At

LEMMA WriteSafeWire ==
  ASSUME TypeOK, WireInv, WriteSafe
  PROVE  WireInv'
BY WireCallWrite, Callers DEF WriteSafe, At

LEMMA WriteDiscWire ==
  ASSUME TypeOK, WireInv, WriteDisc
  PROVE  WireInv'
BY WireCallWrite, Callers DEF WriteDisc, At

LEMMA WriteDisconnectionWire ==
  ASSUME TypeOK, WireInv, WriteDisconnection
  PROVE  WireInv'
BY WireCallWrite, Callers DEF WriteDisconnection

LEMMA DrainWire ==
  ASSUME TypeOK, WireInv, Drain
  PROVE  WireInv'
<1>1. Writable' => Writable
  BY DEF Drain, Writable
<1> QED
  BY <1>1, WireMoves, Callers DEF Drain, At, CanCall, Returned, EarlyWriting

LEMMA ClosePriorWire ==
  ASSUME TypeOK, WireInv, ClosePrior
  PROVE  WireInv'
BY WireClose, Callers DEF ClosePrior, At

LEMMA CloseRemovedWire ==
  ASSUME TypeOK, WireInv, CloseRemoved
  PROVE  WireInv'
BY WireClose, Callers DEF CloseRemoved

LEMMA ResumeRemovedWire ==
  ASSUME TypeOK, WireInv, ResumeRemoved
  PROVE  WireInv'
<1>1. CASE Resume
  <2>1. chan'.crypt = chan.crypt
    BY <1>1 DEF Resume, TypeOK
  <2> QED
    BY <1>1, <2>1, WireResume DEF ResumeRemoved, Resume
<1>2. CASE UNCHANGED <<chan, pc>>
  <2>1. \A u \in Threads : pc[u] \in EarlyWriting => arg[u].seq = 0
    BY DEF WireInv, WriterInv, EarlyWriting
  <2>2. Writable' => Writable
    BY DEF ResumeRemoved, Writable
  <2> QED
    BY <1>2, <2>1, <2>2, WireStays DEF ResumeRemoved
<1> QED
  BY <1>1, <1>2 DEF ResumeRemoved

LEMMA OutsideWire ==
  ASSUME TypeOK, WireInv, UNCHANGED <<chan, ctx, pc, arg, hist>>, wire'.out = wire.out,
         Writable' => Writable
  PROVE  WireInv'
<1>1. \A u \in Threads : pc[u] \in EarlyWriting => arg[u].seq = 0
  BY DEF WireInv, WriterInv, EarlyWriting
<1> QED
  BY <1>1, WireStays

LEMMA PeerOpensNothing ==
  ASSUME TypeOK,
         PeerData \/ PeerLast \/ PeerSafe \/ PeerLeaves \/ PeerWritesClear \/ Break
  PROVE  Writable' => Writable
BY DEF PeerData, PeerLast, PeerSafe, PeerLeaves, PeerWrites, PeerWritesClear, Break,
       Writable, TypeOK

LEMMA NextWire == TypeOK /\ LifeInv /\ WireInv /\ [Next]_vars => WireInv'
<1> SUFFICES ASSUME TypeOK, LifeInv, WireInv, [Next]_vars PROVE WireInv'
  OBVIOUS
<1>1. CASE \E t \in Threads : Computes(t)
  BY <1>1, WokenWire, LockWriterWire, LockToEncodeWire, EncodeWire, WriteFailsWire,
     LockReaderWire, ReadFailsWire, LockToDecodeWire, DecodeWire,
     CloseReaderWire, CloseWriterWire
     DEF Computes
<1>2. CASE \E t \in Threads : Transfers(t)
  BY <1>2, WriteHeaderWire, WriteBodyWire, TakeFrameWire DEF Transfers
<1>3. CASE \E w \in Writers : WriterCalls(w)
  BY <1>3, WriterCallsWire
<1>4. CASE ReaderCalls
  BY <1>4, ReaderCallsWire
<1>5. CASE Manages
  BY <1>5, PauseNewWire, RegisterWire, ResumeNewWire, WriteLastWire,
     LastWrittenWire, WriteSafeWire, DisableWire, WriteDiscWire, DrainWire,
     ClosePriorWire
     DEF Manages
<1>6. CASE Removes
  BY <1>6, ResumeRemovedWire, WriteDisconnectionWire, CloseRemovedWire DEF Removes
<1>7. CASE PeerData \/ PeerLast \/ PeerSafe \/ PeerLeaves \/ PeerWritesClear \/ Break
  BY <1>7, OutsideWire, PeerOpensNothing
     DEF PeerData, PeerLast, PeerSafe, PeerLeaves, PeerWrites, PeerWritesClear,
         Arrives, Break, TypeOK
<1>8. CASE UNCHANGED vars
  BY <1>8, OutsideWire DEF vars, Writable
<1> QED
  BY <1>1, <1>2, <1>3, <1>4, <1>5, <1>6, <1>7, <1>8 DEF Next

\* writer_mutex_, held from the encoding to the flush, keeps numbers and frames
\* in step, whoever writes: whole frames reach the transport in the order of
\* their numbers, and only a refused frame's number is missing.
THEOREM WrittenInOrder == Spec => []WireInOrder
<1>1. Init => WireInv
  BY InitWire
<1>2. TypeOK /\ LifeInv /\ WireInv /\ [Next]_vars => WireInv'
  BY NextWire
<1>3. WireInv => WireInOrder
  BY DEF WireInv
<1> QED
  BY <1>1, <1>2, <1>3, TypeCorrect, LifeAlways, PTL DEF Spec

-----------------------------------------------------------------------------
(* DecodedInOrder *)

ReadSection == {"reading", "read", "decoding", "decode"}
Decoding == {"decoding", "decode"}

\* What the peer encrypted is decoded, in the reader's hands, or on the way.
Held == IF pc[Reader] \in Decoding /\ arg[Reader].seq # 0 THEN 1 ELSE 0
Encrypted(in) == IF in # << >> /\ in[Len(in)].seq = 0 THEN Len(in) - 1 ELSE Len(in)
AllRead == peer.mode = "done" /\ ctx.received = peer.sent

FlowInv ==
    /\ peer.sent = ctx.received + Held + Encrypted(wire.in)
    /\ \A i \in 1..Len(wire.in) :
          IF wire.in[i].seq = 0 THEN i = Len(wire.in) /\ peer.mode = "done"
                                ELSE wire.in[i].seq = ctx.received + Held + i
    /\ Held = 1 => arg[Reader].seq = ctx.received + 1
    /\ \A t \in Threads : pc[t] \in Decoding /\ arg[t].seq = 0 => AllRead

\* What Read has returned, in order.
GotInv ==
    /\ ~hist.bad
    /\ \A i \in 1..Len(hist.got) : hist.got[i].seq \in {0, i} /\ hist.got[i].seq <= ctx.received
    /\ Len(hist.got) = ctx.received \/ AllRead

\* SAFE_TO_CLOSE is the last frame that the peer encrypts ...
Ended == peer.mode \in {"safe", "done"} /\ ctx.received = peer.sent
Closing(f) == f.kind = "SAFE" => peer.mode \in {"safe", "done"} /\ f.seq = peer.sent

SafeInv ==
    /\ \A i \in 1..Len(wire.in) : Closing(wire.in[i])
    /\ \A i \in 1..Len(hist.got) : Closing(hist.got[i])
    /\ \A t \in Threads : pc[t] \in Decoding => Closing(arg[t])

\* ... so that nothing encrypted is left when the context goes, and BwuManager's
\* draining Read meets frames in clear only.
DrainInv ==
    /\ \A t \in Threads :
          pc[t] \in ReadSection => t = Reader \/ (t = Manager /\ life.stage = "drain")
    /\ life.stage \in {"new", "fresh"} => pc[Reader] = "ok"
    /\ life.stage \in {"plain", "disc", "drain"} => Ended
    /\ ~chan.crypt => life.stage \in {"new", "fresh"} \/ Ended
    /\ pc[Manager] \in Decoding => arg[Manager].seq = 0

ReadInv == FlowInv /\ GotInv /\ SafeInv /\ DrainInv

\* Where a thread is with a frame, or about to take one.
LEMMA DecodingReads == Decoding \subseteq ReadSection
BY DEF Decoding, ReadSection

\* A step that takes and decodes nothing.
LEMMA ReadStays ==
  ASSUME TypeOK, ReadInv, ctx'.received = ctx.received, wire'.in = wire.in, peer' = peer,
         hist'.got = hist.got, hist'.bad = hist.bad,
         \A t \in Threads : pc'[t] \in Decoding <=> pc[t] \in Decoding,
         \A t \in Threads : pc[t] \in Decoding => arg'[t] = arg[t],
         \A t \in Threads : pc'[t] \in ReadSection =>
                              t = Reader \/ (t = Manager /\ life'.stage = "drain"),
         life'.stage \in {"new", "fresh"} => pc'[Reader] = "ok",
         life'.stage \in {"plain", "disc", "drain"} => Ended,
         ~chan'.crypt => life'.stage \in {"new", "fresh"} \/ Ended
  PROVE  ReadInv'
<1>1. Held' = Held /\ Encrypted(wire.in)' = Encrypted(wire.in)
  BY Callers DEF Held, Encrypted
<1>2. AllRead' = AllRead /\ Ended' = Ended
  BY DEF AllRead, Ended
<1>3. Held = 1 => pc[Reader] \in Decoding
  BY DEF Held
<1>4. FlowInv'
  <2>1. peer'.sent = ctx'.received + Held' + Encrypted(wire'.in)
    BY <1>1 DEF ReadInv, FlowInv
  <2>2. \A i \in 1..Len(wire'.in) :
          IF wire'.in[i].seq = 0 THEN i = Len(wire'.in) /\ peer'.mode = "done"
                                 ELSE wire'.in[i].seq = ctx'.received + Held' + i
    BY <1>1 DEF ReadInv, FlowInv
  <2>3. Held' = 1 => arg'[Reader].seq = ctx'.received + 1
    BY <1>1, <1>3, Callers DEF ReadInv, FlowInv
  <2>4. \A t \in Threads : pc'[t] \in Decoding /\ arg'[t].seq = 0 => AllRead'
    BY <1>2 DEF ReadInv, FlowInv
  <2> QED
    BY <2>1, <2>2, <2>3, <2>4 DEF FlowInv
<1>5. GotInv'
  BY <1>2 DEF ReadInv, GotInv
<1>6. \A f : Closing(f)' <=> Closing(f)
  BY DEF Closing
<1>7. SafeInv'
  <2>1. \A t \in Threads : pc'[t] \in Decoding => Closing(arg[t])'
    BY DEF ReadInv, SafeInv, Closing
  <2> QED
    BY <1>6, <2>1 DEF ReadInv, SafeInv
<1>8. DrainInv'
  BY <1>2, Callers DEF ReadInv, DrainInv
<1> QED
  BY <1>4, <1>5, <1>7, <1>8 DEF ReadInv

LEMMA InitRead == Init => ReadInv
<1> SUFFICES ASSUME Init PROVE ReadInv
  OBVIOUS
<1>1. ASSUME NEW t \in Threads PROVE pc[t] = "ok"
  <2>1. pc = [u \in Threads |-> "ok"]
    BY DEF Init
  <2> QED
    BY <2>1
<1>2. /\ wire.in = << >> /\ hist.got = << >> /\ ~hist.bad
      /\ peer.sent = 0 /\ ctx.received = 0 /\ life.stage = "new"
  BY DEF Init
<1>3. Len(wire.in) = 0 /\ Len(hist.got) = 0
  BY <1>2
<1>4. Held = 0 /\ Encrypted(wire.in) = 0
  BY <1>1, <1>2, <1>3, Callers DEF Held, Encrypted, Decoding
<1>5. FlowInv
  BY <1>1, <1>2, <1>3, <1>4 DEF FlowInv, Decoding
<1>6. GotInv /\ SafeInv
  BY <1>1, <1>2, <1>3 DEF GotInv, SafeInv, Decoding
<1>7. DrainInv
  BY <1>1, <1>2, Callers DEF DrainInv, ReadSection, Decoding
<1> QED
  BY <1>5, <1>6, <1>7 DEF ReadInv

\* One thread moves; it takes and decodes nothing.
LEMMA ReadMoves ==
  ASSUME TypeOK, ReadInv, NEW t \in Threads, NEW label \in PCs, Goto(t, label),
         ctx'.received = ctx.received, wire'.in = wire.in, peer' = peer,
         hist'.got = hist.got, hist'.bad = hist.bad, chan'.crypt = chan.crypt, life' = life,
         label \in Decoding <=> pc[t] \in Decoding,
         label \in ReadSection => pc[t] \in ReadSection \/ t = Reader,
         t = Reader => pc[t] # "ok" \/ Shared,
         \A u \in Threads : u # t => arg'[u] = arg[u],
         arg'[t] = arg[t] \/ pc[t] \notin Decoding
  PROVE  ReadInv'
<1>1. pc' = [pc EXCEPT ![t] = label] /\ pc \in [Threads -> PCs]
  BY DEF Goto, TypeOK
<1>2. \A u \in Threads : pc'[u] \in Decoding <=> pc[u] \in Decoding
  BY <1>1
<1>3. \A u \in Threads : pc'[u] \in ReadSection =>
                           u = Reader \/ (u = Manager /\ life'.stage = "drain")
  BY <1>1 DEF ReadInv, DrainInv
<1>4. life'.stage \in {"new", "fresh"} => pc'[Reader] = "ok"
  BY <1>1, Callers DEF ReadInv, DrainInv, Shared
<1>5. /\ life'.stage \in {"plain", "disc", "drain"} => Ended
      /\ ~chan'.crypt => life'.stage \in {"new", "fresh"} \/ Ended
  BY DEF ReadInv, DrainInv
<1>6. \A u \in Threads : pc[u] \in Decoding => arg'[u] = arg[u]
  OBVIOUS
<1> QED
  BY <1>2, <1>3, <1>4, <1>5, <1>6, ReadStays

\* A notification moves waiting threads, and those only.
LEMMA NotifyWakes ==
  ASSUME NEW u \in Threads
  PROVE  NotifyAll[u] = pc[u] \/ (NotifyAll[u] = "woken" /\ pc[u] = "waiting")
BY DEF NotifyAll

\* The waiting threads are woken.
LEMMA ReadResume ==
  ASSUME TypeOK, ReadInv, pc' = NotifyAll, UNCHANGED <<ctx, wire, peer, arg, hist>>,
         chan'.crypt = chan.crypt,
         life'.stage = life.stage \/
           (life.stage \notin {"drain"} /\ life'.stage \notin {"new", "fresh", "plain", "disc", "drain"}
            /\ (life.stage \in {"new", "fresh"} => chan.crypt) /\ pc[Manager] \notin ReadSection)
  PROVE  ReadInv'
<1>1. Control
  BY TypeSplit
<1>2. \A u \in Threads : NotifyAll[u] = pc[u] \/ (NotifyAll[u] = "woken" /\ pc[u] = "waiting")
  BY NotifyWakes
<1>3. \A u \in Threads : pc'[u] \in Decoding <=> pc[u] \in Decoding
  BY <1>2 DEF Decoding
<1>4. \A u \in Threads : pc'[u] \in ReadSection =>
                           u = Reader \/ (u = Manager /\ life'.stage = "drain")
  BY <1>2 DEF ReadInv, DrainInv, ReadSection
<1>5. life'.stage \in {"new", "fresh"} => pc'[Reader] = "ok"
  BY <1>2, Callers DEF ReadInv, DrainInv
<1>6. /\ life'.stage \in {"plain", "disc", "drain"} => Ended
      /\ ~chan'.crypt => life'.stage \in {"new", "fresh"} \/ Ended
  BY DEF ReadInv, DrainInv
<1> QED
  BY <1>3, <1>4, <1>5, <1>6, ReadStays

\* Close moves its caller, and wakes the waiting threads.
LEMMA ReadClose ==
  ASSUME TypeOK, ReadInv, NEW t \in Threads, CallClose(t), pc[t] \in Returned,
         ctx' = ctx, wire' = wire, peer' = peer, hist' = hist,
         \A u \in Threads : u # t => arg'[u] = arg[u],
         t = Reader => Shared,
         \/ life'.stage = life.stage
         \/ life'.stage = "closing" /\ t = Manager /\ life.stage \notin {"new", "fresh"}
  PROVE  ReadInv'
<1>1. Control /\ pc \in [Threads -> PCs]
  BY TypeSplit DEF Control
<1>2. chan'.crypt = chan.crypt
  BY DEF CallClose, TypeOK
<1>3. \A u \in Threads : NotifyAll[u] = pc[u] \/ (NotifyAll[u] = "woken" /\ pc[u] = "waiting")
  BY NotifyWakes
<1>4. /\ pc'[t] \in {"ok", "closeReader"}
      /\ \A u \in Threads : u # t =>
           pc'[u] = pc[u] \/ (pc'[u] = "woken" /\ pc[u] = "waiting")
  <2>1. CASE Goto(t, "ok")
    <3>1. pc' = [pc EXCEPT ![t] = "ok"]
      BY <2>1 DEF Goto
    <3>2. pc'[t] = "ok" /\ \A u \in Threads : u # t => pc'[u] = pc[u]
      BY <1>1, <3>1
    <3> QED
      BY <3>2
  <2>2. CASE pc' = [NotifyAll EXCEPT ![t] = "closeReader"]
    <3>1. NotifyAll \in [Threads -> PCs]
      BY <1>1, NotifyMoves
    <3>2. pc'[t] = "closeReader" /\ \A u \in Threads : u # t => pc'[u] = NotifyAll[u]
      BY <2>2, <3>1
    <3>3. ASSUME NEW u \in Threads, u # t
          PROVE  pc'[u] = pc[u] \/ (pc'[u] = "woken" /\ pc[u] = "waiting")
      BY <1>3, <3>2, <3>3
    <3> QED
      BY <3>2, <3>3
  <2> QED
    BY <2>1, <2>2 DEF CallClose
<1>5. \A u \in Threads : pc'[u] \in Decoding <=> pc[u] \in Decoding
  BY <1>4 DEF Decoding, Returned
<1>6. \A u \in Threads : pc'[u] \in ReadSection =>
                           u = Reader \/ (u = Manager /\ life'.stage = "drain")
  BY <1>4 DEF ReadInv, DrainInv, ReadSection
<1>7. life'.stage \in {"new", "fresh"} => pc'[Reader] = "ok"
  BY <1>4, Callers DEF ReadInv, DrainInv, Shared
<1>8. /\ life'.stage \in {"plain", "disc", "drain"} => Ended
      /\ ~chan'.crypt => life'.stage \in {"new", "fresh"} \/ Ended
  BY <1>2 DEF ReadInv, DrainInv
<1>9. \A u \in Threads : pc[u] \in Decoding => arg'[u] = arg[u]
  BY DEF Returned, Decoding
<1> QED
  BY <1>5, <1>6, <1>7, <1>8, <1>9, ReadStays

\* Write begins; BwuManager may have come a stage further.
LEMMA ReadWrite ==
  ASSUME TypeOK, ReadInv, NEW t \in Threads, t # Reader,
         NEW kind \in {"DATA", "LAST", "SAFE", "DISC"}, CallWrite(t, kind), pc[t] \in Returned,
         ctx' = ctx, wire' = wire, peer' = peer, hist' = hist, chan' = chan,
         \/ life'.stage = life.stage
         \/ /\ t = Manager /\ life.stage \notin {"new", "fresh"}
            /\ life'.stage \notin {"new", "fresh", "plain", "disc", "drain"}
         \/ t = Manager /\ life.stage = "plain" /\ life'.stage = "disc"
  PROVE  ReadInv'
<1>1. /\ pc \in [Threads -> PCs] /\ arg \in [Threads -> Frames]
      /\ pc' = [pc EXCEPT ![t] = IF chan.paused THEN "waiting" ELSE "writing"]
      /\ \A u \in Threads : u # t => arg'[u] = arg[u]
  BY DEF CallWrite, Goto, TypeOK
<1>2. pc'[t] \in {"waiting", "writing"} /\ \A u \in Threads : u # t => pc'[u] = pc[u]
  BY <1>1
<1>3. \A u \in Threads : pc'[u] \in Decoding <=> pc[u] \in Decoding
  BY <1>2 DEF Decoding, Returned
<1>4. \A u \in Threads : pc'[u] \in ReadSection =>
                           u = Reader \/ (u = Manager /\ life'.stage = "drain")
  BY <1>2 DEF ReadInv, DrainInv, ReadSection
<1>5. life'.stage \in {"new", "fresh"} => pc'[Reader] = "ok"
  BY <1>2, Callers DEF ReadInv, DrainInv
<1>6. /\ life'.stage \in {"plain", "disc", "drain"} => Ended
      /\ ~chan'.crypt => life'.stage \in {"new", "fresh"} \/ Ended
  BY DEF ReadInv, DrainInv
<1>7. \A u \in Threads : pc[u] \in Decoding => arg'[u] = arg[u]
  BY <1>1 DEF Returned, Decoding
<1> QED
  BY <1>3, <1>4, <1>5, <1>6, <1>7, ReadStays

\* BwuManager or the removal comes a stage further, and no thread moves.
LEMMA ReadStage ==
  ASSUME TypeOK, ReadInv, UNCHANGED <<ctx, wire, peer, pc, arg, hist>>, pc[Manager] \in Returned,
         life'.stage \in {"new", "fresh"} => life.stage \in {"new", "fresh"},
         life'.stage \in {"plain", "disc", "drain"} => Ended,
         ~chan'.crypt => life'.stage \in {"new", "fresh"} \/ Ended
  PROVE  ReadInv'
<1>1. \A u \in Threads : pc'[u] \in ReadSection =>
                           u = Reader \/ (u = Manager /\ life'.stage = "drain")
  BY DEF ReadInv, DrainInv, ReadSection, Returned
<1>2. life'.stage \in {"new", "fresh"} => pc'[Reader] = "ok"
  BY DEF ReadInv, DrainInv
<1> QED
  BY <1>1, <1>2, ReadStays


-----------------------------------------------------------------------------
(* ... action by action *)

LEMMA WokenRead ==
  ASSUME TypeOK, ReadInv, NEW t \in Threads, Woken(t)
  PROVE  ReadInv'
<1>1. (IF chan.paused THEN "waiting" ELSE "writing") \in PCs \ ReadSection
  BY DEF PCs, ReadSection
<1> QED
  BY <1>1, ReadMoves, DecodingReads DEF Woken, Decoding

LEMMA LockWriterRead ==
  ASSUME TypeOK, ReadInv, NEW t \in Threads, LockWriter(t)
  PROVE  ReadInv'
<1>1. "locked" \in PCs \ ReadSection
  BY DEF PCs, ReadSection
<1> QED
  BY <1>1, ReadMoves, DecodingReads DEF LockWriter, Decoding

LEMMA LockToEncodeRead ==
  ASSUME TypeOK, ReadInv, NEW t \in Threads, LockToEncode(t)
  PROVE  ReadInv'
<1>1. "encode" \in PCs \ ReadSection
  BY DEF PCs, ReadSection
<1> QED
  BY <1>1, ReadMoves, DecodingReads DEF LockToEncode, Decoding

LEMMA EncodeRead ==
  ASSUME TypeOK, ReadInv, NEW t \in Threads, Encode(t)
  PROVE  ReadInv'
<1>1. "header" \in PCs \ ReadSection /\ "failed" \in PCs \ ReadSection
  BY DEF PCs, Returned, ReadSection
<1>2. Goto(t, "header") \/ Goto(t, "failed")
  BY DEF Encode
<1>3. pc[t] = "encode" /\ pc[t] \notin Decoding
  BY DEF Encode, Decoding
<1>4. /\ ctx'.received = ctx.received /\ hist'.got = hist.got /\ hist'.bad = hist.bad
      /\ UNCHANGED <<wire, peer, chan, life>>
  BY DEF Encode, TypeOK
<1>5. \A u \in Threads : u # t => arg'[u] = arg[u]
  BY DEF Encode, TypeOK
<1> QED
  BY <1>1, <1>2, <1>3, <1>4, <1>5, ReadMoves, DecodingReads

LEMMA WriteHeaderRead ==
  ASSUME TypeOK, ReadInv, NEW t \in Threads, WriteHeader(t)
  PROVE  ReadInv'
<1>1. "body" \in PCs \ ReadSection
  BY DEF PCs, ReadSection
<1>2. wire'.in = wire.in
  BY DEF WriteHeader, Taken, TypeOK
<1> QED
  BY <1>1, <1>2, ReadMoves, DecodingReads DEF WriteHeader, Decoding

LEMMA WriteBodyRead ==
  ASSUME TypeOK, ReadInv, NEW t \in Threads, WriteBody(t)
  PROVE  ReadInv'
<1>1. "ok" \in PCs \ ReadSection
  BY DEF PCs, Returned, ReadSection
<1>2. wire'.in = wire.in
  BY DEF WriteBody, Taken, TypeOK
<1> QED
  BY <1>1, <1>2, ReadMoves, DecodingReads DEF WriteBody, Decoding

LEMMA WriteFailsRead ==
  ASSUME TypeOK, ReadInv, NEW t \in Threads, WriteFails(t)
  PROVE  ReadInv'
<1>1. "failed" \in PCs \ ReadSection
  BY DEF PCs, Returned, ReadSection
<1> QED
  BY <1>1, ReadMoves, DecodingReads DEF WriteFails, Decoding

LEMMA LockReaderRead ==
  ASSUME TypeOK, ReadInv, NEW t \in Threads, LockReader(t)
  PROVE  ReadInv'
<1>1. "read" \in PCs /\ "read" \notin Decoding /\ pc[t] = "reading"
  BY DEF PCs, Decoding, LockReader
<1> QED
  BY <1>1, ReadMoves DEF LockReader, Decoding, ReadSection

LEMMA ReadFailsRead ==
  ASSUME TypeOK, ReadInv, NEW t \in Threads, ReadFails(t)
  PROVE  ReadInv'
<1>1. "failed" \in PCs \ ReadSection
  BY DEF PCs, Returned, ReadSection
<1> QED
  BY <1>1, ReadMoves, DecodingReads DEF ReadFails, Decoding

LEMMA LockToDecodeRead ==
  ASSUME TypeOK, ReadInv, NEW t \in Threads, LockToDecode(t)
  PROVE  ReadInv'
<1>1. "decode" \in PCs /\ "decode" \in Decoding /\ pc[t] = "decoding"
  BY DEF PCs, Decoding, LockToDecode
<1> QED
  BY <1>1, ReadMoves DEF LockToDecode, Decoding, ReadSection

LEMMA CloseReaderRead ==
  ASSUME TypeOK, ReadInv, NEW t \in Threads, CloseReader(t)
  PROVE  ReadInv'
<1>1. "closeWriter" \in PCs \ ReadSection
  BY DEF PCs, ReadSection
<1> QED
  BY <1>1, ReadMoves, DecodingReads DEF CloseReader, Decoding

LEMMA CloseWriterRead ==
  ASSUME TypeOK, ReadInv, NEW t \in Threads, CloseWriter(t)
  PROVE  ReadInv'
<1>1. "ok" \in PCs \ ReadSection
  BY DEF PCs, Returned, ReadSection
<1> QED
  BY <1>1, ReadMoves, DecodingReads DEF CloseWriter, Decoding

LEMMA WriterCallsRead ==
  ASSUME TypeOK, ReadInv, NEW w \in Writers, WriterCalls(w)
  PROVE  ReadInv'
BY ReadWrite, Callers, ThreadsDistinct DEF WriterCalls, CanCall

LEMMA ReaderCallsRead ==
  ASSUME TypeOK, ReadInv, ReaderCalls
  PROVE  ReadInv'
<1>1. /\ pc[Reader] = "ok" /\ Shared /\ UNCHANGED <<ctx, wire, peer, life, hist>>
      /\ \A u \in Threads : u # Reader => arg'[u] = arg[u]
  BY Callers DEF ReaderCalls, TypeOK
<1>2. CASE CallClose(Reader)
  BY <1>1, <1>2, ReadClose, Callers DEF Returned
<1>3. CASE Goto(Reader, "reading") /\ UNCHANGED chan
  <2>1. "reading" \in PCs /\ "reading" \notin Decoding /\ "ok" \notin Decoding
    BY DEF PCs, Decoding
  <2> QED
    BY <1>1, <1>3, <2>1, ReadMoves, Callers
<1> QED
  BY <1>2, <1>3 DEF ReaderCalls

LEMMA PauseNewRead ==
  ASSUME TypeOK, ReadInv, PauseNew
  PROVE  ReadInv'
<1>1. life.stage = "new" /\ life'.stage = "fresh" /\ pc[Manager] \in Returned
  BY DEF PauseNew, At, CanCall, Reach, TypeOK
<1> QED
  BY <1>1, ReadStage DEF PauseNew

LEMMA RegisterRead ==
  ASSUME TypeOK, ReadInv, Register
  PROVE  ReadInv'
<1>1. life'.stage = "held" /\ pc[Manager] \in Returned /\ chan'.crypt
  BY DEF Register, At, CanCall, Reach, TypeOK
<1> QED
  BY <1>1, ReadStage DEF Register

LEMMA ResumeNewRead ==
  ASSUME TypeOK, ReadInv, ResumeNew
  PROVE  ReadInv'
<1>1. /\ life.stage = "held" /\ life'.stage = "active" /\ pc[Manager] \in Returned
      /\ chan'.crypt = chan.crypt /\ pc' = NotifyAll
  BY DEF ResumeNew, At, CanCall, Reach, Resume, TypeOK
<1>2. pc[Manager] \notin ReadSection
  BY <1>1 DEF Returned, ReadSection
<1> QED
  BY <1>1, <1>2, ReadResume DEF ResumeNew

LEMMA WriteLastRead ==
  ASSUME TypeOK, ReadInv, WriteLast
  PROVE  ReadInv'
<1>1. life.stage = "active" /\ life'.stage = "last" /\ pc[Manager] \in Returned
  BY DEF WriteLast, At, CanCall, Reach, TypeOK
<1> QED
  BY <1>1, ReadWrite, Callers, ThreadsDistinct DEF WriteLast

LEMMA LastWrittenRead ==
  ASSUME TypeOK, ReadInv, LastWritten
  PROVE  ReadInv'
<1>1. life.stage = "last" /\ life'.stage \in {"shutdown", "over"} /\ pc[Manager] \in Returned
  BY DEF LastWritten, At, CanCall, Reach, TypeOK
<1>2. ~chan.crypt => Ended
  BY <1>1 DEF ReadInv, DrainInv
<1> QED
  BY <1>1, <1>2, ReadStage DEF LastWritten

LEMMA WriteSafeRead ==
  ASSUME TypeOK, ReadInv, WriteSafe
  PROVE  ReadInv'
<1>1. life.stage = "shutdown" /\ life'.stage = "safe" /\ pc[Manager] \in Returned
  BY DEF WriteSafe, At, CanCall, Reach, TypeOK
<1> QED
  BY <1>1, ReadWrite, Callers, ThreadsDistinct DEF WriteSafe

\* The peer's SAFE_TO_CLOSE has been read, and it was the last.
LEMMA DisableRead ==
  ASSUME TypeOK, ReadInv, Disable
  PROVE  ReadInv'
<1>1. life'.stage = "plain" /\ pc[Manager] \in Returned
  BY DEF Disable, At, CanCall, Reach, TypeOK
<1>2. PICK i \in 1..Len(hist.got) : hist.got[i].kind = "SAFE"
  BY DEF Disable, Delivered
<1>3. peer.mode \in {"safe", "done"} /\ hist.got[i].seq = peer.sent
  BY <1>2 DEF ReadInv, SafeInv, Closing
<1>4. hist.got[i].seq <= ctx.received
  BY <1>2 DEF ReadInv, GotInv
<1>5. peer.sent = ctx.received + Held + Encrypted(wire.in)
  BY DEF ReadInv, FlowInv
<1>6. /\ Held \in Nat /\ Encrypted(wire.in) \in Nat
      /\ ctx.received \in Nat /\ peer.sent \in Nat
  BY DEF Held, Encrypted, TypeOK
<1>7. Ended
  BY <1>3, <1>4, <1>5, <1>6 DEF Ended
<1> QED
  BY <1>1, <1>7, ReadStage DEF Disable

LEMMA WriteDiscRead ==
  ASSUME TypeOK, ReadInv, WriteDisc
  PROVE  ReadInv'
<1>1. life.stage = "plain" /\ life'.stage = "disc" /\ pc[Manager] \in Returned
  BY DEF WriteDisc, At, CanCall, Reach, TypeOK
<1> QED
  BY <1>1, ReadWrite, Callers, ThreadsDistinct DEF WriteDisc

LEMMA DrainRead ==
  ASSUME TypeOK, ReadInv, Drain
  PROVE  ReadInv'
<1>1. /\ life.stage = "disc" /\ life'.stage = "drain" /\ pc[Manager] \in Returned
      /\ UNCHANGED <<chan, ctx, wire, peer, arg, hist>>
  BY DEF Drain, At, CanCall, Reach, TypeOK
<1>2. pc'[Manager] = "reading" /\ \A u \in Threads : u # Manager => pc'[u] = pc[u]
  BY Callers DEF Drain, Goto, TypeOK
<1>3. \A u \in Threads : pc'[u] \in Decoding <=> pc[u] \in Decoding
  BY <1>1, <1>2 DEF Decoding, Returned
<1>4. \A u \in Threads : pc'[u] \in ReadSection =>
                           u = Reader \/ (u = Manager /\ life'.stage = "drain")
  BY <1>1, <1>2 DEF ReadInv, DrainInv
<1>5. Ended
  BY <1>1 DEF ReadInv, DrainInv
<1> QED
  BY <1>1, <1>3, <1>4, <1>5, ReadStays

LEMMA ClosePriorRead ==
  ASSUME TypeOK, ReadInv, ClosePrior
  PROVE  ReadInv'
<1>1. /\ life.stage \in {"drain", "shutdown", "safe"} /\ life'.stage = "closing"
      /\ pc[Manager] \in Returned
  BY DEF ClosePrior, At, CanCall, Reach, TypeOK
<1> QED
  BY <1>1, ReadClose, Callers, ThreadsDistinct DEF ClosePrior

LEMMA ResumeRemovedRead ==
  ASSUME TypeOK, ReadInv, ResumeRemoved
  PROVE  ReadInv'
<1>1. life'.stage = life.stage /\ UNCHANGED <<ctx, wire, peer, arg, hist>>
  BY DEF ResumeRemoved, Remove, TypeOK
<1>2. CASE Resume
  <2>1. chan'.crypt = chan.crypt
    BY <1>2 DEF Resume, TypeOK
  <2> QED
    BY <1>1, <1>2, <2>1, ReadResume DEF Resume
<1>3. CASE UNCHANGED <<chan, pc>>
  <2>1. \A u \in Threads : pc[u] \in ReadSection =>
                             u = Reader \/ (u = Manager /\ life.stage = "drain")
    BY DEF ReadInv, DrainInv
  <2>2. /\ life.stage \in {"new", "fresh"} => pc[Reader] = "ok"
        /\ life.stage \in {"plain", "disc", "drain"} => Ended
        /\ ~chan.crypt => life.stage \in {"new", "fresh"} \/ Ended
    BY DEF ReadInv, DrainInv
  <2> QED
    BY <1>1, <1>3, <2>1, <2>2, ReadStays
<1> QED
  BY <1>2, <1>3 DEF ResumeRemoved

LEMMA WriteDisconnectionRead ==
  ASSUME TypeOK, ReadInv, WriteDisconnection
  PROVE  ReadInv'
<1>1. life'.stage = life.stage
  BY DEF WriteDisconnection, Remove, TypeOK
<1> QED
  BY <1>1, ReadWrite, Callers, ThreadsDistinct DEF WriteDisconnection, CanCall

LEMMA CloseRemovedRead ==
  ASSUME TypeOK, ReadInv, CloseRemoved
  PROVE  ReadInv'
<1>1. life'.stage = life.stage
  BY DEF CloseRemoved, Remove, TypeOK
<1> QED
  BY <1>1, ReadClose, Callers, ThreadsDistinct DEF CloseRemoved, CanCall

LEMMA ReadQuantities ==
  ASSUME TypeOK
  PROVE  /\ ctx.received \in Nat /\ peer.sent \in Nat /\ Held \in {0, 1}
         /\ Len(wire.in) \in Nat /\ Encrypted(wire.in) \in Nat
         /\ wire.in \in Seq(Frames) /\ hist.got \in Seq(Frames)
BY DEF TypeOK, Held, Encrypted

\* An encrypted frame in the reader's hands has not been counted yet.
LEMMA HeldUnread ==
  ASSUME TypeOK, ReadInv, Held = 1
  PROVE  ~AllRead /\ ~Ended
<1>1. peer.sent = ctx.received + 1 + Encrypted(wire.in)
  BY DEF ReadInv, FlowInv
<1> QED
  BY <1>1, ReadQuantities DEF AllRead, Ended

LEMMA OneOrMore == ASSUME NEW n \in Nat, n # 0 PROVE n = 1 \/ (n > 1 /\ n - 1 # 0)
OBVIOUS

LEMMA EmptyLength ==
  ASSUME NEW S, NEW s \in Seq(S)
  PROVE  s = << >> <=> Len(s) = 0
OBVIOUS

\* The frame at the head of the stream, and what is left behind it.
LEMMA HeadTaken ==
  ASSUME TypeOK, ReadInv, wire.in # << >>
  PROVE  /\ Head(wire.in) = wire.in[1] /\ 1 \in 1..Len(wire.in)
         /\ Len(Tail(wire.in)) = Len(wire.in) - 1
         /\ \A i \in 1..Len(Tail(wire.in)) : Tail(wire.in)[i] = wire.in[i + 1]
         /\ Head(wire.in).seq # 0 => Encrypted(Tail(wire.in)) = Encrypted(wire.in) - 1
         /\ Head(wire.in).seq = 0 =>
              /\ Len(wire.in) = 1 /\ Encrypted(wire.in) = 0 /\ Tail(wire.in) = << >>
              /\ Encrypted(Tail(wire.in)) = 0 /\ peer.mode = "done"
<1>1. wire.in \in Seq(Frames)
  BY ReadQuantities
<1>2. /\ Head(wire.in) = wire.in[1] /\ Len(wire.in) \in Nat /\ Len(wire.in) > 0
      /\ Len(Tail(wire.in)) = Len(wire.in) - 1
      /\ \A i \in 1..Len(Tail(wire.in)) : Tail(wire.in)[i] = wire.in[i + 1]
  BY <1>1
<1>3. 1 \in 1..Len(wire.in)
  BY <1>2
<1>8. Len(wire.in) \in Nat /\ Len(wire.in) # 0 /\ Len(Tail(wire.in)) = Len(wire.in) - 1
  BY <1>1, <1>2, EmptyLength
<1>6. Tail(wire.in) \in Seq(Frames)
  BY <1>1, <1>2
<1>7. Tail(wire.in) = << >> <=> Len(Tail(wire.in)) = 0
  BY <1>6, EmptyLength
<1>4. ASSUME Head(wire.in).seq = 0
      PROVE  /\ Len(wire.in) = 1 /\ Encrypted(wire.in) = 0 /\ Tail(wire.in) = << >>
             /\ Encrypted(Tail(wire.in)) = 0 /\ peer.mode = "done"
  <2>1. Len(wire.in) = 1 /\ peer.mode = "done"
    BY <1>2, <1>3, <1>4 DEF ReadInv, FlowInv
  <2>2. Tail(wire.in) = << >>
    BY <1>2, <1>7, <2>1
  <2>3. Encrypted(wire.in) = 0
    BY <1>2, <1>4, <2>1 DEF Encrypted
  <2>4. Encrypted(Tail(wire.in)) = 0
    BY <2>2 DEF Encrypted
  <2> QED
    BY <2>1, <2>2, <2>3, <2>4
<1>5. ASSUME Head(wire.in).seq # 0
      PROVE  Encrypted(Tail(wire.in)) = Encrypted(wire.in) - 1
  <2>1. CASE Len(wire.in) = 1
    <3>1. Tail(wire.in) = << >>
      BY <1>2, <1>7, <2>1
    <3>2. Encrypted(Tail(wire.in)) = 0
      BY <3>1 DEF Encrypted
    <3>3. Encrypted(wire.in) = 1
      BY <1>2, <1>5, <2>1 DEF Encrypted
    <3> QED
      BY <3>2, <3>3
  <2>2. CASE Len(wire.in) # 1
    <3> DEFINE n == Len(wire.in)
    <3>7. n > 1 /\ n - 1 # 0
      BY <1>8, <2>2, OneOrMore
    <3>1. n - 1 \in 1..Len(Tail(wire.in)) /\ Tail(wire.in)[n - 1] = wire.in[n]
      BY <1>2, <3>7
    <3>0. Len(Tail(wire.in)) # 0
      BY <1>8, <3>7
    <3>2. Tail(wire.in) # << >>
      BY <1>7, <3>0
    <3>3. Tail(wire.in)[Len(Tail(wire.in))] = wire.in[n]
      BY <1>2, <3>1
    <3>4. wire.in # << >>
      BY <1>2
    <3>5. CASE wire.in[n].seq = 0
      <4>1. Encrypted(wire.in) = n - 1
        BY <3>4, <3>5 DEF Encrypted
      <4>2. Encrypted(Tail(wire.in)) = Len(Tail(wire.in)) - 1
        BY <3>2, <3>3, <3>5 DEF Encrypted
      <4> QED
        BY <1>2, <4>1, <4>2
    <3>6. CASE wire.in[n].seq # 0
      <4>1. Encrypted(wire.in) = n
        BY <3>4, <3>6 DEF Encrypted
      <4>2. Encrypted(Tail(wire.in)) = Len(Tail(wire.in))
        BY <3>2, <3>3, <3>6 DEF Encrypted
      <4> QED
        BY <1>2, <4>1, <4>2
    <3> QED
      BY <3>5, <3>6
  <2> QED
    BY <2>1, <2>2
<1> QED
  BY <1>2, <1>3, <1>4, <1>5

\* BwuManager's draining Read finds the peer's last frame, in clear.
LEMMA DrainsClear ==
  ASSUME TypeOK, ReadInv, wire.in # << >>, Ended
  PROVE  Head(wire.in).seq = 0 /\ Held = 0
<1>1. peer.sent = ctx.received /\ Held = 0 /\ Encrypted(wire.in) = 0
  BY ReadQuantities DEF ReadInv, FlowInv, Ended
<1>2. Encrypted(wire.in) # 0 \/ (Len(wire.in) = 1 /\ wire.in[1].seq = 0)
  BY ReadQuantities DEF Encrypted
<1> QED
  BY <1>1, <1>2, HeadTaken

\* TakeFrame, the frame's thread being t.
LEMMA TakeFrameRead ==
  ASSUME TypeOK, ReadInv, NEW t \in Threads, TakeFrame(t)
  PROVE  ReadInv'
<1> DEFINE f == Head(wire.in)
<1>1. /\ pc[t] = "read" /\ wire.in # << >> /\ wire'.in = Tail(wire.in)
      /\ UNCHANGED <<chan, ctx, peer, life, hist>>
  BY DEF TakeFrame, TypeOK
<1>2. pc'[t] = "decoding" /\ \A u \in Threads : u # t => pc'[u] = pc[u]
  BY DEF TakeFrame, Goto, TypeOK
<1>3. arg'[t] = f /\ \A u \in Threads : u # t => arg'[u] = arg[u]
  BY DEF TakeFrame, TypeOK
<1>4. t = Reader \/ (t = Manager /\ life.stage = "drain")
  BY <1>1 DEF ReadInv, DrainInv, ReadSection
<1>5. t # Reader => f.seq = 0 /\ Held = 0
  BY <1>1, <1>4, DrainsClear DEF ReadInv, DrainInv
<1>6. t = Reader => Held = 0
  BY <1>1 DEF Held, Decoding
<1>7. Held = 0
  BY <1>5, <1>6
<1>8. Held' = IF f.seq = 0 THEN 0 ELSE 1
  <2>1. CASE t = Reader
    BY <1>2, <1>3, <2>1 DEF Held, Decoding
  <2>2. CASE t # Reader
    <3>1. Held' = Held
      BY <1>2, <1>3, <2>2, Callers DEF Held
    <3> QED
      BY <1>5, <2>2, <3>1
  <2> QED
    BY <2>1, <2>2
<1>9. f.seq = 0 => AllRead
  <2>1. f.seq = 0 => Encrypted(wire.in) = 0 /\ peer.mode = "done"
    BY <1>1, HeadTaken
  <2>2. peer.sent = ctx.received + Held + Encrypted(wire.in)
    BY DEF ReadInv, FlowInv
  <2> QED
    BY <1>7, <2>1, <2>2, ReadQuantities DEF AllRead
<1>10. AllRead' = AllRead /\ Ended' = Ended
  BY <1>1 DEF AllRead, Ended
<1>11. f.seq # 0 => f.seq = ctx.received + 1
  <2>1. f = wire.in[1] /\ 1 \in 1..Len(wire.in)
    BY <1>1, HeadTaken
  <2> QED
    BY <1>7, <2>1, ReadQuantities DEF ReadInv, FlowInv
<1>12. FlowInv'
  <2>1. peer'.sent = ctx'.received + Held' + Encrypted(wire.in)'
    <3>1. peer.sent = ctx.received + Encrypted(wire.in)
      BY <1>7, ReadQuantities DEF ReadInv, FlowInv
    <3>2. CASE f.seq = 0
      <4>1. Encrypted(wire'.in) = Encrypted(wire.in)
        BY <1>1, <3>2, HeadTaken
      <4>2. Encrypted(wire.in)' = Encrypted(wire'.in)
        BY DEF Encrypted
      <4>3. Held' = 0 /\ peer' = peer /\ ctx' = ctx
        BY <1>1, <1>8, <3>2
      <4> HIDE DEF f
      <4> QED
        BY <3>1, <4>1, <4>2, <4>3, ReadQuantities
    <3>3. CASE f.seq # 0
      <4>1. Encrypted(wire'.in) = Encrypted(wire.in) - 1
        BY <1>1, <3>3, HeadTaken
      <4>2. Encrypted(wire.in)' = Encrypted(wire'.in)
        BY DEF Encrypted
      <4>3. Held' = 1 /\ peer'.sent = peer.sent /\ ctx'.received = ctx.received
        BY <1>1, <1>8, <3>3
      <4>4. Encrypted(wire.in) \in Nat /\ ctx.received \in Nat
        BY ReadQuantities
      <4>5. ctx.received + Encrypted(wire.in)
            = ctx.received + 1 + (Encrypted(wire.in) - 1)
        BY <4>4
      <4> QED
        BY <3>1, <4>1, <4>2, <4>3, <4>5
    <3> QED
      BY <3>2, <3>3
  <2>2. ASSUME NEW i \in 1..Len(wire'.in)
        PROVE  IF wire'.in[i].seq = 0 THEN i = Len(wire'.in) /\ peer'.mode = "done"
                                      ELSE wire'.in[i].seq = ctx'.received + Held' + i
    <3>1. /\ i + 1 \in 1..Len(wire.in) /\ wire'.in[i] = wire.in[i + 1]
          /\ Len(wire'.in) = Len(wire.in) - 1 /\ i \in Nat /\ Len(wire.in) > 1
      BY <1>1, <2>2, HeadTaken, ReadQuantities
    <3>2. f.seq # 0
      BY <1>1, <3>1, HeadTaken
    <3>3. Held' = 1
      BY <1>8, <3>2
    <3>4. IF wire.in[i + 1].seq = 0 THEN i + 1 = Len(wire.in) /\ peer.mode = "done"
                                    ELSE wire.in[i + 1].seq = ctx.received + 0 + (i + 1)
      BY <1>7, <3>1 DEF ReadInv, FlowInv
    <3>5. CASE wire.in[i + 1].seq = 0
      <4>1. i + 1 = Len(wire.in) /\ peer.mode = "done"
        BY <3>4, <3>5
      <4>2. i = Len(wire'.in)
        BY <3>1, <4>1
      <4> QED
        BY <1>1, <3>1, <3>5, <4>1, <4>2
    <3>6. CASE wire.in[i + 1].seq # 0
      <4>1. wire.in[i + 1].seq = ctx.received + 0 + (i + 1)
        BY <3>4, <3>6
      <4>2. wire'.in[i].seq = ctx'.received + Held' + i
        BY <1>1, <3>1, <3>3, <4>1, ReadQuantities
      <4> QED
        BY <3>1, <3>6, <4>2
    <3> QED
      BY <3>5, <3>6
  <2>3. Held' = 1 => arg'[Reader].seq = ctx'.received + 1
    <3>1. Held' = 1 => f.seq # 0 /\ t = Reader
      BY <1>5, <1>8
    <3> QED
      BY <1>1, <1>3, <1>11, <3>1
  <2>4. ASSUME NEW u \in Threads, pc'[u] \in Decoding, arg'[u].seq = 0
        PROVE  AllRead'
    <3>1. CASE u = t
      BY <1>3, <1>9, <1>10, <2>4, <3>1
    <3>2. CASE u # t
      BY <1>2, <1>3, <1>10, <2>4, <3>2 DEF ReadInv, FlowInv
    <3> QED
      BY <3>1, <3>2
  <2>5. \A u \in Threads : pc'[u] \in Decoding /\ arg'[u].seq = 0 => AllRead'
    BY <2>4
  <2> QED
    BY <2>1, <2>2, <2>3, <2>5 DEF FlowInv
<1>13. GotInv'
  BY <1>1, <1>10 DEF ReadInv, GotInv
<1>14. \A g : Closing(g)' <=> Closing(g)
  BY <1>1 DEF Closing
<1>15. SafeInv'
  <2>1. ASSUME NEW i \in 1..Len(wire'.in) PROVE Closing(wire.in[i])'
    <3>1. i + 1 \in 1..Len(wire.in) /\ wire'.in[i] = wire.in[i + 1]
      BY <1>1, <2>1, HeadTaken, ReadQuantities
    <3> QED
      BY <1>1, <3>1 DEF ReadInv, SafeInv, Closing
  <2>2. \A i \in 1..Len(hist'.got) : Closing(hist.got[i])'
    BY <1>1 DEF ReadInv, SafeInv, Closing
  <2>3. ASSUME NEW u \in Threads, pc'[u] \in Decoding PROVE Closing(arg[u])'
    <3>1. CASE u = t
      <4>1. Closing(wire.in[1])
        BY <1>1, HeadTaken DEF ReadInv, SafeInv
      <4> QED
        BY <1>1, <1>3, <3>1, <4>1, HeadTaken DEF Closing
    <3>2. CASE u # t
      BY <1>1, <1>2, <1>3, <2>3, <3>2 DEF ReadInv, SafeInv, Closing
    <3> QED
      BY <3>1, <3>2
  <2> QED
    BY <2>1, <2>2, <2>3 DEF SafeInv
<1>16. DrainInv'
  <2>1. \A u \in Threads :
          pc'[u] \in ReadSection => u = Reader \/ (u = Manager /\ life'.stage = "drain")
    BY <1>1, <1>2, <1>4 DEF ReadInv, DrainInv
  <2>2. life'.stage \in {"new", "fresh"} => pc'[Reader] = "ok"
    <3>1. life.stage \in {"new", "fresh"} => t # Reader
      BY <1>1 DEF ReadInv, DrainInv
    <3> QED
      BY <1>1, <1>2, <3>1, Callers DEF ReadInv, DrainInv
  <2>3. /\ life'.stage \in {"plain", "disc", "drain"} => Ended'
        /\ ~chan'.crypt => life'.stage \in {"new", "fresh"} \/ Ended'
    BY <1>1, <1>10 DEF ReadInv, DrainInv
  <2>4. pc'[Manager] \in Decoding => arg'[Manager].seq = 0
    BY <1>2, <1>3, <1>5, ThreadsDistinct, Callers DEF ReadInv, DrainInv
  <2> QED
    BY <2>1, <2>2, <2>3, <2>4 DEF DrainInv
<1> QED
  BY <1>12, <1>13, <1>15, <1>16 DEF ReadInv

\* A read returns a frame in clear: it was the peer's last.
LEMMA GotClear ==
  ASSUME TypeOK, ReadInv, NEW t \in Threads, pc[t] = "decode", arg[t].seq = 0,
         hist'.got = Append(hist.got, arg[t]), hist'.bad = hist.bad, UNCHANGED <<ctx, peer>>
  PROVE  GotInv'
<1>1. AllRead /\ AllRead'
  BY DEF ReadInv, FlowInv, Decoding, AllRead
<1>2. ~hist'.bad
  BY DEF ReadInv, GotInv
<1>3. ASSUME NEW i \in 1..Len(hist'.got)
      PROVE  hist'.got[i].seq \in {0, i} /\ hist'.got[i].seq <= ctx'.received
  <2>1. hist.got \in Seq(Frames) /\ arg[t] \in Frames /\ ctx.received \in Nat /\ ctx' = ctx
    BY DEF TypeOK
  <2>2. CASE i = Len(hist.got) + 1
    <3>1. hist'.got[i] = arg[t]
      BY <2>1, <2>2
    <3> QED
      BY <2>1, <3>1
  <2>3. CASE i # Len(hist.got) + 1
    <3>1. i \in 1..Len(hist.got) /\ hist'.got[i] = hist.got[i]
      BY <2>1, <2>3, <1>3
    <3> QED
      BY <2>1, <3>1 DEF ReadInv, GotInv
  <2> QED
    BY <2>2, <2>3
<1> QED
  BY <1>1, <1>2, <1>3 DEF GotInv

\* Where Decode leaves its thread, and what it leaves alone.
LEMMA DecodeFrames ==
  ASSUME TypeOK, ReadInv, NEW t \in Threads, Decode(t)
  PROVE  /\ pc[t] = "decode" /\ pc'[t] \in {"ok", "failed"}
         /\ \A u \in Threads : u # t => pc'[u] = pc[u] /\ arg'[u] = arg[u]
         /\ UNCHANGED <<chan, wire, peer, life>>
         /\ Closing(arg[t])
         /\ t = Reader \/ (t = Manager /\ life.stage = "drain" /\ arg[t].seq = 0)
         /\ hist'.got \in {hist.got, Append(hist.got, arg[t])}
<1>1. pc[t] = "decode" /\ UNCHANGED <<chan, wire, peer, life>>
  BY DEF Decode
<1>2. Goto(t, "ok") \/ Goto(t, "failed")
  BY DEF Decode
<1>3. pc'[t] \in {"ok", "failed"} /\ \A u \in Threads : u # t => pc'[u] = pc[u]
  BY <1>2 DEF Goto, TypeOK
<1>4. \A u \in Threads : u # t => arg'[u] = arg[u]
  BY DEF Decode, TypeOK
<1>5. Closing(arg[t])
  BY <1>1 DEF ReadInv, SafeInv, Decoding
<1>6. t = Reader \/ (t = Manager /\ life.stage = "drain" /\ arg[t].seq = 0)
  BY <1>1 DEF ReadInv, DrainInv, ReadSection, Decoding
<1>7. hist'.got \in {hist.got, Append(hist.got, arg[t])}
  BY DEF Decode, TypeOK
<1> QED
  BY <1>1, <1>3, <1>4, <1>5, <1>6, <1>7

\* Its thread done, nothing is forgotten that DrainInv and SafeInv say.
LEMMA DecodeLeaves ==
  ASSUME TypeOK, ReadInv, NEW t \in Threads, Decode(t), Ended => Ended'
  PROVE  SafeInv' /\ DrainInv'
<1>1. /\ pc[t] = "decode" /\ pc'[t] \in {"ok", "failed"}
      /\ \A u \in Threads : u # t => pc'[u] = pc[u] /\ arg'[u] = arg[u]
      /\ UNCHANGED <<chan, wire, peer, life>>
      /\ Closing(arg[t])
      /\ t = Reader \/ (t = Manager /\ life.stage = "drain" /\ arg[t].seq = 0)
      /\ hist'.got \in {hist.got, Append(hist.got, arg[t])}
  BY DecodeFrames
<1>2. \A g : Closing(g)' <=> Closing(g)
  BY <1>1 DEF Closing
<1>3. SafeInv'
  <2>1. \A i \in 1..Len(wire'.in) : Closing(wire.in[i])'
    BY <1>1 DEF ReadInv, SafeInv, Closing
  <2>2. ASSUME NEW i \in 1..Len(hist'.got) PROVE Closing(hist.got[i])'
    <3>1. hist.got \in Seq(Frames)
      BY ReadQuantities
    <3>2. hist'.got[i] = arg[t] \/ (i \in 1..Len(hist.got) /\ hist'.got[i] = hist.got[i])
      <4>1. CASE hist'.got = hist.got
        BY <2>2, <4>1
      <4>2. CASE hist'.got = Append(hist.got, arg[t])
        <5>1. arg[t] \in Frames
          BY DEF TypeOK
        <5>2. CASE i = Len(hist.got) + 1
          BY <3>1, <4>2, <5>1, <5>2
        <5>3. CASE i # Len(hist.got) + 1
          BY <2>2, <3>1, <4>2, <5>1, <5>3
        <5> QED
          BY <5>2, <5>3
      <4> QED
        BY <1>1, <4>1, <4>2
    <3>3. ASSUME NEW j \in 1..Len(hist.got) PROVE Closing(hist.got[j])
      BY DEF ReadInv, SafeInv
    <3> QED
      BY <1>1, <3>2, <3>3 DEF Closing
  <2>3. ASSUME NEW u \in Threads, pc'[u] \in Decoding PROVE Closing(arg[u])'
    <3>1. u # t
      BY <1>1, <2>3 DEF Decoding
    <3> QED
      BY <1>1, <2>3, <3>1 DEF ReadInv, SafeInv, Closing
  <2> QED
    BY <2>1, <2>2, <2>3 DEF SafeInv
<1>4. DrainInv'
  <2>1. ASSUME NEW u \in Threads, pc'[u] \in ReadSection
        PROVE  u = Reader \/ (u = Manager /\ life'.stage = "drain")
    <3>1. u # t
      BY <1>1, <2>1 DEF ReadSection
    <3> QED
      BY <1>1, <2>1, <3>1 DEF ReadInv, DrainInv
  <2>2. life'.stage \in {"new", "fresh"} => pc'[Reader] = "ok"
    <3>1. life.stage \in {"new", "fresh"} => t # Reader
      BY <1>1 DEF ReadInv, DrainInv
    <3> QED
      BY <1>1, <3>1, Callers DEF ReadInv, DrainInv
  <2>3. /\ life'.stage \in {"plain", "disc", "drain"} => Ended'
        /\ ~chan'.crypt => life'.stage \in {"new", "fresh"} \/ Ended'
    BY <1>1 DEF ReadInv, DrainInv
  <2>4. pc'[Manager] \in Decoding => arg'[Manager].seq = 0
    <3>1. pc'[Manager] \in Decoding => Manager # t
      BY <1>1 DEF Decoding
    <3> QED
      BY <1>1, <3>1, Callers DEF ReadInv, DrainInv
  <2> QED
    BY <2>1, <2>2, <2>3, <2>4 DEF DrainInv
<1> QED
  BY <1>3, <1>4

\* The next number, by the reader: BwuManager meets frames in clear only.
LEMMA DecodeNext ==
  ASSUME TypeOK, ReadInv, NEW t \in Threads, Decode(t),
         arg[t].seq = ctx.received + 1,
         ctx' = [ctx EXCEPT !.received = @ + 1],
         hist' = [hist EXCEPT !.got = Append(@, arg[t])]
  PROVE  ReadInv'
<1>1. /\ pc[t] = "decode" /\ pc'[t] \in {"ok", "failed"}
      /\ \A u \in Threads : u # t => pc'[u] = pc[u] /\ arg'[u] = arg[u]
      /\ UNCHANGED <<chan, wire, peer, life>>
      /\ t = Reader \/ (t = Manager /\ life.stage = "drain" /\ arg[t].seq = 0)
  BY DecodeFrames
<1>2. /\ ctx.received \in Nat /\ ctx'.received = ctx.received + 1
      /\ hist'.got = Append(hist.got, arg[t]) /\ hist'.bad = hist.bad
      /\ hist.got \in Seq(Frames) /\ arg[t] \in Frames
  BY DEF TypeOK
<1>3. t = Reader /\ arg[t].seq # 0
  BY <1>1, <1>2
<1>4. Held = 1 /\ Held' = 0
  BY <1>1, <1>3 DEF Held, Decoding
<1>5. ~AllRead /\ ~Ended
  BY <1>4, HeldUnread
<1>6. FlowInv'
  <2>1. peer'.sent = ctx'.received + Held' + Encrypted(wire.in)'
    <3>1. peer.sent = ctx.received + 1 + Encrypted(wire.in)
      BY <1>4 DEF ReadInv, FlowInv
    <3>2. Encrypted(wire.in)' = Encrypted(wire.in)
      BY <1>1 DEF Encrypted
    <3> QED
      BY <1>1, <1>2, <1>4, <3>1, <3>2, ReadQuantities
  <2>2. ASSUME NEW i \in 1..Len(wire'.in)
        PROVE  IF wire'.in[i].seq = 0 THEN i = Len(wire'.in) /\ peer'.mode = "done"
                                      ELSE wire'.in[i].seq = ctx'.received + Held' + i
    <3>1. IF wire.in[i].seq = 0 THEN i = Len(wire.in) /\ peer.mode = "done"
                                ELSE wire.in[i].seq = ctx.received + 1 + i
      BY <1>1, <1>4 DEF ReadInv, FlowInv
    <3> QED
      BY <1>1, <1>2, <1>4, <3>1
  <2>3. Held' = 1 => arg'[Reader].seq = ctx'.received + 1
    BY <1>4
  <2>4. ASSUME NEW u \in Threads, pc'[u] \in Decoding, arg'[u].seq = 0
        PROVE  AllRead'
    <3>1. u # t
      BY <1>1, <2>4 DEF Decoding
    <3> QED
      BY <1>1, <1>5, <2>4, <3>1 DEF ReadInv, FlowInv
  <2> QED
    BY <2>1, <2>2, <2>3, <2>4 DEF FlowInv
<1>7. GotInv'
  <2>1. Len(hist.got) = ctx.received /\ ~hist'.bad
    BY <1>2, <1>5 DEF ReadInv, GotInv
  <2>2. Len(hist'.got) = ctx'.received
    BY <1>2, <2>1
  <2>3. ASSUME NEW i \in 1..Len(hist'.got)
        PROVE  hist'.got[i].seq \in {0, i} /\ hist'.got[i].seq <= ctx'.received
    <3>1. CASE i = Len(hist.got) + 1
      <4>1. hist'.got[i] = arg[t]
        BY <1>2, <3>1
      <4> QED
        BY <1>2, <2>1, <3>1, <4>1
    <3>2. CASE i # Len(hist.got) + 1
      <4>1. i \in 1..Len(hist.got) /\ hist'.got[i] = hist.got[i]
        BY <1>2, <2>3, <3>2
      <4>2. hist.got[i].seq \in {0, i} /\ hist.got[i].seq <= ctx.received
        BY <4>1 DEF ReadInv, GotInv
      <4>3. hist.got[i].seq \in Nat
        BY <4>1, <4>2
      <4> QED
        BY <1>2, <4>1, <4>2, <4>3
    <3> QED
      BY <3>1, <3>2
  <2> QED
    BY <2>1, <2>2, <2>3 DEF GotInv
<1>8. SafeInv' /\ DrainInv'
  BY <1>5, DecodeLeaves
<1> QED
  BY <1>6, <1>7, <1>8 DEF ReadInv

\* A frame in clear, returned or rejected.
LEMMA DecodeClear ==
  ASSUME TypeOK, ReadInv, NEW t \in Threads, Decode(t), arg[t].seq = 0, UNCHANGED ctx,
         hist'.bad = hist.bad
  PROVE  ReadInv'
<1>1. /\ pc[t] = "decode" /\ pc'[t] \in {"ok", "failed"}
      /\ \A u \in Threads : u # t => pc'[u] = pc[u] /\ arg'[u] = arg[u]
      /\ UNCHANGED <<chan, wire, peer, life>>
      /\ hist'.got \in {hist.got, Append(hist.got, arg[t])}
  BY DecodeFrames
<1>2. Held' = Held
  <2>1. CASE t = Reader
    BY <1>1, <2>1 DEF Held, Decoding
  <2>2. CASE t # Reader
    BY <1>1, <2>2, Callers DEF Held
  <2> QED
    BY <2>1, <2>2
<1>3. AllRead' = AllRead /\ Ended' = Ended /\ Encrypted(wire.in)' = Encrypted(wire.in)
  BY <1>1 DEF AllRead, Ended, Encrypted
<1>4. FlowInv'
  <2>1. peer'.sent = ctx'.received + Held' + Encrypted(wire.in)'
    BY <1>1, <1>2, <1>3 DEF ReadInv, FlowInv
  <2>2. \A i \in 1..Len(wire'.in) :
          IF wire'.in[i].seq = 0 THEN i = Len(wire'.in) /\ peer'.mode = "done"
                                 ELSE wire'.in[i].seq = ctx'.received + Held' + i
    BY <1>1, <1>2 DEF ReadInv, FlowInv
  <2>3. Held' = 1 => arg'[Reader].seq = ctx'.received + 1
    <3>1. Held' = 1 => t # Reader
      BY <1>1 DEF Held, Decoding
    <3> QED
      BY <1>1, <1>2, <3>1, Callers DEF ReadInv, FlowInv
  <2>4. ASSUME NEW u \in Threads, pc'[u] \in Decoding, arg'[u].seq = 0
        PROVE  AllRead'
    <3>1. u # t
      BY <1>1, <2>4 DEF Decoding
    <3> QED
      BY <1>1, <1>3, <2>4, <3>1 DEF ReadInv, FlowInv
  <2> QED
    BY <2>1, <2>2, <2>3, <2>4 DEF FlowInv
<1>5. GotInv'
  <2>1. CASE hist'.got = hist.got
    BY <1>3, <2>1 DEF ReadInv, GotInv
  <2>2. CASE hist'.got = Append(hist.got, arg[t])
    BY <1>1, <2>2, GotClear
  <2> QED
    BY <1>1, <2>1, <2>2
<1>6. SafeInv' /\ DrainInv'
  BY <1>3, DecodeLeaves
<1> QED
  BY <1>4, <1>5, <1>6 DEF ReadInv

\* An encrypted frame has the next number, and the context is there.
LEMMA DecodeRead ==
  ASSUME TypeOK, ReadInv, NEW t \in Threads, Decode(t)
  PROVE  ReadInv'
<1>1. /\ pc[t] = "decode"
      /\ t = Reader \/ (t = Manager /\ life.stage = "drain" /\ arg[t].seq = 0)
  BY DecodeFrames
<1>2. arg[t].seq # 0 => Held = 1 /\ t = Reader
  BY <1>1 DEF Held, Decoding
<1>3. arg[t].seq # 0 => arg[t].seq = ctx.received + 1
  BY <1>2 DEF ReadInv, FlowInv
<1>4. arg[t].seq # 0 => chan.crypt
  <2>1. arg[t].seq # 0 => ~Ended
    BY <1>2, HeldUnread
  <2>2. arg[t].seq # 0 => life.stage \notin {"new", "fresh"}
    BY <1>1, <1>2 DEF ReadInv, DrainInv
  <2> QED
    BY <2>1, <2>2 DEF ReadInv, DrainInv
<1>5. CASE arg[t].seq # 0
  <2>1. /\ ctx' = [ctx EXCEPT !.received = @ + 1]
        /\ hist' = [hist EXCEPT !.got = Append(@, arg[t])]
    BY <1>3, <1>4, <1>5 DEF Decode
  <2> QED
    BY <1>3, <1>5, <2>1, DecodeNext
<1>6. CASE arg[t].seq = 0
  <2>1. arg[t].seq # ctx.received + 1
    BY <1>6, ReadQuantities
  <2>2. UNCHANGED ctx /\ hist'.bad = hist.bad
    BY <1>6, <2>1 DEF Decode, TypeOK
  <2> QED
    BY <1>6, <2>2, DecodeClear
<1> QED
  BY <1>5, <1>6

LEMMA OneMore ==
  ASSUME NEW a \in Nat, NEW b \in Nat, NEW c \in Nat, NEW s, s = a + b + c
  PROVE  s + 1 = a + b + (c + 1)
OBVIOUS

\* The peer encrypts no frame after its SAFE_TO_CLOSE or its DISCONNECTION.
LEMMA PeerWritesRead ==
  ASSUME TypeOK, ReadInv, peer.mode \in {"up", "last"},
         NEW kind \in {"DATA", "LAST", "SAFE", "DISC"}, NEW mode, PeerWrites(kind, mode),
         kind = "SAFE" => mode = "safe"
  PROVE  ReadInv'
<1> DEFINE n == Len(wire.in)
           f == Frame(kind, peer.sent + 1, Reader)
<1>1. /\ UNCHANGED <<chan, io, ctx, pc, arg, calls, life, hist>>
      /\ peer'.sent = peer.sent + 1 /\ peer'.mode = mode
      /\ wire'.in = Append(wire.in, f)
  BY DEF PeerWrites, Arrives, TypeOK
<1>2. f.seq = peer.sent + 1 /\ f.kind = kind /\ f.seq # 0
  BY ReadQuantities DEF Frame
<1> HIDE DEF f
<1>3. /\ Len(wire'.in) = n + 1 /\ wire'.in[n + 1] = f
      /\ \A i \in 1..n : wire'.in[i] = wire.in[i]
  BY <1>1, ReadQuantities
<1>4. ~AllRead /\ ~Ended
  BY DEF AllRead, Ended
<1>5. \A i \in 1..n : wire.in[i].seq # 0
  BY DEF ReadInv, FlowInv
<1>6. Encrypted(wire.in) = n
  <2>1. n = 0 \/ n \in 1..n
    BY ReadQuantities
  <2>2. CASE n = 0
    <3>1. wire.in = << >>
      BY <2>2, EmptyLength, ReadQuantities
    <3> QED
      BY <2>2, <3>1 DEF Encrypted
  <2>3. CASE n \in 1..n
    BY <1>5, <2>3 DEF Encrypted
  <2> QED
    BY <2>1, <2>2, <2>3
<1>7. Encrypted(wire.in)' = n + 1
  <2>1. Len(wire'.in) = n + 1 /\ wire'.in[Len(wire'.in)].seq # 0
    BY <1>2, <1>3
  <2> QED
    BY <2>1 DEF Encrypted
<1>8. peer.sent = ctx.received + Held + n
  BY <1>6 DEF ReadInv, FlowInv
<1>9. Held' = Held
  BY <1>1 DEF Held
<1>10. FlowInv'
  <2>1. peer'.sent = ctx'.received + Held' + Encrypted(wire.in)'
    <3>1. /\ ctx'.received = ctx.received /\ peer'.sent = peer.sent + 1
          /\ n \in Nat /\ Held \in Nat /\ ctx.received \in Nat
      BY <1>1, ReadQuantities
    <3> HIDE DEF n
    <3> QED
      BY <1>7, <1>8, <1>9, <3>1
  <2>2. ASSUME NEW i \in 1..Len(wire'.in)
        PROVE  IF wire'.in[i].seq = 0 THEN i = Len(wire'.in) /\ peer'.mode = "done"
                                      ELSE wire'.in[i].seq = ctx'.received + Held' + i
    <3>1. CASE i = n + 1
      <4>1. wire'.in[i].seq = peer.sent + 1 /\ wire'.in[i].seq # 0
        BY <1>2, <1>3, <3>1
      <4>2. /\ ctx'.received = ctx.received
            /\ n \in Nat /\ Held \in Nat /\ ctx.received \in Nat
        BY <1>1, ReadQuantities
      <4> HIDE DEF n
      <4>3. peer.sent + 1 = ctx.received + Held + (n + 1)
        BY <1>8, <4>2, OneMore
      <4>4. wire'.in[i].seq = ctx'.received + Held' + i
        BY <1>9, <3>1, <4>1, <4>2, <4>3
      <4> QED
        BY <4>1, <4>4
    <3>2. CASE i # n + 1
      <4>1. i \in 1..n
        BY <1>3, <2>2, <3>2, ReadQuantities
      <4> QED
        BY <1>1, <1>3, <1>5, <1>9, <4>1 DEF ReadInv, FlowInv
    <3> QED
      BY <3>1, <3>2
  <2>3. Held' = 1 => arg'[Reader].seq = ctx'.received + 1
    BY <1>1, <1>9 DEF ReadInv, FlowInv
  <2>4. \A u \in Threads : pc'[u] \in Decoding /\ arg'[u].seq = 0 => AllRead'
    BY <1>1, <1>4 DEF ReadInv, FlowInv
  <2> QED
    BY <2>1, <2>2, <2>3, <2>4 DEF FlowInv
<1>11. GotInv'
  BY <1>1, <1>4 DEF ReadInv, GotInv
<1>12. \A g : Closing(g) => g.kind # "SAFE"
  BY DEF Closing
<1>13. \A g : g.kind # "SAFE" => Closing(g)'
  BY DEF Closing
<1>14. SafeInv'
  <2>1. ASSUME NEW i \in 1..Len(wire'.in) PROVE Closing(wire.in[i])'
    <3>1. CASE i = n + 1
      BY <1>1, <1>2, <1>3, <3>1 DEF Closing
    <3>2. CASE i # n + 1
      <4>1. i \in 1..n
        BY <1>3, <2>1, <3>2, ReadQuantities
      <4>2. wire'.in[i].kind # "SAFE"
        BY <1>3, <1>12, <4>1 DEF ReadInv, SafeInv
      <4> QED
        BY <4>2 DEF Closing
    <3> QED
      BY <3>1, <3>2
  <2>2. ASSUME NEW i \in 1..Len(hist'.got) PROVE Closing(hist.got[i])'
    <3>1. hist'.got[i].kind # "SAFE"
      BY <1>1, <1>12 DEF ReadInv, SafeInv
    <3> QED
      BY <3>1 DEF Closing
  <2>3. ASSUME NEW u \in Threads, pc'[u] \in Decoding PROVE Closing(arg[u])'
    <3>1. arg'[u].kind # "SAFE"
      BY <1>1, <1>12, <2>3 DEF ReadInv, SafeInv
    <3> QED
      BY <3>1 DEF Closing
  <2> QED
    BY <2>1, <2>2, <2>3 DEF SafeInv
<1>15. DrainInv'
  BY <1>1, <1>4 DEF ReadInv, DrainInv
<1> QED
  BY <1>10, <1>11, <1>14, <1>15 DEF ReadInv

\* Its frame in clear comes last, behind all that it encrypted.
LEMMA PeerWritesClearRead ==
  ASSUME TypeOK, ReadInv, PeerWritesClear
  PROVE  ReadInv'
<1> DEFINE n == Len(wire.in)
<1>1. PICK kind \in {"DISC", "KEEP"} : wire'.in = Append(wire.in, Frame(kind, 0, Reader))
  BY DEF PeerWritesClear, Arrives, TypeOK
<1>2. /\ UNCHANGED <<chan, io, ctx, pc, arg, calls, life, hist>>
      /\ peer.mode = "safe" /\ peer'.sent = peer.sent /\ peer'.mode = "done"
  BY DEF PeerWritesClear, TypeOK
<1>3. /\ Len(wire'.in) = n + 1 /\ wire'.in[n + 1] = Frame(kind, 0, Reader)
      /\ \A i \in 1..n : wire'.in[i] = wire.in[i]
  BY <1>1, ReadQuantities
<1>4. ~AllRead /\ Ended' = Ended
  BY <1>2 DEF AllRead, Ended
<1>5. \A i \in 1..n : wire.in[i].seq # 0
  BY <1>2 DEF ReadInv, FlowInv
<1>6. Encrypted(wire.in) = n
  <2>1. n = 0 \/ n \in 1..n
    BY ReadQuantities
  <2>2. CASE n = 0
    <3>1. wire.in = << >>
      BY <2>2, EmptyLength, ReadQuantities
    <3> QED
      BY <2>2, <3>1 DEF Encrypted
  <2>3. CASE n \in 1..n
    BY <1>5, <2>3 DEF Encrypted
  <2> QED
    BY <2>1, <2>2, <2>3
<1>7. Encrypted(wire.in)' = n
  <2>1. Len(wire'.in) = n + 1 /\ wire'.in[Len(wire'.in)].seq = 0
    BY <1>3 DEF Frame
  <2>2. wire'.in # << >>
    <3>1. Len(<< >>) = 0 /\ n + 1 # 0
      BY ReadQuantities
    <3> QED
      BY <2>1, <3>1
  <2>3. Encrypted(wire.in)' = (n + 1) - 1
    BY <2>1, <2>2 DEF Encrypted
  <2> QED
    BY <2>3, ReadQuantities
<1>9. Held' = Held
  BY <1>2 DEF Held
<1>10. FlowInv'
  <2>1. peer'.sent = ctx'.received + Held' + Encrypted(wire.in)'
    BY <1>2, <1>6, <1>7, <1>9 DEF ReadInv, FlowInv
  <2>2. ASSUME NEW i \in 1..Len(wire'.in)
        PROVE  IF wire'.in[i].seq = 0 THEN i = Len(wire'.in) /\ peer'.mode = "done"
                                      ELSE wire'.in[i].seq = ctx'.received + Held' + i
    <3>1. CASE i = n + 1
      BY <1>2, <1>3, <3>1 DEF Frame
    <3>2. CASE i # n + 1
      <4>1. i \in 1..n
        BY <1>3, <2>2, <3>2, ReadQuantities
      <4> QED
        BY <1>2, <1>3, <1>5, <1>9, <4>1 DEF ReadInv, FlowInv
    <3> QED
      BY <3>1, <3>2
  <2>3. Held' = 1 => arg'[Reader].seq = ctx'.received + 1
    BY <1>2, <1>9 DEF ReadInv, FlowInv
  <2>4. \A u \in Threads : pc'[u] \in Decoding /\ arg'[u].seq = 0 => AllRead'
    BY <1>2, <1>4 DEF ReadInv, FlowInv
  <2> QED
    BY <2>1, <2>2, <2>3, <2>4 DEF FlowInv
<1>11. GotInv'
  BY <1>2, <1>4 DEF ReadInv, GotInv
<1>12. \A g : Closing(g) => Closing(g)'
  BY <1>2 DEF Closing
<1>14. SafeInv'
  <2>1. ASSUME NEW i \in 1..Len(wire'.in) PROVE Closing(wire.in[i])'
    <3>1. CASE i = n + 1
      BY <1>3, <3>1 DEF Closing, Frame
    <3>2. CASE i # n + 1
      <4>1. i \in 1..n
        BY <1>3, <2>1, <3>2, ReadQuantities
      <4>2. Closing(wire.in[i])
        BY <4>1 DEF ReadInv, SafeInv
      <4> QED
        BY <1>2, <1>3, <4>1, <4>2 DEF Closing
    <3> QED
      BY <3>1, <3>2
  <2>2. \A i \in 1..Len(hist'.got) : Closing(hist.got[i])'
    BY <1>2 DEF ReadInv, SafeInv, Closing
  <2>3. \A u \in Threads : pc'[u] \in Decoding => Closing(arg[u])'
    BY <1>2 DEF ReadInv, SafeInv, Closing
  <2> QED
    BY <2>1, <2>2, <2>3 DEF SafeInv
<1>15. DrainInv'
  BY <1>2, <1>4 DEF ReadInv, DrainInv
<1> QED
  BY <1>10, <1>11, <1>14, <1>15 DEF ReadInv

LEMMA PeerRead ==
  ASSUME TypeOK, ReadInv, PeerData \/ PeerLast \/ PeerSafe \/ PeerLeaves \/ PeerWritesClear
  PROVE  ReadInv'
BY PeerWritesRead, PeerWritesClearRead DEF PeerData, PeerLast, PeerSafe, PeerLeaves

LEMMA IdleRead ==
  ASSUME TypeOK, ReadInv, UNCHANGED <<chan, ctx, wire, peer, pc, arg, life, hist>>
  PROVE  ReadInv'
<1>1. \A u \in Threads :
         pc[u] \in ReadSection => u = Reader \/ (u = Manager /\ life.stage = "drain")
  BY DEF ReadInv, DrainInv
<1>2. /\ life.stage \in {"new", "fresh"} => pc[Reader] = "ok"
      /\ life.stage \in {"plain", "disc", "drain"} => Ended
      /\ ~chan.crypt => life.stage \in {"new", "fresh"} \/ Ended
  BY DEF ReadInv, DrainInv
<1> QED
  BY <1>1, <1>2, ReadStays

LEMMA NextRead == TypeOK /\ ReadInv /\ [Next]_vars => ReadInv'
<1> SUFFICES ASSUME TypeOK, ReadInv, [Next]_vars PROVE ReadInv'
  OBVIOUS
<1>1. CASE \E t \in Threads : Computes(t)
  BY <1>1, WokenRead, LockWriterRead, LockToEncodeRead, EncodeRead, WriteFailsRead,
     LockReaderRead, ReadFailsRead, LockToDecodeRead, DecodeRead,
     CloseReaderRead, CloseWriterRead
     DEF Computes
<1>2. CASE \E t \in Threads : Transfers(t)
  BY <1>2, WriteHeaderRead, WriteBodyRead, TakeFrameRead DEF Transfers
<1>3. CASE \E w \in Writers : WriterCalls(w)
  BY <1>3, WriterCallsRead
<1>4. CASE ReaderCalls
  BY <1>4, ReaderCallsRead
<1>5. CASE Manages
  BY <1>5, PauseNewRead, RegisterRead, ResumeNewRead, WriteLastRead,
     LastWrittenRead, WriteSafeRead, DisableRead, WriteDiscRead, DrainRead,
     ClosePriorRead
     DEF Manages
<1>6. CASE Removes
  BY <1>6, ResumeRemovedRead, WriteDisconnectionRead, CloseRemovedRead DEF Removes
<1>7. CASE PeerData \/ PeerLast \/ PeerSafe \/ PeerLeaves \/ PeerWritesClear
  BY <1>7, PeerRead
<1>8. CASE Break \/ UNCHANGED vars
  BY <1>8, IdleRead DEF Break, vars
<1> QED
  BY <1>1, <1>2, <1>3, <1>4, <1>5, <1>6, <1>7, <1>8 DEF Next

\* Read releases reader_mutex_ before it takes crypto_mutex_ to decode; there is
\* one reader, though, until BwuManager's draining Read, which comes when the
\* peer's last encrypted frame, its SAFE_TO_CLOSE, has been decoded: whatever
\* arrives and however often the channel is read, each encrypted frame is decoded
\* under the number it was encoded with.
THEOREM ReadInOrder == Spec => []DecodedInOrder
<1>1. Init => ReadInv
  BY InitRead
<1>2. TypeOK /\ ReadInv /\ [Next]_vars => ReadInv'
  BY NextRead
<1>3. ReadInv => DecodedInOrder
  BY DEF ReadInv, GotInv, DecodedInOrder
<1> QED
  BY <1>1, <1>2, <1>3, TypeCorrect, PTL DEF Spec

=============================================================================
