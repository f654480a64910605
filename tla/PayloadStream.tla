---------------------------- MODULE PayloadStream ----------------------------
(***************************************************************************)
(* What a connection promises to the two clients, whatever channels it     *)
(* moves over: the payload frames of each device arrive at the other one   *)
(* in the order they were written, none twice; and until something excuses *)
(* it, every frame that was accepted arrives.                              *)
(***************************************************************************)
EXTENDS Naturals, Sequences

CONSTANTS
    Peers,       \* the two devices
    MaxFrames    \* bound: frames each device writes

VARIABLES
    written,   \* written[p]: writes p has made, the last one's number
    accepted,  \* accepted[p]: numbers of the frames the connection took
    pending,   \* pending[p]: numbers of p's frames still under way
    got,       \* got[p]: numbers of p's frames the other device has received
    excused    \* the connection was broken, abandoned, or written to too late

vars == <<written, accepted, pending, got, excused>>

TypeOK ==
    /\ written \in [Peers -> Nat]
    /\ accepted \in [Peers -> SUBSET Nat]
    /\ pending \in [Peers -> SUBSET Nat]
    /\ got \in [Peers -> Seq(Nat)]
    /\ excused \in BOOLEAN

Init ==
    /\ written = [p \in Peers |-> 0]
    /\ accepted = [p \in Peers |-> {}]
    /\ pending = [p \in Peers |-> {}]
    /\ got = [p \in Peers |-> << >>]
    /\ excused = FALSE

Excuse == excused' \in {excused, TRUE}

\* The frame is taken, ...
Write(p) ==
    LET n == written[p] + 1
    IN  /\ n <= MaxFrames[p]
        /\ written' = [written EXCEPT ![p] = n]
        /\ accepted' = [accepted EXCEPT ![p] = @ \cup {n}]
        /\ pending' = [pending EXCEPT ![p] = @ \cup {n}]
        /\ UNCHANGED got
        /\ Excuse

\* ... or the write fails, ...
Refuse(p) ==
    /\ written[p] < MaxFrames[p]
    /\ written' = [written EXCEPT ![p] = @ + 1]
    /\ UNCHANGED <<accepted, pending, got>>
    /\ Excuse

\* ... or it comes too late to be promised anything.
WriteLate(p) ==
    LET n == written[p] + 1
    IN  /\ n <= MaxFrames[p]
        /\ excused'
        /\ written' = [written EXCEPT ![p] = n]
        /\ accepted' \in {accepted, [accepted EXCEPT ![p] = @ \cup {n}]}
        /\ pending' \in {pending, [pending EXCEPT ![p] = @ \cup {n}]}
        /\ UNCHANGED got

Deliver(p) ==
    \E n \in pending[p] :
        /\ \A m \in pending[p] : n <= m
        /\ got' = [got EXCEPT ![p] = Append(@, n)]
        /\ pending' = [pending EXCEPT ![p] = @ \ {n}]
        /\ UNCHANGED <<written, accepted>>
        /\ Excuse

Lose ==
    /\ excused'
    /\ UNCHANGED <<written, accepted, got>>
    /\ pending' \in [Peers -> SUBSET UNION {pending[p] : p \in Peers}]
    /\ \A p \in Peers : pending'[p] \subseteq pending[p]

Next ==
    \/ \E p \in Peers : Write(p) \/ Refuse(p) \/ WriteLate(p) \/ Deliver(p)
    \/ Lose

Spec == Init /\ [][Next]_vars

-----------------------------------------------------------------------------
(* Properties *)

\* Frames are received in the order they were written and none twice, whatever
\* went wrong, and what is still under way comes later.
InOrder ==
    \A p \in Peers :
        /\ \A i, j \in DOMAIN got[p] : i < j => got[p][i] < got[p][j]
        /\ \A i \in DOMAIN got[p] : \A n \in pending[p] : got[p][i] < n

\* Nothing accepted is lost until the connection is excused.
NothingLost ==
    ~excused => \A p \in Peers : \A n \in accepted[p] :
        n \in pending[p] \/ \E i \in DOMAIN got[p] : got[p][i] = n

=============================================================================
