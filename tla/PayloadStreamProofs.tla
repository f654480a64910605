------------------------- MODULE PayloadStreamProofs -------------------------
(* What every implementation of PayloadStream inherits from it. *)
EXTENDS PayloadStream, TLAPS

\* Numbers not written yet are neither under way nor received.
Numbered ==
    \A p \in Peers :
        /\ \A n \in pending[p] : n <= written[p]
        /\ \A i \in DOMAIN got[p] : got[p][i] <= written[p]

Inv == TypeOK /\ Numbered /\ InOrder /\ NothingLost

\* TypeOK, one device at a time.
LEMMA StreamTyped ==
  ASSUME TypeOK, NEW p \in Peers
  PROVE  /\ written[p] \in Nat
         /\ accepted[p] \subseteq Nat
         /\ pending[p] \subseteq Nat
         /\ got[p] \in Seq(Nat)
BY DEF TypeOK

\* Nothing of a device changes but a number it has just written.
LEMMA WritingInv ==
  ASSUME Inv, NEW p \in Peers,
         written' = [written EXCEPT ![p] = @ + 1], UNCHANGED got,
         accepted' \in {accepted, [accepted EXCEPT ![p] = @ \cup {written[p] + 1}]},
         pending' \in {pending, [pending EXCEPT ![p] = @ \cup {written[p] + 1}]},
         excused' \in {excused, TRUE},
         excused' \/ accepted' = accepted \/ written[p] + 1 \in pending'[p]
  PROVE  Inv'
<1>1. TypeOK
  BY DEF Inv
<1>2. TypeOK'
  <2>1. written[p] + 1 \in Nat
    BY <1>1, StreamTyped
  <2>2. excused' \in BOOLEAN
    BY <1>1 DEF TypeOK
  <2>3. written' \in [Peers -> Nat] /\ got' \in [Peers -> Seq(Nat)]
    BY <1>1, <2>1 DEF TypeOK
  <2>4. accepted' \in [Peers -> SUBSET Nat]
    <3>1. accepted \in [Peers -> SUBSET Nat] /\ accepted[p] \cup {written[p] + 1} \in SUBSET Nat
      BY <1>1, <2>1 DEF TypeOK
    <3>2. [accepted EXCEPT ![p] = @ \cup {written[p] + 1}] \in [Peers -> SUBSET Nat]
      BY <3>1
    <3> QED
      BY <3>1, <3>2
  <2>5. pending' \in [Peers -> SUBSET Nat]
    <3>1. pending \in [Peers -> SUBSET Nat] /\ pending[p] \cup {written[p] + 1} \in SUBSET Nat
      BY <1>1, <2>1 DEF TypeOK
    <3>2. [pending EXCEPT ![p] = @ \cup {written[p] + 1}] \in [Peers -> SUBSET Nat]
      BY <3>1
    <3> QED
      BY <3>1, <3>2
  <2> QED
    BY <2>2, <2>3, <2>4, <2>5 DEF TypeOK
<1>3. \A r \in Peers : /\ pending[r] \subseteq pending'[r]
                       /\ pending'[r] \subseteq pending[r] \cup {written[p] + 1}
                       /\ r # p => pending'[r] = pending[r]
                       /\ r # p => accepted'[r] = accepted[r]
                       /\ accepted'[r] \subseteq accepted[r] \cup {written[p] + 1}
                       /\ written'[r] = IF r = p THEN written[r] + 1 ELSE written[r]
  BY <1>1 DEF TypeOK
<1>4. Numbered'
  <2> SUFFICES ASSUME NEW r \in Peers
               PROVE  /\ \A n \in pending'[r] : n <= written'[r]
                      /\ \A i \in DOMAIN got[r] : got[r][i] <= written'[r]
    BY DEF Numbered
  <2>1. /\ \A n \in pending[r] : n <= written[r]
        /\ \A i \in DOMAIN got[r] : got[r][i] <= written[r] /\ got[r][i] \in Nat
        /\ pending[r] \subseteq Nat /\ written[r] \in Nat
    BY <1>1, StreamTyped DEF Inv, Numbered
  <2> QED
    BY <1>3, <2>1
<1>5. InOrder'
  <2> SUFFICES ASSUME NEW r \in Peers, NEW i \in DOMAIN got[r], NEW n \in pending'[r]
               PROVE  got[r][i] < n
    BY DEF Inv, InOrder
  <2>1. CASE n \in pending[r]
    BY <2>1 DEF Inv, InOrder
  <2>2. CASE n \notin pending[r]
    <3>1. n = written[r] + 1
      BY <1>3, <2>2
    <3>2. got[r][i] <= written[r] /\ got[r][i] \in Nat /\ written[r] \in Nat
      BY <1>1, StreamTyped DEF Inv, Numbered
    <3> QED
      BY <3>1, <3>2
  <2> QED
    BY <2>1, <2>2
<1>6. NothingLost'
  <2> SUFFICES ASSUME ~excused', NEW r \in Peers, NEW n \in accepted'[r]
               PROVE  n \in pending'[r] \/ \E i \in DOMAIN got[r] : got[r][i] = n
    BY DEF NothingLost
  <2>1. ~excused
    BY <1>1 DEF TypeOK
  <2>2. CASE n \in accepted[r]
    BY <1>3, <2>1, <2>2 DEF Inv, NothingLost
  <2>3. CASE n \notin accepted[r]
    BY <1>3, <2>3
  <2> QED
    BY <2>2, <2>3
<1> QED
  BY <1>2, <1>4, <1>5, <1>6 DEF Inv

LEMMA DeliverInv ==
  ASSUME Inv, NEW p \in Peers, Deliver(p)
  PROVE  Inv'
<1>1. TypeOK
  BY DEF Inv
<1>2. PICK n \in pending[p] :
        /\ \A m \in pending[p] : n <= m
        /\ got' = [got EXCEPT ![p] = Append(@, n)]
        /\ pending' = [pending EXCEPT ![p] = @ \ {n}]
  BY DEF Deliver
<1>3. UNCHANGED <<written, accepted>> /\ excused' \in {excused, TRUE}
  BY DEF Deliver, Excuse
<1>4. n \in Nat /\ got[p] \in Seq(Nat) /\ n <= written[p] /\ pending[p] \subseteq Nat
  BY <1>1, StreamTyped DEF Inv, Numbered
<1>5. TypeOK'
  <2>1. Append(got[p], n) \in Seq(Nat)
    BY <1>4
  <2> QED
    BY <1>1, <1>2, <1>3, <2>1 DEF TypeOK
<1>6. /\ got'[p] = Append(got[p], n) /\ pending'[p] = pending[p] \ {n}
      /\ \A r \in Peers \ {p} : got'[r] = got[r] /\ pending'[r] = pending[r]
  BY <1>1, <1>2 DEF TypeOK
<1>7. /\ DOMAIN got'[p] = 1..(Len(got[p]) + 1)
      /\ got'[p][Len(got[p]) + 1] = n
      /\ \A i \in DOMAIN got[p] : i \in 1..Len(got[p]) /\ got'[p][i] = got[p][i]
      /\ DOMAIN got[p] = 1..Len(got[p]) /\ Len(got[p]) \in Nat
  BY <1>4, <1>6
<1>8. \A i \in DOMAIN got[p] : got[p][i] < n /\ got[p][i] \in Nat
  BY <1>4 DEF Inv, InOrder
<1>9. Numbered'
  <2>1. \A i \in DOMAIN got'[p] : got'[p][i] <= written[p]
    BY <1>4, <1>7 DEF Inv, Numbered
  <2> QED
    BY <1>3, <1>6, <2>1 DEF Inv, Numbered
<1>10. InOrder'
  <2>1. \A i, j \in DOMAIN got'[p] : i < j => got'[p][i] < got'[p][j]
    <3> SUFFICES ASSUME NEW i \in DOMAIN got'[p], NEW j \in DOMAIN got'[p], i < j
                 PROVE  got'[p][i] < got'[p][j]
      OBVIOUS
    <3>1. i \in DOMAIN got[p] /\ (j \in DOMAIN got[p] \/ j = Len(got[p]) + 1)
      BY <1>7
    <3> QED
      BY <1>7, <1>8, <3>1 DEF Inv, InOrder
  <2>2. \A i \in DOMAIN got'[p] : \A m \in pending'[p] : got'[p][i] < m
    <3> SUFFICES ASSUME NEW i \in DOMAIN got'[p], NEW m \in pending'[p]
                 PROVE  got'[p][i] < m
      OBVIOUS
    <3>1. m \in pending[p] /\ m # n /\ n <= m /\ m \in Nat
      BY <1>2, <1>4, <1>6
    <3> QED
      BY <1>4, <1>7, <1>8, <3>1
  <2> QED
    BY <1>6, <2>1, <2>2 DEF Inv, InOrder
<1>11. NothingLost'
  <2> SUFFICES ASSUME ~excused', NEW r \in Peers, NEW m \in accepted[r]
               PROVE  m \in pending'[r] \/ \E i \in DOMAIN got'[r] : got'[r][i] = m
    BY <1>3 DEF NothingLost
  <2>1. ~excused
    BY <1>1, <1>3 DEF TypeOK
  <2>2. m \in pending[r] \/ \E i \in DOMAIN got[r] : got[r][i] = m
    BY <2>1 DEF Inv, NothingLost
  <2>3. CASE r # p
    BY <1>6, <2>2, <2>3
  <2>4. CASE r = p
    <3>1. CASE m = n
      <4>1. Len(got[p]) + 1 \in DOMAIN got'[p]
        BY <1>7
      <4> QED
        BY <1>7, <2>4, <3>1, <4>1
    <3>2. CASE m \in pending[p] /\ m # n
      BY <1>6, <2>4, <3>2
    <3>3. CASE \E i \in DOMAIN got[p] : got[p][i] = m
      <4>1. PICK i \in DOMAIN got[p] : got[p][i] = m
        BY <3>3
      <4>2. i \in DOMAIN got'[p]
        BY <1>7
      <4> QED
        BY <1>7, <2>4, <4>1, <4>2
    <3> QED
      BY <2>2, <2>4, <3>1, <3>2, <3>3
  <2> QED
    BY <2>3, <2>4
<1> QED
  BY <1>5, <1>9, <1>10, <1>11 DEF Inv

LEMMA LoseInv ==
  ASSUME Inv, Lose
  PROVE  Inv'
<1>1. TypeOK /\ UNCHANGED <<written, accepted, got>> /\ excused'
      /\ \A p \in Peers : pending'[p] \subseteq pending[p]
  BY DEF Inv, Lose
<1>2. TypeOK'
  <2>1. UNION {pending[p] : p \in Peers} \subseteq Nat
    BY <1>1, StreamTyped
  <2>2. pending' \in [Peers -> SUBSET Nat]
    BY <2>1 DEF Lose
  <2> QED
    BY <1>1, <2>2 DEF TypeOK, Lose
<1>3. Numbered' /\ InOrder'
  BY <1>1 DEF Inv, Numbered, InOrder
<1>4. NothingLost'
  BY <1>1 DEF NothingLost
<1> QED
  BY <1>2, <1>3, <1>4 DEF Inv

LEMMA NextInv == Inv /\ [Next]_vars => Inv'
<1> SUFFICES ASSUME Inv, [Next]_vars
             PROVE  Inv'
  OBVIOUS
<1>1. ASSUME NEW p \in Peers, Write(p) \/ Refuse(p) \/ WriteLate(p)
      PROVE  Inv'
  <2>1. TypeOK /\ p \in DOMAIN pending
    BY DEF Inv, TypeOK
  <2> QED
    BY <1>1, <2>1, WritingInv DEF Write, Refuse, WriteLate, Excuse
<1>2. CASE UNCHANGED vars
  BY <1>2 DEF vars, Inv, TypeOK, Numbered, InOrder, NothingLost
<1> QED
  BY <1>1, <1>2, DeliverInv, LoseInv DEF Next

LEMMA InitInv == Init => Inv
<1> SUFFICES ASSUME Init
             PROVE  Inv
  OBVIOUS
<1>1. TypeOK
  <2>1. << >> \in Seq(Nat) /\ {} \in SUBSET Nat
    OBVIOUS
  <2> QED
    BY <2>1 DEF Init, TypeOK
<1>2. \A p \in Peers : pending[p] = {} /\ got[p] = << >> /\ accepted[p] = {}
  BY DEF Init
<1> QED
  BY <1>1, <1>2 DEF Inv, Numbered, InOrder, NothingLost

\* Payload frames arrive in the order they were written and none twice, whatever
\* happens to the channels.
THEOREM ArriveInOrder == Spec => []InOrder
<1>1. Inv => InOrder
  BY DEF Inv
<1> QED
  BY <1>1, InitInv, NextInv, PTL DEF Spec

\* Every frame the connection accepted is received or still under way, until
\* something excuses its loss.
THEOREM NoneLost == Spec => []NothingLost
<1>1. Inv => NothingLost
  BY DEF Inv
<1> QED
  BY <1>1, InitInv, NextInv, PTL DEF Spec

=============================================================================
