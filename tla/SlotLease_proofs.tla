--------------------------- MODULE SlotLease_proofs ---------------------------
(* What the lease of slots promises, for any threads, hits and slots.       *)
EXTENDS SlotLease, TLAPS

Shape == /\ claimed \in [Threads -> SUBSET Slots]
         /\ owned \in [Hits -> SUBSET Slots]

IInv == Shape /\ Exclusive

LEMMA InitIInv == ASSUME Init PROVE IInv
BY DEF Init, IInv, Shape, Exclusive

\* The claimed slot was nobody's.
LEMMA ClaimIInv ==
  ASSUME IInv, NEW t \in Threads, NEW slot \in Slots, Claim(t, slot) PROVE IInv'
<1>1. /\ \A u \in Threads : slot \notin claimed[u]
      /\ \A h \in Hits : slot \notin owned[h]
  BY DEF Claim, Taken
<1>2. Shape'
  BY DEF IInv, Shape, Claim
<1>3. /\ \A u \in Threads : claimed'[u] = IF u = t THEN claimed[t] \cup {slot}
                                                  ELSE claimed[u]
      /\ owned' = owned
  BY DEF IInv, Shape, Claim
<1>4. Exclusive'
  BY <1>1, <1>3 DEF IInv, Exclusive
<1>5. QED
  BY <1>2, <1>4 DEF IInv

\* The slot was this thread's alone, so it can be the hit's alone, or nobody's.
LEMMA SettleIInv ==
  ASSUME IInv, NEW t \in Threads, NEW slot \in Slots, NEW h,
         Settle(t, slot, h) \/ Release(t, slot)
  PROVE  IInv'
<1>1. Shape'
  BY DEF IInv, Shape, Settle, Release
<1>2. /\ \A u \in Threads : claimed'[u] = IF u = t THEN claimed[t] \ {slot}
                                                  ELSE claimed[u]
      /\ \A g \in Hits : \/ owned'[g] = owned[g]
                         \/ g = h /\ owned'[g] = owned[g] \cup {slot}
      /\ slot \in claimed[t]
  BY DEF IInv, Shape, Settle, Release
<1>3. /\ \A u \in Threads \ {t} : slot \notin claimed[u]
      /\ \A g \in Hits : slot \notin owned[g]
  BY <1>2 DEF IInv, Exclusive
<1>4. \A u \in Threads : slot \notin claimed'[u]
  BY <1>2, <1>3
<1>5. \A t1, u \in Threads : t1 # u => claimed'[t1] \cap claimed'[u] = {}
  BY <1>2 DEF IInv, Exclusive
<1>6. \A g, k \in Hits : g # k => owned'[g] \cap owned'[k] = {}
  BY <1>2, <1>3 DEF IInv, Exclusive
<1>7. \A u \in Threads, g \in Hits : claimed'[u] \cap owned'[g] = {}
  BY <1>2, <1>4 DEF IInv, Exclusive
<1>8. QED
  BY <1>1, <1>5, <1>6, <1>7 DEF IInv, Exclusive

LEMMA DropIInv == ASSUME IInv, (\E gone : Drop(gone)) \/ Revoke PROVE IInv'
<1>1. Shape'
  BY DEF IInv, Shape, Drop, Revoke
<1>2. /\ \A t \in Threads : claimed'[t] \subseteq claimed[t]
      /\ \A h \in Hits : owned'[h] \subseteq owned[h]
  BY DEF IInv, Shape, Drop, Revoke
<1>3. QED
  BY <1>1, <1>2 DEF IInv, Exclusive

\* A slot has one holder at a time: one thread that claims it, or one hit.
THEOREM OneHolder == Spec => []Exclusive
<1>1. Init => IInv
  BY InitIInv
<1>2. IInv /\ [Next]_vars => IInv'
  <2>1. ASSUME IInv, UNCHANGED vars PROVE IInv'
    BY <2>1 DEF vars, IInv, Shape, Exclusive
  <2>2. ASSUME IInv, Next PROVE IInv'
    <3>1. ASSUME NEW t \in Threads, NEW slot \in Slots,
                 Release(t, slot) \/ \E h \in Hits : Settle(t, slot, h)
          PROVE  IInv'
      BY <2>2, <3>1, SettleIInv
    <3>2. QED
      BY <2>2, <3>1, ClaimIInv, DropIInv DEF Next
  <2>3. QED
    BY <2>1, <2>2
<1>3. IInv => Exclusive
  BY DEF IInv
<1>4. QED
  BY <1>1, <1>2, <1>3, PTL DEF Spec
===============================================================================
