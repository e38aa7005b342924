------------------------------- MODULE SlotLease -------------------------------
(***************************************************************************)
(* What the choice of pause targets promises about slots (a line of a code *)
(* object): a slot is free, claimed by the one thread that arms a hit      *)
(* there, or owned by one hit; it becomes a hit's only by way of a thread  *)
(* that claimed it while it was free.  The promise may be revoked, once    *)
(* and for all.  HitPipeline implements this.                              *)
(***************************************************************************)
CONSTANTS Threads, Hits, Slots

VARIABLES
  claimed,   \* the slots each thread has claimed
  owned,     \* the slots each hit owns
  revoked    \* the promise no longer holds

vars == <<claimed, owned, revoked>>

Taken == (UNION {claimed[t] : t \in Threads}) \cup (UNION {owned[h] : h \in Hits})

Init ==
  /\ claimed = [t \in Threads |-> {}]
  /\ owned = [h \in Hits |-> {}]
  /\ revoked = FALSE

Claim(t, slot) ==
  /\ ~ revoked
  /\ slot \notin Taken
  /\ claimed' = [claimed EXCEPT ![t] = @ \cup {slot}]
  /\ UNCHANGED <<owned, revoked>>

\* The thread installs its hit there.
Settle(t, slot, h) ==
  /\ slot \in claimed[t]
  /\ claimed' = [claimed EXCEPT ![t] = @ \ {slot}]
  /\ owned' = [owned EXCEPT ![h] = @ \cup {slot}]
  /\ UNCHANGED revoked

\* ... or gives the slot back.
Release(t, slot) ==
  /\ slot \in claimed[t]
  /\ claimed' = [claimed EXCEPT ![t] = @ \ {slot}]
  /\ UNCHANGED <<owned, revoked>>

\* Hits leave the queue.
Drop(gone) ==
  /\ owned' = [h \in Hits |-> IF h \in gone THEN {} ELSE owned[h]]
  /\ UNCHANGED <<claimed, revoked>>

Revoke ==
  /\ revoked' = TRUE
  /\ claimed' = [t \in Threads |-> {}]
  /\ owned' = [h \in Hits |-> {}]

Next ==
  \/ \E t \in Threads, slot \in Slots :
       \/ Claim(t, slot)
       \/ Release(t, slot)
       \/ \E h \in Hits : Settle(t, slot, h)
  \/ \E gone \in SUBSET Hits : Drop(gone)
  \/ Revoke

Spec == Init /\ [][Next]_vars

\* Nobody shares a slot.
Exclusive ==
  /\ \A t, u \in Threads : t # u => claimed[t] \cap claimed[u] = {}
  /\ \A g, h \in Hits : g # h => owned[g] \cap owned[h] = {}
  /\ \A t \in Threads, h \in Hits : claimed[t] \cap owned[h] = {}
================================================================================
