--------------------------- MODULE IdeSession_proofs ---------------------------
(* Theorems about IdeSession, for any number of sessions.                   *)
EXTENDS IdeSession, FiniteSetTheorems, SequenceTheorems, TLAPS

Hooked == {"live", "halted", "told"}
Phases == {"new", "plain", "starting", "unhooked", "done"} \cup Hooked

\* What is known of a hit breakpoint: the listener finds it, or something has taken
\* its entry; an entry has its breakpoint, or a sweep took it; and a second one is
\* there because a sweep missed it.  Entries are of sessions whose stop has not been
\* handled.
IInv ==
  /\ phase \in [Sessions -> Phases]
  /\ \A s \in entry : s \in Sessions /\ phase[s] \in Hooked
  /\ bps \subseteq Sessions \cup Persisted
  /\ \A s \in bps : s \in Sessions => s \in entry \cup purged \cup stranded
  /\ \A s \in entry : s \in bps \cup taken
  /\ \A r, s \in bps : r # s => \/ r \in Persisted /\ s \in Persisted
                               \/ r \in blind \/ s \in blind

LEMMA InitIInv == ASSUME Init PROVE IInv
<1>1. phase = [s \in Sessions |-> "new"] /\ entry = {} /\ bps = Persisted
  BY DEF Init
<1>2. \A s \in bps : s \notin Sessions
  BY <1>1, PersistedAssumption
<1>3. phase \in [Sessions -> Phases]
  BY <1>1 DEF Phases
<1>4. QED
  BY <1>1, <1>2, <1>3 DEF IInv

LEMMA StartIInv == ASSUME IInv, NEW s \in Sessions, Start(s) PROVE IInv'
<1>1. /\ phase' = [phase EXCEPT ![s] = "starting"] \/ phase' = [phase EXCEPT ![s] = "plain"]
      /\ phase[s] = "new" /\ UNCHANGED <<bps, blind, taken, stranded>>
  BY DEF Start
<1>2. PICK dead \in SUBSET Sessions : entry' = entry \ dead /\ purged' = purged \cup dead
  BY DEF Start, Purge
<1>3. phase' \in [Sessions -> Phases] /\ \A r \in Sessions \ {s} : phase'[r] = phase[r]
  BY <1>1 DEF IInv, Phases
<1>4. \A r \in entry' : r \in Sessions /\ phase'[r] \in Hooked
  BY <1>1, <1>2, <1>3 DEF IInv, Hooked
<1>5. QED
  BY <1>1, <1>2, <1>3, <1>4 DEF IInv

LEMMA AddIInv == ASSUME IInv, NEW s \in Sessions, AddBreakpoint(s) PROVE IInv'
<1>1. phase' = [phase EXCEPT ![s] = "live"] /\ UNCHANGED <<purged, stranded>>
  BY DEF AddBreakpoint
<1>2. phase' \in [Sessions -> Phases] /\ phase'[s] = "live"
      /\ \A r \in Sessions \ {s} : phase'[r] = phase[r]
  BY <1>1 DEF IInv, Phases, Hooked
<1>3. PICK kept \in SUBSET bps : Added(s, kept) \/ NotAdded(kept)
  BY DEF AddBreakpoint
<1>4. taken' = taken \cup (bps \ kept) /\ blind \subseteq blind'
  BY <1>3 DEF Added, NotAdded
<1>5. CASE Added(s, kept)
  <2>1. /\ bps' = kept \cup {s} /\ entry' = entry \cup {s}
        /\ kept # {} => s \in blind'
    BY <1>5 DEF Added, Swept
  <2>2. \A r \in entry' : r \in Sessions /\ phase'[r] \in Hooked
    BY <1>2, <2>1 DEF IInv, Hooked
  <2>3. \A q, r \in bps' : q # r => \/ q \in Persisted /\ r \in Persisted
                                  \/ q \in blind' \/ r \in blind'
    BY <1>4, <2>1 DEF IInv
  <2>4. QED
    BY <1>1, <1>2, <1>4, <2>1, <2>2, <2>3 DEF IInv
<1>6. CASE NotAdded(kept)
  <2>1. bps' = kept /\ entry' = entry /\ blind' = blind
    BY <1>6 DEF NotAdded
  <2>2. \A r \in entry' : r \in Sessions /\ phase'[r] \in Hooked
    BY <1>2, <2>1 DEF IInv, Hooked
  <2>3. QED
    BY <1>1, <1>2, <1>4, <2>1, <2>2 DEF IInv
<1>7. QED
  BY <1>3, <1>5, <1>6

LEMMA UnhookIInv == ASSUME IInv, NEW s \in Sessions, Unhook(s) PROVE IInv'
<1>1. /\ phase' = [phase EXCEPT ![s] = "unhooked"]
      /\ UNCHANGED <<purged, blind, taken>> /\ entry' = entry \ {s}
      /\ \/ bps' = bps \ {s} /\ stranded' = stranded
         \/ bps' = bps /\ stranded' = stranded \cup {s}
         \/ bps' = bps /\ stranded' = stranded /\ s \notin entry
  BY DEF Unhook, Forgotten, Without
<1>2. phase' \in [Sessions -> Phases] /\ \A r \in entry' : r \in Sessions /\ phase'[r] \in Hooked
  BY <1>1 DEF IInv, Phases, Hooked
<1>3. QED
  BY <1>1, <1>2 DEF IInv

\* The other steps of a session's life.
LEMMA PhaseIInv ==
  ASSUME IInv, NEW s \in Sessions, Halt(s) \/ SessionStopped(s) \/ Dispose(s)
  PROVE  IInv'
<1>1. /\ UNCHANGED <<bps, entry, fates>>
      /\ \/ phase' = [phase EXCEPT ![s] = "halted"]
         \/ phase' = [phase EXCEPT ![s] = "told"]
         \/ phase' = [phase EXCEPT ![s] = "done"] /\ phase[s] = "unhooked"
  BY DEF Halt, SessionStopped, Dispose, hooks
<1>2. phase' \in [Sessions -> Phases] /\ \A r \in entry' : r \in Sessions /\ phase'[r] \in Hooked
  BY <1>1 DEF IInv, Phases, Hooked
<1>3. QED
  BY <1>1, <1>2 DEF IInv, fates

LEMMA QuietIInv == ASSUME IInv, UNCHANGED <<phase, bps, entry, fates>> PROVE IInv'
BY DEF IInv, fates

LEMMA NextIInv == ASSUME IInv, [Next]_vars PROVE IInv'
<1>1. CASE UNCHANGED vars \/ Click \/ Dialog
  BY <1>1, QuietIInv DEF vars, hooks, Click, Dialog
<1>2. ASSUME NEW s \in Sessions,
             \/ Start(s) \/ AddBreakpoint(s) \/ Halt(s) \/ SessionStopped(s)
             \/ Unhook(s) \/ Dispose(s)
      PROVE  IInv'
  BY <1>2, StartIInv, AddIInv, UnhookIInv, PhaseIInv
<1>3. ASSUME NEW s \in Sessions,
             Pause(s) \/ Resume(s) \/ \E n \in Names : Toggle(s, n)
      PROVE  IInv'
  BY <1>3, QuietIInv DEF Pause, Resume, Toggle, hooks
<1>4. ASSUME NEW k \in pool,
             \/ Ask(k) \/ NoAnswer(k) \/ Drained(k) \/ Located(k)
             \/ Replace(k) \/ AddAll(k) \/ Toggled(k)
      PROVE  IInv'
  BY <1>4, QuietIInv DEF Ask, NoAnswer, Drained, Located, Replace, AddAll, Toggled, hooks
<1>5. ASSUME NEW i \in DOMAIN edt, EdtStep(i) PROVE IInv'
  BY <1>5, QuietIInv DEF EdtStep, PaintCheck, PaintOne, RunClear, RunMark, hooks
<1>6. QED
  BY <1>1, <1>2, <1>3, <1>4, <1>5 DEF Next

\* No hit breakpoint lingers: one whose session's stop has been handled is there only
\* because its entry was purged or its removal failed, and a second one only because
\* the sweep of one of the two sessions missed a breakpoint (processStarted,
\* processStopped, addWatchpointHitBreakpoint, removeWatchpointHitBreakpoint).
THEOREM BreakpointsEnd == FairSpec => []BreakpointEnds
<1>1. IInv => BreakpointEnds
  BY DEF IInv, BreakpointEnds, Hooked
<1>2. QED
  BY <1>1, InitIInv, NextIInv, PTL DEF FairSpec

\* A session keeps the breakpoint that was added for it until its own stop, unless
\* the sweep of a session that started later took it (the same four functions).
THEOREM BreakpointsStay == FairSpec => []BreakpointStays
<1>1. IInv => BreakpointStays
  BY DEF IInv, BreakpointStays
<1>2. QED
  BY <1>1, InitIInv, NextIInv, PTL DEF FairSpec

-----------------------------------------------------------------------------
(* Type correctness: the stages of sessions, and the shapes of tasks.       *)

\* A paused session is live; a registered highlighter listens, and not after the
\* stop of its session was handled; a disposed one listens no more.
LifeInv ==
  /\ \A s \in paused : s \in Sessions /\ phase[s] = "live"
  /\ \A s \in registered : /\ s \in Sessions /\ s \in listening
                           /\ phase[s] \in Hooked \cup {"unhooked"}
  /\ listening \subseteq Sessions
  /\ \A s \in disposed : s \in Sessions /\ phase[s] = "done" /\ s \notin listening

LEMMA StartLife == ASSUME IInv, LifeInv, NEW s \in Sessions, Start(s) PROVE LifeInv'
<1>1. /\ phase' = [phase EXCEPT ![s] = "starting"] \/ phase' = [phase EXCEPT ![s] = "plain"]
      /\ phase[s] = "new" /\ registered' \subseteq registered
      /\ UNCHANGED <<paused, listening, disposed>>
  BY DEF Start, Purge
<1>2. \A r \in Sessions \ {s} : phase'[r] = phase[r]
  BY <1>1 DEF IInv
<1>3. QED
  BY <1>1, <1>2 DEF LifeInv, Hooked

LEMMA AddLife == ASSUME IInv, LifeInv, NEW s \in Sessions, AddBreakpoint(s) PROVE LifeInv'
<1>1. /\ phase' = [phase EXCEPT ![s] = "live"] /\ phase[s] = "starting"
      /\ \/ registered' = registered \cup {s} /\ listening' = listening \cup {s}
         \/ registered' = registered /\ listening' = listening
      /\ UNCHANGED <<paused, disposed>>
  BY DEF AddBreakpoint, Attached
<1>2. phase'[s] = "live" /\ \A r \in Sessions \ {s} : phase'[r] = phase[r]
  BY <1>1 DEF IInv
<1>3. QED
  BY <1>1, <1>2 DEF LifeInv, Hooked

LEMMA StopLife ==
  ASSUME IInv, LifeInv, NEW s \in Sessions, Halt(s) \/ SessionStopped(s) \/ Unhook(s)
  PROVE  LifeInv'
<1>1. /\ UNCHANGED <<registered, listening, disposed>>
      /\ \/ /\ phase' = [phase EXCEPT ![s] = "halted"] /\ phase[s] = "live"
            /\ paused' = paused \ {s}
         \/ /\ phase' = [phase EXCEPT ![s] = "told"] /\ phase[s] = "halted"
            /\ paused' = paused
         \/ /\ phase' = [phase EXCEPT ![s] = "unhooked"] /\ phase[s] \in {"halted", "told"}
            /\ paused' = paused
  BY DEF Halt, SessionStopped, Unhook, hooks
<1>2. /\ phase'[s] \in {"halted", "told", "unhooked"}
      /\ \A r \in Sessions \ {s} : phase'[r] = phase[r]
  BY <1>1 DEF IInv
<1>3. QED
  BY <1>1, <1>2 DEF LifeInv, Hooked

LEMMA DisposeLife == ASSUME IInv, LifeInv, NEW s \in Sessions, Dispose(s) PROVE LifeInv'
<1>1. /\ phase' = [phase EXCEPT ![s] = "done"] /\ phase[s] = "unhooked"
      /\ registered' = registered \ {s} /\ paused' = paused
      /\ \/ disposed' = disposed \cup {s} /\ listening' = listening \ {s}
         \/ disposed' = disposed /\ listening' = listening
  BY DEF Dispose
<1>2. phase'[s] = "done" /\ \A r \in Sessions \ {s} : phase'[r] = phase[r]
  BY <1>1 DEF IInv
<1>3. QED
  BY <1>1, <1>2 DEF LifeInv, Hooked

\* A step that pauses a live session, resumes one, or does neither.
LEMMA QuietLife ==
  ASSUME LifeInv, UNCHANGED <<phase, registered, listening, disposed>>,
         \/ paused' \subseteq paused
         \/ \E s \in Sessions : phase[s] = "live" /\ paused' = paused \cup {s}
  PROVE  LifeInv'
BY DEF LifeInv

LEMMA NextLife == ASSUME IInv, LifeInv, [Next]_vars PROVE LifeInv'
<1>1. CASE UNCHANGED vars \/ Click \/ Dialog
  BY <1>1, QuietLife DEF vars, hooks, Click, Dialog
<1>2. ASSUME NEW s \in Sessions,
             \/ Start(s) \/ AddBreakpoint(s) \/ Halt(s) \/ SessionStopped(s)
             \/ Unhook(s) \/ Dispose(s)
      PROVE  LifeInv'
  BY <1>2, StartLife, AddLife, StopLife, DisposeLife
<1>3. ASSUME NEW s \in Sessions, Pause(s) \/ Resume(s) PROVE LifeInv'
  BY <1>3, QuietLife DEF Pause, Resume, hooks
<1>4. ASSUME NEW s \in Sessions, NEW n \in Names, Toggle(s, n) PROVE LifeInv'
  BY <1>4, QuietLife DEF Toggle, hooks
<1>5. ASSUME NEW k \in pool,
             \/ Ask(k) \/ NoAnswer(k) \/ Drained(k) \/ Located(k)
             \/ Replace(k) \/ AddAll(k) \/ Toggled(k)
      PROVE  LifeInv'
  BY <1>5, QuietLife DEF Ask, NoAnswer, Drained, Located, Replace, AddAll, Toggled, hooks
<1>6. ASSUME NEW i \in DOMAIN edt, EdtStep(i) PROVE LifeInv'
  BY <1>6, QuietLife DEF EdtStep, PaintCheck, PaintOne, RunClear, RunMark, hooks
<1>7. QED
  BY <1>1, <1>2, <1>3, <1>4, <1>5, <1>6 DEF Next

-----------------------------------------------------------------------------
(* The shapes of the data.                                                 *)

PoolTask == [kind : {"sync", "drain", "watch", "unwatch"}, s : Sessions, n : Nat,
             at : {"ready", "asked", "read", "cleared"}, name : SUBSET Names,
             got : SUBSET Keys]

\* An answer is about its own session, only watch and unwatch skip the look at
\* the session, and only a frame sync reads on.
TaskOK(k) ==
  /\ k \in PoolTask
  /\ k.got \subseteq Names \X {k.s}
  /\ k.at = "ready" => k.kind \in {"sync", "drain"}
  /\ k.at \in {"read", "cleared"} => k.kind = "sync"

AnyJob == [kind : {"paint", "clear", "final", "mark", "unmark"}, s : Sessions,
           what : SUBSET (Hits \cup Names), at : {"queued", "checked"}]

Job == {j \in AnyJob : /\ j.kind = "paint" => j.what \subseteq Hits
                       /\ j.kind \in {"mark", "unmark"} => j.what \subseteq Names
                       /\ j.at = "checked" => j.kind = "paint"}

\* Only the first task of the event thread can be under way.
Queue(q) == q \in Seq(Job) /\ \A i \in DOMAIN q : q[i].at = "checked" => i = 1

LEMMA JobShape ==
  ASSUME NEW j \in Job
  PROVE  /\ j.s \in Sessions
         /\ j.kind = "paint" => j.what \in SUBSET Hits
         /\ j.kind \in {"mark", "unmark"} => j.what \in SUBSET Names
         /\ j.at \in {"queued", "checked"}
         /\ j.at = "checked" => j.kind = "paint"
BY DEF Job, AnyJob

LEMMA PostedJob ==
  ASSUME NEW s \in Sessions, NEW kind, NEW what,
         \/ kind \in {"clear", "final"} /\ what = {}
         \/ kind = "paint" /\ what \subseteq Hits
         \/ kind \in {"mark", "unmark"} /\ what \subseteq Names
  PROVE  /\ Posted(kind, s, what) \in Job
         /\ Posted(kind, s, what).at = "queued"
         /\ Posted(kind, s, what).kind = kind
         /\ Posted(kind, s, what).s = s
<1>1. Posted(kind, s, what) \in AnyJob
  BY DEF Posted, AnyJob
<1>2. QED
  BY <1>1 DEF Posted, Job

LEMMA AppendQueue ==
  ASSUME NEW q, Queue(q), NEW j \in Job, j.at = "queued"
  PROVE  /\ Queue(Append(q, j))
         /\ Len(Append(q, j)) = Len(q) + 1
         /\ \A i \in 1 .. Len(q) : Append(q, j)[i] = q[i]
         /\ Append(q, j)[Len(q) + 1] = j
<1>1. q \in Seq(Job)
  BY DEF Queue
<1>2. Len(q) \in Nat /\ DOMAIN q = 1 .. Len(q)
  BY <1>1, LenProperties
<1>3. /\ Append(q, j) \in Seq(Job)
      /\ Len(Append(q, j)) = Len(q) + 1
      /\ \A i \in 1 .. Len(q) : Append(q, j)[i] = q[i]
      /\ Append(q, j)[Len(q) + 1] = j
  BY <1>1, AppendProperties
<1>4. DOMAIN Append(q, j) = 1 .. Len(q) + 1
  BY <1>3, LenProperties
<1>5. ASSUME NEW i \in DOMAIN Append(q, j), Append(q, j)[i].at = "checked" PROVE i = 1
  <2>1. i # Len(q) + 1
    BY <1>3, <1>5
  <2>2. i \in 1 .. Len(q)
    BY <2>1, <1>4, <1>2
  <2>3. q[i].at = "checked"
    BY <2>2, <1>3, <1>5
  <2>4. QED
    BY <2>2, <2>3, <1>2 DEF Queue
<1>6. QED
  BY <1>3, <1>5 DEF Queue

LEMMA GoneQueue ==
  ASSUME NEW q, Queue(q), NEW i \in DOMAIN q
  PROVE  /\ Queue(RemoveAt(q, i))
         /\ DOMAIN RemoveAt(q, i) = 1 .. Len(q) - 1
         /\ \A n \in 1 .. Len(q) - 1 :
              RemoveAt(q, i)[n] = IF n < i THEN q[n] ELSE q[n + 1]
<1> DEFINE a == SubSeq(q, 1, i - 1)
           b == SubSeq(q, i + 1, Len(q))
<1>1. q \in Seq(Job)
  BY DEF Queue
<1>2. Len(q) \in Nat /\ DOMAIN q = 1 .. Len(q) /\ i \in 1 .. Len(q)
  BY <1>1, LenProperties
<1>3. \A n \in 1 .. Len(q) : q[n] \in Job
  BY <1>1, ElementOfSeq
<1>4. /\ a \in Seq(Job) /\ Len(a) = i - 1
      /\ \A n \in 1 .. i - 1 : a[n] = q[n]
  <2>1. 1 \in Int /\ i - 1 \in Int /\ \A n \in 1 .. i - 1 : q[n] \in Job
    BY <1>2, <1>3
  <2>2. /\ a \in Seq(Job)
        /\ Len(a) = IF 1 <= i - 1 THEN i - 1 - 1 + 1 ELSE 0
        /\ \A n \in 1 .. i - 1 - 1 + 1 : a[n] = q[1 + n - 1]
    BY <2>1, SubSeqProperties
  <2>3. QED
    BY <2>2, <1>2
<1>5. /\ b \in Seq(Job) /\ Len(b) = Len(q) - i
      /\ \A n \in 1 .. Len(q) - i : b[n] = q[i + n]
  <2>1. i + 1 \in Int /\ Len(q) \in Int /\ \A n \in i + 1 .. Len(q) : q[n] \in Job
    BY <1>2, <1>3
  <2>2. /\ b \in Seq(Job)
        /\ Len(b) = IF i + 1 <= Len(q) THEN Len(q) - (i + 1) + 1 ELSE 0
        /\ \A n \in 1 .. Len(q) - (i + 1) + 1 : b[n] = q[i + 1 + n - 1]
    BY <2>1, SubSeqProperties
  <2>3. QED
    BY <2>2, <1>2
<1>6. RemoveAt(q, i) = a \o b
  BY DEF RemoveAt
<1> HIDE DEF a, b
<1>7. /\ RemoveAt(q, i) \in Seq(Job) /\ Len(RemoveAt(q, i)) = Len(a) + Len(b)
      /\ \A n \in 1 .. Len(a) + Len(b) :
           RemoveAt(q, i)[n] = IF n <= Len(a) THEN a[n] ELSE b[n - Len(a)]
  <2>1. a \in Seq(Job) /\ b \in Seq(Job)
    BY <1>4, <1>5
  <2>2. /\ a \o b \in Seq(Job) /\ Len(a \o b) = Len(a) + Len(b)
        /\ \A n \in 1 .. Len(a) + Len(b) :
             (a \o b)[n] = IF n <= Len(a) THEN a[n] ELSE b[n - Len(a)]
    BY <2>1, ConcatProperties
  <2>3. QED
    BY <2>2, <1>6
<1>8. DOMAIN RemoveAt(q, i) = 1 .. Len(q) - 1
  BY <1>7, <1>4, <1>5, <1>2, LenProperties
<1>9. \A n \in 1 .. Len(q) - 1 : RemoveAt(q, i)[n] = IF n < i THEN q[n] ELSE q[n + 1]
  <2> TAKE n \in 1 .. Len(q) - 1
  <2>1. RemoveAt(q, i)[n] = IF n <= i - 1 THEN a[n] ELSE b[n - (i - 1)]
    BY <1>7, <1>4, <1>5, <1>2
  <2>2. CASE n < i
    BY <2>1, <2>2, <1>4, <1>2
  <2>3. CASE ~ n < i
    <3>1. n - (i - 1) \in 1 .. Len(q) - i /\ i + (n - (i - 1)) = n + 1
      BY <2>3, <1>2
    <3>2. b[n - (i - 1)] = q[i + (n - (i - 1))]
      BY <3>1, <1>5
    <3>3. RemoveAt(q, i)[n] = b[n - (i - 1)]
      BY <2>1, <2>3, <1>2
    <3>4. QED
      BY <3>1, <3>2, <3>3, <2>3
  <2>4. QED
    BY <2>2, <2>3
<1>10. ASSUME NEW n \in DOMAIN RemoveAt(q, i), RemoveAt(q, i)[n].at = "checked" PROVE n = 1
  <2>1. n \in 1 .. Len(q) - 1
    BY <1>8
  <2>2. CASE n < i
    <3>1. q[n].at = "checked" /\ n \in DOMAIN q
      BY <2>1, <2>2, <1>9, <1>10, <1>2
    <3>2. QED
      BY <3>1 DEF Queue
  <2>3. CASE ~ n < i
    <3>1. q[n + 1].at = "checked" /\ n + 1 \in DOMAIN q
      BY <2>1, <2>3, <1>9, <1>10, <1>2
    <3>2. n + 1 = 1
      BY <3>1 DEF Queue
    <3>3. QED
      BY <3>2, <2>1, <1>2
  <2>4. QED
    BY <2>2, <2>3
<1>11. QED
  BY <1>7, <1>8, <1>9, <1>10 DEF Queue

\* The first task is under way, or goes back to the queue.
LEMMA TurnQueue ==
  ASSUME NEW q, Queue(q), 1 \in DOMAIN q, NEW j \in Job
  PROVE  /\ Queue([q EXCEPT ![1] = j])
         /\ DOMAIN [q EXCEPT ![1] = j] = DOMAIN q
         /\ \A i \in DOMAIN q : [q EXCEPT ![1] = j][i] = IF i = 1 THEN j ELSE q[i]
<1>1. q \in Seq(Job)
  BY DEF Queue
<1>2. DOMAIN q = 1 .. Len(q)
  BY <1>1, LenProperties
<1>3. [q EXCEPT ![1] = j] \in Seq(Job)
  BY <1>1, <1>2, ExceptSeq
<1>4. \A i \in DOMAIN q : [q EXCEPT ![1] = j][i] = IF i = 1 THEN j ELSE q[i]
  OBVIOUS
<1>5. DOMAIN [q EXCEPT ![1] = j] = DOMAIN q
  OBVIOUS
<1>6. QED
  BY <1>3, <1>4, <1>5 DEF Queue

Bounds == {"pauses", "events", "troubles"}
Budget == left \in [Bounds -> Nat] /\ left.events <= MaxEvents

FlagInv == queued \in BOOLEAN /\ modal \in BOOLEAN

PoolInv == \A k \in pool : TaskOK(k)

MarkInv ==
  /\ painted \in [Sessions -> SUBSET Hits]
  /\ watched \subseteq Keys /\ synced \subseteq Keys
  /\ armed \in [Sessions -> SUBSET Names]

DataInv == Budget /\ FlagInv /\ PoolInv /\ MarkInv /\ Queue(edt)

LEMMA SpendBudget ==
  ASSUME Budget, NEW b \in Bounds, Spend(b)
  PROVE  Budget' /\ left[b] > 0
<1>1. left[b] > 0 /\ left' = [left EXCEPT ![b] = @ - 1]
  BY DEF Spend
<1>2. left[b] \in Nat /\ left[b] - 1 \in Nat
  BY <1>1 DEF Budget
<1>3. left' \in [Bounds -> Nat]
  BY <1>1, <1>2 DEF Budget
<1>4. left'["events"] = left["events"] \/ left'["events"] = left["events"] - 1
  BY <1>1 DEF Budget, Bounds
<1>5. left["events"] \in Nat /\ MaxEvents \in Nat
  BY IdeAssumption DEF Budget, Bounds
<1>6. left'.events <= MaxEvents
  BY <1>4, <1>5 DEF Budget
<1>7. QED
  BY <1>1, <1>3, <1>6 DEF Budget

\* A step spends of one bound at most.
LEMMA NextSpends ==
  ASSUME [Next]_vars PROVE UNCHANGED left \/ \E b \in Bounds : Spend(b)
<1>1. CASE UNCHANGED vars
  BY <1>1 DEF vars
<1>2. CASE Click
  BY <1>2 DEF Click, Bounds
<1>3. CASE Dialog
  BY <1>3 DEF Dialog, Bounds
<1>4. ASSUME NEW s \in Sessions,
             \/ Start(s) \/ AddBreakpoint(s) \/ Pause(s) \/ Resume(s) \/ Halt(s)
             \/ SessionStopped(s) \/ Unhook(s) \/ Dispose(s)
      PROVE  UNCHANGED left \/ \E b \in Bounds : Spend(b)
  <2>1. UNCHANGED left \/ Spend("troubles") \/ Spend("pauses")
    BY <1>4 DEF Start, Purge, AddBreakpoint, Pause, Resume, Halt, SessionStopped, Unhook, Dispose
  <2>2. QED
    BY <2>1 DEF Bounds
<1>5. ASSUME NEW s \in Sessions, NEW n \in Names, Toggle(s, n)
      PROVE  UNCHANGED left \/ \E b \in Bounds : Spend(b)
  BY <1>5 DEF Toggle, Bounds
<1>6. ASSUME NEW k \in pool,
             \/ Ask(k) \/ NoAnswer(k) \/ Drained(k) \/ Located(k)
             \/ Replace(k) \/ AddAll(k) \/ Toggled(k)
      PROVE  UNCHANGED left \/ \E b \in Bounds : Spend(b)
  <2>1. UNCHANGED left \/ Spend("troubles") \/ Spend("events")
    BY <1>6 DEF Ask, NoAnswer, Drained, Located, Replace, AddAll, Toggled
  <2>2. QED
    BY <2>1 DEF Bounds
<1>7. ASSUME NEW i \in DOMAIN edt, EdtStep(i)
      PROVE  UNCHANGED left \/ \E b \in Bounds : Spend(b)
  BY <1>7 DEF EdtStep, PaintCheck, PaintOne, RunClear, RunMark
<1>8. QED
  BY <1>1, <1>2, <1>3, <1>4, <1>5, <1>6, <1>7 DEF Next

LEMMA NextBudget == ASSUME Budget, [Next]_vars PROVE Budget'
BY NextSpends, SpendBudget DEF Budget

LEMMA NextFlags == ASSUME FlagInv, [Next]_vars PROVE FlagInv'
<1>1. CASE UNCHANGED vars \/ Click \/ Dialog
  BY <1>1 DEF FlagInv, vars, Click, Dialog
<1>2. ASSUME NEW s \in Sessions,
             \/ Start(s) \/ AddBreakpoint(s) \/ Pause(s) \/ Resume(s) \/ Halt(s)
             \/ SessionStopped(s) \/ Unhook(s) \/ Dispose(s)
      PROVE  queued' \in {queued, FALSE} /\ modal' = modal
  BY <1>2 DEF Start, AddBreakpoint, Pause, Resume, Halt, SessionStopped, Unhook, Dispose
<1>3. ASSUME NEW s \in Sessions, NEW n \in Names, Toggle(s, n)
      PROVE  queued' = queued /\ modal' = modal
  BY <1>3 DEF Toggle
<1>4. ASSUME NEW k \in pool,
             \/ Ask(k) \/ NoAnswer(k) \/ Drained(k) \/ Located(k)
             \/ Replace(k) \/ AddAll(k) \/ Toggled(k)
      PROVE  queued' = queued /\ modal' = modal
  BY <1>4 DEF Ask, NoAnswer, Drained, Located, Replace, AddAll, Toggled
<1>5. ASSUME NEW i \in DOMAIN edt, EdtStep(i)
      PROVE  queued' = queued /\ modal' = modal
  BY <1>5 DEF EdtStep, PaintCheck, PaintOne, RunClear, RunMark
<1>6. QED
  BY <1>1, <1>2, <1>3, <1>4, <1>5 DEF Next, FlagInv

-----------------------------------------------------------------------------
(* Tasks on pooled threads.                                                *)

LEMMA NewTask ==
  ASSUME NEW s \in Sessions, NEW n \in Nat, NEW kind \in {"sync", "drain"}
  PROVE  TaskOK(Task(kind, s, n))
BY DEF TaskOK, PoolTask, Task

LEMMA ToggleTask ==
  ASSUME NEW s \in Sessions, NEW n \in Nat, NEW kind \in {"watch", "unwatch"}, NEW name \in Names
  PROVE  TaskOK([Task(kind, s, n) EXCEPT !.at = "asked", !.name = {name}])
BY DEF TaskOK, PoolTask, Task

LEMMA AskedTask ==
  ASSUME NEW k, TaskOK(k), k.at = "ready"
  PROVE  /\ TaskOK([k EXCEPT !.at = "asked"])
         /\ [k EXCEPT !.at = "asked"].s = k.s
         /\ [k EXCEPT !.at = "asked"].kind = k.kind
         /\ [k EXCEPT !.at = "asked"].at = "asked"
         /\ [k EXCEPT !.at = "asked"].got = k.got
BY DEF TaskOK, PoolTask

LEMMA ReadTask ==
  ASSUME NEW k, TaskOK(k), k.kind = "sync", NEW got, got \subseteq Names \X {k.s}
  PROVE  /\ TaskOK([k EXCEPT !.at = "read", !.got = got])
         /\ [k EXCEPT !.at = "read", !.got = got].s = k.s
         /\ [k EXCEPT !.at = "read", !.got = got].kind = "sync"
         /\ [k EXCEPT !.at = "read", !.got = got].at = "read"
         /\ [k EXCEPT !.at = "read", !.got = got].got = got
<1>1. k.s \in Sessions /\ got \in SUBSET Keys
  BY DEF TaskOK, PoolTask, Keys
<1>2. QED
  BY <1>1 DEF TaskOK, PoolTask

LEMMA ClearedTask ==
  ASSUME NEW k, TaskOK(k), k.kind = "sync"
  PROVE  /\ TaskOK([k EXCEPT !.at = "cleared"])
         /\ [k EXCEPT !.at = "cleared"].s = k.s
         /\ [k EXCEPT !.at = "cleared"].kind = "sync"
         /\ [k EXCEPT !.at = "cleared"].at = "cleared"
         /\ [k EXCEPT !.at = "cleared"].got = k.got
BY DEF TaskOK, PoolTask

LEMMA PauseTasks ==
  ASSUME NEW s \in Sessions, Pause(s), Budget
  PROVE  /\ left.pauses \in Nat
         /\ \/ pool' = pool
            \/ pool' = pool \cup {Task("sync", s, left.pauses), Task("drain", s, left.pauses)}
BY DEF Pause, Budget, Bounds

LEMMA ToggledTask ==
  ASSUME NEW k, TaskOK(k), Toggled(k)
  PROVE  /\ k.n + MaxPauses \in Nat /\ k.s \in Sessions
         /\ pool' = (pool \ {k}) \cup {Task("sync", k.s, k.n + MaxPauses)}
<1>1. k.n \in Nat /\ MaxPauses \in Nat /\ k.s \in Sessions
  BY IdeAssumption DEF TaskOK, PoolTask
<1>2. QED
  BY <1>1 DEF Toggled

LEMMA NextPool == ASSUME Budget, PoolInv, MarkInv, [Next]_vars PROVE PoolInv'
<1>1. CASE pool' \subseteq pool
  BY <1>1 DEF PoolInv
<1>2. CASE UNCHANGED vars \/ Click \/ Dialog
  BY <1>2, <1>1 DEF vars, Click, Dialog
<1>3. ASSUME NEW s \in Sessions,
             \/ Start(s) \/ AddBreakpoint(s) \/ Resume(s) \/ Halt(s)
             \/ SessionStopped(s) \/ Unhook(s) \/ Dispose(s)
      PROVE  PoolInv'
  BY <1>3, <1>1 DEF Start, AddBreakpoint, Resume, Halt, SessionStopped, Unhook, Dispose
<1>4. ASSUME NEW s \in Sessions, Pause(s) PROVE PoolInv'
  BY <1>4, PauseTasks, NewTask DEF PoolInv
<1>5. ASSUME NEW s \in Sessions, NEW n \in Names, Toggle(s, n) PROVE PoolInv'
  <2>1. PICK kind \in {"watch", "unwatch"} :
          pool' = pool \cup {[Task(kind, s, left.events) EXCEPT !.at = "asked", !.name = {n}]}
    BY <1>5 DEF Toggle
  <2> DEFINE k == [Task(kind, s, left.events) EXCEPT !.at = "asked", !.name = {n}]
  <2>2. left.events \in Nat
    BY DEF Budget, Bounds
  <2>3. TaskOK(k)
    BY <2>2, ToggleTask
  <2>4. pool' = pool \cup {k}
    BY <2>1
  <2> HIDE DEF k
  <2>5. QED
    BY <2>3, <2>4 DEF PoolInv
<1>6. ASSUME NEW k \in pool, Ask(k) PROVE PoolInv'
  <2>1. TaskOK(k) /\ k.at = "ready"
    BY <1>6 DEF Ask, PoolInv
  <2>2. pool' \subseteq pool \cup {[k EXCEPT !.at = "asked"]}
    BY <1>6 DEF Ask
  <2>3. QED
    BY <2>1, <2>2, AskedTask DEF PoolInv
<1>7. ASSUME NEW k \in pool, NoAnswer(k) \/ Drained(k) \/ AddAll(k) PROVE PoolInv'
  BY <1>7, <1>1 DEF NoAnswer, Drained, AddAll
<1>8. ASSUME NEW k \in pool, Located(k) PROVE PoolInv'
  <2>1. /\ k.kind = "sync" /\ TaskOK(k) /\ k.s \in Sessions
        /\ pool' = (pool \ {k}) \cup {[k EXCEPT !.at = "read", !.got = armed[k.s] \X {k.s}]}
    BY <1>8 DEF Located, PoolInv, TaskOK, PoolTask
  <2>2. armed[k.s] \X {k.s} \subseteq Names \X {k.s}
    BY <2>1 DEF MarkInv
  <2> DEFINE j == [k EXCEPT !.at = "read", !.got = armed[k.s] \X {k.s}]
  <2>3. TaskOK(j)
    BY <2>1, <2>2, ReadTask
  <2>4. pool' = (pool \ {k}) \cup {j}
    BY <2>1
  <2> HIDE DEF j
  <2>5. QED
    BY <2>3, <2>4 DEF PoolInv
<1>9. ASSUME NEW k \in pool, Replace(k) PROVE PoolInv'
  <2>1. TaskOK(k) /\ k.at = "read" /\ pool' = (pool \ {k}) \cup {[k EXCEPT !.at = "cleared"]}
    BY <1>9 DEF Replace, PoolInv
  <2>2. k.kind = "sync"
    BY <2>1 DEF TaskOK
  <2>3. QED
    BY <2>1, <2>2, ClearedTask DEF PoolInv
<1>10. ASSUME NEW k \in pool, Toggled(k) PROVE PoolInv'
  BY <1>10, ToggledTask, NewTask DEF PoolInv
<1>11. ASSUME NEW i \in DOMAIN edt, EdtStep(i) PROVE PoolInv'
  BY <1>11, <1>1 DEF EdtStep, PaintCheck, PaintOne, RunClear, RunMark
<1>12. QED
  BY <1>2, <1>3, <1>4, <1>5, <1>6, <1>7, <1>8, <1>9, <1>10, <1>11 DEF Next

-----------------------------------------------------------------------------
(* The queue of the event thread: a task is posted, runs and is gone, or is *)
(* the first one and turns into j.                                         *)

Posts(j) == j \in Job /\ j.at = "queued" /\ edt' = Append(edt, j)
Drops(i) == i \in DOMAIN edt /\ edt' = RemoveAt(edt, i)
Turns(j) ==
  /\ 1 \in DOMAIN edt /\ edt[1].kind = "paint"
  /\ j \in Job /\ j.kind = "paint" /\ j.s = edt[1].s
  /\ edt' = [edt EXCEPT ![1] = j]

LEMMA EdtJob ==
  ASSUME Queue(edt), NEW i \in DOMAIN edt
  PROVE  edt[i] \in Job /\ Len(edt) \in Nat /\ DOMAIN edt = 1 .. Len(edt)
<1>1. edt \in Seq(Job)
  BY DEF Queue
<1>2. DOMAIN edt = 1 .. Len(edt) /\ Len(edt) \in Nat
  BY <1>1, LenProperties
<1>3. edt[i] \in Job
  BY <1>1, <1>2, ElementOfSeq
<1>4. QED
  BY <1>2, <1>3

LEMMA CheckedJob ==
  ASSUME NEW j \in Job, j.kind = "paint"
  PROVE  /\ [j EXCEPT !.at = "checked"] \in Job
         /\ [j EXCEPT !.at = "checked"].kind = "paint"
         /\ [j EXCEPT !.at = "checked"].s = j.s
         /\ [j EXCEPT !.at = "checked"].at = "checked"
<1>1. [j EXCEPT !.at = "checked"] \in AnyJob
  BY DEF Job, AnyJob
<1>2. QED
  BY <1>1 DEF Job, AnyJob

LEMMA PaintedJob ==
  ASSUME NEW j \in Job, j.kind = "paint", NEW h
  PROVE  /\ [j EXCEPT !.what = @ \ {h}, !.at = "queued"] \in Job
         /\ [j EXCEPT !.what = @ \ {h}, !.at = "queued"].kind = "paint"
         /\ [j EXCEPT !.what = @ \ {h}, !.at = "queued"].s = j.s
         /\ [j EXCEPT !.what = @ \ {h}, !.at = "queued"].at = "queued"
<1>1. j.what \ {h} \in SUBSET (Hits \cup Names) /\ j.what \ {h} \subseteq Hits
  BY DEF Job, AnyJob
<1>2. [j EXCEPT !.what = @ \ {h}, !.at = "queued"] \in AnyJob
  BY <1>1 DEF Job, AnyJob
<1>3. QED
  BY <1>1, <1>2 DEF Job, AnyJob

LEMMA PaintRuns ==
  ASSUME NEW i \in DOMAIN edt, Runs(i), edt[i].kind = "paint"
  PROVE  i = 1 /\ ~ modal
BY DEF Runs

\* A paint task is dropped or starts, by the look at disposed.
LEMMA CheckEffect ==
  ASSUME Queue(edt), NEW i \in DOMAIN edt, PaintCheck(i)
  PROVE  /\ i = 1 /\ ~ modal /\ UNCHANGED <<painted, modal, disposed>>
         /\ \/ Drops(1) /\ edt[1].kind = "paint"
            \/ \E j : Turns(j) /\ j.at = "checked" /\ j.s \notin disposed
<1>1. Runs(i) /\ edt[i].kind = "paint"
  BY DEF PaintCheck
<1>2. i = 1 /\ ~ modal
  BY <1>1, PaintRuns
<1>3. UNCHANGED <<painted, modal, disposed>>
  BY DEF PaintCheck, hooks
<1>4. edt[1] \in Job
  BY <1>2, EdtJob
<1> DEFINE j == [edt[1] EXCEPT !.at = "checked"]
<1>5. j \in Job /\ j.kind = "paint" /\ j.s = edt[1].s /\ j.at = "checked"
  BY <1>1, <1>2, <1>4, CheckedJob
<1>6. edt' = IF edt[1].s \notin disposed THEN [edt EXCEPT ![1] = j] ELSE RemoveAt(edt, 1)
  BY <1>2 DEF PaintCheck, MayPaint, Gone
<1> HIDE DEF j
<1>7. CASE edt[1].s \in disposed
  BY <1>1, <1>2, <1>3, <1>6, <1>7 DEF Drops
<1>8. CASE edt[1].s \notin disposed
  <2>1. Turns(j) /\ j.at = "checked" /\ j.s \notin disposed
    BY <1>1, <1>2, <1>5, <1>6, <1>8 DEF Turns
  <2>2. QED
    BY <2>1, <1>2, <1>3
<1>9. QED
  BY <1>7, <1>8

\* A paint task that has started paints one decoration, or fails to.
LEMMA PaintEffect ==
  ASSUME Queue(edt), NEW i \in DOMAIN edt, PaintOne(i)
  PROVE  /\ i = 1 /\ ~ modal /\ UNCHANGED <<modal, disposed>>
         /\ edt[1].kind = "paint" /\ edt[1].at = "checked"
         /\ \/ painted' = painted
            \/ \E h \in edt[1].what : painted' = [painted EXCEPT ![edt[1].s] = @ \cup {h}]
         /\ \/ Drops(1)
            \/ \E j : Turns(j) /\ j.at = "queued"
<1>1. Runs(i) /\ edt[i].kind = "paint" /\ edt[i].at = "checked"
  BY DEF PaintOne
<1>2. i = 1 /\ ~ modal
  BY <1>1, PaintRuns
<1>3. UNCHANGED <<modal, disposed>>
  BY DEF PaintOne, hooks
<1>4. edt[1] \in Job
  BY <1>2, EdtJob
<1>5. PICK h \in edt[1].what :
        /\ \/ painted' = [painted EXCEPT ![edt[1].s] = @ \cup {h}]
           \/ painted' = painted
        /\ edt' = IF edt[1].what = {h} THEN RemoveAt(edt, 1)
                  ELSE [edt EXCEPT ![1].what = @ \ {h}, ![1].at = "queued"]
  BY <1>2 DEF PaintOne, Gone
<1> DEFINE j == [edt[1] EXCEPT !.what = @ \ {h}, !.at = "queued"]
<1>6. j \in Job /\ j.kind = "paint" /\ j.s = edt[1].s /\ j.at = "queued"
  BY <1>1, <1>2, <1>4, PaintedJob
<1>7. edt' = RemoveAt(edt, 1) \/ edt' = [edt EXCEPT ![1] = j]
  BY <1>2, <1>5
<1> HIDE DEF j
<1>8. Drops(1) \/ (Turns(j) /\ j.at = "queued")
  BY <1>1, <1>2, <1>6, <1>7 DEF Drops, Turns
<1>9. QED
  BY <1>1, <1>2, <1>3, <1>5, <1>8

LEMMA ClearEffect ==
  ASSUME MarkInv, Queue(edt), NEW i \in DOMAIN edt, RunClear(i)
  PROVE  /\ Runs(i) /\ Drops(i) /\ edt[i].kind \in {"clear", "final"}
         /\ edt[i].s \in Sessions
         /\ painted' = [painted EXCEPT ![edt[i].s] = {}]
         /\ UNCHANGED <<modal, disposed>>
<1>1. edt[i] \in Job
  BY EdtJob
<1>2. QED
  BY <1>1, JobShape DEF RunClear, Drops, Gone, hooks

LEMMA MarkEffect ==
  ASSUME Queue(edt), NEW i \in DOMAIN edt, RunMark(i)
  PROVE  /\ Runs(i) /\ Drops(i) /\ edt[i].kind \in {"mark", "unmark"}
         /\ edt[i].s \in Sessions /\ edt[i].what \subseteq Names
         /\ watched' = IF edt[i].kind = "mark" THEN watched \cup (edt[i].what \X {edt[i].s})
                       ELSE watched \ (edt[i].what \X Sessions)
         /\ UNCHANGED <<painted, modal, disposed>>
<1>1. edt[i] \in Job
  BY EdtJob
<1>2. QED
  BY <1>1, JobShape DEF RunMark, Drops, Gone, hooks

LEMMA HighlightPosts ==
  ASSUME NEW s \in Sessions, ClearHighlight(s)
  PROVE  edt' = edt \/ \E j : Posts(j) /\ j.kind = "clear"
<1>1. edt' = edt \/ edt' = Append(edt, Posted("clear", s, {}))
  BY DEF ClearHighlight, ClearPosted
<1>2. Posted("clear", s, {}) \in Job /\ Posted("clear", s, {}).at = "queued"
      /\ Posted("clear", s, {}).kind = "clear"
  BY PostedJob
<1>3. QED
  BY <1>1, <1>2 DEF Posts

LEMMA SessionPosts ==
  ASSUME NEW s \in Sessions, Resume(s) \/ SessionStopped(s)
  PROVE  edt' = edt \/ \E j : Posts(j) /\ j.kind = "clear"
<1>1. edt' = edt \/ ClearHighlight(s)
  BY DEF Resume, SessionStopped
<1>2. QED
  BY <1>1, HighlightPosts

LEMMA DisposePosts ==
  ASSUME NEW s \in Sessions, Dispose(s)
  PROVE  /\ painted' = painted /\ modal' = modal
         /\ \/ s \notin registered /\ edt' = edt /\ disposed' = disposed
            \/ /\ s \in registered /\ disposed' = disposed \cup {s}
               /\ \E j : Posts(j) /\ j.kind = FinalClear /\ j.s = s
<1> DEFINE j == Posted(FinalClear, s, {})
<1>1. j \in Job /\ j.at = "queued" /\ j.kind = FinalClear /\ j.s = s
  BY PostedJob DEF FinalClear
<1>2. /\ painted' = painted /\ modal' = modal
      /\ \/ s \notin registered /\ edt' = edt /\ disposed' = disposed
         \/ s \in registered /\ disposed' = disposed \cup {s} /\ edt' = Append(edt, j)
  BY DEF Dispose
<1> HIDE DEF j
<1>3. QED
  BY <1>1, <1>2 DEF Posts

LEMMA DrainPosts ==
  ASSUME Budget, PoolInv, NEW k \in pool, Drained(k)
  PROVE  \E j : Posts(j) /\ j.kind = "paint"
<1>1. PICK m \in 1 .. MaxMarks :
        edt' = Append(edt, Posted("paint", k.s, {left.events} \X (1 .. m)))
  BY DEF Drained
<1>2. left.events \in 1 .. MaxEvents
  BY IdeAssumption DEF Drained, Spend, Budget, Bounds
<1>3. 1 .. m \subseteq 1 .. MaxMarks
  BY <1>1, IdeAssumption
<1> DEFINE what == {left.events} \X (1 .. m)
<1>4. what \subseteq Hits
  BY <1>2, <1>3 DEF Hits
<1>5. k.s \in Sessions
  BY DEF PoolInv, TaskOK, PoolTask
<1>6. edt' = Append(edt, Posted("paint", k.s, what))
  BY <1>1
<1> HIDE DEF what
<1>7. Posted("paint", k.s, what) \in Job /\ Posted("paint", k.s, what).at = "queued"
      /\ Posted("paint", k.s, what).kind = "paint"
  BY <1>4, <1>5, PostedJob
<1>8. QED
  BY <1>6, <1>7 DEF Posts

LEMMA TogglePosts ==
  ASSUME PoolInv, NEW k \in pool, Toggled(k)
  PROVE  \E j : Posts(j) /\ j.kind \in {"mark", "unmark"} /\ j.s = k.s
<1>1. k.s \in Sessions /\ k.name \subseteq Names
  BY DEF PoolInv, TaskOK, PoolTask
<1>2. PICK kind \in {"mark", "unmark"} : edt' = Append(edt, Posted(kind, k.s, k.name))
  BY DEF Toggled
<1>3. Posted(kind, k.s, k.name) \in Job /\ Posted(kind, k.s, k.name).at = "queued"
      /\ Posted(kind, k.s, k.name).kind = kind /\ Posted(kind, k.s, k.name).s = k.s
  BY <1>1, PostedJob
<1>4. QED
  BY <1>2, <1>3 DEF Posts

LEMMA EdtStepQueue ==
  ASSUME MarkInv, Queue(edt), NEW i \in DOMAIN edt, EdtStep(i)
  PROVE  (\E n : Drops(n)) \/ (\E j : Turns(j))
BY CheckEffect, PaintEffect, ClearEffect, MarkEffect DEF EdtStep

LEMMA NextQueue ==
  ASSUME Budget, PoolInv, MarkInv, Queue(edt), [Next]_vars PROVE Queue(edt)'
<1>1. CASE edt' = edt
  BY <1>1
<1>2. ASSUME NEW j, Posts(j) PROVE Queue(edt)'
  BY <1>2, AppendQueue DEF Posts
<1>3. ASSUME NEW i, Drops(i) PROVE Queue(edt)'
  BY <1>3, GoneQueue DEF Drops
<1>4. ASSUME NEW j, Turns(j) PROVE Queue(edt)'
  BY <1>4, TurnQueue DEF Turns
<1>5. CASE UNCHANGED vars \/ Click \/ Dialog
  BY <1>5, <1>1 DEF vars, Click, Dialog
<1>6. ASSUME NEW s \in Sessions,
             \/ Start(s) \/ AddBreakpoint(s) \/ Pause(s) \/ Halt(s) \/ Unhook(s)
             \/ \E n \in Names : Toggle(s, n)
      PROVE  Queue(edt)'
  BY <1>6, <1>1 DEF Start, AddBreakpoint, Pause, Halt, Unhook, Toggle
<1>7. ASSUME NEW s \in Sessions, Resume(s) \/ SessionStopped(s) \/ Dispose(s) PROVE Queue(edt)'
  BY <1>7, <1>1, <1>2, SessionPosts, DisposePosts
<1>8. ASSUME NEW k \in pool, Ask(k) \/ NoAnswer(k) \/ Located(k) \/ Replace(k) \/ AddAll(k)
      PROVE  Queue(edt)'
  BY <1>8, <1>1 DEF Ask, NoAnswer, Located, Replace, AddAll
<1>9. ASSUME NEW k \in pool, Drained(k) \/ Toggled(k) PROVE Queue(edt)'
  BY <1>9, <1>2, DrainPosts, TogglePosts
<1>10. ASSUME NEW i \in DOMAIN edt, EdtStep(i) PROVE Queue(edt)'
  BY <1>10, <1>3, <1>4, EdtStepQueue
<1>11. QED
  BY <1>5, <1>6, <1>7, <1>8, <1>9, <1>10 DEF Next

\* What a step does to the markers and the decorations on screen.
LEMMA NextMarks ==
  ASSUME Budget, PoolInv, MarkInv, Queue(edt), [Next]_vars PROVE MarkInv'
<1>1. CASE UNCHANGED <<painted, watched, synced, armed>>
  BY <1>1 DEF MarkInv
<1>2. CASE UNCHANGED vars \/ Click \/ Dialog
  BY <1>2, <1>1 DEF vars, market, Click, Dialog
<1>3. ASSUME NEW s \in Sessions,
             \/ AddBreakpoint(s) \/ Resume(s) \/ Halt(s) \/ SessionStopped(s)
             \/ Unhook(s) \/ Dispose(s) \/ \E n \in Names : Toggle(s, n)
      PROVE  MarkInv'
  BY <1>3, <1>1 DEF AddBreakpoint, Resume, Halt, SessionStopped, Unhook, Dispose, Toggle, market
<1>4. ASSUME NEW s \in Sessions, Start(s) PROVE MarkInv'
  <2>1. /\ painted' = painted /\ armed' = armed
        /\ \/ watched' = watched /\ synced' = synced
           \/ watched' = {} /\ synced' = {}
    BY <1>4 DEF Start, market, SyncedCleared
  <2>2. QED
    BY <2>1 DEF MarkInv
<1>5. ASSUME NEW s \in Sessions, Pause(s) PROVE MarkInv'
  <2>1. UNCHANGED <<painted, watched, synced>>
        /\ \E now \in SUBSET Names : armed' = [armed EXCEPT ![s] = now]
    BY <1>5 DEF Pause
  <2>2. QED
    BY <2>1 DEF MarkInv
<1>6. ASSUME NEW k \in pool, Ask(k) \/ NoAnswer(k) \/ Located(k) PROVE MarkInv'
  BY <1>6, <1>1 DEF Ask, NoAnswer, Located, market
<1>7. ASSUME NEW k \in pool, Drained(k) PROVE MarkInv'
  <2>1. UNCHANGED <<painted, synced, armed>>
        /\ \E names \in SUBSET Names : watched' = watched \cup (names \X {k.s})
    BY <1>7 DEF Drained
  <2>2. k.s \in Sessions
    BY DEF PoolInv, TaskOK, PoolTask
  <2>3. QED
    BY <2>1, <2>2 DEF MarkInv, Keys
<1>8. ASSUME NEW k \in pool, Replace(k) \/ AddAll(k) PROVE MarkInv'
  <2>1. UNCHANGED <<painted, watched, armed>> /\ (synced' = {} \/ synced' = synced \cup k.got)
    BY <1>8 DEF Replace, AddAll, ClearedSync
  <2>2. k.got \subseteq Keys
    BY DEF PoolInv, TaskOK, PoolTask
  <2>3. QED
    BY <2>1, <2>2 DEF MarkInv
<1>9. ASSUME NEW k \in pool, Toggled(k) PROVE MarkInv'
  <2>1. UNCHANGED <<painted, watched, synced>>
        /\ armed' = [armed EXCEPT ![k.s] = IF k.kind = "watch" THEN @ \cup k.name ELSE @ \ k.name]
    BY <1>9 DEF Toggled
  <2>2. k.name \subseteq Names
    BY DEF PoolInv, TaskOK, PoolTask
  <2>3. QED
    BY <2>1, <2>2 DEF MarkInv
<1>10. ASSUME NEW i \in DOMAIN edt, PaintCheck(i) PROVE MarkInv'
  BY <1>10, <1>1 DEF PaintCheck, market
<1>11. ASSUME NEW i \in DOMAIN edt, PaintOne(i) PROVE MarkInv'
  <2>1. UNCHANGED <<watched, synced, armed>>
    BY <1>11 DEF PaintOne, market
  <2>2. 1 \in DOMAIN edt /\ edt[1].kind = "paint"
    BY <1>11, PaintEffect
  <2>3. edt[1].what \subseteq Hits
    BY <2>2, EdtJob, JobShape
  <2>4. \/ painted' = painted
        \/ \E h \in edt[1].what : painted' = [painted EXCEPT ![edt[1].s] = @ \cup {h}]
    BY <1>11, PaintEffect
  <2>5. painted' \in [Sessions -> SUBSET Hits]
    BY <2>3, <2>4 DEF MarkInv
  <2>6. QED
    BY <2>1, <2>5 DEF MarkInv
<1>12. ASSUME NEW i \in DOMAIN edt, RunClear(i) PROVE MarkInv'
  <2>1. UNCHANGED <<watched, synced, armed>>
    BY <1>12 DEF RunClear, market
  <2>2. painted' = [painted EXCEPT ![edt[i].s] = {}]
    BY <1>12, ClearEffect
  <2>3. QED
    BY <2>1, <2>2 DEF MarkInv
<1>13. ASSUME NEW i \in DOMAIN edt, RunMark(i) PROVE MarkInv'
  <2>1. UNCHANGED <<painted, synced, armed>>
    BY <1>13 DEF RunMark
  <2>2. \/ watched' = watched \cup (edt[i].what \X {edt[i].s})
        \/ watched' \subseteq watched
    BY <1>13, MarkEffect
  <2>3. edt[i].s \in Sessions /\ edt[i].what \subseteq Names
    BY <1>13, MarkEffect
  <2>4. QED
    BY <2>1, <2>2, <2>3 DEF MarkInv, Keys
<1>14. QED
  BY <1>2, <1>3, <1>4, <1>5, <1>6, <1>7, <1>8, <1>9, <1>10, <1>11, <1>12, <1>13
  DEF Next, EdtStep

LEMMA InitData == ASSUME Init PROVE LifeInv /\ DataInv
<1>1. LifeInv
  BY DEF Init, LifeInv
<1>2. Budget
  BY IdeAssumption DEF Init, Budget, Bounds
<1>3. FlagInv /\ PoolInv /\ MarkInv
  BY DEF Init, FlagInv, PoolInv, MarkInv
<1>4. << >> \in Seq(Job) /\ DOMAIN << >> = {}
  BY EmptySeq, LenProperties
<1>5. Queue(edt)
  BY <1>4 DEF Init, Queue
<1>6. QED
  BY <1>1, <1>2, <1>3, <1>5 DEF DataInv

LEMMA NextData == ASSUME DataInv, [Next]_vars PROVE DataInv'
BY NextBudget, NextFlags, NextPool, NextMarks, NextQueue DEF DataInv

\* The state has its shape: each session is in one stage of its life and is
\* hooked, listening or paused only where that stage allows it, and the event
\* thread has begun with no task but the first (WatchpointDebugListener,
\* HitHighlighter, WatchpointMarkerService).
THEOREM TypeCorrect == FairSpec => []TypeOK
<1>1. IInv /\ LifeInv /\ DataInv => TypeOK
  <2> SUFFICES ASSUME IInv, LifeInv, DataInv PROVE TypeOK
    OBVIOUS
  <2>1. queued \in BOOLEAN /\ modal \in BOOLEAN
    BY DEF DataInv, FlagInv
  <2>2. phase \in [Sessions -> {"new", "plain", "starting", "live", "halted", "told",
                                "unhooked", "done"}]
    BY DEF IInv, Phases, Hooked
  <2>3. /\ \A S \in {paused, entry, registered, listening, disposed} : S \subseteq Sessions
        /\ bps \subseteq Sessions \cup Persisted
    BY DEF IInv, LifeInv
  <2>4. /\ \A s \in entry : phase[s] \in {"live", "halted", "told"}
        /\ \A s \in registered : phase[s] \in {"live", "halted", "told", "unhooked"}
        /\ registered \subseteq listening /\ disposed \cap listening = {}
    BY DEF IInv, LifeInv, Hooked
  <2>5. painted \in [Sessions -> SUBSET Hits] /\ watched \cup synced \subseteq Keys
    BY DEF DataInv, MarkInv
  <2>6. \A i \in DOMAIN edt : edt[i].at = "checked" => i = 1
    BY DEF DataInv, Queue
  <2>7. QED
    BY <2>1, <2>2, <2>3, <2>4, <2>5, <2>6 DEF TypeOK
<1>2. QED
  BY <1>1, InitIInv, NextIInv, InitData, NextData, NextLife, PTL DEF FairSpec

-----------------------------------------------------------------------------
(* Markers of sessions that are over.                                      *)

\* An evaluation that comes back for a session that was over when the markers
\* were cleared was on its way at that moment.
LateTask(k) == k.at # "ready" /\ k.s \in over => k.s \in late
LateJob(j) == j.kind = "mark" /\ j.s \in over => j.s \in late

FreshInv ==
  /\ over \subseteq Stopped
  /\ \A k \in pool : LateTask(k)
  /\ \A i \in DOMAIN edt : LateJob(edt[i])
  /\ MarkersFresh

\* A stopped session stays stopped.
LEMMA StoppedStays == ASSUME IInv, [Next]_vars PROVE Stopped \subseteq Stopped'
<1>1. CASE phase' = phase
  BY <1>1 DEF Stopped
<1>2. CASE UNCHANGED vars \/ Click \/ Dialog
  BY <1>2, <1>1 DEF vars, Click, Dialog
<1>3. ASSUME NEW s \in Sessions,
             \/ Start(s) \/ AddBreakpoint(s) \/ Halt(s) \/ SessionStopped(s)
             \/ Unhook(s) \/ Dispose(s)
      PROVE  Stopped \subseteq Stopped'
  <2>1. \/ phase' = [phase EXCEPT ![s] = "starting"] /\ phase[s] = "new"
        \/ phase' = [phase EXCEPT ![s] = "plain"] /\ phase[s] = "new"
        \/ phase' = [phase EXCEPT ![s] = "live"] /\ phase[s] = "starting"
        \/ phase' = [phase EXCEPT ![s] = "halted"]
        \/ phase' = [phase EXCEPT ![s] = "told"]
        \/ phase' = [phase EXCEPT ![s] = "unhooked"]
        \/ phase' = [phase EXCEPT ![s] = "done"]
    BY <1>3 DEF Start, AddBreakpoint, Halt, SessionStopped, Unhook, Dispose
  <2>2. QED
    BY <2>1 DEF Stopped, IInv
<1>4. ASSUME NEW s \in Sessions, Pause(s) \/ Resume(s) \/ \E n \in Names : Toggle(s, n)
      PROVE  Stopped \subseteq Stopped'
  BY <1>4, <1>1 DEF Pause, Resume, Toggle
<1>5. ASSUME NEW k \in pool,
             \/ Ask(k) \/ NoAnswer(k) \/ Drained(k) \/ Located(k)
             \/ Replace(k) \/ AddAll(k) \/ Toggled(k)
      PROVE  Stopped \subseteq Stopped'
  BY <1>5, <1>1 DEF Ask, NoAnswer, Drained, Located, Replace, AddAll, Toggled
<1>6. ASSUME NEW i \in DOMAIN edt, EdtStep(i) PROVE Stopped \subseteq Stopped'
  BY <1>6, <1>1 DEF EdtStep, PaintCheck, PaintOne, RunClear, RunMark
<1>7. QED
  BY <1>2, <1>3, <1>4, <1>5, <1>6 DEF Next

\* The tasks of the queue after a step are those before it, one that was posted,
\* or one that turned into another of its kind and session.
LEMMA PostElements ==
  ASSUME Queue(edt), NEW j, Posts(j), NEW i \in DOMAIN edt'
  PROVE  edt'[i] = j \/ \E n \in DOMAIN edt : edt'[i] = edt[n]
<1>1. /\ Queue(Append(edt, j)) /\ Len(Append(edt, j)) = Len(edt) + 1
      /\ \A n \in 1 .. Len(edt) : Append(edt, j)[n] = edt[n]
      /\ Append(edt, j)[Len(edt) + 1] = j
  BY AppendQueue DEF Posts
<1>2. edt \in Seq(Job) /\ edt' \in Seq(Job) /\ edt' = Append(edt, j)
  BY <1>1 DEF Queue, Posts
<1>3. DOMAIN edt = 1 .. Len(edt) /\ DOMAIN edt' = 1 .. Len(edt) + 1 /\ Len(edt) \in Nat
  BY <1>1, <1>2, LenProperties
<1>4. QED
  BY <1>1, <1>2, <1>3

LEMMA DropElements ==
  ASSUME Queue(edt), NEW d, Drops(d), NEW i \in DOMAIN edt'
  PROVE  \E n \in DOMAIN edt : n # d /\ edt'[i] = edt[n]
<1>1. edt \in Seq(Job) /\ d \in DOMAIN edt /\ edt' = RemoveAt(edt, d)
  BY DEF Queue, Drops
<1>2. DOMAIN edt = 1 .. Len(edt) /\ Len(edt) \in Nat
  BY <1>1, LenProperties
<1>3. /\ DOMAIN edt' = 1 .. Len(edt) - 1
      /\ \A n \in 1 .. Len(edt) - 1 : edt'[n] = IF n < d THEN edt[n] ELSE edt[n + 1]
  BY <1>1, GoneQueue
<1>4. CASE i < d
  BY <1>2, <1>3, <1>4
<1>5. CASE ~ i < d
  <2>1. i + 1 \in DOMAIN edt /\ i + 1 # d /\ edt'[i] = edt[i + 1]
    BY <1>1, <1>2, <1>3, <1>5
  <2>2. QED
    BY <2>1
<1>6. QED
  BY <1>4, <1>5

LEMMA TurnElements ==
  ASSUME Queue(edt), NEW j, Turns(j)
  PROVE  DOMAIN edt' = DOMAIN edt /\ \A i \in DOMAIN edt : edt'[i] = IF i = 1 THEN j ELSE edt[i]
BY TurnQueue DEF Turns

\* A step that leaves the ghosts alone and posts no mark of a session that is over.
LEMMA LateJobs ==
  ASSUME FreshInv, Queue(edt), UNCHANGED <<over, late>>,
         \/ edt' = edt
         \/ \E j : Posts(j) /\ LateJob(j)
         \/ \E d : Drops(d)
         \/ \E j : Turns(j)
  PROVE  (\A i \in DOMAIN edt : LateJob(edt[i]))'
<1>1. \A i \in DOMAIN edt : LateJob(edt[i])
  BY DEF FreshInv
<1>2. ASSUME NEW i \in DOMAIN edt'
      PROVE  edt'[i].kind = "mark" /\ edt'[i].s \in over => edt'[i].s \in late
  <2>1. CASE edt' = edt
    BY <2>1, <1>1 DEF LateJob
  <2>2. ASSUME NEW j, Posts(j), LateJob(j)
        PROVE  edt'[i].kind = "mark" /\ edt'[i].s \in over => edt'[i].s \in late
    BY <2>2, <1>1, PostElements DEF LateJob
  <2>3. ASSUME NEW d, Drops(d)
        PROVE  edt'[i].kind = "mark" /\ edt'[i].s \in over => edt'[i].s \in late
    BY <2>3, <1>1, DropElements DEF LateJob
  <2>4. ASSUME NEW j, Turns(j)
        PROVE  edt'[i].kind = "mark" /\ edt'[i].s \in over => edt'[i].s \in late
    <3>1. i \in DOMAIN edt /\ (edt'[i] = edt[i] \/ edt'[i] = j)
      BY <2>4, TurnElements
    <3>2. j.kind # "mark"
      BY <2>4 DEF Turns
    <3>3. QED
      BY <3>1, <3>2, <1>1 DEF LateJob
  <2>5. QED
    BY <2>1, <2>2, <2>3, <2>4
<1>3. QED
  BY <1>2 DEF LateJob

LEMMA LateTasks ==
  ASSUME FreshInv, UNCHANGED <<over, late>>, \A k \in pool' : k \in pool \/ LateTask(k)
  PROVE  (\A k \in pool : LateTask(k))'
BY DEF FreshInv, LateTask

LEMMA SameMarks ==
  ASSUME FreshInv, UNCHANGED <<over, late>>, watched' \subseteq watched, synced' \subseteq synced
  PROVE  MarkersFresh'
BY DEF FreshInv, MarkersFresh

LEMMA AddedMarks ==
  ASSUME FreshInv, UNCHANGED <<over, late>>, NEW s, s \in over => s \in late,
         NEW S, watched' \cup synced' \subseteq watched \cup synced \cup (S \X {s})
  PROVE  MarkersFresh'
BY DEF FreshInv, MarkersFresh

LEMMA StartFresh ==
  ASSUME FreshInv, Queue(edt), NEW s \in Sessions, Start(s), Stopped \subseteq Stopped'
  PROVE  FreshInv'
<1>1. pool' = pool /\ edt' = edt
  BY DEF Start
<1>2. CASE queued
  <2>1. /\ watched' = {} /\ synced' = {}
        /\ over' = over \cup Stopped
        /\ late' = late \cup {z \in Stopped :
                     \/ \E k \in pool : k.s = z /\ k.at # "ready"
                     \/ \E i \in DOMAIN edt : edt[i].kind = "mark" /\ edt[i].s = z}
    BY <1>2 DEF Start, SyncedCleared
  <2>2. over' \subseteq Stopped'
    BY <2>1 DEF FreshInv
  <2>3. \A k \in pool : k.at # "ready" /\ k.s \in over' => k.s \in late'
    BY <2>1 DEF FreshInv, LateTask
  <2>4. \A i \in DOMAIN edt : edt[i].kind = "mark" /\ edt[i].s \in over' => edt[i].s \in late'
    BY <2>1 DEF FreshInv, LateJob
  <2>5. QED
    BY <1>1, <2>1, <2>2, <2>3, <2>4 DEF FreshInv, LateTask, LateJob, MarkersFresh
<1>3. CASE ~ queued
  <2>1. UNCHANGED <<watched, synced, over, late>>
    BY <1>3 DEF Start, market
  <2>2. QED
    BY <1>1, <2>1 DEF FreshInv, LateTask, LateJob, MarkersFresh
<1>4. QED
  BY <1>2, <1>3

LEMMA NextFresh ==
  ASSUME IInv, LifeInv, DataInv, FreshInv, [Next]_vars PROVE FreshInv'
<1> DEFINE Same == UNCHANGED <<over, late>> /\ watched' = watched /\ synced' = synced
<1>1. Stopped \subseteq Stopped'
  BY StoppedStays
<1>2. Queue(edt) /\ PoolInv /\ Budget
  BY DEF DataInv
<1>3. ASSUME UNCHANGED <<over, late>>, MarkersFresh',
             \A k \in pool' : k \in pool \/ LateTask(k),
             \/ edt' = edt
             \/ \E j : Posts(j) /\ LateJob(j)
             \/ \E d : Drops(d)
             \/ \E j : Turns(j)
      PROVE  FreshInv'
  <2>1. (\A k \in pool : LateTask(k))'
    BY <1>3, LateTasks
  <2>2. (\A i \in DOMAIN edt : LateJob(edt[i]))'
    BY <1>2, <1>3, LateJobs
  <2>3. over' \subseteq Stopped'
    BY <1>1, <1>3 DEF FreshInv
  <2>4. QED
    BY <2>1, <2>2, <2>3, <1>3 DEF FreshInv
<1>4. ASSUME Same, pool' \subseteq pool,
             \/ edt' = edt
             \/ \E j : Posts(j) /\ j.kind # "mark"
             \/ \E d : Drops(d)
             \/ \E j : Turns(j)
      PROVE  FreshInv'
  <2>1. MarkersFresh'
    BY <1>4, SameMarks
  <2>2. \A j : j.kind # "mark" => LateJob(j)
    BY DEF LateJob
  <2>3. QED
    BY <1>3, <1>4, <2>1, <2>2
<1>5. CASE UNCHANGED vars \/ Click \/ Dialog
  BY <1>5, <1>4 DEF vars, market, Click, Dialog
<1>6. ASSUME NEW s \in Sessions, Start(s) PROVE FreshInv'
  BY <1>6, <1>1, <1>2, StartFresh
<1>7. ASSUME NEW s \in Sessions, AddBreakpoint(s) \/ Halt(s) \/ Unhook(s) PROVE FreshInv'
  BY <1>7, <1>4 DEF AddBreakpoint, Halt, Unhook, market
<1>8. ASSUME NEW s \in Sessions, Resume(s) \/ SessionStopped(s) PROVE FreshInv'
  <2>1. Same /\ pool' = pool
    BY <1>8 DEF Resume, SessionStopped, market
  <2>2. edt' = edt \/ \E j : Posts(j) /\ j.kind = "clear"
    BY <1>8, SessionPosts
  <2>3. QED
    BY <2>1, <2>2, <1>4
<1>9. ASSUME NEW s \in Sessions, Dispose(s) PROVE FreshInv'
  <2>1. Same /\ pool' = pool
    BY <1>9 DEF Dispose, market
  <2>2. edt' = edt \/ \E j : Posts(j) /\ j.kind = FinalClear
    BY <1>9, DisposePosts
  <2>3. FinalClear # "mark"
    BY DEF FinalClear
  <2>4. QED
    BY <2>1, <2>2, <2>3, <1>4
<1>10. ASSUME NEW s \in Sessions, Pause(s) PROVE FreshInv'
  <2>1. /\ Same /\ edt' = edt
        /\ \/ pool' = pool
           \/ pool' = pool \cup {Task("sync", s, left.pauses), Task("drain", s, left.pauses)}
    BY <1>10 DEF Pause
  <2>2. LateTask(Task("sync", s, left.pauses)) /\ LateTask(Task("drain", s, left.pauses))
    BY DEF LateTask, Task
  <2>3. MarkersFresh'
    BY <2>1, SameMarks
  <2>4. QED
    BY <2>1, <2>2, <2>3, <1>3
<1>11. ASSUME NEW s \in Sessions, NEW n \in Names, Toggle(s, n) PROVE FreshInv'
  <2>1. PICK kind : pool' = pool \cup {[Task(kind, s, left.events) EXCEPT !.at = "asked", !.name = {n}]}
    BY <1>11 DEF Toggle
  <2> DEFINE k == [Task(kind, s, left.events) EXCEPT !.at = "asked", !.name = {n}]
  <2>2. Same /\ edt' = edt
    BY <1>11 DEF Toggle, market
  <2>3. k.s = s
    BY DEF Task
  <2>4. s \notin over
    <3>1. phase[s] = "live"
      BY <1>11 DEF Toggle, LifeInv
    <3>2. QED
      BY <3>1 DEF FreshInv, Stopped
  <2>5. pool' = pool \cup {k}
    BY <2>1
  <2> HIDE DEF k
  <2>6. LateTask(k)
    BY <2>3, <2>4 DEF LateTask
  <2>7. MarkersFresh'
    BY <2>2, SameMarks
  <2>8. QED
    BY <2>2, <2>5, <2>6, <2>7, <1>3
<1>12. ASSUME NEW k \in pool, Ask(k) PROVE FreshInv'
  <2>1. Same /\ edt' = edt
    BY <1>12 DEF Ask, market
  <2> DEFINE j == [k EXCEPT !.at = "asked"]
  <2>2. j.s = k.s
    BY <1>2, <1>12, AskedTask DEF Ask, PoolInv
  <2>3. \/ pool' \subseteq pool
        \/ k.s \notin Stopped /\ pool' = (pool \ {k}) \cup {j}
    BY <1>12 DEF Ask
  <2> HIDE DEF j
  <2>4. \A t \in pool' : t \in pool \/ LateTask(t)
    BY <2>2, <2>3 DEF LateTask, FreshInv
  <2>5. MarkersFresh'
    BY <2>1, SameMarks
  <2>6. QED
    BY <2>1, <2>4, <2>5, <1>3
<1>13. ASSUME NEW k \in pool, NoAnswer(k) PROVE FreshInv'
  BY <1>13, <1>4 DEF NoAnswer
<1>14. ASSUME NEW k \in pool, Drained(k) PROVE FreshInv'
  <2>1. /\ UNCHANGED <<over, late, synced>> /\ pool' \subseteq pool /\ k.at = "asked"
        /\ \E names : watched' = watched \cup (names \X {k.s})
    BY <1>14 DEF Drained
  <2>2. k.s \in over => k.s \in late
    BY <2>1 DEF FreshInv, LateTask
  <2>3. MarkersFresh'
    BY <2>1, <2>2, AddedMarks
  <2>4. \E j : Posts(j) /\ j.kind = "paint"
    BY <1>2, <1>14, DrainPosts
  <2>5. \A j : j.kind = "paint" => LateJob(j)
    BY DEF LateJob
  <2>6. QED
    BY <2>1, <2>3, <2>4, <2>5, <1>3
<1>15. ASSUME NEW k \in pool, Located(k) PROVE FreshInv'
  <2>1. Same /\ edt' = edt /\ k.at = "asked"
    BY <1>15 DEF Located
  <2> DEFINE j == [k EXCEPT !.at = "read", !.got = armed[k.s] \X {k.s}]
  <2>2. TaskOK(k)
    BY <1>2 DEF PoolInv
  <2>3. j.s = k.s
    BY <2>2 DEF TaskOK, PoolTask
  <2>4. pool' = (pool \ {k}) \cup {j}
    BY <1>15 DEF Located
  <2> HIDE DEF j
  <2>5. LateTask(j)
    BY <2>1, <2>3 DEF LateTask, FreshInv
  <2>6. MarkersFresh'
    BY <2>1, SameMarks
  <2>7. QED
    BY <2>1, <2>4, <2>5, <2>6, <1>3
<1>16. ASSUME NEW k \in pool, Replace(k) PROVE FreshInv'
  <2>1. UNCHANGED <<over, late, watched, edt>> /\ synced' = {} /\ k.at = "read"
    BY <1>16 DEF Replace, ClearedSync
  <2> DEFINE j == [k EXCEPT !.at = "cleared"]
  <2>2. TaskOK(k)
    BY <1>2 DEF PoolInv
  <2>3. j.s = k.s
    BY <2>2 DEF TaskOK, PoolTask
  <2>4. pool' = (pool \ {k}) \cup {j}
    BY <1>16 DEF Replace
  <2> HIDE DEF j
  <2>5. LateTask(j)
    BY <2>1, <2>3 DEF LateTask, FreshInv
  <2>6. MarkersFresh'
    BY <2>1, SameMarks
  <2>7. QED
    BY <2>1, <2>4, <2>5, <2>6, <1>3
<1>17. ASSUME NEW k \in pool, AddAll(k) PROVE FreshInv'
  <2>1. /\ UNCHANGED <<over, late, watched, edt>> /\ synced' = synced \cup k.got
        /\ k.at = "cleared" /\ pool' \subseteq pool
    BY <1>17 DEF AddAll
  <2>2. k.got \subseteq Names \X {k.s}
    BY <1>2 DEF PoolInv, TaskOK
  <2>3. k.s \in over => k.s \in late
    BY <2>1 DEF FreshInv, LateTask
  <2>4. MarkersFresh'
    BY <2>1, <2>2, <2>3, AddedMarks
  <2>5. QED
    BY <2>1, <2>4, <1>3
<1>18. ASSUME NEW k \in pool, Toggled(k) PROVE FreshInv'
  <2>1. Same /\ k.at = "asked" /\ pool' = (pool \ {k}) \cup {Task("sync", k.s, k.n + MaxPauses)}
    BY <1>18 DEF Toggled
  <2>2. LateTask(Task("sync", k.s, k.n + MaxPauses))
    BY DEF LateTask, Task
  <2>3. PICK j : Posts(j) /\ j.s = k.s
    BY <1>2, <1>18, TogglePosts
  <2>4. LateJob(j)
    BY <2>1, <2>3 DEF LateJob, FreshInv, LateTask
  <2>5. MarkersFresh'
    BY <2>1, SameMarks
  <2>6. QED
    BY <2>1, <2>2, <2>3, <2>4, <2>5, <1>3
<1>19. ASSUME NEW i \in DOMAIN edt, PaintCheck(i) \/ PaintOne(i) \/ RunClear(i) PROVE FreshInv'
  <2>1. Same /\ pool' = pool
    BY <1>19 DEF PaintCheck, PaintOne, RunClear, market
  <2>2. (\E d : Drops(d)) \/ (\E j : Turns(j))
    BY <1>19, EdtStepQueue DEF EdtStep, DataInv
  <2>3. QED
    BY <2>1, <2>2, <1>4
<1>20. ASSUME NEW i \in DOMAIN edt, RunMark(i) PROVE FreshInv'
  <2>1. UNCHANGED <<over, late, synced, pool>>
    BY <1>20 DEF RunMark
  <2>2. /\ Drops(i)
        /\ \/ edt[i].kind = "mark" /\ watched' = watched \cup (edt[i].what \X {edt[i].s})
           \/ watched' \subseteq watched
    BY <1>2, <1>20, MarkEffect
  <2>3. edt[i].kind = "mark" /\ edt[i].s \in over => edt[i].s \in late
    BY DEF FreshInv, LateJob
  <2>4. MarkersFresh'
    BY <2>1, <2>2, <2>3, SameMarks, AddedMarks
  <2>5. QED
    BY <2>1, <2>2, <2>4, <1>3
<1>21. QED
  BY <1>5, <1>6, <1>7, <1>8, <1>9, <1>10, <1>11, <1>12, <1>13, <1>14, <1>15, <1>16,
     <1>17, <1>18, <1>19, <1>20
  DEF Next, EdtStep

\* Markers of a session that was over when a new one started are gone, except
\* those that an evaluation already on its way brings (WatchpointMarkerService
\* clear, watch, unwatch and replaceSynced; AddWatchpointAction, HitHighlighter).
THEOREM FreshMarkers == FairSpec => []MarkersFresh
<1>1. Init => FreshInv
  BY DEF Init, FreshInv, MarkersFresh, LateTask, LateJob
<1>2. FreshInv => MarkersFresh
  BY DEF FreshInv
<1>3. QED
  BY <1>1, <1>2, InitIInv, NextIInv, InitData, NextData, NextLife, NextFresh, PTL DEF FairSpec

-----------------------------------------------------------------------------
(* The cross-frame markers and the runtime.                                *)

\* The tasks of P that have read and not yet stored all of what they read, and
\* whether the frame sync of a session is yet to read.
Reads(P) == {k \in P : k.at \in {"read", "cleared"}}
Pending(P, s) == \E k \in P : k.kind = "sync" /\ k.s = s /\ k.at \in {"ready", "asked"}

\* Unless reads crossed: one task at a time stores what it read; that is what the
\* runtime says, and so are the markers when it is done, while the session is
\* paused and no other sync of it is yet to read.
OneRead == \A j, k \in Reads(pool) : j = k
ClearedFirst == \A k \in Reads(pool) : k.at = "cleared" => synced = {}
ReadCurrent ==
  \A k \in Reads(pool) :
    k.s \in paused /\ ~ Pending(pool, k.s) => k.got = armed[k.s] \X {k.s}
SyncCurrent ==
  Reads(pool) = {} =>
    \A s \in reads.of : s \in paused /\ ~ Pending(pool, s) => synced = armed[s] \X {s}

SyncInv ==
  /\ reads \in [of : SUBSET Sessions, crossed : BOOLEAN]
  /\ ~ reads.crossed => OneRead /\ ClearedFirst /\ ReadCurrent /\ SyncCurrent

\* A step that no task that has read takes, and after which a session that is
\* paused with no sync to come was so before.
LEMMA SyncKept ==
  ASSUME SyncInv, Reads(pool') = Reads(pool), UNCHANGED <<synced, reads>>,
         \A s : s \in paused' /\ ~ Pending(pool', s) =>
                  s \in paused /\ ~ Pending(pool, s) /\ armed'[s] = armed[s]
  PROVE  SyncInv'
<1>1. SUFFICES ASSUME ~ reads.crossed
               PROVE  (OneRead /\ ClearedFirst /\ ReadCurrent /\ SyncCurrent)'
  BY DEF SyncInv
<1>2. OneRead /\ ClearedFirst /\ ReadCurrent /\ SyncCurrent
  BY <1>1 DEF SyncInv
<1>3. OneRead' /\ ClearedFirst'
  BY <1>2 DEF OneRead, ClearedFirst
<1>4. ReadCurrent'
  BY <1>2 DEF ReadCurrent
<1>5. SyncCurrent'
  BY <1>2 DEF SyncCurrent
<1>6. QED
  BY <1>3, <1>4, <1>5

LEMMA StartSync == ASSUME SyncInv, NEW s \in Sessions, Start(s) PROVE SyncInv'
<1>1. UNCHANGED <<pool, paused, armed>>
  BY DEF Start, market
<1>2. CASE ~ queued
  <2>1. UNCHANGED <<synced, reads>>
    BY <1>2 DEF Start, market
  <2>2. QED
    BY <1>1, <2>1 DEF SyncInv, OneRead, ClearedFirst, ReadCurrent, SyncCurrent
<1>3. CASE queued
  <2>1. synced' = {} /\ reads' = [reads EXCEPT !.of = {}]
    BY <1>3 DEF Start, SyncedCleared
  <2>2. reads'.crossed = reads.crossed
    BY <2>1
  <2>3. reads' \in [of : SUBSET Sessions, crossed : BOOLEAN] /\ reads'.of = {}
    BY <2>1 DEF SyncInv
  <2>4. QED
    BY <1>1, <2>1, <2>2, <2>3 DEF SyncInv, OneRead, ClearedFirst, ReadCurrent, SyncCurrent
<1>4. QED
  BY <1>2, <1>3

\* Tasks that come and go without having read, of other kinds than the frame sync.
LEMMA QuietPool ==
  ASSUME SyncInv, UNCHANGED <<synced, reads, armed>>, paused' \subseteq paused,
         Reads(pool') = Reads(pool),
         \A s : s \in paused' /\ Pending(pool, s) => Pending(pool', s)
  PROVE  SyncInv'
<1>1. \A s : s \in paused' /\ ~ Pending(pool', s) =>
               s \in paused /\ ~ Pending(pool, s) /\ armed'[s] = armed[s]
  OBVIOUS
<1>2. QED
  BY <1>1, SyncKept

LEMMA AskSync ==
  ASSUME LifeInv, PoolInv, SyncInv, NEW k \in pool, Ask(k) PROVE SyncInv'
<1>1. UNCHANGED <<synced, reads, armed, paused>>
  BY DEF Ask, market
<1>2. TaskOK(k) /\ k.at = "ready"
  BY DEF Ask, PoolInv
<1> DEFINE j == [k EXCEPT !.at = "asked"]
<1>3. j.s = k.s /\ j.kind = k.kind /\ j.at = "asked"
  BY <1>2, AskedTask
<1>4. \/ k.s \in disposed \cup Stopped /\ pool' = pool \ {k}
      \/ pool' = (pool \ {k}) \cup {j}
  BY DEF Ask
<1> HIDE DEF j
<1>5. Reads(pool') = Reads(pool)
  BY <1>2, <1>3, <1>4 DEF Reads
<1>6. \A s \in paused : s \notin disposed \cup Stopped
  BY DEF LifeInv, Stopped
<1>7. \A s : s \in paused' /\ Pending(pool, s) => Pending(pool', s)
  <2> SUFFICES ASSUME NEW s \in paused, Pending(pool, s) PROVE Pending(pool', s)
    BY <1>1
  <2>1. PICK t \in pool : t.kind = "sync" /\ t.s = s /\ t.at \in {"ready", "asked"}
    BY DEF Pending
  <2>2. CASE t # k
    <3>1. t \in pool'
      BY <2>2, <1>4
    <3>2. QED
      BY <3>1, <2>1 DEF Pending
  <2>3. CASE t = k
    <3>1. j \in pool'
      BY <2>1, <2>3, <1>4, <1>6
    <3>2. QED
      BY <3>1, <2>1, <2>3, <1>3 DEF Pending
  <2>4. QED
    BY <2>2, <2>3
<1>8. QED
  BY <1>1, <1>5, <1>7, QuietPool

LEMMA NoAnswerSync == ASSUME SyncInv, NEW k \in pool, NoAnswer(k) PROVE SyncInv'
<1>1. UNCHANGED <<synced, armed, paused>> /\ pool' = pool \ {k} /\ k.at = "asked"
  BY DEF NoAnswer
<1>2. CASE k.kind = "sync"
  <2>1. reads' = [reads EXCEPT !.crossed = TRUE]
    BY <1>2 DEF NoAnswer
  <2>2. reads' \in [of : SUBSET Sessions, crossed : BOOLEAN] /\ reads'.crossed
    BY <2>1 DEF SyncInv
  <2>3. QED
    BY <2>2 DEF SyncInv
<1>3. CASE k.kind # "sync"
  <2>1. reads' = reads
    BY <1>3 DEF NoAnswer
  <2>2. Reads(pool') = Reads(pool)
    BY <1>1 DEF Reads
  <2>3. \A s : Pending(pool, s) => Pending(pool', s)
    BY <1>1, <1>3 DEF Pending
  <2>4. QED
    BY <1>1, <2>1, <2>2, <2>3, QuietPool
<1>4. QED
  BY <1>2, <1>3

LEMMA LocatedSync == ASSUME PoolInv, SyncInv, NEW k \in pool, Located(k) PROVE SyncInv'
<1>1. UNCHANGED <<synced, armed, paused>> /\ k.kind = "sync"
  BY DEF Located
<1>2. TaskOK(k)
  BY DEF PoolInv
<1> DEFINE j == [k EXCEPT !.at = "read", !.got = armed[k.s] \X {k.s}]
           crossed == \E t \in pool : t.at \in {"read", "cleared"}
<1>3. j.s = k.s /\ j.at = "read" /\ j.got = armed[k.s] \X {k.s}
  BY <1>2 DEF TaskOK, PoolTask
<1>4. pool' = (pool \ {k}) \cup {j} /\ reads' = [reads EXCEPT !.crossed = crossed]
  BY DEF Located
<1>5. crossed \in BOOLEAN
  OBVIOUS
<1>6. crossed <=> Reads(pool) # {}
  BY DEF Reads
<1> HIDE DEF j, crossed
<1>7. reads' \in [of : SUBSET Sessions, crossed : BOOLEAN] /\ reads'.crossed = crossed
  BY <1>4, <1>5 DEF SyncInv
<1>8. ASSUME ~ crossed PROVE (OneRead /\ ClearedFirst /\ ReadCurrent /\ SyncCurrent)'
  <2>1. Reads(pool') = {j}
    BY <1>3, <1>4, <1>6, <1>8 DEF Reads
  <2>2. QED
    BY <2>1, <1>1, <1>3 DEF OneRead, ClearedFirst, ReadCurrent, SyncCurrent
<1>9. QED
  BY <1>7, <1>8 DEF SyncInv

LEMMA ReplaceSync == ASSUME PoolInv, SyncInv, NEW k \in pool, Replace(k) PROVE SyncInv'
<1>1. /\ UNCHANGED <<reads, armed, paused>> /\ k.at = "read" /\ synced' = {}
      /\ k \in Reads(pool)
  BY DEF Replace, ClearedSync, Reads
<1>2. TaskOK(k)
  BY DEF PoolInv
<1> DEFINE j == [k EXCEPT !.at = "cleared"]
<1>3. j.s = k.s /\ j.at = "cleared" /\ j.got = k.got
  BY <1>2 DEF TaskOK, PoolTask
<1>4. pool' = (pool \ {k}) \cup {j}
  BY DEF Replace
<1> HIDE DEF j
<1>5. ASSUME ~ reads.crossed PROVE (OneRead /\ ClearedFirst /\ ReadCurrent /\ SyncCurrent)'
  <2>1. OneRead /\ ReadCurrent
    BY <1>5 DEF SyncInv
  <2>2. Reads(pool') = {j}
    BY <2>1, <1>1, <1>3, <1>4 DEF Reads, OneRead
  <2>3. \A s : Pending(pool, s) => Pending(pool', s)
    BY <1>1, <1>4 DEF Pending
  <2>4. k.s \in paused /\ ~ Pending(pool', k.s) => k.got = armed[k.s] \X {k.s}
    BY <2>1, <2>3, <1>1 DEF ReadCurrent
  <2>5. QED
    BY <2>2, <2>4, <1>1, <1>3 DEF OneRead, ClearedFirst, ReadCurrent, SyncCurrent
<1>6. QED
  BY <1>1, <1>5 DEF SyncInv

LEMMA AddAllSync == ASSUME PoolInv, SyncInv, NEW k \in pool, AddAll(k) PROVE SyncInv'
<1>1. /\ UNCHANGED <<armed, paused>> /\ k.at = "cleared" /\ k \in Reads(pool)
      /\ synced' = synced \cup k.got
      /\ pool' = pool \ {k} /\ reads' = [reads EXCEPT !.of = {k.s}]
  BY DEF AddAll, Reads
<1>2. k.s \in Sessions
  BY DEF PoolInv, TaskOK, PoolTask
<1>3. /\ reads' \in [of : SUBSET Sessions, crossed : BOOLEAN]
      /\ reads'.crossed = reads.crossed /\ reads'.of = {k.s}
  BY <1>1, <1>2 DEF SyncInv
<1>4. ASSUME ~ reads.crossed PROVE (OneRead /\ ClearedFirst /\ ReadCurrent /\ SyncCurrent)'
  <2>1. OneRead /\ ReadCurrent /\ ClearedFirst
    BY <1>4 DEF SyncInv
  <2>2. Reads(pool') = {}
    BY <2>1, <1>1 DEF Reads, OneRead
  <2>3. \A s : Pending(pool, s) => Pending(pool', s)
    BY <1>1 DEF Pending
  <2>4. k.s \in paused /\ ~ Pending(pool', k.s) => synced' = armed[k.s] \X {k.s}
    BY <2>1, <2>3, <1>1 DEF ReadCurrent, ClearedFirst
  <2>5. QED
    BY <2>2, <2>4, <1>1, <1>3 DEF OneRead, ClearedFirst, ReadCurrent, SyncCurrent
<1>5. QED
  BY <1>3, <1>4 DEF SyncInv

LEMMA PauseSync ==
  ASSUME Budget, MarkInv, SyncInv, NEW s \in Sessions, Pause(s) PROVE SyncInv'
<1>0. CASE s \notin listening
  <2>1. reads' = [reads EXCEPT !.crossed = TRUE]
    BY <1>0 DEF Pause
  <2>2. QED
    BY <2>1 DEF SyncInv
<1> SUFFICES ASSUME s \in listening PROVE SyncInv'
  BY <1>0
<1>1. /\ UNCHANGED <<synced, reads>> /\ paused' \subseteq paused \cup {s}
      /\ \E now \in SUBSET Names : armed' = [armed EXCEPT ![s] = now]
  BY DEF Pause
<1> DEFINE j == Task("sync", s, left.pauses)
           d == Task("drain", s, left.pauses)
<1>2. pool' = pool \cup {j, d}
  BY DEF Pause
<1>3. j.kind = "sync" /\ j.s = s /\ j.at = "ready" /\ d.at = "ready"
  BY DEF Task
<1> HIDE DEF j, d
<1>4. Reads(pool') = Reads(pool)
  BY <1>2, <1>3 DEF Reads
<1>5. Pending(pool', s)
  BY <1>2, <1>3 DEF Pending
<1>6. \A r : Pending(pool, r) => Pending(pool', r)
  BY <1>2 DEF Pending
<1>7. \A r : r # s => armed'[r] = armed[r]
  BY <1>1 DEF MarkInv
<1>8. QED
  BY <1>1, <1>4, <1>5, <1>6, <1>7, SyncKept

LEMMA ToggleSync ==
  ASSUME SyncInv, NEW s \in Sessions, NEW n \in Names, Toggle(s, n) PROVE SyncInv'
<1>1. UNCHANGED <<synced, reads, armed, paused>>
  BY DEF Toggle, market
<1>2. PICK kind : pool' = pool \cup {[Task(kind, s, left.events) EXCEPT !.at = "asked", !.name = {n}]}
  BY DEF Toggle
<1> DEFINE k == [Task(kind, s, left.events) EXCEPT !.at = "asked", !.name = {n}]
<1>3. k.at = "asked"
  BY DEF Task
<1>4. pool' = pool \cup {k}
  BY <1>2
<1> HIDE DEF k
<1>5. Reads(pool') = Reads(pool)
  BY <1>3, <1>4 DEF Reads
<1>6. \A r : Pending(pool, r) => Pending(pool', r)
  BY <1>4 DEF Pending
<1>7. QED
  BY <1>1, <1>5, <1>6, QuietPool

LEMMA ToggledSync ==
  ASSUME PoolInv, MarkInv, SyncInv, NEW k \in pool, Toggled(k) PROVE SyncInv'
<1>1. /\ UNCHANGED <<synced, reads, paused>> /\ k.at = "asked" /\ k.kind \in {"watch", "unwatch"}
      /\ armed' = [armed EXCEPT ![k.s] = IF k.kind = "watch" THEN @ \cup k.name ELSE @ \ k.name]
  BY DEF Toggled
<1> DEFINE j == Task("sync", k.s, k.n + MaxPauses)
<1>2. pool' = (pool \ {k}) \cup {j}
  BY DEF Toggled
<1>3. j.kind = "sync" /\ j.s = k.s /\ j.at = "ready"
  BY DEF Task
<1> HIDE DEF j
<1>4. Reads(pool') = Reads(pool)
  BY <1>1, <1>2, <1>3 DEF Reads
<1>5. Pending(pool', k.s)
  BY <1>2, <1>3 DEF Pending
<1>6. \A r : Pending(pool, r) => Pending(pool', r)
  BY <1>1, <1>2 DEF Pending
<1>7. \A r : r # k.s => armed'[r] = armed[r]
  BY <1>1 DEF MarkInv
<1>8. QED
  BY <1>1, <1>4, <1>5, <1>6, <1>7, SyncKept

LEMMA NextSync == ASSUME LifeInv, DataInv, SyncInv, [Next]_vars PROVE SyncInv'
<1>1. PoolInv /\ MarkInv /\ Budget
  BY DEF DataInv
<1>2. CASE UNCHANGED <<synced, reads, armed, pool>> /\ paused' \subseteq paused
  BY <1>2, QuietPool
<1>3. CASE UNCHANGED vars \/ Click \/ Dialog
  BY <1>3, <1>2 DEF vars, market, Click, Dialog
<1>4. ASSUME NEW s \in Sessions, Start(s) \/ Pause(s) PROVE SyncInv'
  BY <1>4, <1>1, StartSync, PauseSync
<1>5. ASSUME NEW s \in Sessions,
             \/ AddBreakpoint(s) \/ Resume(s) \/ Halt(s)
             \/ SessionStopped(s) \/ Unhook(s) \/ Dispose(s)
      PROVE  SyncInv'
  BY <1>5, <1>2 DEF AddBreakpoint, Resume, Halt, SessionStopped, Unhook, Dispose, market
<1>6. ASSUME NEW s \in Sessions, NEW n \in Names, Toggle(s, n) PROVE SyncInv'
  BY <1>6, ToggleSync
<1>7. ASSUME NEW k \in pool,
             \/ Ask(k) \/ NoAnswer(k) \/ Located(k)
             \/ Replace(k) \/ AddAll(k) \/ Toggled(k)
      PROVE  SyncInv'
  BY <1>7, <1>1, AskSync, NoAnswerSync, LocatedSync, ReplaceSync, AddAllSync, ToggledSync
<1>8. ASSUME NEW k \in pool, Drained(k) PROVE SyncInv'
  <2>1. /\ UNCHANGED <<synced, reads, armed, paused>> /\ pool' = pool \ {k}
        /\ k.at = "asked" /\ k.kind = "drain"
    BY <1>8 DEF Drained
  <2>2. Reads(pool') = Reads(pool)
    BY <2>1 DEF Reads
  <2>3. \A s : Pending(pool, s) => Pending(pool', s)
    BY <2>1 DEF Pending
  <2>4. QED
    BY <2>1, <2>2, <2>3, QuietPool
<1>9. ASSUME NEW i \in DOMAIN edt, EdtStep(i) PROVE SyncInv'
  BY <1>9, <1>2 DEF EdtStep, PaintCheck, PaintOne, RunClear, RunMark, market
<1>10. QED
  BY <1>3, <1>4, <1>5, <1>6, <1>7, <1>8, <1>9 DEF Next

\* When no read is on its way the cross-frame markers are what the runtime of the
\* session last synced says while it is paused, unless two reads crossed or one
\* failed (WatchpointMarkerService.replaceSynced, WatchpointFrameSync).
THEOREM SyncedMarkers == FairSpec => []SyncedAgrees
<1>1. Init => SyncInv
  <2> SUFFICES ASSUME Init PROVE SyncInv
    OBVIOUS
  <2>1. pool = {} /\ reads = [of |-> {}, crossed |-> FALSE]
    BY DEF Init
  <2>2. QED
    BY <2>1 DEF SyncInv, OneRead, ClearedFirst, ReadCurrent, SyncCurrent, Reads
<1>2. DataInv /\ SyncInv => SyncedAgrees
  <2> SUFFICES ASSUME DataInv, SyncInv, NEW s \in reads.of,
                      s \in paused, ~ reads.crossed, \A k \in pool : k.kind = "drain"
               PROVE  synced = armed[s] \X {s}
    BY DEF SyncedAgrees
  <2>1. Reads(pool) = {} /\ ~ Pending(pool, s)
    BY DEF Reads, Pending, DataInv, PoolInv, TaskOK
  <2>2. SyncCurrent
    BY DEF SyncInv
  <2>3. QED
    BY <2>1, <2>2 DEF SyncCurrent
<1>3. QED
  BY <1>1, <1>2, InitIInv, NextIInv, InitData, NextData, NextLife, NextSync, PTL DEF FairSpec

-----------------------------------------------------------------------------
(* The decorations of a session keep the promise of Decoration.            *)

Ending(q, s) == \E i \in DOMAIN q : q[i].kind = FinalClear /\ q[i].s = s

EndsOnce(q) ==
  \A i, j \in DOMAIN q :
    q[i].kind = FinalClear /\ q[j].kind = FinalClear /\ q[i].s = q[j].s => i = j

\* Between a paint task's look at disposed and its painting no dialog opens, and
\* the last clear of its session cannot overtake it.
StillOpen ==
  \A i \in DOMAIN edt : edt[i].at = "checked" =>
    ~ modal /\ (edt[i].s \in disposed => Ending(edt, edt[i].s))

\* The last clear is posted once, by the disposal.
CloseInv ==
  /\ EndsOnce(edt)
  /\ \A s : Ending(edt, s) => s \in disposed
  /\ StillOpen

LEMMA PostEnding ==
  ASSUME Queue(edt), NEW j, Posts(j)
  PROVE  /\ \A s : Ending(edt', s) <=> Ending(edt, s) \/ (j.kind = FinalClear /\ j.s = s)
         /\ EndsOnce(edt) /\ (j.kind = FinalClear => ~ Ending(edt, j.s)) => EndsOnce(edt')
<1>1. /\ Queue(Append(edt, j)) /\ Len(Append(edt, j)) = Len(edt) + 1
      /\ \A n \in 1 .. Len(edt) : Append(edt, j)[n] = edt[n]
      /\ Append(edt, j)[Len(edt) + 1] = j
  BY AppendQueue DEF Posts
<1>2. edt \in Seq(Job) /\ edt' \in Seq(Job) /\ edt' = Append(edt, j)
  BY <1>1 DEF Queue, Posts
<1>3. DOMAIN edt = 1 .. Len(edt) /\ DOMAIN edt' = 1 .. Len(edt) + 1 /\ Len(edt) \in Nat
  BY <1>1, <1>2, LenProperties
<1> DEFINE last == Len(edt) + 1
<1>4. /\ last \in DOMAIN edt' /\ edt'[last] = j
      /\ \A n \in DOMAIN edt : n \in DOMAIN edt' /\ edt'[n] = edt[n]
      /\ \A n \in DOMAIN edt' : n = last \/ n \in DOMAIN edt
  BY <1>1, <1>2, <1>3
<1> HIDE DEF last
<1>5. \A s : Ending(edt', s) <=> Ending(edt, s) \/ (j.kind = FinalClear /\ j.s = s)
  BY <1>4 DEF Ending
<1>6. ASSUME EndsOnce(edt), j.kind = FinalClear => ~ Ending(edt, j.s) PROVE EndsOnce(edt')
  BY <1>4, <1>6 DEF EndsOnce, Ending
<1>7. QED
  BY <1>5, <1>6

LEMMA DropEnding ==
  ASSUME Queue(edt), EndsOnce(edt), NEW d, Drops(d)
  PROVE  /\ \A s : Ending(edt', s) <=>
                     Ending(edt, s) /\ ~ (edt[d].kind = FinalClear /\ edt[d].s = s)
         /\ EndsOnce(edt')
<1>1. edt \in Seq(Job) /\ d \in DOMAIN edt /\ edt' = RemoveAt(edt, d)
  BY DEF Queue, Drops
<1>2. DOMAIN edt = 1 .. Len(edt) /\ Len(edt) \in Nat
  BY <1>1, LenProperties
<1>3. /\ DOMAIN edt' = 1 .. Len(edt) - 1
      /\ \A n \in 1 .. Len(edt) - 1 : edt'[n] = IF n < d THEN edt[n] ELSE edt[n + 1]
  BY <1>1, GoneQueue
<1> DEFINE was(n) == IF n < d THEN n ELSE n + 1
<1>4. \A n \in DOMAIN edt' : was(n) \in DOMAIN edt /\ was(n) # d /\ edt'[n] = edt[was(n)]
  BY <1>1, <1>2, <1>3
<1>5. \A n, m \in DOMAIN edt' : was(n) = was(m) => n = m
  BY <1>1, <1>2, <1>3
<1>6. \A m \in DOMAIN edt : m # d => \E n \in DOMAIN edt' : was(n) = m
  <2> SUFFICES ASSUME NEW m \in DOMAIN edt, m # d PROVE \E n \in DOMAIN edt' : was(n) = m
    OBVIOUS
  <2>1. CASE m < d
    BY <2>1, <1>1, <1>2, <1>3
  <2>2. CASE ~ m < d
    <3>1. m - 1 \in DOMAIN edt' /\ was(m - 1) = m
      BY <2>2, <1>1, <1>2, <1>3
    <3>2. QED
      BY <3>1
  <2>3. QED
    BY <2>1, <2>2
<1> HIDE DEF was
<1>7. EndsOnce(edt')
  BY <1>4, <1>5 DEF EndsOnce
<1>8. ASSUME NEW s, Ending(edt', s)
      PROVE  Ending(edt, s) /\ ~ (edt[d].kind = FinalClear /\ edt[d].s = s)
  <2>1. PICK n \in DOMAIN edt' : edt'[n].kind = FinalClear /\ edt'[n].s = s
    BY <1>8 DEF Ending
  <2>2. QED
    BY <2>1, <1>1, <1>4 DEF Ending, EndsOnce
<1>9. ASSUME NEW s, Ending(edt, s), ~ (edt[d].kind = FinalClear /\ edt[d].s = s)
      PROVE  Ending(edt', s)
  <2>1. PICK m \in DOMAIN edt : edt[m].kind = FinalClear /\ edt[m].s = s
    BY <1>9 DEF Ending
  <2>2. m # d
    BY <2>1, <1>9
  <2>3. PICK n \in DOMAIN edt' : was(n) = m
    BY <2>2, <1>6
  <2>4. QED
    BY <2>1, <2>3, <1>4 DEF Ending
<1>10. QED
  BY <1>7, <1>8, <1>9

LEMMA TurnEnding ==
  ASSUME Queue(edt), NEW j, Turns(j)
  PROVE  /\ \A s : Ending(edt', s) <=> Ending(edt, s)
         /\ EndsOnce(edt) => EndsOnce(edt')
<1>1. DOMAIN edt' = DOMAIN edt /\ \A i \in DOMAIN edt : edt'[i] = IF i = 1 THEN j ELSE edt[i]
  BY TurnElements
<1>2. j.kind # FinalClear /\ edt[1].kind # FinalClear
  BY DEF Turns, FinalClear
<1>3. QED
  BY <1>1, <1>2 DEF Ending, EndsOnce

\* The steps of the event thread come from a queue whose first task has not
\* started, or are steps of that task.
LEMMA StillOpenKept ==
  ASSUME Queue(edt), CloseInv, disposed' = disposed,
         \/ modal' = modal /\ edt' = edt
         \/ modal' = modal /\ \E j : Posts(j)
         \/ (\A i \in DOMAIN edt : edt[i].at # "checked") /\ edt' = edt
         \/ modal' = modal /\ \E d : Drops(d) /\ Runs(d)
         \/ \E j : Turns(j) /\ j.at = "queued"
         \/ \E j : Turns(j) /\ j.s \notin disposed /\ ~ modal /\ modal' = modal
  PROVE  StillOpen'
<1>1. SUFFICES ASSUME NEW i \in DOMAIN edt', edt'[i].at = "checked"
               PROVE  ~ modal' /\ (edt'[i].s \in disposed => Ending(edt', edt'[i].s))
  BY DEF StillOpen
<1>2. StillOpen
  BY DEF CloseInv
<1>3. CASE modal' = modal /\ edt' = edt
  BY <1>1, <1>2, <1>3 DEF StillOpen
<1>4. ASSUME modal' = modal, NEW j, Posts(j)
      PROVE  ~ modal' /\ (edt'[i].s \in disposed => Ending(edt', edt'[i].s))
  <2>1. j.at # "checked"
    BY <1>4 DEF Posts
  <2>2. PICK n \in DOMAIN edt : edt'[i] = edt[n]
    BY <2>1, <1>1, <1>4, PostElements
  <2>3. QED
    BY <2>2, <1>1, <1>2, <1>4, PostEnding DEF StillOpen
<1>5. CASE (\A n \in DOMAIN edt : edt[n].at # "checked") /\ edt' = edt
  BY <1>1, <1>5
<1>6. ASSUME modal' = modal, NEW d, Drops(d), Runs(d) PROVE FALSE
  <2>1. PICK n \in DOMAIN edt : n # d /\ edt'[i] = edt[n]
    BY <1>6, DropElements
  <2>2. n = 1 /\ ~ modal
    BY <2>1, <1>1, <1>2 DEF Queue, StillOpen
  <2>3. d = 1
    BY <2>2, <1>6 DEF Runs
  <2>4. QED
    BY <2>1, <2>2, <2>3
<1>7. ASSUME NEW j, Turns(j), j.at = "queued" PROVE FALSE
  <2>1. i \in DOMAIN edt /\ edt'[i] = IF i = 1 THEN j ELSE edt[i]
    BY <1>7, TurnElements
  <2>2. QED
    BY <2>1, <1>1, <1>7 DEF Queue
<1>8. ASSUME NEW j, Turns(j), j.s \notin disposed, ~ modal, modal' = modal
      PROVE  ~ modal' /\ (edt'[i].s \in disposed => Ending(edt', edt'[i].s))
  <2>1. i \in DOMAIN edt /\ edt'[i] = IF i = 1 THEN j ELSE edt[i]
    BY <1>8, TurnElements
  <2>2. i = 1
    BY <2>1, <1>1 DEF Queue
  <2>3. QED
    BY <2>1, <2>2, <1>8
<1>9. QED
  BY <1>3, <1>4, <1>5, <1>6, <1>7, <1>8

\* What a step does to the queue, with the parts of the promise it disturbs: the
\* disposal of a session posts its last clear, which is posted by nothing else;
\* and only the task that runs is gone.
QuietEnd ==
  /\ disposed' = disposed /\ painted' = painted
  /\ \/ modal' = modal /\ edt' = edt
     \/ modal' = modal /\ \E j : Posts(j) /\ j.kind # FinalClear
     \/ (\A i \in DOMAIN edt : edt[i].at # "checked") /\ edt' = edt
     \/ modal' = modal /\ \E d : Drops(d) /\ Runs(d) /\ edt[d].kind # FinalClear
     \/ \E j : Turns(j) /\ j.s \notin disposed /\ ~ modal /\ modal' = modal

LEMMA QuietClose == ASSUME Queue(edt), CloseInv, QuietEnd PROVE CloseInv'
<1>1. EndsOnce(edt)
  BY DEF CloseInv
<1>2. EndsOnce(edt') /\ \A s : Ending(edt', s) <=> Ending(edt, s)
  <2>1. CASE edt' = edt
    BY <2>1, <1>1
  <2>2. ASSUME NEW j, Posts(j), j.kind # FinalClear
        PROVE  EndsOnce(edt') /\ \A s : Ending(edt', s) <=> Ending(edt, s)
    BY <2>2, <1>1, PostEnding
  <2>3. ASSUME NEW d, Drops(d), edt[d].kind # FinalClear
        PROVE  EndsOnce(edt') /\ \A s : Ending(edt', s) <=> Ending(edt, s)
    BY <2>3, <1>1, DropEnding
  <2>4. ASSUME NEW j, Turns(j)
        PROVE  EndsOnce(edt') /\ \A s : Ending(edt', s) <=> Ending(edt, s)
    BY <2>4, <1>1, TurnEnding
  <2>5. QED
    BY <2>1, <2>2, <2>3, <2>4 DEF QuietEnd
<1>3. StillOpen'
  BY StillOpenKept DEF QuietEnd
<1>4. \A s : Ending(edt', s) => s \in disposed'
  BY <1>2 DEF CloseInv, QuietEnd
<1>5. QED
  BY <1>2, <1>3, <1>4 DEF CloseInv

\* Steps of sessions, of pooled threads and of dialogs, the disposal apart.
LEMMA OtherQuiet ==
  ASSUME DataInv, [Next]_vars,
         ~ \E s \in Sessions : Dispose(s),
         ~ \E i \in DOMAIN edt : EdtStep(i)
  PROVE  QuietEnd
<1>1. Budget /\ PoolInv /\ Queue(edt)
  BY DEF DataInv
<1>2. FinalClear \notin {"clear", "paint", "mark", "unmark"}
  BY DEF FinalClear
<1>3. CASE UNCHANGED <<disposed, painted, modal, edt>>
  BY <1>3 DEF QuietEnd
<1>4. CASE UNCHANGED vars \/ Click
  BY <1>4, <1>3 DEF vars, hooks, Click
<1>5. CASE Dialog
  <2>1. edt' = edt /\ disposed' = disposed /\ painted' = painted /\ ~ Started
    BY <1>5 DEF Dialog, hooks
  <2>2. \A i \in DOMAIN edt : edt[i].at # "checked"
    <3> SUFFICES ASSUME NEW i \in DOMAIN edt, edt[i].at = "checked" PROVE FALSE
      OBVIOUS
    <3>1. i = 1
      BY <1>1 DEF Queue
    <3>2. edt # << >>
      BY <1>1, EdtJob
    <3>3. Head(edt) = edt[1]
      OBVIOUS
    <3>4. QED
      BY <3>1, <3>2, <3>3, <2>1 DEF Started
  <2>3. QED
    BY <2>1, <2>2 DEF QuietEnd
<1>6. ASSUME NEW s \in Sessions,
             \/ Start(s) \/ AddBreakpoint(s) \/ Pause(s) \/ Halt(s) \/ Unhook(s)
             \/ \E n \in Names : Toggle(s, n)
      PROVE  QuietEnd
  BY <1>6, <1>3 DEF Start, AddBreakpoint, Pause, Halt, Unhook, Toggle, hooks
<1>7. ASSUME NEW s \in Sessions, Resume(s) \/ SessionStopped(s) PROVE QuietEnd
  <2>1. UNCHANGED <<disposed, painted, modal>>
    BY <1>7 DEF Resume, SessionStopped, hooks
  <2>2. edt' = edt \/ \E j : Posts(j) /\ j.kind = "clear"
    BY <1>7, SessionPosts
  <2>3. QED
    BY <2>1, <2>2, <1>2 DEF QuietEnd
<1>8. ASSUME NEW k \in pool, Ask(k) \/ NoAnswer(k) \/ Located(k) \/ Replace(k) \/ AddAll(k)
      PROVE  QuietEnd
  BY <1>8, <1>3 DEF Ask, NoAnswer, Located, Replace, AddAll, hooks
<1>9. ASSUME NEW k \in pool, Drained(k) \/ Toggled(k) PROVE QuietEnd
  <2>1. UNCHANGED <<disposed, painted, modal>>
    BY <1>9 DEF Drained, Toggled, hooks
  <2>2. \E j : Posts(j) /\ j.kind \in {"paint", "mark", "unmark"}
    BY <1>1, <1>9, DrainPosts, TogglePosts
  <2>3. QED
    BY <2>1, <2>2, <1>2 DEF QuietEnd
<1>10. QED
  BY <1>4, <1>5, <1>6, <1>7, <1>8, <1>9 DEF Next

LEMMA MarkQuiet ==
  ASSUME Queue(edt), NEW i \in DOMAIN edt, PaintCheck(i) \/ RunMark(i) PROVE QuietEnd
<1>1. CASE PaintCheck(i)
  <2>1. i = 1 /\ ~ modal /\ UNCHANGED <<painted, modal, disposed>> /\ Runs(i)
    BY <1>1, CheckEffect DEF PaintCheck
  <2>2. \/ Drops(1) /\ edt[1].kind # FinalClear
        \/ \E j : Turns(j) /\ j.s \notin disposed
    BY <1>1, CheckEffect DEF FinalClear
  <2>3. QED
    BY <2>1, <2>2 DEF QuietEnd
<1>2. CASE RunMark(i)
  <2>1. Runs(i) /\ Drops(i) /\ UNCHANGED <<painted, modal, disposed>>
    BY <1>2, MarkEffect
  <2>2. edt[i].kind # FinalClear
    BY <1>2, MarkEffect DEF FinalClear
  <2>3. QED
    BY <2>1, <2>2 DEF QuietEnd
<1>3. QED
  BY <1>1, <1>2

LEMMA DisposeClose ==
  ASSUME LifeInv, Queue(edt), CloseInv, NEW s \in Sessions, Dispose(s)
  PROVE  /\ CloseInv'
         /\ \/ disposed' = disposed /\ edt' = edt
            \/ /\ s \notin disposed /\ disposed' = disposed \cup {s}
               /\ Ending(edt', s)
               /\ \A r : r # s => (Ending(edt', r) <=> Ending(edt, r))
<1>1. modal' = modal
  BY DisposePosts
<1>2. CASE s \notin registered
  <2>1. disposed' = disposed /\ edt' = edt
    BY <1>2, DisposePosts
  <2>2. QED
    BY <1>1, <2>1 DEF CloseInv, StillOpen
<1>3. CASE s \in registered
  <2>1. disposed' = disposed \cup {s}
    BY <1>3, DisposePosts
  <2>2. PICK j : Posts(j) /\ j.kind = FinalClear /\ j.s = s
    BY <1>3, DisposePosts
  <2>3. s \notin disposed
    BY <1>3 DEF LifeInv
  <2>4. ~ Ending(edt, s)
    BY <2>3 DEF CloseInv
  <2>5. /\ EndsOnce(edt')
        /\ \A r : Ending(edt', r) <=> Ending(edt, r) \/ r = s
    BY <2>2, <2>4, PostEnding DEF CloseInv
  <2>6. \A r : Ending(edt', r) => r \in disposed'
    BY <2>1, <2>5 DEF CloseInv
  <2>7. ASSUME NEW i \in DOMAIN edt', edt'[i].at = "checked"
        PROVE  ~ modal' /\ (edt'[i].s \in disposed' => Ending(edt', edt'[i].s))
    <3>1. j.at # "checked"
      BY <2>2 DEF Posts
    <3>2. PICK n \in DOMAIN edt : edt'[i] = edt[n]
      BY <3>1, <2>2, <2>7, PostElements
    <3>3. ~ modal /\ (edt[n].s \in disposed => Ending(edt, edt[n].s))
      BY <3>2, <2>7 DEF CloseInv, StillOpen
    <3>4. QED
      BY <3>2, <3>3, <1>1, <2>1, <2>5
  <2>8. CloseInv'
    BY <2>5, <2>6, <2>7 DEF CloseInv, StillOpen
  <2>9. QED
    BY <2>1, <2>3, <2>5, <2>8
<1>4. QED
  BY <1>2, <1>3

LEMMA PaintClose ==
  ASSUME Queue(edt), CloseInv, NEW i \in DOMAIN edt, PaintOne(i)
  PROVE  /\ CloseInv' /\ disposed' = disposed
         /\ \A s : Ending(edt', s) <=> Ending(edt, s)
         /\ edt[1].s \in disposed => Ending(edt, edt[1].s)
<1>1. /\ i = 1 /\ ~ modal /\ modal' = modal /\ disposed' = disposed
      /\ edt[1].kind = "paint" /\ edt[1].at = "checked"
  BY PaintEffect
<1>2. Drops(1) \/ \E j : Turns(j) /\ j.at = "queued"
  BY PaintEffect
<1>3. Runs(1)
  BY <1>1 DEF PaintOne
<1>4. StillOpen'
  BY <1>1, <1>2, <1>3, StillOpenKept
<1>5. edt[1].kind # FinalClear
  BY <1>1 DEF FinalClear
<1>6. EndsOnce(edt') /\ \A s : Ending(edt', s) <=> Ending(edt, s)
  BY <1>2, <1>5, DropEnding, TurnEnding DEF CloseInv
<1>7. CloseInv'
  BY <1>1, <1>4, <1>6 DEF CloseInv
<1>8. edt[1].s \in disposed => Ending(edt, edt[1].s)
  BY <1>1 DEF CloseInv, StillOpen
<1>9. QED
  BY <1>1, <1>6, <1>7, <1>8

LEMMA ClearClose ==
  ASSUME MarkInv, Queue(edt), CloseInv, NEW i \in DOMAIN edt, RunClear(i)
  PROVE  /\ CloseInv' /\ disposed' = disposed
         /\ edt[i].kind = FinalClear => edt[i].s \in disposed
         /\ \A s : Ending(edt', s) <=>
                     Ending(edt, s) /\ ~ (edt[i].kind = FinalClear /\ edt[i].s = s)
<1>1. Runs(i) /\ Drops(i) /\ UNCHANGED <<modal, disposed>>
  BY ClearEffect
<1>2. /\ EndsOnce(edt')
      /\ \A s : Ending(edt', s) <=>
                  Ending(edt, s) /\ ~ (edt[i].kind = FinalClear /\ edt[i].s = s)
  BY <1>1, DropEnding DEF CloseInv
<1>3. StillOpen'
  BY <1>1, StillOpenKept
<1>4. CloseInv'
  BY <1>1, <1>2, <1>3 DEF CloseInv
<1>5. edt[i].kind = FinalClear => edt[i].s \in disposed
  BY DEF CloseInv, Ending
<1>6. QED
  BY <1>1, <1>2, <1>4, <1>5

LEMMA NextClose == ASSUME LifeInv, DataInv, CloseInv, [Next]_vars PROVE CloseInv'
<1>1. MarkInv /\ Queue(edt)
  BY DEF DataInv
<1>2. ASSUME NEW s \in Sessions, Dispose(s) PROVE CloseInv'
  BY <1>1, <1>2, DisposeClose
<1>3. ASSUME NEW i \in DOMAIN edt, EdtStep(i) PROVE CloseInv'
  BY <1>1, <1>3, MarkQuiet, QuietClose, PaintClose, ClearClose DEF EdtStep
<1>4. CASE /\ ~ \E s \in Sessions : Dispose(s)
           /\ ~ \E i \in DOMAIN edt : EdtStep(i)
  BY <1>1, <1>4, OtherQuiet, QuietClose
<1>5. QED
  BY <1>2, <1>3, <1>4

\* The stages of all sessions, as Decoration sees them.
Staged == [s \in Sessions |-> Stage(s)]

LEMMA SameStages ==
  ASSUME disposed' = disposed, \A s : Ending(edt', s) <=> Ending(edt, s)
  PROVE  Staged' = Staged
<1>1. \A s : Stage(s)' = Stage(s)
  BY DEF Stage, Ending
<1>2. QED
  BY <1>1 DEF Staged

LEMMA QuietStages == ASSUME Queue(edt), CloseInv, QuietEnd PROVE Staged' = Staged
<1>1. EndsOnce(edt)
  BY DEF CloseInv
<1>2. \A s : Ending(edt', s) <=> Ending(edt, s)
  BY <1>1, PostEnding, DropEnding, TurnEnding DEF QuietEnd
<1>3. QED
  BY <1>2, SameStages DEF QuietEnd

\* Every step of IdeSession is a step of Decoration, or changes nothing there: a
\* started paint task shows decorations, a clear hides them, the disposal closes
\* the session and its last clear finishes it.
LEMMA StepDecorates ==
  ASSUME LifeInv, DataInv, CloseInv, [Next]_vars PROVE D!Next \/ UNCHANGED D!vars
<1>1. MarkInv /\ Queue(edt)
  BY DEF DataInv
<1>2. CASE QuietEnd
  <2>1. painted' = painted /\ Staged' = Staged
    BY <1>1, <1>2, QuietStages DEF QuietEnd
  <2>2. QED
    BY <2>1 DEF D!vars, Staged
<1>3. ASSUME NEW s \in Sessions, Dispose(s) PROVE D!Next \/ UNCHANGED D!vars
  <2>1. painted' = painted
    BY <1>3, DisposePosts
  <2>2. CASE disposed' = disposed /\ edt' = edt
    <3>1. Staged' = Staged
      BY <2>2, SameStages
    <3>2. QED
      BY <2>1, <3>1 DEF D!vars, Staged
  <2>3. CASE /\ s \notin disposed /\ disposed' = disposed \cup {s}
             /\ Ending(edt', s)
             /\ \A r : r # s => (Ending(edt', r) <=> Ending(edt, r))
    <3>1. Stage(s) = "open" /\ Stage(s)' = "closing"
      BY <2>3 DEF Stage, Ending
    <3>2. \A r \in Sessions \ {s} : Stage(r)' = Stage(r)
      BY <2>3 DEF Stage, Ending
    <3>3. Staged' = [Staged EXCEPT ![s] = "closing"] /\ Staged[s] = "open"
      BY <3>1, <3>2 DEF Staged
    <3>4. D!Close(s)
      BY <2>1, <3>3 DEF D!Close, Staged
    <3>5. QED
      BY <3>4 DEF D!Next
  <2>4. QED
    BY <1>1, <1>3, <2>2, <2>3, DisposeClose
<1>4. ASSUME NEW i \in DOMAIN edt, PaintOne(i) PROVE D!Next \/ UNCHANGED D!vars
  <2>1. /\ disposed' = disposed
        /\ \A s : Ending(edt', s) <=> Ending(edt, s)
        /\ edt[1].s \in disposed => Ending(edt, edt[1].s)
    BY <1>1, <1>4, PaintClose
  <2>2. Staged' = Staged
    BY <2>1, SameStages
  <2>3. /\ i = 1 /\ edt[1].kind = "paint"
        /\ \/ painted' = painted
           \/ \E h \in edt[1].what : painted' = [painted EXCEPT ![edt[1].s] = @ \cup {h}]
    BY <1>1, <1>4, PaintEffect
  <2>4. edt[1].s \in Sessions /\ edt[1].what \subseteq Hits
    BY <1>1, <2>3, EdtJob, JobShape
  <2>5. CASE painted' = painted
    BY <2>2, <2>5 DEF D!vars, Staged
  <2>6. ASSUME NEW h \in edt[1].what, painted' = [painted EXCEPT ![edt[1].s] = @ \cup {h}]
        PROVE  D!Next
    <3>1. Staged[edt[1].s] # "gone"
      BY <2>1, <2>4 DEF Staged, Stage, Ending
    <3>2. D!Show(edt[1].s, h)
      BY <2>2, <2>6, <3>1 DEF D!Show, Staged
    <3>3. QED
      BY <2>4, <2>6, <3>2 DEF D!Next
  <2>7. QED
    BY <2>3, <2>5, <2>6
<1>5. ASSUME NEW i \in DOMAIN edt, RunClear(i) PROVE D!Next \/ UNCHANGED D!vars
  <2>0. PICK s : s = edt[i].s
    OBVIOUS
  <2>1. /\ disposed' = disposed
        /\ edt[i].kind = FinalClear => s \in disposed
        /\ \A r : Ending(edt', r) <=> Ending(edt, r) /\ ~ (edt[i].kind = FinalClear /\ s = r)
    BY <1>1, <1>5, <2>0, ClearClose
  <2>2. s \in Sessions /\ painted' = [painted EXCEPT ![s] = {}]
    BY <1>1, <1>5, <2>0, ClearEffect
  <2>3. edt[i].kind = FinalClear => Ending(edt, s)
    BY <2>0 DEF Ending
  <2>4. CASE edt[i].kind # FinalClear
    <3>1. Staged' = Staged
      BY <2>1, <2>4, SameStages
    <3>2. D!Hide(s)
      BY <2>2, <3>1 DEF D!Hide, Staged
    <3>3. QED
      BY <2>2, <3>2 DEF D!Next
  <2>5. CASE edt[i].kind = FinalClear
    <3>1. Stage(s) = "closing" /\ Stage(s)' = "gone"
      BY <2>1, <2>3, <2>5 DEF Stage, Ending
    <3>2. \A r \in Sessions \ {s} : Stage(r)' = Stage(r)
      BY <2>1 DEF Stage, Ending
    <3>3. Staged' = [Staged EXCEPT ![s] = "gone"] /\ Staged[s] = "closing"
      BY <2>2, <3>1, <3>2 DEF Staged
    <3>4. D!Finish(s)
      BY <2>2, <3>3 DEF D!Finish, Staged
    <3>5. QED
      BY <2>2, <3>4 DEF D!Next
  <2>6. QED
    BY <2>4, <2>5
<1>6. ASSUME NEW i \in DOMAIN edt, PaintCheck(i) \/ RunMark(i) PROVE QuietEnd
  BY <1>1, <1>6, MarkQuiet
<1>7. CASE /\ ~ \E s \in Sessions : Dispose(s)
           /\ ~ \E i \in DOMAIN edt : EdtStep(i)
  BY <1>2, <1>7, OtherQuiet
<1>8. QED
  BY <1>2, <1>3, <1>4, <1>5, <1>6, <1>7 DEF EdtStep

LEMMA InitClose == ASSUME Init PROVE CloseInv /\ D!Init
<1>1. DOMAIN edt = {}
  BY InitData, EmptySeq, LenProperties DEF Init
<1>2. CloseInv
  BY <1>1 DEF CloseInv, EndsOnce, Ending, StillOpen
<1>3. \A s \in Sessions : Stage(s) = "open"
  BY DEF Init, Stage
<1>4. D!Init
  BY <1>3 DEF Init, D!Init
<1>5. QED
  BY <1>2, <1>4

\* The decorations of a session implement Decoration's promise, its fairness
\* apart: nothing is painted once the last clear has run, and a session that was
\* disposed does not open again (HitHighlighter applyHighlight, clearHighlight,
\* dispose).
THEOREM DecorationSafe == FairSpec => D!Safe
<1>1. IInv /\ LifeInv /\ DataInv /\ CloseInv /\ [Next]_vars
        => IInv' /\ LifeInv' /\ DataInv' /\ CloseInv'
  BY NextIInv, NextLife, NextData, NextClose
<1>2. LifeInv /\ DataInv /\ CloseInv /\ [Next]_vars => [D!Next]_(D!vars)
  BY StepDecorates
<1>3. Init => IInv /\ LifeInv /\ DataInv /\ CloseInv /\ D!Init
  BY InitIInv, InitData, InitClose
<1>4. QED
  BY <1>1, <1>2, <1>3, PTL DEF FairSpec, D!Safe
=============================================================================
