---------------------------- MODULE HitPipeline ----------------------------
(***************************************************************************)
(* From a detected change to a pause in the IDE: _handle_hit and the       *)
(* selection of pause targets, the pause of _on_line, the drain by the IDE *)
(* and clear_watches.                                                      *)
(*                                                                         *)
(* The registry's lock is held for single steps only: every action below   *)
(* is one section under the lock, or one step between two such sections.   *)
(* Threads interleave at that grain.  The program under debug is left      *)
(* open: a running thread may make a watched change with any stack of      *)
(* Stacks, and may reach any line.                                         *)
(*                                                                         *)
(* The debugger is attached (without it _handle_hit raises WatchpointHit). *)
(***************************************************************************)
EXTENDS Integers, FiniteSets, Sequences

CONSTANTS
  Threads,     \* threads of the debugged program
  Codes,       \* code objects
  Lines,       \* line numbers, from 1 on
  File,        \* File[c]: co_filename
  Real,        \* Real[c]: the real path pydevd knows the file by
  User,        \* code objects of user code; the others are library code
  Stacks,      \* call stacks of a change, the changing frame first, without
               \* the frames of the runtime and of pydevd, which are skipped
  NextLine,    \* NextLine[c][l]: _next_code_line_in, 0 for None
  ByteNext,    \* ByteNext[c][l]: _next_code_line_after_frame, 0 for None
  Watches,     \* names of watches
  MaxQueue,    \* _MAX_HIT_QUEUE_SIZE
  MaxHits,     \* bound: hits queued in a behaviour
  MaxFaults    \* bound: failed installations and suspensions, and calls of
               \* clear_watches()

Slots == Codes \X Lines

ASSUME PipelineAssumption ==
  /\ IsFiniteSet(Threads)
  /\ Lines \subseteq Nat \ {0}
  /\ \A l \in Lines : l - 1 \in Lines \cup {0}
  /\ User \subseteq Codes
  /\ Stacks \subseteq Seq([code : Codes, line : Lines])
  /\ \A s \in Stacks : \E i \in DOMAIN s : s[i].code \in User
  /\ NextLine \in [Codes -> [Lines \cup {0} -> Lines \cup {0}]]
  /\ \A c \in Codes, l \in Lines \cup {0} :
       NextLine[c][l] # 0 => l < NextLine[c][l]
  /\ ByteNext \in [Codes -> [Lines -> Lines \cup {0}]]
  /\ {MaxQueue, MaxHits, MaxFaults} \subseteq Nat
  /\ MaxQueue > 0

VARIABLES
  pc,        \* where each thread is
  job,       \* the hit each thread is arming
  at,        \* the line each thread is at, or paused at
  undo,      \* the breakpoints each thread has still to take from pydevd
  back,      \* where each thread goes when it has done so
  resume,    \* where each thread goes when the user resumes it
  hitQueue,  \* _hit_queue, a set: hits are numbered as they are queued
  locs,      \* "bp_locations" of each hit
  tempBps,   \* _temp_breakpoints
  pending,   \* _bp_pause_pending
  reserved,  \* _bp_slot_reservations
  pydevd,    \* the temporary breakpoints pydevd knows
  early,     \* ghost: hits that left the queue while they were being armed, or
             \* at the queue's limit
  stray,     \* ghost: breakpoints that failed installations left in pydevd
  raced,     \* ghost: clear_watches() ran while a hit was being armed
  left       \* what is left of each bound

vars == <<pc, job, at, undo, back, resume, hitQueue, locs, tempBps, pending,
          reserved, pydevd, early, stray, raced, left>>

Hits == 1 .. MaxHits
NoJob == [watch |-> 0, stack |-> << >>, mode |-> "at", frame |-> 0, cand |-> 0,
          targets |-> << >>, hit |-> 0, got |-> FALSE]
NoLine == << >>

\* What pydevd keys a breakpoint of this watch at this slot by.
Bp(slot, w) == [path |-> Real[slot[1]], line |-> slot[2], watch |-> w]
Place(slot) == <<Real[slot[1]], slot[2]>>
PlaceOf(b) == <<b.path, b.line>>

-----------------------------------------------------------------------------
(* Choosing the pause targets: _compute_bp_targets.                        *)

\* Mutant: reservations of other threads are not looked at.
QueuedSlots == UNION {locs[h] : h \in hitQueue}

\* The slots a queued hit owns or a hit being armed has reserved.
UsedSlots == (UNION {locs[h] : h \in hitQueue}) \cup reserved

UsedLines(c) == {s[2] : s \in {u \in UsedSlots : u[1] = c}}

\* The greatest member of a finite set of lines.
Latest(S) == {m \in S : \A n \in S : n <= m}

\* A thread changes a watched value in the first frame of its stack.  mode says
\* where the change was made: on the frame's current line ("at"), on an
\* earlier line of its file ("before"), or elsewhere.
Mutate(t, w, s, mode) ==
  /\ pc[t] = "run"
  /\ left.hits > 0
  /\ pc' = [pc EXCEPT ![t] = "target"]
  /\ job' = [job EXCEPT ![t] = [NoJob EXCEPT
       !.watch = w, !.stack = s, !.mode = mode, !.frame = 1,
       !.cand = IF mode = "at" THEN ByteNext[s[1].code][s[1].line] ELSE 0]]
  /\ UNCHANGED <<at, undo, back, resume, hitQueue, locs, tempBps, pending,
                 reserved, pydevd, early, stray, raced, left>>

\* Mutant: the chosen line is not reserved.
ChooseOnly(t, slot) ==
  /\ reserved' = reserved
  /\ job' = [job EXCEPT ![t].targets = Append(@, slot)]

Reserve(t, slot) ==
  /\ reserved' = reserved \cup {slot}
  /\ job' = [job EXCEPT ![t].targets = Append(@, slot)]

\* _next_slot_after_frame: the next line in bytecode order that no hit uses.
TargetByBytecode(t) ==
  LET c    == job[t].stack[1].code
      slot == <<c, job[t].cand>>
  IN /\ pc[t] = "target"
     /\ job[t].cand # 0
     /\ IF slot \in UsedSlots
        THEN /\ job' = [job EXCEPT ![t].cand = NextLine[c][@]]
             /\ UNCHANGED <<pc, reserved>>
        ELSE /\ Reserve(t, slot)
             /\ pc' = [pc EXCEPT ![t] = "safety"]
     /\ UNCHANGED <<at, undo, back, resume, hitQueue, locs, tempBps, pending,
                    pydevd, early, stray, raced, left>>

\* The line after which frame i of the stack is searched.
SearchAfter(j, i) ==
  IF i = 1 /\ j.mode = "before" THEN j.stack[1].line - 1 ELSE j.stack[i].line

\* _next_slot_for_code on a frame of the stack: a line after all lines in use;
\* without one, the walk goes on to the caller.
TargetByLine(t) ==
  LET i == job[t].frame
      c == job[t].stack[i].code
  IN /\ pc[t] = "target"
     /\ job[t].cand = 0
     /\ \E m \in Latest(UsedLines(c) \cup {SearchAfter(job[t], i)}) :
          IF NextLine[c][m] # 0
          THEN /\ Reserve(t, <<c, NextLine[c][m]>>)
               /\ pc' = [pc EXCEPT ![t] = "safety"]
          ELSE /\ IF i < Len(job[t].stack)
                  THEN /\ job' = [job EXCEPT ![t].frame = i + 1]
                       /\ UNCHANGED pc
                  ELSE /\ pc' = [pc EXCEPT ![t] = "safety"]
                       /\ UNCHANGED job
               /\ UNCHANGED reserved
     /\ UNCHANGED <<at, undo, back, resume, hitQueue, locs, tempBps, pending,
                    pydevd, early, stray, raced, left>>

\* _find_user_code_caller: the nearest frame of user code.
SafetyFrames(s) ==
  {s[i] : i \in {i \in DOMAIN s : /\ s[i].code \in User
                                 /\ \A j \in 1 .. i - 1 : s[j].code \notin User}}

\* The safety net, in the nearest user code when that is other code; a line
\* that is a target already is given back.
TargetSafety(t) ==
  LET Taken(f, l) == \E i \in DOMAIN job[t].targets :
                       /\ File[job[t].targets[i][1]] = f
                       /\ job[t].targets[i][2] = l
      Goes(targets) ==
        pc' = [pc EXCEPT ![t] = IF targets = << >> THEN "noslot" ELSE "enqueue"]
  IN /\ pc[t] = "safety"
     /\ \E sf \in SafetyFrames(job[t].stack) :
        \E m \in Latest(UsedLines(sf.code) \cup {sf.line}) :
          LET c == sf.code
              l == NextLine[c][m]
          IN IF c # job[t].stack[1].code /\ l # 0 /\ ~ Taken(File[c], l)
             THEN /\ Reserve(t, <<c, l>>)
                  /\ Goes(Append(job[t].targets, <<c, l>>))
             ELSE /\ Goes(job[t].targets)
                  /\ UNCHANGED <<job, reserved>>
     /\ UNCHANGED <<at, undo, back, resume, hitQueue, locs, tempBps, pending,
                    pydevd, early, stray, raced, left>>

-----------------------------------------------------------------------------
(* Queueing the hit and arming its targets: _handle_hit.                   *)

Later(q, h) == {g \in q : g > h}

\* Mutant: the queue is cut when it is one over its limit.
TrimmedLate(q) == {h \in q : Cardinality(Later(q, h)) <= MaxQueue}

\* The queue keeps its last MaxQueue hits; breakpoints of the others stay.
Trimmed(q) == {h \in q : Cardinality(Later(q, h)) < MaxQueue}

NewHit == MaxHits - left.hits + 1

\* Queue a new hit, with no location yet.
Push(t, q) ==
  /\ left.hits > 0
  /\ left' = [left EXCEPT !.hits = @ - 1]
  /\ hitQueue' = q
  /\ job' = [job EXCEPT ![t].hit = NewHit]

\* _handle_hit returns: the thread runs on.
Return(t) ==
  /\ pc' = [pc EXCEPT ![t] = "run"]
  /\ job' = [job EXCEPT ![t] = NoJob]

\* No slot, and hits are queued: the change is dropped.
NoSlot(t) ==
  /\ pc[t] = "noslot"
  /\ IF hitQueue = {}
     THEN /\ pc' = [pc EXCEPT ![t] = "bare"]
          /\ UNCHANGED job
     ELSE Return(t)
  /\ UNCHANGED <<at, undo, back, resume, hitQueue, locs, tempBps, pending,
                 reserved, pydevd, early, stray, raced, left>>

\* No slot, and the queue was empty when it was read: the hit is queued, with no
\* look at the limit, and the thread suspends itself.
EnqueueBare(t) ==
  /\ pc[t] = "bare"
  /\ Push(t, hitQueue \cup {NewHit})
  /\ pc' = [pc EXCEPT ![t] = "suspend"]
  /\ UNCHANGED <<at, undo, back, resume, locs, tempBps, pending, reserved,
                 pydevd, early, stray, raced>>

\* The hit is queued before its breakpoints are installed.
Enqueue(t) ==
  /\ pc[t] = "enqueue"
  /\ Push(t, Trimmed(hitQueue \cup {NewHit}))
  /\ early' = early \cup (hitQueue \ hitQueue')
  /\ pc' = [pc EXCEPT ![t] = "install"]
  /\ UNCHANGED <<at, undo, back, resume, locs, tempBps, pending, reserved,
                 pydevd, stray, raced>>

\* _install_bp_at, outside the lock: pydevd's table, then our pause target.
Install(t) ==
  LET slot == Head(job[t].targets)
  IN /\ pc[t] = "install"
     /\ pydevd' = pydevd \cup {Bp(slot, job[t].watch)}
     /\ pending' = pending \cup {slot}
     /\ pc' = [pc EXCEPT ![t] = "record"]
     /\ UNCHANGED <<job, at, undo, back, resume, hitQueue, locs, tempBps,
                    reserved, early, stray, raced, left>>

\* _install_bp_at returns None: before it has entered the breakpoint in pydevd's
\* table, or after, when consolidate_breakpoints raises.
InstallFails(t) ==
  LET bp == Bp(Head(job[t].targets), job[t].watch)
  IN /\ pc[t] = "install"
     /\ left.faults > 0
     /\ left' = [left EXCEPT !.faults = @ - 1]
     /\ pc' = [pc EXCEPT ![t] = "release"]
     /\ \/ UNCHANGED <<pydevd, stray>>
        \/ pydevd' = pydevd \cup {bp} /\ stray' = stray \cup {bp}
     /\ UNCHANGED <<job, at, undo, back, resume, hitQueue, locs, tempBps,
                    pending, reserved, early, raced>>

\* On to the next target; after the last one the thread runs on, or suspends
\* itself when nothing could be installed.
NextTarget(t, got) ==
  LET rest == Tail(job[t].targets)
  IN IF rest = << >> /\ got
     THEN Return(t)
     ELSE /\ job' = [job EXCEPT ![t].targets = rest, ![t].got = got]
          /\ pc' = [pc EXCEPT ![t] =
                      IF rest = << >> THEN "suspend" ELSE "install"]

\* Under the lock: the hit owns the location, the reservation is released.
Record(t) ==
  LET slot == Head(job[t].targets)
  IN /\ pc[t] = "record"
     /\ tempBps' = tempBps \cup {Bp(slot, job[t].watch)}
     /\ locs' = [locs EXCEPT ![job[t].hit] = @ \cup {slot}]
     /\ reserved' = reserved \ {slot}
     /\ NextTarget(t, TRUE)
     /\ UNCHANGED <<at, undo, back, resume, hitQueue, pending, pydevd, early,
                    stray, raced, left>>

\* Mutant: a failed installation keeps its reservation.
ReleaseNothing(t) ==
  /\ pc[t] = "release"
  /\ NextTarget(t, job[t].got)
  /\ UNCHANGED <<at, undo, back, resume, hitQueue, locs, tempBps, pending,
                 reserved, pydevd, early, stray, raced, left>>

\* _release_bp_slot_reservation after a failed installation.
Release(t) ==
  /\ pc[t] = "release"
  /\ reserved' = reserved \ {Head(job[t].targets)}
  /\ NextTarget(t, job[t].got)
  /\ UNCHANGED <<at, undo, back, resume, hitQueue, locs, tempBps, pending,
                 pydevd, early, stray, raced, left>>

\* _pause_via_do_wait_suspend at the changing frame.  The IDE may show another
\* frame on top of the stack, one of pydevd's own.
Suspend(t) ==
  LET top == job[t].stack[1]
  IN /\ pc[t] = "suspend"
     /\ pc' = [pc EXCEPT ![t] = "paused"]
     /\ \E shown \in {NoLine, <<top.code, top.line>>} :
          at' = [at EXCEPT ![t] = shown]
     /\ job' = [job EXCEPT ![t] = NoJob]
     /\ UNCHANGED <<resume, undo, back, hitQueue, locs, tempBps, pending,
                    reserved, pydevd, early, stray, raced, left>>

\* The thread cannot be suspended (pydevd shuts down, or raises): it runs on,
\* and its hit stays queued.
SuspendFails(t) ==
  /\ pc[t] \in {"suspend", "pause"}
  /\ left.faults > 0
  /\ left' = [left EXCEPT !.faults = @ - 1]
  /\ Return(t)
  /\ at' = [at EXCEPT ![t] = NoLine]
  /\ UNCHANGED <<undo, back, resume, hitQueue, locs, tempBps, pending, reserved,
                 pydevd, early, stray, raced>>

-----------------------------------------------------------------------------
(* A thread reaches a pause target.                                        *)

\* pydevd's own callback, which sys.monitoring calls before ours, pauses at a
\* breakpoint it knows.  (It may also miss it: then only ours runs.)
PydevdPause(t, slot) ==
  /\ pc[t] = "run"
  /\ \E b \in pydevd : PlaceOf(b) = Place(slot)
  /\ pc' = [pc EXCEPT ![t] = "paused"]
  /\ at' = [at EXCEPT ![t] = slot]
  /\ resume' = [resume EXCEPT ![t] = "ours"]
  /\ UNCHANGED <<job, undo, back, hitQueue, locs, tempBps, pending, reserved,
                 pydevd, early, stray, raced, left>>

\* _on_line finds the line armed and takes it out of the table.  The test and
\* the removal are one step: no thread switch falls between them.
Fire(t, slot) ==
  /\ pc[t] = "run" \/ (pc[t] = "ours" /\ at[t] = slot)
  /\ slot \in pending
  /\ pending' = pending \ {slot}
  /\ pc' = [pc EXCEPT ![t] = "disarm"]
  /\ at' = [at EXCEPT ![t] = slot]
  /\ UNCHANGED <<job, undo, back, resume, hitQueue, locs, tempBps, reserved,
                 pydevd, early, stray, raced, left>>

\* After a pause of pydevd, _on_line finds the line disarmed.
PassBy(t) ==
  /\ pc[t] = "ours"
  /\ at[t] \notin pending
  /\ pc' = [pc EXCEPT ![t] = "run"]
  /\ at' = [at EXCEPT ![t] = NoLine]
  /\ UNCHANGED <<job, undo, back, resume, hitQueue, locs, tempBps, pending,
                 reserved, pydevd, early, stray, raced, left>>

\* Does this location (known by its real path) match the fired co_filename?
Matches(loc, slot) == Real[loc[1]] = File[slot[1]] /\ loc[2] = slot[2]

\* The first queued hit with a location there.
Owning(slot) ==
  LET Has(h) == \E loc \in locs[h] : Matches(loc, slot)
  IN {h \in hitQueue : Has(h) /\ \A g \in hitQueue : Has(g) => h <= g}

\* The breakpoints of tempBps at these slots.
BpsAt(slots) == {b \in tempBps : PlaceOf(b) \in {Place(s) : s \in slots}}

\* Mutant: only the breakpoint that fired is taken from pydevd.
FiredBps(slot, slots) == {b \in BpsAt(slots) : PlaceOf(b) = Place(slot)}

\* hit_bps_to_remove: the breakpoints of the fired hit, siblings included.
HitBps(slot, slots) == BpsAt(slots)

\* Under the lock: the pause targets of the owning hit's other locations go,
\* and all its breakpoints leave tempBps.
Disarm(t) ==
  LET slot  == at[t]
      slots == UNION {locs[h] : h \in Owning(slot)}
  IN /\ pc[t] = "disarm"
     /\ pending' = pending \ {s \in slots : ~ Matches(s, slot)}
     /\ tempBps' = tempBps \ BpsAt(slots)
     /\ undo' = [undo EXCEPT ![t] = HitBps(slot, slots)]
     /\ back' = [back EXCEPT ![t] = "pause"]
     /\ pc' = [pc EXCEPT ![t] = "undo"]
     /\ UNCHANGED <<job, at, resume, hitQueue, locs, reserved, pydevd, early,
                    stray, raced, left>>

\* Mutant: what has been taken from pydevd is not forgotten.
UndoKept(t) ==
  /\ pc[t] = "undo"
  /\ pydevd' = pydevd \ undo[t]
  /\ pc' = [pc EXCEPT ![t] = back[t]]
  /\ UNCHANGED <<job, at, undo, back, resume, hitQueue, locs, tempBps, pending,
                 reserved, early, stray, raced, left>>

\* _remove_temp_breakpoints, outside the lock.
Undo(t) ==
  /\ pc[t] = "undo"
  /\ pydevd' = pydevd \ undo[t]
  /\ undo' = [undo EXCEPT ![t] = {}]
  /\ back' = [back EXCEPT ![t] = "run"]
  /\ pc' = [pc EXCEPT ![t] = back[t]]
  /\ UNCHANGED <<job, at, resume, hitQueue, locs, tempBps, pending, reserved,
                 early, stray, raced, left>>

\* _trigger_direct_pause.
DirectPause(t) ==
  /\ pc[t] = "pause"
  /\ pc' = [pc EXCEPT ![t] = "paused"]
  /\ UNCHANGED <<job, at, undo, back, resume, hitQueue, locs, tempBps, pending,
                 reserved, pydevd, early, stray, raced, left>>

-----------------------------------------------------------------------------
(* The IDE drains at a pause; the user resumes; watches are cleared.       *)

\* The hits that some thread has queued and is still arming.
InFlight ==
  LET arming == {t \in Threads : pc[t] \in {"install", "record", "release"}}
  IN {job[t].hit : t \in arming}

\* A hit with no location matches any pause.
Here(h, t) ==
  \/ locs[h] = {}
  \/ at[t] # NoLine /\ Place(at[t]) \in {Place(s) : s \in locs[h]}

\* Mutant: the pause targets of the other locations stay armed.
PausedSlot(t, slots) == {s \in slots : s = at[t]}

\* The pause targets the drained hits are disarmed of: all of them.
DrainedSlots(t, slots) == slots

\* _pycharm_consume_last_hit(pause_file, pause_line), its locked part.
Consume(t) ==
  LET drained == {h \in hitQueue : Here(h, t)}
      slots   == UNION {locs[h] : h \in drained}
  IN /\ pc[t] = "paused"
     /\ hitQueue' = hitQueue \ drained
     /\ pending' = pending \ DrainedSlots(t, slots)
     /\ tempBps' = tempBps \ BpsAt(slots)
     /\ undo' = [undo EXCEPT ![t] = BpsAt(slots)]
     /\ back' = [back EXCEPT ![t] = "shown"]
     /\ pc' = [pc EXCEPT ![t] = "undo"]
     /\ early' = early \cup (drained \cap InFlight)
     /\ UNCHANGED <<job, at, resume, locs, reserved, pydevd, stray, raced,
                    left>>

\* The same without a pause location: everything is drained, except the slots
\* reserved by threads in flight.
ConsumeAll(t) ==
  /\ pc[t] = "paused"
  /\ hitQueue' = {}
  /\ pending' = {}
  /\ tempBps' = {}
  /\ undo' = [undo EXCEPT ![t] = tempBps]
  /\ back' = [back EXCEPT ![t] = "shown"]
  /\ pc' = [pc EXCEPT ![t] = "undo"]
  /\ early' = early \cup (hitQueue \cap InFlight)
  /\ UNCHANGED <<job, at, resume, locs, reserved, pydevd, stray, raced,
                 left>>

\* clear_watches, its locked part: the reservations go too.
Clear(t) ==
  /\ pc[t] = "run"
  /\ left.faults > 0
  /\ left' = [left EXCEPT !.faults = @ - 1]
  /\ hitQueue' = {}
  /\ pending' = {}
  /\ tempBps' = {}
  /\ reserved' = {}
  /\ undo' = [undo EXCEPT ![t] = tempBps]
  /\ back' = [back EXCEPT ![t] = "run"]
  /\ pc' = [pc EXCEPT ![t] = "undo"]
  /\ early' = early \cup (hitQueue \cap InFlight)
  /\ raced' = (raced \/ reserved # {})
  /\ UNCHANGED <<job, at, resume, locs, pydevd, stray>>

\* The user resumes the thread; the IDE's drain may not have come by then.
Resume(t) ==
  /\ pc[t] \in {"paused", "shown"}
  /\ pc' = [pc EXCEPT ![t] = resume[t]]
  /\ resume' = [resume EXCEPT ![t] = "run"]
  /\ at' = [at EXCEPT ![t] = IF resume[t] = "ours" THEN @ ELSE NoLine]
  /\ UNCHANGED <<job, undo, back, hitQueue, locs, tempBps, pending,
                 reserved, pydevd, early, stray, raced, left>>

-----------------------------------------------------------------------------

Init ==
  /\ pc = [t \in Threads |-> "run"]
  /\ job = [t \in Threads |-> NoJob]
  /\ at = [t \in Threads |-> NoLine]
  /\ undo = [t \in Threads |-> {}]
  /\ back = [t \in Threads |-> "run"]
  /\ resume = [t \in Threads |-> "run"]
  /\ hitQueue = {}
  /\ locs = [h \in Hits |-> {}]
  /\ tempBps = {} /\ pending = {} /\ reserved = {} /\ pydevd = {}
  /\ early = {} /\ stray = {}
  /\ raced = FALSE
  /\ left = [hits |-> MaxHits, faults |-> MaxFaults]

Next ==
  \/ \E t \in Threads, w \in Watches, s \in Stacks,
        mode \in {"at", "before", "other"} : Mutate(t, w, s, mode)
  \/ \E t \in Threads : TargetByBytecode(t)
  \/ \E t \in Threads : TargetByLine(t)
  \/ \E t \in Threads : TargetSafety(t)
  \/ \E t \in Threads : NoSlot(t)
  \/ \E t \in Threads : EnqueueBare(t)
  \/ \E t \in Threads : Enqueue(t)
  \/ \E t \in Threads : Install(t)
  \/ \E t \in Threads : InstallFails(t)
  \/ \E t \in Threads : Record(t)
  \/ \E t \in Threads : Release(t)
  \/ \E t \in Threads : Suspend(t)
  \/ \E t \in Threads : SuspendFails(t)
  \/ \E t \in Threads, slot \in Slots : PydevdPause(t, slot)
  \/ \E t \in Threads, slot \in Slots : Fire(t, slot)
  \/ \E t \in Threads : PassBy(t)
  \/ \E t \in Threads : Disarm(t)
  \/ \E t \in Threads : Undo(t)
  \/ \E t \in Threads : DirectPause(t)
  \/ \E t \in Threads : Consume(t)
  \/ \E t \in Threads : ConsumeAll(t)
  \/ \E t \in Threads : Clear(t)
  \/ \E t \in Threads : Resume(t)

Spec == Init /\ [][Next]_vars

-----------------------------------------------------------------------------
(* Properties that hold.                                                   *)

\* The slots a thread has reserved for the hit it is arming.
Claims(t) ==
  IF pc[t] \in {"safety", "enqueue", "install", "record", "release"}
  THEN {job[t].targets[i] : i \in DOMAIN job[t].targets} ELSE {}

TypeOK ==
  /\ pc \in [Threads -> {"run", "target", "safety", "noslot", "bare", "enqueue",
                         "install", "record", "release", "suspend", "disarm",
                         "undo", "pause", "paused", "shown", "ours"}]
  /\ hitQueue \subseteq 1 .. MaxHits - left.hits
  /\ locs \in [Hits -> SUBSET Slots]
  /\ pending \subseteq Slots
  /\ reserved \subseteq Slots
  /\ \A b \in tempBps \cup pydevd : b.watch \in Watches /\ b.line \in Lines
  /\ \A t \in Threads : pc[t] # "undo" => undo[t] = {}

\* The queue outgrows its limit by at most one hit per other thread: those that
\* found it empty, and queue their hit without the cut.
QueueBound ==
  LET bare == {t \in Threads : pc[t] = "bare"}
  IN Cardinality(hitQueue) + Cardinality(bare) <= MaxQueue + Cardinality(Threads) - 1

\* Two hits never own or claim the same slot ("the one-hit-per-line invariant
\* that selective draining relies on", registry.py:1531-1534), unless
\* clear_watches() dropped the reservations of a hit that was being armed.
SlotExclusive ==
  ~ raced =>
    /\ \A g, h \in hitQueue : g # h => locs[g] \cap locs[h] = {}
    /\ \A t \in Threads, h \in hitQueue : Claims(t) \cap locs[h] = {}
    /\ \A t, u \in Threads : t # u => Claims(t) \cap Claims(u) = {}

\* A reservation is held by a thread that is arming a hit, and by no one else:
\* none is left behind by a failed, dropped or finished installation.
ReservationsReleased == reserved \subseteq UNION {Claims(t) : t \in Threads}

\* A breakpoint known to pydevd can still be taken out: it is in tempBps, or
\* some thread is about to put it there or to take it from pydevd.  The
\* exception is an installation that failed half-way.
NoUntrackedBreakpoint ==
  \A b \in pydevd \ stray :
    \/ b \in tempBps
    \/ \E t \in Threads : b \in undo[t]
    \/ \E t \in Threads : /\ pc[t] = "record"
                          /\ b = Bp(Head(job[t].targets), job[t].watch)

\* An armed pause target has a hit to show: it belongs to a queued hit, or a
\* thread is about to record it.  The exceptions are the hits that left the
\* queue before all their targets were recorded, or at the queue's limit.
PendingOwned ==
  \A s \in pending :
    \/ \E h \in hitQueue \cup early : s \in locs[h]
    \/ \E t \in Threads : pc[t] = "record" /\ s = Head(job[t].targets)

\* The promise of SlotLease, until clear_watches() drops the reservations of a hit
\* that is being armed: a hit owns a slot only after a thread has held it alone.
Claimed(t) == IF raced THEN {} ELSE Claims(t)
Owned(h)   == IF raced \/ h \notin hitQueue THEN {} ELSE locs[h]

Lease == INSTANCE SlotLease WITH
           claimed <- [t \in Threads |-> Claimed(t)],
           owned   <- [h \in Hits |-> Owned(h)],
           revoked <- raced

LeasesSlots == Lease!Spec

-----------------------------------------------------------------------------
(* A claim of the repository's texts that the code does not keep, refuted by *)
(* a run of its own.                                                        *)

\* A drained hit takes all its pause targets with it: "otherwise the unfired
\* sibling bp would surface as a phantom pause later when execution naturally
\* passes its line" (__init__.py:253-255).  So an armed target always has a
\* queued hit, or is about to be recorded in one.
NoPhantomTarget ==
  \A s \in pending :
    \/ \E h \in hitQueue : s \in locs[h]
    \/ \E t \in Threads : /\ pc[t] = "record"
                          /\ job[t].hit \in hitQueue
                          /\ s = Head(job[t].targets)
=============================================================================
