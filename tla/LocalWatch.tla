----------------------------- MODULE LocalWatch -----------------------------
(***************************************************************************)
(* Watchpoints on local variables: the sys.monitoring callbacks            *)
(* PY_START, CALL, LINE and PY_RETURN of registry.py, and the operations   *)
(* that arm and disarm watches.                                            *)
(*                                                                         *)
(* A frame is identified by id(frame), which CPython reuses: Fids is the   *)
(* set of those ids, and the ghost field "inc" numbers the frames that     *)
(* have lived at an id.  Every callback takes the registry's lock for all  *)
(* its reads and writes of this state, so it is one atomic step.  Arming a *)
(* pause comes after the lock: it reads the events of a code object and    *)
(* writes them back in two steps (the rest of it is module HitPipeline).   *)
(*                                                                         *)
(* A value stands both for the identity that propagation compares (id())   *)
(* and for the hash that change detection compares (_value_hash).          *)
(***************************************************************************)
EXTENDS Naturals, SequencesExt

CONSTANTS
  Threads,    \* threads of the debugged program
  Fids,       \* values of id(frame)
  Codes,      \* code objects
  Names,      \* names of local variables
  Vals,       \* values of local variables
  Lines,      \* line numbers, all positive
  Params,     \* Params[c]: the parameters of c
  None,       \* no code, no name, no value
  MaxPend,    \* _MAX_PROPAGATION_QUEUE_SIZE
  MaxFrames,  \* bound: frames entered in a behaviour
  MaxOps      \* bound: calls of unwatch() and clear_watches(), and pause
              \* targets armed by the hit pipeline

ASSUME ConstantsAssumption ==
  /\ Lines \subseteq Nat \ {0}
  /\ Params \in [Codes -> SUBSET Names]
  /\ None \notin Codes \cup Names \cup Vals
  /\ {MaxPend, MaxFrames, MaxOps} \subseteq Nat
  /\ MaxPend > 0

VARIABLES
  frame,    \* the frame at each id; inc = 0 when no frame lives there
  vals,     \* the values of the locals of that frame
  watches,  \* _local_watches, a dict keyed by (name, frame id)
  fstate,   \* _frame_state
  events,   \* the local events of our tool: "off", "line" or "all"
  pend,     \* _pending_propagation.queue of each thread, newest last
  armed,    \* _bp_pause_pending
  arming,   \* the pause target each thread is arming, with the events it read
  torn,     \* ghost: codes whose events a write of an older value reduced
  start,    \* ghost: the value of each watched local when last looked at
  writer,   \* ghost: the line that changed each watched local since, or 0
  passed,   \* ghost: the armed targets at which each frame has paused since
  removed,  \* ghost: unwatch() or clear_watches() has been called
  hit,      \* the hit reported by the last step
  budget    \* what is left of each bound

vars == <<frame, vals, watches, fstate, events, pend, armed, arming, torn,
          start, writer, passed, removed, hit, budget>>

NoFrame == [inc |-> 0, code |-> None, thread |-> None, line |-> 0,
            guarded |-> FALSE]
NoVals == [n \in Names |-> None]
NoWriter == [n \in Names |-> 0]
NoState == [code |-> None, prev |-> 0, base |-> NoVals]
NoEntry == [name |-> None, root |-> None]
NoHit   == [fid |-> None]
NotArming == [code |-> None, line |-> 0, read |-> "off"]

\* The fields of a _LocalWatch, and three ghosts: the frame it was armed for,
\* the name the user asked for, and whether a line event has seen it.
Watch == [name : Names, fid : Fids, code : Codes, shown : Names,
          inc : Nat \ {0}, root : Names, seen : BOOLEAN]

Live(f) == frame[f].inc # 0

\* The thread of frame f is running the program, not arming a pause.
Runs(f) == Live(f) /\ arming[frame[f].thread] = NotArming

\* Some watch stands for local n of the frame at id f.
Watched(f, n) == \E w \in watches : w.name = n /\ w.fid = f

-----------------------------------------------------------------------------
(* Helpers shared by the handlers.                                         *)

\* The watches of the frame that runs code c at id f (active_watches).
Active(c, f) == {w \in watches : w.code = c /\ w.fid = f}

\* Mutant: the events go with any watch of the code, not with its last one.
EventsAfterAnyDrop(ws, kept) ==
  [c \in Codes |-> IF \E w \in ws \ kept : w.code = c THEN "off"
                   ELSE events[c]]

\* _remove_local_watch_locked for every watch of ws that is not kept: a code
\* object that loses its last watch loses all its events.
EventsAfterDrop(ws, kept) ==
  [c \in Codes |-> IF (\E w \in ws \ kept : w.code = c)
                        /\ ~ \E w \in kept : w.code = c
                   THEN "off" ELSE events[c]]

\* watched_by_id of a CALL from frame f: the watched local whose value is v.
\* The code matches watches by frame id alone, so those of a dead frame with
\* this id count.  Of several locals with the same value the last one in dict
\* order wins, which is left open.
EntriesAt(f, v) ==
  {[name |-> w.name, root |-> w.root] :
     w \in {u \in watches : u.fid = f /\ vals[f][u.name] = v}}

WatchedById(f) ==
  {by \in [Vals -> (UNION {EntriesAt(f, v) : v \in Vals}) \cup {NoEntry}] :
     \A v \in Vals : IF EntriesAt(f, v) = {} THEN by[v] = NoEntry
                     ELSE by[v] \in EntriesAt(f, v)}

\* Mutant: a state left by another code object is merged into as well.
AnyStateFor(c, f, st) == st

\* _frame_state[f] as _add_local_watch finds or makes it.  A state left by
\* the same code is merged into, with its prev_line.
StateFor(c, f, st) == IF st.code = c THEN st ELSE [NoState EXCEPT !.code = c]

\* Mutant: a name that has a baseline keeps it when it is watched again.
BaselineOnce(st, ns, vs) ==
  [st EXCEPT !.base = [n \in Names |-> IF n \in ns /\ @[n] = None THEN vs[n]
                                       ELSE @[n]]]

\* prev_hashes with the values of the names ns.
Baseline(st, ns, vs) ==
  [st EXCEPT !.base = [n \in Names |-> IF n \in ns THEN vs[n] ELSE @[n]]]

\* _fire_if_changed: the first watch of ws, in dict order, whose value is not
\* the one in its baseline; one hit per event.
Changed(ws, st, f) == {w \in ws : st.base[w.name] \notin {None, vals[f][w.name]}}

HitOf(w, st, f) ==
  [fid |-> f, code |-> w.code, shown |-> w.shown, line |-> st.prev,
   wrote |-> start[f][w.name] # vals[f][w.name],
   writer |-> writer[f][w.name], passed |-> passed[f]]

FireIfChanged(ws, st, f) ==
  IF Changed(ws, st, f) = {} THEN hit' = NoHit
  ELSE \E w \in Changed(ws, st, f) : hit' = HitOf(w, st, f)

Spend(what) == /\ budget[what] > 0
               /\ budget' = [budget EXCEPT ![what] = @ - 1]

-----------------------------------------------------------------------------
(* The program enters, runs and leaves frames.                             *)

\* Mutants: PY_START wipes no watch; it wipes no frame state.
NothingStale(c, f) == {}
StateKept(c, st) == st

\* _on_py_start, first part: watches and state left at this id by an earlier
\* frame of the same code are wiped.
Stale(c, f) == Active(c, f)

StateWiped(c, st) == IF st.code = c THEN NoState ELSE st

\* The newest entry of a thread's stack that was pushed for code c; 0 if none.
MatchingPush(q, c) ==
  LET newest == {i \in DOMAIN q : /\ q[i].code = c
                                  /\ \A j \in DOMAIN q : j > i => q[j].code # c}
  IN IF newest = {} THEN 0 ELSE CHOOSE i \in newest : TRUE

\* _apply_propagation: the parameters of c whose value is a watched one.
Propagated(c, by, vs) == {p \in Params[c] : by[vs[p]] # NoEntry}

\* No PY_START is delivered where the event is off, nor to a frame entered
\* while a callback of the registry is on its thread's stack (the guard).
EnterUnseen(t, f, c, g) ==
  /\ g \/ events[c] # "all"
  /\ UNCHANGED <<watches, fstate, events, pend>>

\* _on_py_start: wipe what a dead frame left, pop the pending propagation
\* pushed for this code, and arm the parameters it names.
EnterSeen(t, f, c, g, vs) ==
  LET kept  == watches \ Stale(c, f)
      wiped == StateWiped(c, fstate[f])
      i     == MatchingPush(pend[t], c)
      by    == IF i = 0 THEN [v \in Vals |-> NoEntry] ELSE pend[t][i].by
      ps    == Propagated(c, by, vs)
      left  == {w \in kept : ~ (w.fid = f /\ w.name \in ps)}
      new   == {[name |-> p, fid |-> f, code |-> c, shown |-> by[vs[p]].name,
                 inc |-> budget.frames, root |-> by[vs[p]].root,
                 seen |-> FALSE] : p \in ps}
  IN /\ ~ g /\ events[c] = "all"
     /\ watches' = left \cup new
     /\ fstate' = [fstate EXCEPT ![f] = IF ps = {} THEN wiped
                     ELSE Baseline(StateFor(c, f, wiped), ps, vs)]
     /\ events' = [EventsAfterDrop(watches, left) EXCEPT
                     ![c] = IF ps = {} THEN @ ELSE "all"]
     /\ pend' = IF i = 0 THEN pend
                ELSE [pend EXCEPT ![t] = RemoveAt(@, i)]

Enter(t, f, c, g, vs) ==
  /\ ~ Live(f)
  /\ arming[t] = NotArming
  /\ Spend("frames")
  /\ frame' = [frame EXCEPT ![f] = [inc |-> budget.frames, code |-> c,
                 thread |-> t, line |-> 0, guarded |-> g]]
  /\ EnterSeen(t, f, c, g, vs) \/ EnterUnseen(t, f, c, g)
  /\ vals' = [vals EXCEPT ![f] = vs]
  /\ start' = [start EXCEPT ![f] = vs]
  /\ writer' = [writer EXCEPT ![f] = NoWriter]
  /\ hit' = NoHit
  /\ UNCHANGED <<armed, arming, torn, passed, removed>>

\* A statement on the current line rebinds a local.
Assign(f, n, v) ==
  /\ Runs(f)
  /\ frame[f].line # 0
  /\ v # vals[f][n]
  /\ vals' = [vals EXCEPT ![f][n] = v]
  /\ IF Watched(f, n)
     THEN /\ writer' = [writer EXCEPT ![f][n] = frame[f].line]
          /\ UNCHANGED start
     ELSE /\ start' = [start EXCEPT ![f][n] = v]
          /\ UNCHANGED writer
  /\ hit' = NoHit
  /\ UNCHANGED <<frame, watches, fstate, events, pend, armed, arming, torn,
                 passed, removed, budget>>

\* LINE callbacks are delivered to this frame.
Traced(f) == ~ frame[f].guarded /\ events[frame[f].code] # "off"

LineUnseen(f) ==
  /\ ~ Traced(f)
  /\ hit' = NoHit
  /\ UNCHANGED <<watches, fstate, armed, start, writer, passed>>

\* _on_line at an armed pause target: pause, and return before the diff.  The
\* removal of the hit's breakpoints is module HitPipeline.
LinePauses(f, l) ==
  /\ Traced(f)
  /\ <<frame[f].code, l>> \in armed
  /\ armed' = armed \ {<<frame[f].code, l>>}
  /\ passed' = [passed EXCEPT ![f] = @ \cup {l}]
  /\ hit' = NoHit
  /\ UNCHANGED <<watches, fstate, start, writer>>

\* _on_line elsewhere: advance the frame's baseline, then report the first
\* change with the line the state remembers.
LineDiffs(f, l) ==
  LET c   == frame[f].code
      st  == fstate[f]
      act == Active(c, f)
      ns  == {w.name : w \in act}
  IN /\ Traced(f)
     /\ <<c, l>> \notin armed
     /\ IF act = {}
        THEN hit' = NoHit /\ UNCHANGED <<watches, fstate, start, writer, passed>>
        ELSE /\ watches' = (watches \ act)
                             \cup {[w EXCEPT !.seen = TRUE] : w \in act}
             /\ fstate' = [fstate EXCEPT ![f] =
                  Baseline([NoState EXCEPT !.code = c, !.prev = l],
                           ns, vals[f])]
             /\ start' = [start EXCEPT ![f] = vals[f]]
             /\ writer' = [writer EXCEPT ![f] = NoWriter]
             /\ passed' = [passed EXCEPT ![f] = {}]
             /\ IF st.code = c /\ st.prev # 0
                THEN FireIfChanged(act, st, f)
                ELSE hit' = NoHit
     /\ UNCHANGED armed

\* Execution reaches line l of the frame; the callback runs before the line.
StartLine(f, l) ==
  /\ Runs(f)
  /\ LineUnseen(f) \/ LinePauses(f, l) \/ LineDiffs(f, l)
  /\ frame' = [frame EXCEPT ![f].line = l]
  /\ UNCHANGED <<vals, events, pend, arming, torn, removed, budget>>

Leave(f) ==
  /\ frame' = [frame EXCEPT ![f] = NoFrame]
  /\ vals' = [vals EXCEPT ![f] = NoVals]
  /\ start' = [start EXCEPT ![f] = NoVals]
  /\ writer' = [writer EXCEPT ![f] = NoWriter]
  /\ passed' = [passed EXCEPT ![f] = {}]
  /\ UNCHANGED <<pend, armed, arming, torn, removed, budget>>

\* Mutant: the frame's state is dropped before the last diff is made.
PyReturnNoDiff(f) ==
  LET kept == watches \ Active(frame[f].code, f)
  IN /\ Runs(f)
     /\ ~ frame[f].guarded /\ events[frame[f].code] = "all"
     /\ fstate' = [fstate EXCEPT ![f] = NoState]
     /\ watches' = kept
     /\ events' = EventsAfterDrop(watches, kept)
     /\ hit' = NoHit
     /\ Leave(f)

\* _on_py_return: a last diff, and the frame's watches and state are dropped.
PyReturn(f) ==
  LET c   == frame[f].code
      st  == fstate[f]
      act == Active(c, f)
  IN /\ Runs(f)
     /\ ~ frame[f].guarded /\ events[c] = "all"
     /\ fstate' = [fstate EXCEPT ![f] = NoState]
     /\ watches' = watches \ act
     /\ events' = EventsAfterDrop(watches, watches \ act)
     /\ IF act # {} /\ st.code = c /\ st.prev # 0
        THEN FireIfChanged(act, st, f)
        ELSE hit' = NoHit
     /\ Leave(f)

\* The frame is left with no callback: by an exception (PY_UNWIND is never
\* registered), under the guard, or with its return event off.
Unwind(f) ==
  /\ Runs(f)
  /\ hit' = NoHit
  /\ UNCHANGED <<watches, fstate, events>>
  /\ Leave(f)

\* Mutant: the cap is applied one entry too late.
CappedLate(q) == IF Len(q) > MaxPend + 1 THEN Tail(q) ELSE q

\* The stack drops its oldest entry at the cap.
Capped(q) == IF Len(q) > MaxPend THEN Tail(q) ELSE q

\* _on_call: frame f calls the plain Python function c while some local of
\* this frame id is watched.
Call(f, c) ==
  LET t == frame[f].thread
  IN /\ Runs(f)
     /\ ~ frame[f].guarded /\ events[frame[f].code] = "all"
     /\ \E w \in watches : w.fid = f
     /\ \E by \in WatchedById(f) :
          pend' = [pend EXCEPT ![t] =
                     Capped(Append(@, [code |-> c, by |-> by]))]
     /\ events' = [events EXCEPT ![c] = "all"]
     /\ hit' = NoHit
     /\ UNCHANGED <<frame, vals, watches, fstate, armed, arming, torn, start,
                    writer, passed, removed, budget>>

-----------------------------------------------------------------------------
(* The user arms and disarms watches; the hit pipeline arms pauses.        *)

\* add_watch of a plain name, up to and with _add_local_watch.  The call may
\* come from another thread, at any point of the frame's execution.
AddWatch(f, n) ==
  LET c    == frame[f].code
      kept == {w \in watches : ~ (w.name = n /\ w.fid = f)}
  IN /\ Live(f)
     /\ watches' = kept \cup {[name |-> n, fid |-> f, code |-> c, shown |-> n,
                               inc |-> frame[f].inc, root |-> n,
                               seen |-> FALSE]}
     /\ fstate' = [fstate EXCEPT ![f] =
                     Baseline(StateFor(c, f, @), {n}, vals[f])]
     /\ events' = [EventsAfterDrop(watches, kept) EXCEPT ![c] = "all"]
     /\ start' = [start EXCEPT ![f][n] = vals[f][n]]
     /\ writer' = [writer EXCEPT ![f][n] = 0]
     /\ hit' = NoHit
     /\ UNCHANGED <<frame, vals, pend, armed, arming, torn, passed, removed,
                    budget>>

\* remove_watch: every watch of the local name n, in any frame.
RemoveWatch(n) ==
  LET kept == {w \in watches : w.name # n}
  IN /\ Spend("ops")
     /\ removed' = TRUE
     /\ watches' = kept
     /\ events' = EventsAfterDrop(watches, kept)
     /\ hit' = NoHit
     /\ UNCHANGED <<frame, vals, fstate, pend, armed, arming, torn, start,
                    writer, passed>>

\* clear_watches, called on thread t.
ClearWatches(t) ==
  /\ Spend("ops")
  /\ removed' = TRUE
  /\ watches' = {}
  /\ events' = EventsAfterDrop(watches, {})
  /\ fstate' = [f \in Fids |-> NoState]
  /\ pend' = [pend EXCEPT ![t] = << >>]
  /\ armed' = {}
  /\ hit' = NoHit
  /\ UNCHANGED <<frame, vals, arming, torn, start, writer, passed>>

\* _install_bp_at, as far as it touches this state: a hit of any kind arms a
\* line of c as a pause target and turns LINE on for c.  The registry's lock
\* is not held: the events are read here, and written with LINE added below.
ArmRead(t, c, l) ==
  /\ arming[t] = NotArming
  /\ Spend("ops")
  /\ arming' = [arming EXCEPT ![t] = [code |-> c, line |-> l,
                                      read |-> events[c]]]
  /\ hit' = NoHit
  /\ UNCHANGED <<frame, vals, watches, fstate, events, pend, armed, torn, start,
                 writer, passed, removed>>

WithLine(read) == IF read = "off" THEN "line" ELSE read

ArmWrite(t) ==
  LET a == arming[t]
      written == WithLine(a.read)
  IN /\ a # NotArming
     /\ events' = [events EXCEPT ![a.code] = written]
     /\ torn' = IF a.read # "all" /\ events[a.code] = "all"
                THEN torn \cup {a.code} ELSE torn
     /\ armed' = armed \cup {<<a.code, a.line>>}
     /\ arming' = [arming EXCEPT ![t] = NotArming]
     /\ hit' = NoHit
     /\ UNCHANGED <<frame, vals, watches, fstate, pend, start, writer, passed,
                    removed, budget>>

\* The IDE drains the hit of an armed line.
DisarmPause(c, l) ==
  /\ <<c, l>> \in armed
  /\ armed' = armed \ {<<c, l>>}
  /\ hit' = NoHit
  /\ UNCHANGED <<frame, vals, watches, fstate, events, pend, arming, torn,
                 start, writer, passed, removed, budget>>

-----------------------------------------------------------------------------

Init ==
  /\ frame = [f \in Fids |-> NoFrame]
  /\ vals = [f \in Fids |-> NoVals]
  /\ watches = {}
  /\ fstate = [f \in Fids |-> NoState]
  /\ events = [c \in Codes |-> "off"]
  /\ pend = [t \in Threads |-> << >>]
  /\ armed = {}
  /\ arming = [t \in Threads |-> NotArming]
  /\ torn = {}
  /\ start = vals
  /\ writer = [f \in Fids |-> NoWriter]
  /\ passed = [f \in Fids |-> {}] /\ removed = FALSE
  /\ hit = NoHit
  /\ budget = [frames |-> MaxFrames, ops |-> MaxOps]

Next ==
  \/ \E t \in Threads, f \in Fids, c \in Codes, g \in BOOLEAN,
        vs \in [Names -> Vals] : Enter(t, f, c, g, vs)
  \/ \E f \in Fids, n \in Names, v \in Vals : Assign(f, n, v)
  \/ \E f \in Fids, l \in Lines : StartLine(f, l)
  \/ \E f \in Fids : PyReturn(f)
  \/ \E f \in Fids : Unwind(f)
  \/ \E f \in Fids, c \in Codes : Call(f, c)
  \/ \E f \in Fids, n \in Names : AddWatch(f, n)
  \/ \E n \in Names : RemoveWatch(n)
  \/ \E t \in Threads : ClearWatches(t)
  \/ \E t \in Threads, c \in Codes, l \in Lines : ArmRead(t, c, l)
  \/ \E t \in Threads : ArmWrite(t)
  \/ \E c \in Codes, l \in Lines : DisarmPause(c, l)

Spec == Init /\ [][Next]_vars

-----------------------------------------------------------------------------
(* Properties that hold.                                                   *)

\* The variables keep the shape of the registry's dictionaries.
Frame == [inc : Nat, code : Codes \cup {None}, thread : Threads \cup {None},
          line : Lines \cup {0}, guarded : BOOLEAN]
State == [code : Codes \cup {None}, prev : Lines \cup {0},
          base : [Names -> Vals \cup {None}]]
Entry == [name : Names, root : Names] \cup {NoEntry}
Push == [code : Codes, by : [Vals -> Entry]]
Events == {"off", "line", "all"}
Arming == [code : Codes, line : Lines, read : Events] \cup {NotArming}

TypeOK ==
  /\ frame \in [Fids -> Frame]
  /\ vals \in [Fids -> [Names -> Vals \cup {None}]]
  /\ \A f \in Fids : Live(f) => /\ frame[f].code \in Codes
                               /\ frame[f].thread \in Threads
                               /\ vals[f] \in [Names -> Vals]
  /\ watches \subseteq Watch
  /\ \A v, w \in watches : v.name = w.name /\ v.fid = w.fid => v = w
  /\ fstate \in [Fids -> State]
  /\ events \in [Codes -> Events]
  /\ pend \in [Threads -> Seq(Push)]
  /\ \A t \in Threads : Len(pend[t]) <= MaxPend
  /\ armed \subseteq Codes \X Lines
  /\ arming \in [Threads -> Arming]
  /\ torn \subseteq Codes
  /\ start \in [Fids -> [Names -> Vals \cup {None}]]
  /\ budget \in [frames : Nat, ops : Nat]

\* A code object with a watch never loses its LINE event, and it keeps all
\* four events of our tool unless arming a pause wrote back events it had read
\* before they were turned on (registry.py:274-289 against the removal of
\* events at 868-878, which other frames and threads trigger).
Observed(c) == events[c] # "off" /\ (c \in torn \/ events[c] = "all")

EventsCoverWatches == \A w \in watches : Observed(w.code)

\* A frame never runs under a watch armed for a dead frame whose id and code
\* it shares, although unwound frames leave their watches behind
\* (registry.py:985-994).
NoInheritedWatch ==
  \A w \in watches :
    LET fr == frame[w.fid]
    IN /\ Live(w.fid) /\ ~ fr.guarded /\ fr.code = w.code
       /\ w.code \notin torn
       => w.inc = fr.inc

\* A watch of a live frame has a baseline of that frame to be compared with:
\* no operation on another frame, name or thread takes it away.
WatchHasBaseline ==
  \A w \in watches :
    Live(w.fid) /\ w.inc = frame[w.fid].inc =>
      /\ fstate[w.fid].code = w.code
      /\ fstate[w.fid].base[w.name] # None

\* A reported hit is a change this very frame made to the local since it was
\* watched or last looked at, never a difference with a stale baseline.
NoSpuriousFire == hit # NoHit => hit.wrote \/ hit.code \in torn

\* The value of a watched local has changed, and an earlier line event of the
\* frame has seen the watch.
Owed(f) == \E w \in watches : /\ w.fid = f /\ w.inc = frame[f].inc /\ w.seen
                              /\ start[f][w.name] # vals[f][w.name]

Reports(f, l) ==
  /\ Owed(f) /\ ~ frame[f].guarded
  /\ \/ StartLine(f, l) /\ <<frame[f].code, l>> \notin armed
     \/ PyReturn(f)
  => hit'.fid = f

\* Such a change is reported at the next line event of the frame, or when the
\* frame returns (one change per event, registry.py:1489).
ChangeReported == [][\A f \in Fids, l \in Lines : Reports(f, l)]_vars

\* The line a hit names is the line that made the change, or the change was made on
\* an armed line at which the frame has paused since it was last looked at (such a
\* line returns before the diff, registry.py:1197-1235).  It holds as long as nothing
\* is unwatched, for code no torn write has touched.
LineAttribution ==
  hit # NoHit /\ ~ removed /\ hit.code \notin torn =>
    hit.line = hit.writer \/ hit.writer \in hit.passed

-----------------------------------------------------------------------------
(* The inductive invariant behind these properties (LocalWatch_proofs).     *)

\* A watch of the frame that lives at its id, and not of an earlier one.
Current(w) == Live(w.fid) /\ w.inc = frame[w.fid].inc

\* Frames are numbered downwards: a number in use is above the next one.
FreshNumbers ==
  /\ \A f \in Fids : Live(f) => budget.frames < frame[f].inc
  /\ \A w \in watches : budget.frames < w.inc

\* A current watch has the code of its frame, and its baseline is the value
\* its local had when the frame was last looked at.
InSync ==
  \A w \in watches : Current(w) =>
    /\ w.code = frame[w.fid].code
    /\ fstate[w.fid].code = w.code
    /\ fstate[w.fid].base[w.name] = start[w.fid][w.name]
    /\ start[w.fid][w.name] # None
    /\ w.seen => fstate[w.fid].prev # 0

IInv ==
  /\ TypeOK
  /\ EventsCoverWatches
  /\ NoInheritedWatch
  /\ FreshNumbers
  /\ InSync
  /\ NoSpuriousFire

-----------------------------------------------------------------------------
(* Claims of the repository's texts that the code does not keep; each is     *)
(* refuted by a run of its own.                                            *)

\* "When a watched local variable or object attribute changes value, the
\* debugger pauses" (README.md): also for the change made by the line on
\* which the watch was set, the usual case for a watch set at a breakpoint.
FirstChangeReported ==
  [][\A f \in Fids, l \in Lines :
       /\ ~ frame[f].guarded
       /\ \E w \in watches : /\ w.fid = f /\ w.inc = frame[f].inc
                             /\ start[f][w.name] # vals[f][w.name]
       /\ \/ StartLine(f, l) /\ <<frame[f].code, l>> \notin armed
          \/ PyReturn(f)
       => hit'.fid = f]_vars

\* unwatch(): "Remove the watchpoint for expr" (__init__.py:92-94): no watch
\* that stands for the user's name n survives it.
UnwatchSilences ==
  [][\A n \in Names : RemoveWatch(n) => ~ \E w \in watches' : w.root = n]_vars
=============================================================================
