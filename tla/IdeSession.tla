------------------------------ MODULE IdeSession ------------------------------
(***************************************************************************)
(* The IDE's side: debug sessions that start and stop, the hit breakpoint, *)
(* the highlighter of a session and the markers of watched rows.           *)
(*                                                                         *)
(* Three kinds of thread meet here.  The platform tells the listeners of   *)
(* pauses, resumptions and stops; blocking evaluations run on pooled       *)
(* threads, any number at a time; and what paints runs on the event        *)
(* dispatch thread, in the order it was posted, except that while a modal  *)
(* dialog is open only tasks posted for any modality run.                  *)
(***************************************************************************)
EXTENDS Naturals, FiniteSets, SequencesExt

CONSTANTS
  MaxSessions,  \* bound: debug processes and their sessions
  Persisted,    \* hit breakpoints an earlier run of the IDE left in its settings
  Names,        \* expressions to watch; a session is paused in one frame
  Objects,      \* those whose value is an object, watched by another type
  MaxPauses,    \* bound: pauses told to the sessions
  MaxEvents,    \* bound: drains that bring hits, and watches the user adds or
                \* removes
  MaxMarks,     \* bound: decorations of one drain; a hit has one or two
  MaxTroubles   \* bound: modal dialogs, failures of the platform or of an evaluation

ASSUME IdeAssumption ==
  {MaxSessions, MaxPauses, MaxEvents, MaxMarks, MaxTroubles} \subseteq Nat

Sessions == 1 .. MaxSessions   \* in the order in which they start

ASSUME PersistedAssumption == Persisted \cap Sessions = {}

Hits == (1 .. MaxEvents) \X (1 .. MaxMarks)
Keys == Names \X Sessions    \* WatchKey: an expression in the session's frame

VARIABLES
  queued,     \* a package waits in the session manager
  phase,      \* how far each session is
  paused,     \* the sessions that are paused
  bps,        \* the hit breakpoints of the breakpoint manager, by session, and
              \* persisted ones
  entry,      \* the keys of the listener's breakpoints
  registered, \* the keys of the listener's highlighters
  listening,  \* the sessions whose listener is a highlighter
  disposed,   \* the sessions whose highlighter is disposed
  pool,       \* the tasks on pooled threads
  edt,        \* the queue of the event dispatch thread
  painted,    \* currentHighlights of each session
  watched,    \* WatchpointMarkerService.watched
  synced,     \* WatchpointMarkerService.syncedFrames
  armed,      \* the watches the runtime of each session knows
  modal,      \* a modal dialog is open
  left,       \* what is left of each bound
  purged,     \* ghost: sessions whose entries were purged before processStopped
  blind,      \* ghost: sessions whose sweep did not find every breakpoint
  taken,      \* ghost: breakpoints that a sweep has taken
  stranded,   \* ghost: sessions at whose stop the breakpoint was not removed
  due,        \* ghost: decorations on screen when their session went on
  over,       \* ghost: sessions that had stopped when the markers were cleared
  late,       \* ghost: those of them with an answer still on its way
  reads       \* ghost: the session last synced, and whether reads crossed, or one
              \* failed, or was not made

market == <<watched, synced, armed, over, late, reads>>
fates  == <<purged, blind, taken, stranded>>
hooks  == <<bps, entry, registered, listening, disposed, fates>>
vars   == <<queued, phase, paused, hooks, pool, edt, painted, market, modal,
            left, due>>

Stopped == {s \in Sessions : phase[s] \in {"halted", "told", "unhooked", "done"}}

Spend(b) == left[b] > 0 /\ left' = [left EXCEPT ![b] = @ - 1]

\* A task on a pooled thread; n tells tasks of the same kind apart.
Task(kind, s, n) == [kind |-> kind, s |-> s, n |-> n, at |-> "ready",
                     name |-> {}, got |-> {}]
Posted(kind, s, what) == [kind |-> kind, s |-> s, what |-> what, at |-> "queued"]

-----------------------------------------------------------------------------
(* A session starts: WatchpointDebugListener.processStarted.               *)

\* DebugWithWatchpointAction: the package is stashed before the launch.  (A click
\* with no session to come is beyond the bound.)
Click ==
  /\ \E s \in Sessions : phase[s] = "new"
  /\ queued' = TRUE
  /\ UNCHANGED <<phase, paused, hooks, pool, edt, painted, market, modal, left, due>>

\* Mutant: clear() of the marker service forgets the cross-frame set.
SyncedKept == synced

\* What clear() of the marker service leaves of the cross-frame set.
SyncedCleared == {}

\* Entries of the breakpoints and of the highlighters are purged, table by table: of
\* all processes that have stopped, and of any whose session cannot be asked, which
\* is taken for a stopped one.
Purge(dead, deaf) ==
  /\ dead \subseteq entry /\ entry \cap Stopped \subseteq dead
  /\ deaf \subseteq registered /\ registered \cap Stopped \subseteq deaf
  /\ IF dead \cup deaf \subseteq Stopped THEN UNCHANGED left ELSE Spend("troubles")
  /\ entry' = entry \ dead
  /\ registered' = registered \ deaf
  /\ purged' = purged \cup dead

\* The purge, then the package is taken and the markers are cleared.  Without a
\* package the session is none of ours.
Start(s) ==
  /\ phase[s] = "new"
  /\ \A r \in 1 .. s - 1 : phase[r] # "new"
  /\ \E dead, deaf \in SUBSET Sessions : Purge(dead, deaf)
  /\ queued' = FALSE
  /\ IF queued
     THEN /\ phase' = [phase EXCEPT ![s] = "starting"]
          /\ watched' = {} /\ synced' = SyncedCleared
          /\ over' = over \cup Stopped
          /\ late' = late \cup {z \in Stopped :
                       \/ \E k \in pool : k.s = z /\ k.at # "ready"
                       \/ \E i \in DOMAIN edt : edt[i].kind = "mark" /\ edt[i].s = z}
          /\ reads' = [reads EXCEPT !.of = {}]
          /\ UNCHANGED armed
     ELSE /\ phase' = [phase EXCEPT ![s] = "plain"]
          /\ UNCHANGED market
  /\ UNCHANGED <<paused, bps, listening, disposed, blind, taken, stranded, pool,
                 edt, painted, modal, due>>

\* Mutant: breakpoints of earlier sessions are not looked for.
NoSweep(s, kept) == bps \cup {s}

\* The write action: the hit breakpoints it finds go, ours comes.
Swept(s, kept) == kept \cup {s}

\* What addWatchpointHitBreakpoint leaves when its sweep has kept these.
Added(s, kept) ==
  /\ bps' = Swept(s, kept)
  /\ entry' = entry \cup {s}
  /\ blind' = IF kept = {} THEN blind ELSE blind \cup {s}
  /\ taken' = taken \cup (bps \ kept)

\* ... and when the addition has failed.
NotAdded(kept) ==
  /\ bps' = kept
  /\ taken' = taken \cup (bps \ kept)
  /\ UNCHANGED <<entry, blind>>

Attached(s) ==
  /\ listening' = listening \cup {s}
  /\ registered' = registered \cup {s}

\* addWatchpointHitBreakpoint, then attachHitHighlighter, which no other thread
\* looks at before it is done.  Reflective calls may fail: the lookup of some
\* breakpoints, which are kept without a word, and the addition, also after the
\* sweep.  The highlighter may fail to be attached.
AddBreakpoint(s) ==
  /\ phase[s] = "starting"
  /\ phase' = [phase EXCEPT ![s] = "live"]
  /\ \/ Added(s, {}) /\ Attached(s) /\ UNCHANGED left
     \/ /\ Spend("troubles")
        /\ \/ \E kept \in SUBSET bps : Attached(s) /\ (Added(s, kept) \/ NotAdded(kept))
           \/ Added(s, {}) /\ UNCHANGED <<listening, registered>>
  /\ UNCHANGED <<queued, paused, disposed, purged, stranded, pool, edt, painted,
                 market, modal, due>>

-----------------------------------------------------------------------------
(* Pauses, resumptions and the stop of a session.                          *)

\* sessionPaused: two tasks go to the pool, the frame sync first, if a highlighter
\* could be attached.  The platform may tell of a pause late, when the session has
\* stopped.  While the program ran it may have watched and unwatched, and its
\* frames may have ended.
Pause(s) ==
  /\ s \in listening \/ phase[s] = "live"
  /\ Spend("pauses")
  /\ paused' = IF phase[s] = "live" THEN paused \cup {s} ELSE paused
  /\ \E now \in SUBSET Names : armed' = [armed EXCEPT ![s] = now]
  /\ IF s \in listening
     THEN /\ pool' = pool \cup {Task("sync", s, left.pauses),
                                Task("drain", s, left.pauses)}
          /\ UNCHANGED reads
     ELSE /\ reads' = [reads EXCEPT !.crossed = TRUE]
          /\ UNCHANGED pool
  /\ UNCHANGED <<queued, phase, hooks, edt, painted, watched, synced, over,
                 late, modal, due>>

\* Mutant: the highlights are left to the next pause.
NothingPosted(s) == edt

\* clearHighlight: nothing is posted when nothing is on screen by now.
ClearPosted(s) ==
  IF painted[s] = {} THEN edt ELSE Append(edt, Posted("clear", s, {}))

ClearHighlight(s) ==
  /\ edt' = ClearPosted(s)
  /\ due' = due \cup painted[s]

\* sessionResumed.
Resume(s) ==
  /\ s \in paused
  /\ paused' = paused \ {s}
  /\ IF s \in listening THEN ClearHighlight(s) ELSE UNCHANGED <<edt, due>>
  /\ UNCHANGED <<queued, phase, hooks, pool, painted, market, modal, left>>

\* The session has stopped: session.isStopped.
Halt(s) ==
  /\ phase[s] = "live"
  /\ phase' = [phase EXCEPT ![s] = "halted"]
  /\ paused' = paused \ {s}
  /\ UNCHANGED <<queued, hooks, pool, edt, painted, market, modal, left, due>>

\* sessionStopped, which a hard stop may not deliver.
SessionStopped(s) ==
  /\ phase[s] = "halted"
  /\ s \in listening
  /\ phase' = [phase EXCEPT ![s] = "told"]
  /\ ClearHighlight(s)
  /\ UNCHANGED <<queued, paused, hooks, pool, painted, market, modal, left>>

\* Mutant: the entry is looked up and stays.
EntryKept(s) == entry

\* breakpoints.remove(debugProcess).
Forgotten(s) == entry \ {s}

\* Mutant: the breakpoints are not kept apart by process.
WithoutAny(s) == {}

\* removeBreakpoint.
Without(s) == bps \ {s}

\* processStopped: the entry goes, if there is one, and then its breakpoint, if that
\* does not fail.
Unhook(s) ==
  /\ phase[s] \in {"halted", "told"}
  /\ phase' = [phase EXCEPT ![s] = "unhooked"]
  /\ entry' = Forgotten(s)
  /\ IF s \in entry
     THEN \/ bps' = Without(s) /\ UNCHANGED <<left, stranded>>
          \/ Spend("troubles") /\ stranded' = stranded \cup {s} /\ UNCHANGED bps
     ELSE UNCHANGED <<bps, left, stranded>>
  /\ UNCHANGED <<queued, paused, registered, listening, disposed, purged, blind,
                 taken, pool, edt, painted, market, modal, due>>

\* Mutant: the last clear is posted like any other.
PlainClear == "clear"

\* dispose() posts its clear for any modality.
FinalClear == "final"

\* detachHitHighlighter: the highlighter is disposed, unless it was purged, and
\* listens no more.  (What it is told in between, it ignores.)
Dispose(s) ==
  /\ phase[s] = "unhooked"
  /\ phase' = [phase EXCEPT ![s] = "done"]
  /\ registered' = registered \ {s}
  /\ IF s \in registered
     THEN /\ disposed' = disposed \cup {s}
          /\ listening' = listening \ {s}
          /\ edt' = Append(edt, Posted(FinalClear, s, {}))
     ELSE UNCHANGED <<disposed, listening, edt>>
  /\ UNCHANGED <<queued, paused, bps, entry, fates, pool, painted, market,
                 modal, left, due>>

-----------------------------------------------------------------------------
(* Pooled threads: the drain of the hits, the frame sync, watch and unwatch. *)

\* A task looks at disposed and isStopped once, before it blocks.
Ask(k) ==
  /\ k.at = "ready"
  /\ pool' = IF k.s \in disposed \cup Stopped THEN pool \ {k}
             ELSE (pool \ {k}) \cup {[k EXCEPT !.at = "asked"]}
  /\ UNCHANGED <<queued, phase, paused, hooks, edt, painted, market, modal,
                 left, due>>

\* No hit, a failed evaluation or an answer nobody can decode: nothing happens.
NoAnswer(k) ==
  /\ k.at = "asked"
  /\ IF k.kind = "drain" THEN UNCHANGED left ELSE Spend("troubles")
  /\ pool' = pool \ {k}
  /\ reads' = IF k.kind = "sync" THEN [reads EXCEPT !.crossed = TRUE] ELSE reads
  /\ UNCHANGED <<queued, phase, paused, hooks, edt, painted, watched, synced,
                 armed, over, late, modal, due>>

\* Hits are drained: each name is marked in the paused frame, if that is known,
\* and their decorations are posted.
Drained(k) ==
  /\ k.at = "asked" /\ k.kind = "drain"
  /\ Spend("events")
  /\ pool' = pool \ {k}
  /\ \E m \in 1 .. MaxMarks, names \in SUBSET Names :
       /\ watched' = watched \cup (names \X {k.s})
       /\ edt' = Append(edt, Posted("paint", k.s, {left.events} \X (1 .. m)))
  /\ UNCHANGED <<queued, phase, paused, hooks, painted, synced, armed, over,
                 late, reads, modal, due>>

\* _pycharm_locate_watches has answered.
Located(k) ==
  /\ k.at = "asked" /\ k.kind = "sync"
  /\ pool' = (pool \ {k}) \cup {[k EXCEPT !.at = "read",
                                          !.got = armed[k.s] \X {k.s}]}
  /\ reads' = [reads EXCEPT !.crossed =
                 \E j \in pool : j.at \in {"read", "cleared"}]
  /\ UNCHANGED <<queued, phase, paused, hooks, edt, painted, watched, synced,
                 armed, over, late, modal, left, due>>

\* Mutant: the new markers come on top of the old ones.
NotCleared == synced

\* replaceSynced, its first half.
ClearedSync == {}

Replace(k) ==
  /\ k.at = "read"
  /\ synced' = ClearedSync
  /\ pool' = (pool \ {k}) \cup {[k EXCEPT !.at = "cleared"]}
  /\ UNCHANGED <<queued, phase, paused, hooks, edt, painted, watched, armed,
                 over, late, reads, modal, left, due>>

\* ... and its second.
AddAll(k) ==
  /\ k.at = "cleared"
  /\ synced' = synced \cup k.got
  /\ pool' = pool \ {k}
  /\ reads' = [reads EXCEPT !.of = {k.s}]
  /\ UNCHANGED <<queued, phase, paused, hooks, edt, painted, watched, armed,
                 over, late, modal, left, due>>

\* The type of the row's value is one the runtime made: an object is watched.
Typed(s, n) == n \in Objects \cap armed[s]

\* AddWatchpointAction: a row that its marker or its type tells to be watched is
\* unwatched, another one watched.
Toggle(s, n) ==
  /\ s \in paused
  /\ Spend("events")
  /\ LET kind == IF <<n, s>> \in watched \cup synced \/ Typed(s, n)
                 THEN "unwatch" ELSE "watch"
     IN pool' = pool \cup {[Task(kind, s, left.events) EXCEPT
                              !.at = "asked", !.name = {n}]}
  /\ UNCHANGED <<queued, phase, paused, hooks, edt, painted, market, modal, due>>

\* Its answer: the row is marked or not on the event thread, and a sync starts.
Toggled(k) ==
  /\ k.at = "asked" /\ k.kind \in {"watch", "unwatch"}
  /\ armed' = [armed EXCEPT ![k.s] =
                 IF k.kind = "watch" THEN @ \cup k.name ELSE @ \ k.name]
  /\ edt' = Append(edt, Posted(IF k.kind = "watch" THEN "mark" ELSE "unmark",
                               k.s, k.name))
  /\ pool' = (pool \ {k}) \cup {Task("sync", k.s, k.n + MaxPauses)}
  /\ UNCHANGED <<queued, phase, paused, hooks, painted, watched, synced, over,
                 late, reads, modal, left, due>>

-----------------------------------------------------------------------------
(* The event dispatch thread.                                              *)

Started == edt # << >> /\ Head(edt).at = "checked"

\* The task that runs next: the first, or the first for any modality.
Runs(i) ==
  /\ i \in DOMAIN edt
  /\ IF modal
     THEN /\ edt[i].kind = "final"
          /\ \A j \in 1 .. i - 1 : edt[j].kind # "final"
     ELSE i = 1

Gone(i) == RemoveAt(edt, i)

\* applyHighlight looks at disposed, every time.
MayPaint(s) == s \notin disposed

PaintCheck(i) ==
  /\ Runs(i) /\ edt[i].kind = "paint" /\ edt[i].at = "queued"
  /\ edt' = IF MayPaint(edt[i].s)
            THEN [edt EXCEPT ![i].at = "checked"] ELSE Gone(i)
  /\ UNCHANGED <<queued, phase, paused, hooks, pool, painted, market, modal,
                 left, due>>

\* ... then paints one decoration, or cannot (no such file or line).
PaintOne(i) ==
  /\ Runs(i) /\ edt[i].kind = "paint" /\ edt[i].at = "checked"
  /\ \E h \in edt[i].what :
       /\ \/ painted' = [painted EXCEPT ![edt[i].s] = @ \cup {h}]
          \/ UNCHANGED painted
       /\ edt' = IF edt[i].what = {h} THEN Gone(i)
                 ELSE [edt EXCEPT ![i].what = @ \ {h}, ![i].at = "queued"]
  /\ UNCHANGED <<queued, phase, paused, hooks, pool, market, modal, left, due>>

\* clearHighlightInternal.
RunClear(i) ==
  /\ Runs(i) /\ edt[i].kind \in {"clear", "final"}
  /\ painted' = [painted EXCEPT ![edt[i].s] = {}]
  /\ edt' = Gone(i)
  /\ UNCHANGED <<queued, phase, paused, hooks, pool, market, modal, left, due>>

\* decorateNode, and undecorateNode, which forgets the name in every frame.
RunMark(i) ==
  /\ Runs(i) /\ edt[i].kind \in {"mark", "unmark"}
  /\ watched' = IF edt[i].kind = "mark" THEN watched \cup (edt[i].what \X {edt[i].s})
                ELSE watched \ (edt[i].what \X Sessions)
  /\ edt' = Gone(i)
  /\ UNCHANGED <<queued, phase, paused, hooks, pool, painted, synced, armed,
                 over, late, reads, modal, left, due>>

\* A modal dialog opens or closes between two tasks.  (One that opens while no
\* task waits might as well open when the first one does.)
Dialog ==
  /\ edt # << >> \/ modal
  /\ ~ Started
  /\ modal' = ~ modal
  /\ IF modal THEN UNCHANGED left ELSE Spend("troubles")
  /\ UNCHANGED <<queued, phase, paused, hooks, pool, edt, painted, market, due>>

-----------------------------------------------------------------------------

Init ==
  /\ queued = FALSE /\ modal = FALSE
  /\ phase = [s \in Sessions |-> "new"]
  /\ paused = {} /\ bps = Persisted /\ entry = {} /\ registered = {}
  /\ listening = {} /\ disposed = {} /\ pool = {} /\ edt = << >>
  /\ painted = [s \in Sessions |-> {}]
  /\ watched = {} /\ synced = {}
  /\ armed = [s \in Sessions |-> {}]
  /\ left = [pauses |-> MaxPauses, events |-> MaxEvents, troubles |-> MaxTroubles]
  /\ purged = {} /\ blind = {} /\ taken = {} /\ stranded = {}
  /\ due = {} /\ over = {} /\ late = {}
  /\ reads = [of |-> {}, crossed |-> FALSE]

EdtStep(i) == PaintCheck(i) \/ PaintOne(i) \/ RunClear(i) \/ RunMark(i)

Next ==
  \/ Click
  \/ Dialog
  \/ \E s \in Sessions :
       \/ Start(s) \/ AddBreakpoint(s)
       \/ Pause(s) \/ Resume(s) \/ Halt(s) \/ SessionStopped(s)
       \/ Unhook(s) \/ Dispose(s)
       \/ \E n \in Names : Toggle(s, n)
  \/ \E k \in pool : Ask(k) \/ NoAnswer(k) \/ Drained(k) \/ Located(k)
                       \/ Replace(k) \/ AddAll(k) \/ Toggled(k)
  \/ \E i \in DOMAIN edt : EdtStep(i)

\* The event thread runs what it can run.
FairSpec ==
  Init /\ [][Next]_vars /\ WF_vars(\E i \in DOMAIN edt : EdtStep(i))

-----------------------------------------------------------------------------
(* Properties.                                                             *)

TypeOK ==
  /\ queued \in BOOLEAN /\ modal \in BOOLEAN
  /\ phase \in [Sessions -> {"new", "plain", "starting", "live", "halted", "told",
                             "unhooked", "done"}]
  /\ \A S \in {paused, entry, registered, listening, disposed} :
       S \subseteq Sessions
  /\ bps \subseteq Sessions \cup Persisted
  /\ \A s \in entry : phase[s] \in {"live", "halted", "told"}
  /\ \A s \in registered : phase[s] \in {"live", "halted", "told", "unhooked"}
  /\ registered \subseteq listening /\ disposed \cap listening = {}
  /\ painted \in [Sessions -> SUBSET Hits]
  /\ watched \cup synced \subseteq Keys
  /\ \A i \in DOMAIN edt : edt[i].at = "checked" => i = 1

\* A hit breakpoint does not linger (WatchpointDebugListener.kt:32-33, 158-160).
\* One whose session's stop has been handled is there only if another session's
\* start purged the entry by which processStopped finds it, or its removal failed;
\* and of two breakpoints, unless both were there before, one was added by a session
\* whose sweep did not find every breakpoint.
BreakpointEnds ==
  /\ \A s \in bps \cap Sessions :
       phase[s] \in {"unhooked", "done"} => s \in purged \cup stranded
  /\ \A r, s \in bps :
       r # s => {r, s} \subseteq Persisted \/ {r, s} \cap blind # {}

\* Sessions do not lose their breakpoint to each other's stop ("keyed per-process so
\* two simultaneous debug sessions [...] don't trip over each other's cleanup",
\* WatchpointDebugListener.kt:35-36).  They do to each other's start: one whose
\* breakpoint was added, and whose stop is still to come, has it unless the sweep of
\* a session that started meanwhile has taken it.
BreakpointStays == \A s \in entry : s \in bps \cup taken

\* Markers of a session that was over when a new one started do not decorate the
\* new one ("so that watchpoints from a previous run don't decorate same-named
\* variables in the new run", WatchpointMarkerService.kt:24-26), except those an
\* evaluation brings that was on its way at that moment.
MarkersFresh == \A k \in watched \cup synced : k[2] \in over => k[2] \in late

\* When no read is on its way, the cross-frame markers are what the runtime of
\* the session last synced says while it is paused, unless two reads crossed, one
\* failed, or a pause was not synced because a session has no highlighter.
SyncedAgrees ==
  \A s \in reads.of :
    /\ s \in paused /\ ~ reads.crossed
    /\ \A k \in pool : k.kind = "drain"
    => synced = armed[s] \X {s}

\* What is on screen when its session goes on disappears, dialogs permitting.
HighlightsEnd ==
  \A h \in Hits :
    h \in due ~> (modal \/ \A s \in Sessions : h \notin painted[s])

\* The highlighter implements the promise of Decoration: a session is closing
\* from its disposal until the clear posted for it has run.
Stage(s) ==
  IF s \notin disposed THEN "open"
  ELSE IF \E i \in DOMAIN edt : edt[i].kind = FinalClear /\ edt[i].s = s
       THEN "closing" ELSE "gone"

D == INSTANCE Decoration WITH
       Marks <- Hits, shown <- painted, stage <- [s \in Sessions |-> Stage(s)]

Decorates == D!Spec
===============================================================================
