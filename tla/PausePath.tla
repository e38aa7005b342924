----------------------------- MODULE PausePath -----------------------------
(***************************************************************************)
(* How a hit becomes a pause in the frame that made the change: the target  *)
(* line is picked from the frame's code object (CodeLines), a temporary     *)
(* breakpoint goes into pydevd's tables, line events are forced on, and the *)
(* frame runs into the line, or not.  pydevd_boost.py has patched pydevd's  *)
(* decision on line events before that, if it got there in time.            *)
(*                                                                         *)
(* One frame at a time runs, of one code object, on one thread of the       *)
(* program.  pydevd's reader thread sets and removes the user's breakpoints *)
(* meanwhile.  Several hits, several threads and the safety net in the      *)
(* caller are the subject of HitPipeline.                                   *)
(***************************************************************************)
EXTENDS CodeLines, SequencesExt

CONSTANTS
  Codes,       \* code objects
  UserBps,     \* breakpoints the user may set in the file
  MaxSets,     \* bound: MaxSets[c]: how often the user sets or removes one
  MaxEntries,  \* bound: frames of the code object, one after the other
  MaxHits,     \* bound: hits
  MaxFaults    \* bound: failures of patches and of the arming of events

Actors == {"program", "reader"}

\* A breakpoint of the file: ours are temporary.
Breakpoint == [line : Nat, func : STRING, temp : BOOLEAN]

\* What CPython guarantees of a code object: the flow of control stays inside,
\* and no line comes before co_firstlineno.
WellFormed(c) ==
  /\ c.name \in STRING
  /\ c.line \in Seq(Nat) /\ c.line # << >>
  /\ \A l \in CodeLines(c) : c.first <= l
  /\ DOMAIN c.op = Offsets(c) /\ DOMAIN c.arg = Offsets(c)
  /\ c.handlers \subseteq Offsets(c)
  /\ \A i \in Offsets(c) :
       /\ c.op[i] \in {"op", "for", "store"} => i + 1 \in Offsets(c)
       /\ c.op[i] \in {"for", "back"} => c.arg[i] \in Offsets(c)

\* The IDE has one breakpoint of the user on a line.
ASSUME PausePathAssumption ==
  /\ \A c \in Codes : WellFormed(c)
  /\ UserBps \subseteq Breakpoint /\ \A b \in UserBps : ~ b.temp
  /\ \A b, d \in UserBps : b.line = d.line => b = d
  /\ MaxSets \in [Codes -> Nat]
  /\ {MaxEntries, MaxHits, MaxFaults} \subseteq Nat

VARIABLES
  boot,     \* pydevd's module, the import hook and the patches
  code,     \* the code object
  pc,       \* where the thread is
  at,       \* the offset of its frame
  event,    \* the line of the LINE event of the last step, NoLine for none
  table,    \* file_to_id_to_line_breakpoint of the file, oldest first
  lineMap,  \* py_db.breakpoints of the file
  build,    \* the line map each actor has built and not published
  skipped,  \* global_cache_frame_skips has the code object
  seen,     \* the line map that the pending decision has read
  lineOn,   \* pydevd's LINE events are on for the code object
  own,      \* lines of the code object in _bp_pause_pending
  target,   \* the line at which the hit is to pause
  run,      \* ghost: how the frame has run on since the hit
  left      \* what is left of each bound

pydevd == <<table, lineMap, build, skipped>>
vars == <<boot, code, pc, at, event, table, lineMap, build, skipped, seen, lineOn,
          own, target, run, left>>

Nothing == << >>
NoCode == << >>
\* No hit is waiting for its pause.
NoTarget == [line |-> NoLine, from |-> 0, to |-> 0, by |-> "none"]
\* straight: no jump since the hit; over: a loop ended with a jump over the
\* target; raised: an exception since; unarmed: both ways to get line events
\* failed; stale: pydevd's line map or its skip cache is older than the table;
\* missed: the line was passed while it was.
Undisturbed == [straight |-> TRUE, over |-> FALSE, raised |-> FALSE,
                unarmed |-> FALSE, stale |-> FALSE, missed |-> FALSE]

Spend(what) == /\ left[what] > 0
               /\ left' = [left EXCEPT ![what] = @ - 1]

-----------------------------------------------------------------------------
(* pydevd_boost: install() and the import hook.                            *)

\* Mutant: a module found in sys.modules is patched, loaded or not.
Present(m) == m # "absent"

\* All functions that the patches need are defined.
Complete(m) == m = "loaded"

\* apply_patches: each patch that can be applied is applied, the others are
\* skipped; there is no second try.
Applied(b, decision, raise) ==
  [b EXCEPT !.applied = TRUE, !.hook = FALSE,
            !.decision = decision /\ b.module = "loaded",
            !.raise = raise /\ b.module = "loaded"]

\* A patch may fail, with another version of pydevd.
Applies(b) ==
  \/ boot' = Applied(b, TRUE, TRUE) /\ UNCHANGED left
  \/ /\ Spend("faults")
     /\ \E decision, raise \in BOOLEAN :
          /\ ~ (decision /\ raise)
          /\ boot' = [Applied(b, decision, raise) EXCEPT !.failed = TRUE]

Booting == pc = "boot" /\ UNCHANGED <<code, pc, at, event, pydevd, seen, lineOn,
                                      own, target, run>>

\* install(): patch a loaded module at once, wait for the import otherwise.
Install ==
  /\ Booting
  /\ ~ boot.applied /\ ~ boot.hook
  /\ IF Present(boot.module)
     THEN Applies([boot EXCEPT !.late = TRUE])
     ELSE boot' = [boot EXCEPT !.hook = TRUE] /\ UNCHANGED left

\* pydevd starts to import its module.
BeginImport ==
  /\ Booting
  /\ boot.hook /\ boot.module = "absent"
  /\ boot' = [boot EXCEPT !.module = "loading"]
  /\ UNCHANGED left

\* An import returns through __import__: one of the module's own imports, its
\* own, or any other.
ImportReturns ==
  /\ pc \in {"boot", "idle"}
  /\ UNCHANGED <<code, pc, at, event, pydevd, seen, lineOn, own, target, run>>
  /\ boot.module # "absent" /\ boot.hook
  /\ \E m \in {boot.module, "loaded"} :
       IF Complete(m) THEN Applies([boot EXCEPT !.module = m])
       ELSE UNCHANGED <<boot, left>>

\* The module is loaded by way of importlib, which does not call __import__.
ImportElsewhere ==
  /\ Booting
  /\ boot.module = "loading"
  /\ boot' = [boot EXCEPT !.module = "loaded", !.late = ~ boot.applied]
  /\ UNCHANGED left

\* The import fails: the module leaves sys.modules.
ImportFails ==
  /\ Booting
  /\ boot.module = "loading"
  /\ Spend("faults")
  /\ boot' = [boot EXCEPT !.module = "absent"]

\* pydevd registers its callbacks with sys.monitoring; the program starts, with
\* some code object.
Register ==
  /\ pc = "boot"
  /\ boot.module = "loaded" /\ (boot.hook \/ boot.applied)
  /\ boot' = [boot EXCEPT !.registered = IF boot.raise THEN "patched" ELSE "original"]
  /\ pc' = "idle"
  /\ \E c \in Codes : code' = c /\ left' = [left EXCEPT !.sets = MaxSets[c]]
  /\ UNCHANGED <<at, event, pydevd, seen, lineOn, own, target, run>>

-----------------------------------------------------------------------------
(* pydevd's tables.                                                        *)

\* consolidate_breakpoints, its loop: a later breakpoint takes the line.
MapOf(bps) ==
  {bps[i] : i \in {j \in DOMAIN bps :
                     \A k \in DOMAIN bps : k > j => bps[k].line # bps[j].line}}

\* An actor changes the table and builds a map; one that the other has built
\* is out of date by that.
Changed(actor, bps, map) ==
  /\ table' = bps
  /\ build' = [a \in Actors |->
                 IF a = actor THEN [map |-> map, outdated |-> FALSE]
                 ELSE IF build[a] = Nothing THEN Nothing
                 ELSE [build[a] EXCEPT !.outdated = TRUE]]
  /\ UNCHANGED <<lineMap, skipped>>

\* consolidate_breakpoints, its end: the map is published, and the skip caches
\* are cleared.
Publish(actor) ==
  /\ build[actor] # Nothing
  /\ lineMap' = build[actor].map
  /\ build' = [build EXCEPT ![actor] = Nothing]
  /\ skipped' = FALSE
  /\ pc' = IF actor = "reader" THEN pc
            ELSE IF target = NoTarget THEN "run" ELSE "events"
  /\ run' = [run EXCEPT !.stale = build[actor].outdated]
  /\ event' = NoLine
  /\ UNCHANGED <<boot, code, at, table, seen, lineOn, own, target, left>>

\* The reader thread enters or removes a breakpoint of the user.
SetBreakpoint(b) ==
  /\ pc # "boot"
  /\ build["reader"] = Nothing
  /\ Spend("sets")
  /\ LET old == {i \in DOMAIN table : table[i] = b}
         bps == IF old = {} THEN Append(table, b) ELSE RemoveAt(table, Least(old))
     IN Changed("reader", bps, MapOf(bps))
  /\ event' = NoLine
  /\ UNCHANGED <<boot, code, pc, at, seen, lineOn, own, target, run>>

-----------------------------------------------------------------------------
(* A frame begins: pydevd's PY_START callback.                             *)

Enter ==
  /\ pc = "idle"
  /\ Spend("entries")
  /\ at' = 1
  /\ IF skipped THEN pc' = "start" /\ UNCHANGED seen
     ELSE pc' = "decide" /\ seen' = lineMap
  /\ run' = [run EXCEPT !.straight = FALSE]
  /\ event' = NoLine
  /\ UNCHANGED <<boot, code, pydevd, lineOn, own, target>>

\* pydevd's own decision: any breakpoint that may be in this function.
Original(bps) == \E b \in bps : b.func \in {ModuleLevel, code.name}

\* _should_enable_line_events_for_code, patched or not.  What it has read may
\* be out of date by now.
Decide ==
  /\ pc = "decide"
  /\ IF boot.decision /\ SkipsLineEvents(code, seen)
     THEN /\ skipped' = TRUE
          /\ run' = [run EXCEPT !.stale = @ \/ seen # lineMap]
          /\ UNCHANGED lineOn
     ELSE /\ lineOn' = (lineOn \/ Original(seen))
          /\ UNCHANGED <<skipped, run>>
  /\ seen' = {}
  /\ pc' = "start"
  /\ event' = NoLine
  /\ UNCHANGED <<boot, code, at, table, lineMap, build, own, target, left>>

-----------------------------------------------------------------------------
(* The frame runs.                                                         *)

\* The LINE event on the way from one instruction to another.
EventOf(i, j) ==
  IF j <= i \/ code.line[j] # code.line[i] THEN code.line[j] ELSE NoLine

\* A line event pauses at the target: in our own callback, or in pydevd at a
\* breakpoint of its map, the user's own included.
Pauses(l) ==
  /\ l # NoLine /\ l = target.line
  /\ l \in own \/ (lineOn /\ \E b \in lineMap : b.line = l)

\* The frame goes on to offset j, jumping or not, with event l.  A pause at the
\* target takes the hit with all that it armed.
GoOn(j, l, jumps, raises) ==
  /\ at' = j
  /\ event' = l
  /\ run' = [run EXCEPT !.straight = @ /\ ~ jumps, !.raised = @ \/ raises,
                        !.over = @ \/ (jumps /\ target.to \in at + 1 .. j - 1),
                        !.missed = @ \/ (l = target.line /\ run.stale)]
  /\ IF Pauses(l)
     THEN target' = NoTarget /\ own' = {} /\ pc' = "disarm"
     ELSE pc' = "run" /\ UNCHANGED <<target, own>>
  /\ UNCHANGED <<boot, code, pydevd, seen, lineOn, left>>

JumpTo(j) == GoOn(j, EventOf(at, j), TRUE, FALSE)

Start ==
  /\ pc = "start"
  /\ GoOn(1, code.line[1], FALSE, FALSE)

\* The instruction at at is executed; a store has changed nothing that is
\* watched, or its hit is armed.
Step ==
  /\ pc = "stored" \/ (pc = "run" /\ code.op[at] \in {"op", "for", "store"})
  /\ GoOn(at + 1, EventOf(at, at + 1), FALSE, FALSE)

\* A loop has no more items.
LoopExit ==
  /\ pc = "run" /\ code.op[at] = "for"
  /\ JumpTo(code.arg[at])

Back ==
  /\ pc = "run" /\ code.op[at] = "back"
  /\ JumpTo(code.arg[at])

\* An instruction raises, and a handler catches it.
Raise ==
  /\ pc = "run"
  /\ \E h \in code.handlers :
       /\ at < h
       /\ GoOn(h, EventOf(at, h), TRUE, TRUE)

Return ==
  /\ pc = "run" /\ code.op[at] = "return"
  /\ pc' = "idle"
  /\ event' = NoLine
  /\ UNCHANGED <<boot, code, at, pydevd, seen, lineOn, own, target, run, left>>

-----------------------------------------------------------------------------
(* A hit, and its target: the primary one of _compute_bp_targets.          *)

\* Where the line comes from: a later line ahead, or one that a handler shares
\* with the normal flow; a jump back that closes a loop around the frame's
\* instruction, or one from a handler into the normal flow.
Picked ==
  LET line == NextCodeLineAfterFrame(code, at)
      starts == StartsAhead(code, at)
      backs == BacksAhead(code, at)
      source == NextCodeLineIn(code, code.line[at])
  IN IF line = NoLine
     THEN IF source = NoLine THEN NoTarget
          ELSE [line |-> source, from |-> at, to |-> 0, by |-> "source"]
     ELSE [line |-> line, from |-> at,
           to |-> IF starts # {} THEN Least(starts) ELSE code.arg[Least(backs)],
           by |-> IF starts # {}
                  THEN IF Least(starts) \in HandlerOffsets(code) THEN "shared"
                       ELSE "ahead"
                  ELSE IF Least(backs) \in HandlerOffsets(code) THEN "handler"
                       ELSE "loop"]

\* A store changes a watched attribute; its write hook picks the target.  With
\* no line left the caller's code is searched (HitPipeline).
Hit ==
  /\ pc = "run" /\ code.op[at] = "store"
  /\ target = NoTarget
  /\ Spend("hits")
  /\ target' = Picked
  /\ pc' = IF Picked = NoTarget THEN "stored" ELSE "arm"
  /\ run' = [Undisturbed EXCEPT !.stale = run.stale]
  /\ event' = NoLine
  /\ UNCHANGED <<boot, code, at, pydevd, seen, lineOn, own>>

\* _install_bp_at: the breakpoint has the name of its function.
Arm ==
  /\ pc = "arm"
  /\ LET bps == Append(table, [line |-> target.line, func |-> code.name,
                               temp |-> TRUE])
     IN Changed("program", bps, MapOf(bps))
  /\ pc' = "publish"
  /\ event' = NoLine
  /\ UNCHANGED <<boot, code, at, seen, lineOn, own, target, run, left>>

\* pydevd's LINE events are forced on, then our own; either may fail.
ArmEvents(forced, ours) ==
  /\ pc = "events"
  /\ IF forced /\ ours THEN UNCHANGED left ELSE Spend("faults")
  /\ lineOn' = (lineOn \/ forced)
  /\ own' = IF ours THEN {target.line} ELSE {}
  /\ run' = [run EXCEPT !.unarmed = ~ forced /\ ~ ours]
  /\ pc' = "stored"
  /\ event' = NoLine
  /\ UNCHANGED <<boot, code, at, pydevd, seen, target>>

\* Mutant: the breakpoint stays until the session ends.
WithTemps(bps) == bps

\* What is left when the temporary breakpoint goes; one hit waits here, so there
\* is one at most.
WithoutTemps(bps) ==
  LET temps == {i \in DOMAIN bps : bps[i].temp}
  IN IF temps = {} THEN bps ELSE RemoveAt(bps, Least(temps))

\* Mutant: the temporary breakpoints are taken from the map as well.
CutMap(bps) == {b \in lineMap : ~ b.temp}

\* The map without the temporary breakpoints is built anew.
RebuiltMap(bps) == MapOf(bps)

\* _remove_temp_breakpoints.
Disarm ==
  /\ pc = "disarm"
  /\ Changed("program", WithoutTemps(table), RebuiltMap(WithoutTemps(table)))
  /\ pc' = "publish"
  /\ event' = NoLine
  /\ UNCHANGED <<boot, code, at, seen, lineOn, own, target, run, left>>

-----------------------------------------------------------------------------

Init ==
  /\ boot \in [module : {"absent", "loaded"}, hook : {FALSE}, applied : {FALSE},
               decision : {FALSE}, raise : {FALSE}, registered : {"none"},
               late : {FALSE}, failed : {FALSE}]
  /\ code = NoCode
  /\ pc = "boot" /\ at = 1 /\ event = NoLine
  /\ table = << >> /\ lineMap = {} /\ skipped = FALSE
  /\ build = [a \in Actors |-> Nothing]
  /\ seen = {} /\ lineOn = FALSE /\ own = {}
  /\ target = NoTarget
  /\ run = Undisturbed
  /\ left = [sets |-> 0, entries |-> MaxEntries, hits |-> MaxHits,
             faults |-> MaxFaults]

Frame ==
  \/ Enter \/ Decide \/ Start \/ Step \/ LoopExit \/ Back \/ Return
  \/ Hit \/ Arm \/ Disarm
  \/ \E forced, ours \in BOOLEAN : ArmEvents(forced, ours)

Next ==
  \/ Install \/ BeginImport \/ ImportReturns \/ ImportElsewhere \/ ImportFails
  \/ Register
  \/ \E b \in UserBps : SetBreakpoint(b)
  \/ \E a \in Actors : Publish(a)
  \/ Raise
  \/ Frame

Spec == Init /\ [][Next]_vars

\* The thread runs on, and a loop has an end: the exit that is possible again
\* and again is taken.
FairSpec ==
  /\ Spec
  /\ WF_vars(Frame)
  /\ SF_vars(LoopExit)
  /\ \A a \in Actors : WF_vars(Publish(a))

-----------------------------------------------------------------------------
(* Properties that hold.                                                   *)

\* The shape of the state; a temporary breakpoint is in pydevd's table while its
\* hit waits for the pause, and only then.
TypeOK ==
  /\ pc # "boot" => at \in Offsets(code)
  /\ pc \in {"boot", "idle", "decide", "start", "run", "arm", "publish", "events",
             "stored", "disarm"}
  /\ table \in Seq(Breakpoint)
  /\ lineMap \subseteq Breakpoint /\ seen \subseteq Breakpoint
  /\ \A b, d \in lineMap : b.line = d.line => b = d
  /\ own \subseteq {target.line}
  /\ \A i \in DOMAIN table : table[i].temp =>
       pc = "disarm" \/ table[i].line = target.line

\* When pydevd registers its callback for exceptions it is the patched one,
\* unless the module was loaded before the hook or past it, or the patch cannot
\* be applied (pydevd_boost.py:66-73, 306-318: a partly loaded module must be
\* left alone).
RegisteredPatched ==
  boot.registered = "original" => boot.late \/ boot.failed

\* A function that the boost has taken out of line tracing has no breakpoint in
\* it, the temporary ones included, whenever they were set: unless one was
\* published between the look at the map and the note in the cache.
SkipIsCurrent ==
  skipped /\ ~ run.stale =>
    \A b \in lineMap : b.func = ModuleLevel /\ b.line \notin CodeLines(code)

\* The user's breakpoints stay in pydevd's map: one that shares its line with a
\* temporary breakpoint is back when that one is gone (pydevd_pause.py:825-827),
\* unless two threads rebuilt the map at once.
UserBreakpointKept ==
  (\A a \in Actors : build[a] = Nothing) /\ ~ run.stale =>
    \A i \in DOMAIN table : ~ table[i].temp =>
      \/ table[i] \in lineMap
      \/ \E b \in lineMap : b.temp /\ b.line = table[i].line

\* While the frame runs straight on from the change, the target is the first
\* later line it comes to: no line is passed that should have paused
\* (_next_code_line_after_frame: the lines of a statement that were executed
\* before the store do not count, nor do the lines of handlers).
TargetIsNext ==
  [][target.by \in {"ahead", "loop"} /\ run'.straight
       /\ ~ run.unarmed /\ ~ run'.missed
       /\ event' > code.line[target.from] /\ event' \notin HandlerLines(code)
       => event' = target.line]_vars

\* The target is reached, through loops and the user's own breakpoints: unless
\* a jump leads over it, an exception elsewhere, both kinds of line events
\* failed, or the map was out of date as the line was passed.
PauseComes ==
  target.by \in {"ahead", "loop"}
    ~> target = NoTarget \/ run.over \/ run.raised \/ run.unarmed \/ run.missed

-----------------------------------------------------------------------------
(* A claim of the repository's texts that the code does not keep; it is     *)
(* refuted by a run of its own.                                            *)

\* A backward jump ahead leads to a "line [that] WILL execute again on the next
\* iteration, making it a valid bp target" (pydevd_pause.py:476-478).
BackTargetExecutes ==
  target.by \in {"loop", "handler"}
    ~> target = NoTarget \/ run.over \/ run.raised \/ run.unarmed \/ run.missed
=============================================================================
