# Formal model of pycharm-watchpoint

TLA+ modules that model the Python runtime of the plugin and its IDE side, TLC
configurations that check them on small instances, and proofs checked by TLAPS.
Paths below are relative to the repository;
`registry.py` and its neighbours live in
`src/main/resources/python/_pycharm_watchpoint/`, the Kotlin files in
`src/main/kotlin/com/pythonwatchpoint/`.

## The system

A debugged Python program imports the runtime package.  `watch("x")` or
`watch("o.a")` registers a watchpoint; when the watched thing changes, the
runtime queues a *hit*, arms temporary breakpoints in pydevd, and the program
pauses; the IDE then drains the hit that belongs to this pause and highlights
the line.

| component | state | operations | talks to |
|---|---|---|---|
| local watches (`registry.py`) | `_local_watches`, `_frame_state`, `_pending_propagation`, the local events of our `sys.monitoring` tool per code object | `add_watch`, `remove_watch`, `clear_watches`, callbacks PY_START, CALL, LINE, PY_RETURN | calls `_handle_hit` through `_fire_if_changed` |
| hit pipeline (`registry.py`, `pydevd_pause.py`, `__init__.py`) | `_hit_queue`, `_temp_breakpoints`, `_bp_pause_pending`, `_bp_slot_reservations`, pydevd's own breakpoint table | `_handle_hit`, `_compute_bp_targets`, `_install_bp_at`, the pause in `_on_line`, `_pycharm_consume_last_hit` | pydevd; the IDE's drain |
| attribute and object watches (`registry.py`, `watch_data.py`) | dynamic subclasses stacked on objects, `_attr_watches` | add, re-add, undo, `__setattr__` of each layer | hit pipeline, containers |
| class patches (`classpatch.py`) | patched classes, instance watches by `id(obj)` | install, uninstall, patched `__setattr__` | hit pipeline |
| containers (`containers.py`) | wrapper of a list, dict or set | mutators, wrap, unwrap | hit pipeline |
| object tree (`registry.py`, `helpers.py`) | visited ids, sub-watches, caps | recursive instrumentation | attribute watches |
| callers and lines (`caller.py`, `pydevd_pause.py`) | none | classify files, walk frames, choose lines | hit pipeline |
| pydevd boost (`pydevd_boost.py`) | import hook, patched functions of pydevd, its skip cache | `install`, the hook, `apply_patches`, the patched decision on line events | pydevd |
| marker service, frame sync (Kotlin) | watched rows, and rows found in other frames | mark, unmark, clear, refresh from `_pycharm_locate_watches` | runtime by evaluation |
| session lifecycle (Kotlin) | pending package, hit breakpoint, entries of the listener | click, process started, stopped, purge | runtime |
| highlighter (Kotlin) | highlights of the current pause | paused, resumed, stopped, dispose | drain of the hit pipeline |

What is hard here: `id(frame)` and `id(obj)` are keys although CPython reuses
them; frames may die without a callback; several threads run callbacks while
the registry's lock protects only single sections of a hit's life; pydevd's
tables are changed outside that lock; two LINE callbacks, pydevd's and ours,
see the same line; which line comes next depends on loops and handlers; pydevd's
line map is rebuilt by two threads; the IDE evaluates on pooled threads while
sessions resume, stop and start.  `PROJECT.json` lists each hazard at its line
with the properties that cover it, or why none does.

Correctness, per component: a watched frame is observed, reports its own
changes, every one that an event can see, and nobody else's (local watches);
each pause has exactly the hit that caused it, and nothing is left armed,
reserved or installed (hit pipeline); after `unwatch` an object behaves as if it
had never been watched (attribute watches, class patches, containers); markers
and highlights follow the runtime's state (IDE).

## Modules

### `LocalWatch`: watchpoints on local variables

One action per callback and operation.  `frame` and `vals` are the program:
frames enter, assign, reach lines, call and leave, by return or, with no
callback, by an exception.  `Fids` is a set of frame *ids*: a frame that leaves
frees its id for the next one.

| variable | code |
|---|---|
| `watches` | `_local_watches` (unique by name and frame id) |
| `fstate` | `_frame_state` (`prev` is `prev_line`, `base` is `prev_hashes`) |
| `events` | local events of our tool per code object: none, LINE only, or all four |
| `pend` | `_pending_propagation.queue` of each thread |
| `armed` | `_bp_pause_pending` |
| `arming` | the events that a thread has read in `_force_own_line_events` and not yet written back |
| `hit` | what the last callback reported |
| `torn` | ghost: code objects whose events were written back from an old reading |
| `passed`, `removed` | ghosts: the armed lines a frame has passed since its last look, and whether anything has been unwatched |
| `start`, `writer`, and the fields `inc`, `root`, `seen` | ghosts: the values at the last look, the writing line, the frame a watch was armed for, the user's name, and whether an event has seen the watch |

| action | code |
|---|---|
| `Enter` | PY_START: wipe what a dead frame of this code left at this id, then apply a pending propagation; or a frame entered with no callback |
| `StartLine` | LINE: the pause at an armed target, or the diff |
| `Call` | CALL: push the watched values for the callee, with the cap |
| `PyReturn`, `Unwind` | the frame leaves, with and without PY_RETURN |
| `AddWatch`, `RemoveWatch`, `ClearWatches` | the user's operations |
| `ArmRead`, `ArmWrite`, `DisarmPause` | what the hit pipeline does to this state |

Each callback takes the registry's lock once for the state modelled here (the
wipe and the propagation of PY_START are two sections, with nothing of another
thread that could tell them apart: no one else has the new frame yet), so it is
one step.  Arming a pause is not: `_force_own_line_events` (`pydevd_pause.py`)
reads the events of a code object and writes them back outside the lock, so
`ArmRead` and `ArmWrite` are two steps, and `torn` notes when the second one
wrote back less than was on by then.  A value stands for both its identity and its
hash.  Frames entered while a callback of ours is on the thread's stack are
`guarded` and see no callback.

A LINE event at an armed target returns before the diff (`registry.py:1197`), so a
change made there, or just before it, is only compared one event later, when
`prev_line` is another line.  `LineAttribution` says how far off the named line can
then be: the change was made by that line, or on an armed line the frame has passed
since it was last looked at.  Once something has been unwatched, state without a
watch may hold an old line, and the property says nothing.

### `HitPipeline`: from a change to a pause

The lock is held for single sections here, so every action is one section or one
step between two, and the threads interleave at that grain.  A thread walks
through `target` and `safety` (`_compute_bp_targets`), `enqueue`, `install`,
`record` or `release` for each target (`_handle_hit`), and is then free to run
into an armed line: `Fire`, `Disarm`, `Undo`, `DirectPause` (`_on_line`), or
`PydevdPause`, pydevd's own callback, which `sys.monitoring` calls first because
its tool id is lower.  At a pause the IDE drains (`Consume` with a location,
`ConsumeAll` without), or the user resumes first.  `NoSlot`, `EnqueueBare`,
`Suspend` are the path of a hit that has no line to pause at; `InstallFails`,
`SuspendFails`, `Clear` are the disturbances.

| variable | code |
|---|---|
| `hitQueue`, `locs` | `_hit_queue`, as a set of hits numbered as they are queued, and each hit's `bp_locations` |
| `tempBps` | `_temp_breakpoints` |
| `pending` | `_bp_pause_pending` |
| `reserved` | `_bp_slot_reservations` |
| `pydevd` | the temporary breakpoints in `file_to_id_to_line_breakpoint`, keyed as the code does by watch, real path and line |
| `pc`, `job`, `at`, `undo`, `back`, `resume` | where each thread is, and its local variables |
| `early`, `stray`, `raced` | ghosts: hits that left the queue early, breakpoints a failed installation left, and `clear_watches` during an arming |

The program is open: any running thread may change a watched value with any
stack of `Stacks`, and may reach any line.  The walks over code objects and
frames are constants (`NextLine`, `ByteNext`, `Stacks`, `User`, `File`, `Real`);
the instance gives the library a symbolic link as its file name, because
`_on_line` compares `co_filename` with the real path that was recorded.  The test
of `_bp_pause_pending` and its removal are one step: between `in` and `pop`
CPython with its global lock has no point at which it switches threads.
Installing in pydevd's table and arming our own target are one step too; what
another thread can do between them, it can also do before `Record`.
The safety net's target may turn out to be a line the hit already has; its
reservation and the release are then one step (`TargetSafety`), in which only
another thread's choice of a line could tell the difference, by passing over it.

`SlotLease` is what the choice of targets promises, without any of that: a slot
(a line of a code object) is free, claimed by one thread that arms a hit there,
or owned by one hit, and becomes a hit's only by way of a thread that held it
alone; `clear_watches()` during an arming revokes the promise.  `HitPipeline`
implements it (`LeasesSlots`): a thread's claim is the target list of the job it
is arming, a hit's slots are its `locs` while it is queued, and `raced` is the
revocation.

### `AttrWatch`: watches on attributes and on whole objects

Watching an object gives it a new class, a subclass of the one it has; a second
watch puts a second class on top.  The class of an object is the sequence of the
*layers* it was built from, `<< >>` for the program's own class, so that
`type(obj) is w.watcher_cls` is equality of two sequences.  That is exact: two
classes built from the same layers would need two watches of one expression on
one object at the same time.

| variable | code |
|---|---|
| `heap` | attributes of the program's objects: scalars, objects, plain containers, wrappers by number |
| `layers` | `type(o)` |
| `wraps` | `_wp_expr` of each `_WatchedList`, `_WatchedDict`, `_WatchedSet`; empty when nulled |
| `recs`, `reg` | the root `_AttributeWatch` objects and `_attr_watches`; a record outlives its registration, because a write hook may still hold it |
| `lock`, `installing` | the registry's lock and `constants._installing_watch_thread` |
| `th` | where each thread is in a watch operation or in a walk, and its local variables |
| `out`, `clobbered`, `orphaned` | ghosts: the last report, objects whose class was overwritten by a concurrent installation, objects with a layer nobody will take off |

`EnterWatch` sets the installing thread before the lock is taken, as `watch()`
does.  Under the lock, one step each: `Pop` (the old watch leaves the table),
`Undo` (one recorded wrap or class), `Read`, `SwapAttr` or `SwapAny`, `Wrap`,
and one step per attribute of the walk (`WalkSkip`, `WalkWrap`, `WalkInstall`).
The program's threads write (`WriteValue`, `WriteContainer`, `WriteObject`) and
change containers (`Mutate`) without the lock, between any two such steps; a
write that brings in a new object walks it, also without the lock.  One
`__setattr__` with all its layers is one step, and so is the undo of one
payload.  In the walk, the reading of an object's type and the setting of its
class (`WalkInstall`) are one step; what another thread can do between the two is
modelled for the root (`Read`, `SwapAttr` and `SwapAny`, exempt as `clobbered`).
The order of `__dict__` is free.  An object nothing refers to may die
(`Die`); its place is used again, weak references to it are dead, and ids kept
in `visited` stay.

A wrapper compares by identity (`_value_hash` falls through to `id`), so storing
an equal container counts as a change here as it does in the code.  The names in
expressions stand for whatever object they evaluate to at the call.  Classes
that refuse the surgery are `ClassPatch`'s, and the local watch that `watch("x")`
sets besides is `LocalWatch`'s.

### `ClassPatch`: classes that refuse the surgery

An object whose metaclass refuses a dynamic subclass is watched by a patched
`__setattr__` of its class, which looks the written object up by `id()`.  All
watched instances of a class share one patch; a patch calls on to the function
it saved, which may be another patch's (of a base, or one that could not be
taken off).  `watch`, `unwatch` and `clear_watches` hold both locks and are one
step each.  A write is bound to a function, goes through the chain one call a
step (`BeginWrite`, `CallPatched`, `Assign` or `AssignRaises`), and reports on
the way back, the innermost patch first (`Report`), so that patches come and go
under it.

| variable | code |
|---|---|
| `obj`, `val` | the object at each `id()`; `inc` tells an object from its successor at the same id |
| `func` | `cls.__dict__["__setattr__"]`: none, the original, or the patch with this number |
| `patches`, `reg` | every `_ClassPatch` made, and `_classpatch_registry` |
| `watches` | the class patches among `_attr_watches` |
| `th` | the write each thread is in: the function to call next, the entries it has passed with the values they saw, the guard |
| `shared`, `stuck` | ghosts: keys under which two expressions watched one object, and classes that refused to have `__setattr__` restored |

### `ValueHash`

`_value_hash` of `helpers.py`: by value for immutables (with CPython's -1 and -2
equal), by `repr` for containers, by identity for the rest, and for a tuple with no
hash or a container whose `repr` fails.  The writes of
`ClassPatch` compare by it; the instance has `1` and `True`, equal contents of
different types.

### `CodeLines`, `PausePath`: from the hit to the pause in the frame

`CodeLines` is what `pydevd_pause.py` reads from a code object: the lines of its
instructions, the handlers CPython lays out last, the next line in source order
and in bytecode order, and the range of lines by which `pydevd_boost.py` decides
to take a function out of line tracing.  A code object is a short sequence of
instructions with lines, backward jumps and handler offsets.

`PausePath` runs frames of one such code object, one after the other.

| variable | code |
|---|---|
| `boot` | how far pydevd's tracing module is imported, the import hook of `install()`, which patches were applied, which callback pydevd registered |
| `table`, `lineMap`, `build` | `file_to_id_to_line_breakpoint`, the map `consolidate_breakpoints` makes of it, and a map built and not yet published |
| `skipped`, `seen` | pydevd's cache of skipped functions, and the breakpoints a decision has read and not yet used |
| `lineOn`, `own` | pydevd's line events for the code object, and our armed lines |
| `code`, `pc`, `at`, `event` | the frame: its code object, phase, instruction, and the line event of the last step |
| `target`, `run` | the line of the armed hit, and ghosts of how the frame went on since |

`Install`, `BeginImport`, `ImportReturns`, `ImportElsewhere`, `ImportFails` and
`Register` are the start of pydevd with the hook; `Enter` and `Decide` the
patched decision on line events, whose look at the map and note in the cache
are two steps; `Step`, `LoopExit`, `Back`, `Raise` and `Return` the program;
`Hit`, `Arm`, `Publish`, `ArmEvents` and `Disarm` the way of a hit;
`SetBreakpoint` and the reader's `Publish` the user's breakpoints, on pydevd's
other thread.  Whether a function of pydevd has the expected signature is a
choice.  The assumption on `Codes` is what CPython guarantees of a code object
(`WellFormed`: control stays inside it, no line comes before the first), and
`UserBps` has one breakpoint on a line, as the IDE's gutter has.
`TargetIsNext` is about the normal flow: a handler's lines are laid out behind it
and may be numbered anywhere.

### `FrameWalks`: walks over stacks

Operators for `_find_user_caller`, `_find_user_code_caller`, the candidates and
the choice of `watch_at`, and `_pycharm_locate_watches`, over stacks as sequences
of frames with the classes of files of `caller.py`.  `MCHitPipeline` instantiates
it and assumes (`WalksAgree`, which TLC evaluates with every run of that module)
that the safety frame `HitPipeline` takes as given is the frame this walk finds,
with frames of the runtime and of pydevd anywhere on the stack.

### `IdeSession`, `Decoration`: the IDE

Listeners are told of pauses, resumptions and stops by the platform; blocking
evaluations run on pooled threads; the event dispatch thread runs what was
posted to it in order, and only what was posted for any modality while a dialog
is open.

| variable | code |
|---|---|
| `queued` | the package waiting in the session manager |
| `phase`, `paused` | the platform's view of each session |
| `bps`, `entry` | hit breakpoints in the breakpoint manager, and `WatchpointDebugListener`'s map to them |
| `registered`, `listening`, `disposed` | the listener's table of highlighters, the sessions that have one attached, those whose is disposed |
| `pool`, `edt`, `modal` | evaluations in flight, the event thread's queue, and whether a dialog is open |
| `painted` | `currentHighlights` |
| `watched`, `synced` | the two sets of `WatchpointMarkerService` |
| `armed` | what the runtime of each session would answer |
| `left` | what is left of each bound |
| `purged`, `blind`, `taken`, `stranded` | ghosts, the fates of hit breakpoints: sessions whose entry was purged before their stop was handled, sessions whose sweep missed a breakpoint, breakpoints a sweep has taken, sessions whose breakpoint could not be removed |
| `due`, `over`, `late`, `reads` | ghosts: highlights due to go, sessions over when the markers were cleared and those with an answer still under way, and whether two reads crossed or one is missing |

`Click`, `Start`, `AddBreakpoint`, `Halt`, `SessionStopped` (which may never be
told), `Unhook`, `Dispose` are a session's life; `Pause` starts a drain and a
frame sync, `Resume` posts the clearing; `Ask`, `NoAnswer`, `Drained`, `Located`,
`Replace`, `AddAll` and `Toggled` are the steps of the pooled threads;
`PaintCheck`, `PaintOne`, `RunClear` and `RunMark` those of the event thread.

The listener swallows what fails, and each such path is a branch of its action, at
the cost of one of `MaxTroubles`.  The lookup of a breakpoint, or of all, fails in
the sweep: `AddBreakpoint` keeps any set of them and adds its own all the same.
The addition fails, after a whole or a partial sweep; the highlighter is not
attached; `Unhook` forgets the entry and its breakpoint stays; a process that
cannot be asked whether it has stopped is purged (`Purge`, once for each of the two
tables); an evaluation fails (`NoAnswer`).  `Persisted` are breakpoints an earlier
run of the IDE left in its settings.  A disposed highlighter ignores what it is
told, so a failing `removeSessionListener` changes nothing and is left out.
`Objects` are the expressions whose value has a type of the runtime's own while
they are watched, by which `Toggle` takes a row for a watched one.

`BreakpointEnds` and `BreakpointStays` are the two sides of the hit breakpoint's
life: it does not linger, and it is not lost, but for the ways named by the fates.

`Decoration` is the promise of the highlighter: decorations of a session come
and go while it is open; when it closes, they go for good, in one step that is
bound to come.  `IdeSession` implements it, liveness included (`Decorates`).

### Other files

`LocalWatch_proofs`, `HitPipeline_proofs`, `SlotLease_proofs`, `AttrWatch_proofs`,
`ClassPatch_proofs`, `PausePath_proofs`, `FrameWalks_proofs` and `IdeSession_proofs`
hold the theorems.  `MCLocalWatch`,
`MCHitPipeline`, `MCAttrWatch`, `MCClassPatch`, `MCPausePath` and `MCIdeSession`
give the constants of the instances.  An operator whose comment begins with
"Mutant" is how a plausible bug would change a definition; only mutation runs
use it.

## Runs

| run | shows | instance |
|---|---|---|
| `local_watch` | type, events cover watches, nothing inherited, baselines exist, no spurious hit, the line a hit names made the change or an armed line passed since did, seen changes are reported | 1 thread, 2 frame ids, 2 code objects, 2 lines, 2 frames, 1 `unwatch`, `clear_watches` or armed pause, stack cap 1 |
| `local_first_change` | refutes: every change of a watched local pauses | as before, 1 line |
| `local_unwatch` | refutes: unwatch removes the watch | 2 names, so that a watch can change its name by propagation |
| `hit_pipeline` | type, queue bound, slots exclusive, reservations released, breakpoints tracked, targets owned; implements `SlotLease` | 2 threads, 2 code objects with 2 lines, 2 hits, queue limit 1, 1 fault |
| `hit_phantom` | refutes: a drained hit leaves no target armed | as before, queue limit 2, no fault |
| `attr_watch` | type and cap, layers kept, changes reported, layers owned, instrumented once, wrappers kept | 2 threads, 2 objects with 1 attribute, `x` and `x.a`, walk depth 2, sub-watch cap 1, 3 calls, 2 writes, 2 wrappers, 1 death |
| `attr_unwatch` | refutes: unwatch silences | as before, 1 thread |
| `attr_own_swap` | refutes: the runtime's own class swaps are silent | as before, 1 thread |
| `class_patch` | type, patched exactly while watched, entries kept, unwatched is silent, changes reported; every write ends | 1 thread, 2 ids, a class, one derived from it and one that refuses any patch, 3 expressions of which two share an attribute, 2 objects, 3 calls, 2 writes, 1 refused restoration |
| `pause_path` | type, the registered callback is the patched one, skips are current, the user's breakpoints are kept, the target is the next line; the pause comes | every function of three instructions and a return on lines 1 to 3 with at most a loop, and each loopless one with a handler; with two of them the user's breakpoints, up to two changes; 2 frames, 1 hit, 1 fault |
| `pause_back_jump` | refutes: the line a backward jump leads to will execute again | a `try` before the line that changes the value |
| `ide_session` | type, hit breakpoints end and stay, markers fresh, synced markers agree; highlights end; implements `Decoration` | 2 sessions, 1 persisted breakpoint, 1 name, 1 pause, 1 drain or change of a watch, 1 decoration, 1 modal dialog or failure |

Why these bounds are enough for the interesting cases.  With two frame ids and
two entered frames, a frame can die without a callback and a second one take its
id with the same or another code, recursion and propagation happen, and a stack
cap of 1 makes the cap bite on the second CALL.  Two code objects, one without a
watch, show events taken away.  In the pipeline every race is between two
threads; two hits suffice to compete for a slot, to be siblings' neighbours in a
code object, to be drained together and, with a queue limit of 1, to be cut.
Two lines make the last line of a function appear, so the walk to the caller, the
no-slot path and the loop back in bytecode order all occur.
With two objects and one attribute there are self-references, cycles, chains and
shared objects; three calls are two watches in either order and a removal, or a
watch, its removal and its return; a sub-watch cap of 1 is hit by the second
thing a walk finds.  A class and its base give chains of patches, in both orders
of making and removing them; two objects share an id one after the other; a
write in progress meets every sequence of three calls.  One thread is enough
there because a write keeps no state outside itself but the value it assigns
(with two threads and two calls the same properties hold; that instance takes
several minutes).  Functions of four instructions contain every order of a
store, a loop and a return on up to three lines, statements of several lines
and a handler that rejoins anywhere.  Two sessions give an old one's late
answers, stops and breakpoints to a new one; one trouble is a dialog, or a failure at any one
of the places named above, in every order with the rest.  With `Objects` holding the
name the same properties hold, on a third more states.

`MaxFrames`, `MaxOps`, `MaxHits`, `MaxFaults`, `MaxWraps`, `MaxCalls`,
`MaxWrites`, `MaxDeaths`, `MaxObjects`, `MaxSets`, `MaxEntries`, `MaxSessions`,
`MaxPauses`, `MaxEvents`, `MaxMarks` and `MaxTroubles` are bounds on
otherwise unbounded behaviour, not limits of the code; `MaxPend`, `MaxQueue`,
`MaxSubs`, `Depth` and `MaxHops` are the code's caps.  Deadlock is not checked:
the program may end, and the bounds run out.

What the refuted claims mean:

- `FirstChangeReported`: `_add_local_watch` leaves no previous line, so the next
  LINE event only renews the baseline.  A watch set at a breakpoint misses the
  change that the breakpoint's own line makes.
- `UnwatchSilences`: a watch propagated to a parameter of another name is not
  found by `remove_watch`, which compares the callee's name.
- `NoPhantomTarget`: a hit is queued before its locations are recorded, and a hit
  with no location is drained by any pause.  Its target, recorded later, stays
  armed with no hit to show.
- `UnwatchSilences` of `AttrWatch`: watch `x.a` while it is `None`, assign a list,
  unwatch: the list stays a wrapper and its `append` is reported.  The same
  property also fails for a class left under another's, for instance after
  `clear_watches()` with two watches on one object.
- `OwnSwapSilent`: `unwatch("x")` of an object assigns `__class__` through the
  watcher's own `__setattr__`, unguarded, and reports `x.__class__`.  With two
  threads the installation does it too, because one flag serves both.
- `BackTargetExecutes`: when no later line is left, `_next_code_line_after_frame`
  takes the next backward jump for a loop's.  An `except` handler, laid out behind
  everything else, returns to the code after the `try` by such a jump; the line
  it leads to has been executed, and the target there waits for a pause that
  never comes.

Other differences between texts and code that the model contains, without a run
of their own: the zombie sweep in the LINE callback that `__init__.py` announces
does not exist; a code object stays traced after a CALL pushed for it, watched or
not; removing a code object's last watch also takes the LINE event an armed pause
target needs; after two propagations the shown name is the intermediate one; the
nested objects of a watch are held by weak references, where the docstring of
`_add_object_watch` says hard ones, so an id in `visited_ids` may be another
object's later; the entry of a dead object stays in a class patch, and an object
that gets its id reports under it; a change between -1 and -2 has the same hash
and is not reported.  The class comment of `WatchpointDebugListener` (lines 35-36)
says that simultaneous sessions do not trip over each other's cleanup: their stops
do not, but the sweep at the start of a second session removes the hit breakpoint
of the first one, which then no longer pauses at its hits (`taken` in
`BreakpointStays`); and a sweep or a removal that fails leaves a breakpoint in the
settings with only a log line, or none (`blind` and `stranded` in `BreakpointEnds`).

Where a hazard is only partly covered by the properties named with it, or its bad
outcome is what the code does and no text denies it, `PROJECT.json` has a note: a
container written back over a concurrent write, an object at a reused id that a walk
passes over or that reports under a dead one's watch, a highlight painted after the
resumption, markers after reads that crossed.

## Fairness

- `ClassPatch`: weak fairness of `WriteStep(t)` for each thread.  A thread in the
  middle of an assignment holds no lock of the runtime and waits for nothing, so
  it goes on.  Nothing is assumed of who starts writes, watches or unwatches.
- `PausePath`: weak fairness of the frame's steps, strong fairness of `LoopExit`
  (the program's loops are over finite iterators; that is an assumption about the
  program, without which no line behind a loop is ever reached), weak fairness of
  `Publish` for both threads, which run a loop over a table before it.  Nothing
  is assumed of exceptions, imports or the user.
- `IdeSession`: weak fairness of the event thread's steps as one action: the
  platform runs what is posted and may run.  Nothing is assumed of pauses,
  answers of evaluations, stops, or that a dialog is closed; `HighlightsEnd`
  excepts an open dialog, and the last clear of a session is posted for any
  modality.
- `LocalWatch`, `HitPipeline` and `AttrWatch` state safety only: the debugged
  program may stop anywhere, a suspended thread waits for the user, and the IDE
  need not drain.

## Proofs

Every theorem holds for every value of the constants that satisfies its module's
assumption: any number of threads, ids, code objects, names, values, hits and
sessions.

`LocalWatch_proofs`:

| theorem | property |
|---|---|
| `TypeCorrect` | `Spec => []TypeOK` |
| `EventsCovered` | `Spec => []EventsCoverWatches` |
| `NothingInherited` | `Spec => []NoInheritedWatch` |
| `BaselinesExist` | `Spec => []WatchHasBaseline` |
| `NothingSpurious` | `Spec => []NoSpuriousFire` |
| `NoChangeLost` | `Spec => ChangeReported` |
| `LineNamed` | `Spec => []LineAttribution` |
| `Inductive` | `IInv` is an inductive invariant |

None of the properties is inductive alone: that a hit is a change
of the frame itself needs the baseline to be what the frame was last seen with;
that needs the state at an id to be this frame's; that needs the wipe at PY_START,
which only comes when events are on, which `EventsCoverWatches` gives.  `IInv` is
the conjunction of the type invariant, `EventsCoverWatches`, `NoInheritedWatch`,
`NoSpuriousFire`, `FreshNumbers` (ghost frame numbers are new) and `InSync` (a
watch of a live frame has its frame's code and its baseline is `start`).  The
proofs go action by action, one lemma for the type invariant and one for the
other parts, and the temporal theorems combine them.  `NoChangeLost` follows from
`InSync` at the step itself.  `LineNamed` has an invariant of its own, `LineInv`:
as long as nothing has been unwatched, in code whose events no torn write has
touched, there is no state at an id without a watch of its code, the state of a
frame remembers the line the frame is on unless that line is armed, and a change
that no event has looked at was made by that line or on an armed line passed since.
The first of these is what the other two need: state that outlives its watches has
an old line in it.

`HitPipeline_proofs`:

| theorem | property |
|---|---|
| `TypeCorrect` | `Spec => []TypeOK` |
| `ReservationsEnd` | `Spec => []ReservationsReleased` |
| `SlotsExclusive` | `Spec => []SlotExclusive` |
| `ImplementsLease` | `Spec => LeasesSlots` |
| `BreakpointsTracked` | `Spec => []NoUntrackedBreakpoint` |
| `TargetsOwned` | `Spec => []PendingOwned` |
| `QueueBounded` | `Spec => []QueueBound` |

The inductive invariant is `Shape` (types, and what a thread's job holds by where
the thread is), `Leased` (the claims of threads that are arming are reserved,
reservations are claimed, slots are exclusive), `NoUntrackedBreakpoint`,
`Targeted` (`PendingOwned`, and that the slot a thread has just armed is pending)
and `QueueBound`.  For the slots every step has one of four effects: it keeps
all claims, takes one free slot, gives one up (to a hit or back), or drops hits;
each effect is a lemma, and the same four effects are the steps of `SlotLease`,
so the invariant and the refinement share their proofs.  Only one thread moves
at a step, which frames the rest.  For the queue's bound, the cut keeps the
newest `MaxQueue` hits: the least hit that stays has fewer than `MaxQueue` later
ones.  `SlotLease_proofs` proves the abstract counterpart, `OneHolder`:
`Spec => []Exclusive` of `SlotLease`.

`AttrWatch_proofs`:

| theorem | property |
|---|---|
| `TypeCorrect` | `Spec => []TypeOK` |
| `ClassesKept` | `Spec => []LayerKept` |
| `ChangesReported` | `Spec => []ChangeReported` |
| `ClassesOwned` | `Spec => []LayersOwned` |
| `ClassesOnce` | `Spec => []InstrumentedOnce` |
| `WrappersKept` | `Spec => []WrapperKept` |

The inductive invariant (theorem `Invariant`) restates these properties over the
set of what a watch has recorded, and adds what makes them last: `ThreadsInv`
(what a thread has to know at each step of a call), `LayersInv` (a layer's name
begins with its root's), `TableInv` (the table has one watch of an expression,
and none of the one being installed), `PayloadInv` (a recorded class is the class
it replaced and one layer more, of the root that recorded it; a removal in
progress undoes layers of no registered root), `SwapInv` (between the reading and
the setting of a class nothing is taken off it, because only a removal takes
layers off and removals hold the lock), `VisitedInv` (a root has met every object
it records a class for) and `WrapsInv` (a wrapper is recorded once).

`LayerKept` hangs on `PayloadInv`: a removal takes off the topmost class only, so
what it could take from a registered watch is that watch's own last layer, and
the roots differ.  `LayersOwned` counts the layers from below, because an undone
class leaves its prefix.  `InstrumentedOnce` is `VisitedInv` at each
installation.  `ChangeReported` needs no history: by `LayerKept` the recorded
class is a prefix of the object's, so its last layer is among those the write
goes through, and a write that instruments its new value leaves the class of the
written object alone.  The lemmas are one per action; the actions that record
something share theirs (`WrapParts` for `Wrap`, `WalkWrap` and `WriteContainer`,
`ClassParts` for `WalkInstall` and `WriteObject`, `SwapParts` for `SwapAttr` and
`SwapAny`).  The definitions of `AttrWatch` speak of sets of positions and of
their least and greatest members, which exist by the well-foundedness of the
numbers; a filter over sequences would be recursive.

`ClassPatch_proofs`:

| theorem | property |
|---|---|
| `TypeCorrect` | `Spec => []TypeOK` |
| `PatchesEnd` | `Spec => []PatchedWhileWatched` |
| `EntriesStay` | `Spec => []EntryKept` |
| `RemovedStaySilent` | `Spec => []UnwatchedSilent` |
| `ChangesReported` | `Spec => ChangeReported`, if `ValueHash` tells the values apart |

`UnwatchedSilent` excepts writes a call fell into, and the entries that outlive their
object: an object at a reused id reports under them (`classpatch.py:108-160`).

The inductive invariant (theorem `Invariant`) adds to the shape of the state and
to these properties: `Registered` (a patch belongs to one class and saved what the
class defined), `Fresh` (objects to come have numbers of their own), `Rows` (an
entry whose object is alive is in the patch of its class, and its watch is
registered; entries of dead objects match no object to come), `Awaited` (the hits a
write will report are of registered watches) and `Noticed` (a write of a watched
attribute has passed an entry, or is bound to the patch that has one).  A call of
`watch` or `unwatch` enters an entry, drops a watch or takes an entry off; each
effect is a lemma for each part.  The hypothesis of `ChangesReported` cannot be
dropped: the code compares hashes, and -1 and -2 have the same one.

`PausePath_proofs`:

| theorem | property |
|---|---|
| `TypeCorrect` | `FairSpec => []TypeOK` |
| `PatchedInTime` | `FairSpec => []RegisteredPatched` |
| `CurrentSkips` | `FairSpec => []SkipIsCurrent` |
| `UserBreakpointsStay` | `FairSpec => []UserBreakpointKept` |
| `NextLineIsTarget` | `FairSpec => TargetIsNext` |

The inductive invariant (theorem `Invariant`) has one part per line of the story.
`BootInv`: how far the import is, and what that leaves patched.  `PlaceInv`,
`Entries`, `TempInv`: where the frame is, and that the temporary breakpoint is in
the table from the arming to the pause.  `MapInv`: a map that no later change has
outdated is the map of the table, for each of the two threads that build one, and
so is the published one when neither is at it and none was published stale.
`TargetInv`, `ArmedInv`, `AheadInv`: what a target comes from, that its line is
armed, and that a frame which runs straight on is before it.  `NextLineIsTarget`
follows at the step: the target is the least start of a later line, so no start
lies between the frame and it.  It holds for every well-formed code object, where
the run has those of three instructions.

`FrameWalks_proofs`: `SafetyNetAbove` (the frame of the safety net is user code,
nothing nearer within reach is, and it is not nearer than the caller a hit names)
and `InnermostFound` (the frame `watch_at` finds is the innermost invocation of the
function on a given thread if and only if every candidate on another thread is less
deep in its stack; the walk is not told which thread is paused, so this is exactly
when a recursion on another thread is mistaken for it).

`IdeSession_proofs`:

| theorem | property |
|---|---|
| `TypeCorrect` | `FairSpec => []TypeOK` |
| `BreakpointsEnd` | `FairSpec => []BreakpointEnds` |
| `BreakpointsStay` | `FairSpec => []BreakpointStays` |
| `FreshMarkers` | `FairSpec => []MarkersFresh` |
| `SyncedMarkers` | `FairSpec => []SyncedAgrees` |
| `DecorationSafe` | `FairSpec => D!Safe` |

There are five invariants, each proved on the ones before it.  `IInv`: entries
belong to sessions between their breakpoint's installation and the handling of
their stop; a session's hit breakpoint has an entry, or its entry was purged or its
removal failed; an entry has its breakpoint, or a sweep took it; and of two
breakpoints one belongs to a session whose sweep was blind.  `LifeInv` and `DataInv`: what each stage of a
session's life allows, and the shape of evaluations and tasks.  `FreshInv`: what
is still to bring a marker of a session that was over at the last clearing was on
its way then.  `SyncInv`: unless two reads crossed, there is one, it starts from
cleared markers, and it, or what it left, is what the runtime says.  `CloseInv`:
the last clear of a session is posted once, by the disposal, and who is about to
paint paints before it.
`DecorationSafe` maps every step to a step of `Decoration` or a
stutter; `Decoration`'s fairness, which `Decorates` also asks for, is left to
TLC.

Model-checked only: `PauseComes` of `PausePath`, `WritesEnd` of `ClassPatch`,
`HighlightsEnd` of `IdeSession`, and the liveness of `Decorates`.  They need
fairness, and liveness and `ENABLED` are out of the prover's reach.  Every safety
property that a run checks is a theorem.  Induction over data is out of reach
too: what a write's chain of patches or a walk over an object graph ends in, for
chains and graphs of every size; the theorems say what holds after each of their
steps.

## Not modelled

- `_pause_via_pydevd` (`pydevd_pause.py:75-302`): nothing calls it any more.
- The fallback injection and `verifyOrInject` (`WatchpointDebugListener.kt:81-94`,
  `234-313`), the writing of `sitecustomize` files and the cleaning of run
  configurations (`DebugWithWatchpointAction.kt:154-213`, `272-378`): file and
  evaluator I/O in a straight line, on which no other state depends.
- Painting: layout, colours, the pulse, the jump to the line, the cell renderer
  of the variables tree.  What is painted, and when it goes, is `IdeSession`.
- Representations of values (`helpers.py`), `is_watching`, `list_watches` and the
  parsing of paths: text in, text out.
- Icons and the plugin descriptor: static data.
