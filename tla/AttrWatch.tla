----------------------------- MODULE AttrWatch -----------------------------
(***************************************************************************)
(* Watches on attributes and on whole objects.  Installing a watch gives   *)
(* the object a new class, a subclass of the one it has, whose __setattr__ *)
(* reports changes; removing it gives the old class back.  Containers held *)
(* by watched attributes are replaced by wrappers that report what is done *)
(* to them.                                                                *)
(*                                                                         *)
(* A class is the sequence of the watch layers it was built from, the      *)
(* program's own class being << >>: type(obj) is w.watcher_cls is equality *)
(* of two such sequences.  Watch operations hold the registry's lock and   *)
(* take one step per class or container they touch.  The program's threads *)
(* write without the lock and interleave with these steps, though not with *)
(* the inside of one.                                                      *)
(*                                                                         *)
(* Classes accept the surgery (ClassPatch is for those that refuse it) and *)
(* the debugger is attached, so that a report does not raise.              *)
(***************************************************************************)
EXTENDS Naturals, FiniteSets, SequencesExt

CONSTANTS
  Threads,     \* threads of the debugged program
  Objs,        \* places in memory (id) where objects of user classes live
  Attrs,       \* names of attributes
  Scalars,     \* values that are neither objects nor containers
  Exprs,       \* expressions to watch, split at the dots
  Depth,       \* _RECURSIVE_OBJECT_WATCH_DEPTH
  MaxSubs,     \* _MAX_SUB_WATCHES_PER_ROOT
  MaxWraps,    \* bound: container wrappers made in a behaviour
  MaxCalls,    \* bound: calls of watch, unwatch and clear_watches
  MaxWrites,   \* bound: writes of attributes by the program
  MaxDeaths,   \* bound: objects that die
  Nil,         \* None, and no attribute
  Plain,       \* a list, dict or set that is not a wrapper
  NoObj,       \* a weak reference to a dead object
  NoThread

AnyAttr == "__any__"      \* a layer that watches every attribute
ClassAttr == "__class__"
NoExpr == << >>
Wraps == 1 .. MaxWraps
NoWrap == 0

Dotted(e) == Len(e) > 1

ASSUME AttrAssumption ==
  /\ Exprs \subseteq Seq(STRING) \ {<< >>}
  /\ \A e \in Exprs : Dotted(e) => Last(e) \in Attrs
  /\ Attrs \subseteq STRING \ {AnyAttr, ClassAttr}
  /\ IsFiniteSet(Attrs) /\ Attrs # {}
  /\ {Depth, MaxSubs, MaxWraps, MaxCalls, MaxWrites, MaxDeaths} \subseteq Nat
  /\ Depth > 0
  /\ NoObj \notin Objs
  /\ NoThread \notin Threads
  /\ Objs \cap (Scalars \cup {Nil, Plain} \cup Wraps) = {}
  /\ Wraps \cap (Scalars \cup {Nil, Plain}) = {}
  /\ Scalars \cap {Nil, Plain} = {}
  /\ Nil # Plain

VARIABLES
  heap,        \* heap[o][a]: the value of an attribute
  layers,      \* type(o): its watch layers, the innermost first
  wraps,       \* "_wp_expr" of each wrapper, NoExpr when it was nulled
  recs,        \* the watches ever installed (_AttributeWatch of a root)
  reg,         \* _attr_watches: indices into recs, in the order of insertion
  lock,        \* the thread that holds the registry's lock
  installing,  \* constants._installing_watch_thread
  th,          \* what each thread is doing
  out,         \* ghost: what the last step reported
  clobbered,   \* ghost: objects that got two classes at once
  orphaned,    \* ghost: objects whose layer no removal will undo
  left         \* what is left of each bound

vars == <<heap, layers, wraps, recs, reg, lock, installing, th, out, clobbered,
          orphaned, left>>

NoPayload == [obj |-> NoObj, orig |-> << >>, cls |-> << >>,
              wrapper |-> NoWrap, holder |-> NoObj, attr |-> AnyAttr]
Idle == [pc |-> "idle", op |-> "none", expr |-> NoExpr, obj |-> NoObj, rec |-> 0,
         orig |-> << >>, init |-> Nil, todo |-> << >>, work |-> << >>]
Quiet == [op |-> "none", obj |-> NoObj, attr |-> AnyAttr, hits |-> {}]

-----------------------------------------------------------------------------
(* Layers and what they report.                                            *)

AttrLayer(e) == [attr |-> Last(e), expr |-> e, root |-> e]
AnyLayer(e, root) == [attr |-> AnyAttr, expr |-> e, root |-> root]

Sees(l, a) == l.attr \in {a, AnyAttr}
NameFor(l, a) == IF l.attr = AnyAttr THEN Append(l.expr, a) ELSE l.expr

\* Positions, of layers or of watches: the first and the last of some.
First(ns) == {n \in ns : \A m \in ns : n <= m}
Topmost(ns) == {n \in ns : \A m \in ns : m <= n}

\* Mutant: a layer assigns past those below it.
WatchingTop(o, a) == Topmost({n \in DOMAIN layers[o] : Sees(layers[o][n], a)})

\* The layers of o that see attribute a, as positions in its class.
Watching(o, a) == {n \in DOMAIN layers[o] : Sees(layers[o][n], a)}
Hits(o, a) == {NameFor(layers[o][n], a) : n \in Watching(o, a)}

\* _handle_hit drops what the thread that installs a watch reports.
Reported(t, op, hits) ==
  IF hits = {} \/ installing = t THEN Quiet
  ELSE [Quiet EXCEPT !.op = op, !.hits = hits]

-----------------------------------------------------------------------------
(* The records of the watches.                                             *)

RegIds == {reg[k] : k \in DOMAIN reg}

\* The table is a dict: it has at most one watch of an expression.
IsRegistered(e) == \E i \in RegIds : recs[i].expr = e
RecOf(e) == CHOOSE i \in RegIds : recs[i].expr = e

Payloads(i) == Append(recs[i].subs, recs[i].own)

\* Mutant: the cap is looked at one sub-watch too late.
FullLate(i) == recs[i].capped \/ Len(recs[i].subs) > MaxSubs

\* _try_add_sub_watch refuses.
Full(i) == recs[i].capped \/ Len(recs[i].subs) >= MaxSubs
WithSub(r, full, p) ==
  IF full THEN [r EXCEPT !.capped = TRUE] ELSE [r EXCEPT !.subs = Append(@, p)]

WrapSub(w, o, a) == [NoPayload EXCEPT !.wrapper = w, !.holder = o, !.attr = a]
ClassSub(o, e, root) ==
  [NoPayload EXCEPT !.obj = o, !.cls = << AnyLayer(e, root) >>]

\* Mutant: what is watched or met already is not left out.
AnyObject(v, i) == v \in Objs

\* A value the walk and the write hook instrument: not yet watched by anyone
\* (the watcher classes belong to a module of the runtime) and not yet met by
\* this root.
Instrumentable(v, i) ==
  /\ v \in Objs
  /\ layers[v] = << >>
  /\ v \notin recs[i].visited

\* The attributes of o still to be looked at, in some order of its __dict__.
Items(o, path, d, order) ==
  [i \in DOMAIN order |-> [obj |-> o, attr |-> order[i], path |-> path, depth |-> d]]
Orders == SetToSeqs(Attrs)

-----------------------------------------------------------------------------
(* watch(), unwatch() and clear_watches().                                 *)

\* The installing thread is set before the lock is taken.
EnterWatch(t, e, o) ==
  /\ th[t].pc = "idle"
  /\ left.calls > 0
  /\ left' = [left EXCEPT !.calls = @ - 1]
  /\ th' = [th EXCEPT ![t] = [Idle EXCEPT !.pc = "lock", !.op = "watch",
                                          !.expr = e, !.obj = o]]
  /\ installing' = t
  /\ out' = Quiet
  /\ UNCHANGED <<heap, layers, wraps, recs, reg, lock, clobbered, orphaned>>

EnterRemoval(t, op, e) ==
  /\ th[t].pc = "idle"
  /\ left.calls > 0
  /\ left' = [left EXCEPT !.calls = @ - 1]
  /\ th' = [th EXCEPT ![t] = [Idle EXCEPT !.pc = "lock", !.op = op, !.expr = e]]
  /\ out' = Quiet
  /\ UNCHANGED <<heap, layers, wraps, recs, reg, lock, installing, clobbered,
                 orphaned>>

Acquire(t) ==
  /\ th[t].pc = "lock"
  /\ lock = NoThread
  /\ lock' = t
  /\ th' = [th EXCEPT ![t].pc = "pop"]
  /\ out' = Quiet
  /\ UNCHANGED <<heap, layers, wraps, recs, reg, installing, clobbered, orphaned,
                 left>>

\* What the call still has to remove, as positions in the table.
Removable(t) ==
  {k \in DOMAIN reg : th[t].op = "clear" \/ recs[reg[k]].expr = th[t].expr}

\* Mutant: only what the root itself did is undone.
PopOwn(t) ==
  /\ th[t].pc = "pop"
  /\ \E k \in First(Removable(t)) :
       /\ reg' = RemoveAt(reg, k)
       /\ th' = [th EXCEPT ![t].pc = "undo", ![t].todo = << recs[reg[k]].own >>]
  /\ out' = Quiet
  /\ UNCHANGED <<heap, layers, wraps, recs, lock, installing, clobbered, orphaned,
                 left>>

\* The watch leaves the table; what it did is then undone, last thing first.
Pop(t) ==
  /\ th[t].pc = "pop"
  /\ \E k \in First(Removable(t)) : LET r == recs[reg[k]] IN
       /\ reg' = RemoveAt(reg, k)
       /\ th' = [th EXCEPT ![t].pc = "undo",
                           ![t].todo = Append(Reverse(r.subs), r.own)]
  /\ out' = Quiet
  /\ UNCHANGED <<heap, layers, wraps, recs, lock, installing, clobbered, orphaned,
                 left>>

PopNothing(t) ==
  /\ th[t].pc = "pop"
  /\ Removable(t) = {}
  /\ th' = [th EXCEPT ![t].pc = IF th[t].op = "watch" THEN "read" ELSE "exit"]
  /\ out' = Quiet
  /\ UNCHANGED <<heap, layers, wraps, recs, reg, lock, installing, clobbered,
                 orphaned, left>>

\* The wrapper is taken out of the attribute that still holds it.
Unwrapped(p) ==
  IF heap[p.holder][p.attr] = p.wrapper
  THEN [heap EXCEPT ![p.holder][p.attr] = Plain] ELSE heap

\* Mutant: the wrapper found in the attribute is nulled, whoever put it there.
NulledFound(p) ==
  LET w == heap[p.holder][p.attr]
  IN IF w \in DOMAIN wraps THEN [wraps EXCEPT ![w] = NoExpr] ELSE wraps

Nulled(p) == [wraps EXCEPT ![p.wrapper] = NoExpr]

\* Mutant: type(obj) is not compared.
NotDead(p) == p.cls # << >> /\ p.obj # NoObj

\* Only the class on top can be taken off.
OnTop(p) == p.cls # << >> /\ p.obj # NoObj /\ layers[p.obj] = p.cls
Buried(p) == p.cls # << >> /\ p.obj # NoObj /\ layers[p.obj] # p.cls

\* _undo_attr_watch_payload.  Assigning __class__ is a write like any other to
\* the layers of an object watch.
Undo(t) ==
  /\ th[t].pc = "undo"
  /\ LET p == Head(th[t].todo)
         wrapped == p.wrapper # NoWrap /\ p.holder # NoObj
     IN /\ heap' = IF wrapped THEN Unwrapped(p) ELSE heap
        /\ wraps' = IF wrapped THEN Nulled(p) ELSE wraps
        /\ layers' = IF OnTop(p) THEN [layers EXCEPT ![p.obj] = p.orig] ELSE layers
        /\ out' = Reported(t, "undo", IF OnTop(p) THEN Hits(p.obj, ClassAttr) ELSE {})
        /\ orphaned' = IF Buried(p) THEN orphaned \cup {p.obj} ELSE orphaned
  /\ th' = [th EXCEPT ![t].todo = Tail(@),
                      ![t].pc = IF Len(th[t].todo) = 1 THEN "pop" ELSE "undo"]
  /\ UNCHANGED <<recs, reg, lock, installing, clobbered, left>>

\* The class and the attribute are read first ...
Read(t) ==
  /\ th[t].pc = "read"
  /\ LET e == th[t].expr  o == th[t].obj IN
       th' = [th EXCEPT ![t].pc = "swap",
                        ![t].orig = layers[o],
                        ![t].init = IF Dotted(e) THEN heap[o][Last(e)] ELSE Nil]
  /\ out' = Quiet
  /\ UNCHANGED <<heap, layers, wraps, recs, reg, lock, installing, clobbered,
                 orphaned, left>>

NewRec(t, layer, visited) ==
  [expr |-> th[t].expr,
   own |-> [NoPayload EXCEPT !.obj = th[t].obj, !.orig = th[t].orig,
                             !.cls = Append(th[t].orig, layer)],
   subs |-> << >>, visited |-> visited, capped |-> FALSE]

\* ... the class is built from what was read, and set.
Swap(t, layer, visited) ==
  LET o == th[t].obj IN
    /\ layers' = [layers EXCEPT ![o] = Append(th[t].orig, layer)]
    /\ recs' = Append(recs, NewRec(t, layer, visited))
    /\ reg' = Append(reg, Len(recs) + 1)
    /\ clobbered' = IF layers[o] = th[t].orig THEN clobbered ELSE clobbered \cup {o}
    /\ UNCHANGED <<heap, wraps, lock, installing, orphaned, left>>

\* _add_attr_watch sets it without the guard.
SwapAttr(t) ==
  /\ th[t].pc = "swap"
  /\ Dotted(th[t].expr)
  /\ Swap(t, AttrLayer(th[t].expr), {})
  /\ out' = Reported(t, "swap", Hits(th[t].obj, ClassAttr))
  /\ th' = [th EXCEPT ![t].pc = IF th[t].init = Plain THEN "wrap" ELSE "exit",
                      ![t].rec = Len(recs) + 1]

\* _add_object_watch sets it under the guard, and goes on to walk the object.
SwapAny(t, order) ==
  /\ th[t].pc = "swap"
  /\ ~Dotted(th[t].expr)
  /\ Swap(t, AnyLayer(th[t].expr, th[t].expr), {th[t].obj})
  /\ out' = Quiet
  /\ th' = [th EXCEPT ![t].pc = "walk",
                      ![t].rec = Len(recs) + 1,
                      ![t].work = Items(th[t].obj, th[t].expr, 1, order)]

\* The container that was read goes back wrapped, whatever is there by now.
Wrap(t) ==
  /\ th[t].pc = "wrap"
  /\ Len(wraps) < MaxWraps
  /\ LET e == th[t].expr
         o == th[t].obj
         w == Len(wraps) + 1
     IN /\ heap' = [heap EXCEPT ![o][Last(e)] = w]
        /\ wraps' = Append(wraps, e)
        /\ recs' = [recs EXCEPT ![th[t].rec].own =
                      [@ EXCEPT !.wrapper = w, !.holder = o, !.attr = Last(e)]]
  /\ th' = [th EXCEPT ![t].pc = "exit"]
  /\ out' = Quiet
  /\ UNCHANGED <<layers, reg, lock, installing, clobbered, orphaned, left>>

Exit(t) ==
  /\ th[t].pc = "exit"
  /\ lock' = NoThread
  /\ installing' = IF th[t].op = "watch" THEN NoThread ELSE installing
  /\ th' = [th EXCEPT ![t] = Idle]
  /\ out' = Quiet
  /\ UNCHANGED <<heap, layers, wraps, recs, reg, clobbered, orphaned, left>>

-----------------------------------------------------------------------------
(* The walk of _instrument_object_tree, depth first: work holds the        *)
(* attributes still to be looked at, those of the innermost call first.    *)

WalkOn(t, work) ==
  th' = [th EXCEPT ![t] =
           IF work # << >> THEN [@ EXCEPT !.work = work]
           ELSE IF @.op = "watch" THEN [@ EXCEPT !.work = << >>, !.pc = "exit"]
           ELSE Idle]

\* The innermost call returns: the rest of its attributes is dropped.
Returned(work) ==
  LET outer == {n \in DOMAIN work : work[n].path # Head(work).path}
  IN IF outer = {} THEN << >> ELSE SubSeq(work, Min(outer), Len(work))

WalkSkip(t) ==
  /\ th[t].pc = "walk"
  /\ LET it == Head(th[t].work)
         v == heap[it.obj][it.attr]
     IN v # Plain /\ ~Instrumentable(v, th[t].rec)
  /\ WalkOn(t, Tail(th[t].work))
  /\ out' = Quiet
  /\ UNCHANGED <<heap, layers, wraps, recs, reg, lock, installing, clobbered,
                 orphaned, left>>

\* A container is wrapped, also when there is no room to record it.
WalkWrap(t) ==
  /\ th[t].pc = "walk"
  /\ Len(wraps) < MaxWraps
  /\ LET it == Head(th[t].work)
         i == th[t].rec
         w == Len(wraps) + 1
     IN /\ heap[it.obj][it.attr] = Plain
        /\ heap' = [heap EXCEPT ![it.obj][it.attr] = w]
        /\ wraps' = Append(wraps, Append(it.path, it.attr))
        /\ recs' = [recs EXCEPT ![i] = WithSub(@, Full(i), WrapSub(w, it.obj, it.attr))]
        /\ WalkOn(t, IF Full(i) THEN Returned(th[t].work) ELSE Tail(th[t].work))
  /\ out' = Quiet
  /\ UNCHANGED <<layers, reg, lock, installing, clobbered, orphaned, left>>

\* An object gets a layer of its own and is walked next.
Instrument(v, path, i) ==
  /\ layers' = [layers EXCEPT ![v] = << AnyLayer(path, recs[i].expr) >>]
  /\ orphaned' = IF Full(i) \/ i \notin RegIds
                 THEN orphaned \cup {v} ELSE orphaned

Met(r, v) == [r EXCEPT !.visited = @ \cup {v}]

WalkInstall(t, order) ==
  /\ th[t].pc = "walk"
  /\ LET it == Head(th[t].work)
         i == th[t].rec
         v == heap[it.obj][it.attr]
         path == Append(it.path, it.attr)
         deeper == IF it.depth < Depth THEN Items(v, path, it.depth + 1, order)
                   ELSE << >>
     IN /\ Instrumentable(v, i)
        /\ Instrument(v, path, i)
        /\ recs' = [recs EXCEPT ![i] =
                      WithSub(Met(@, v), Full(i), ClassSub(v, path, recs[i].expr))]
        /\ WalkOn(t, IF Full(i) THEN Returned(th[t].work)
                     ELSE deeper \o Tail(th[t].work))
  /\ out' = Quiet
  /\ UNCHANGED <<heap, wraps, reg, lock, installing, clobbered, left>>

-----------------------------------------------------------------------------
(* The program writes: the __setattr__ of the layers, top to bottom to the *)
(* assignment and back.                                                    *)

\* A report for each layer if the value changes; wrappers are compared by
\* identity.
WriteOut(o, a, stored) ==
  IF stored = heap[o][a] THEN Quiet
  ELSE [op |-> "write", obj |-> o, attr |-> a, hits |-> Hits(o, a)]

Writes(t) ==
  /\ th[t].pc = "idle"
  /\ left.writes > 0
  /\ left' = [left EXCEPT !.writes = @ - 1]
  /\ UNCHANGED <<reg, lock, installing, clobbered>>

\* The layers of object watches whose root takes the new value in.
Takers(o, a, v) ==
  {n \in Watching(o, a) : LET l == layers[o][n] IN
     /\ l.attr = AnyAttr
     /\ IsRegistered(l.root)
     /\ ~recs[RecOf(l.root)].capped
     /\ Instrumentable(v, RecOf(l.root))}

\* Nothing but the assignment and the reports.
WriteValue(t, o, a, v) ==
  /\ Writes(t)
  /\ v = Plain => Watching(o, a) = {}
  /\ v = heap[o][a] \/ Takers(o, a, v) = {}
  /\ heap' = [heap EXCEPT ![o][a] = v]
  /\ out' = WriteOut(o, a, v)
  /\ UNCHANGED <<layers, wraps, recs, th, orphaned>>

\* The topmost layer wraps the container: those below see a wrapper.  The
\* layer of an attribute watch tells the watch its expression has now; that of
\* an object watch records it, if there is room.
WriteContainer(t, o, a) ==
  /\ Writes(t)
  /\ Len(wraps) < MaxWraps
  /\ \E n \in Topmost(Watching(o, a)) :
     LET top == layers[o][n]
         w == Len(wraps) + 1
         i == RecOf(top.root)
     IN /\ heap' = [heap EXCEPT ![o][a] = w]
        /\ wraps' = Append(wraps, NameFor(top, a))
        /\ out' = WriteOut(o, a, w)
        /\ recs' = IF ~IsRegistered(top.root) THEN recs
                   ELSE IF top.attr # AnyAttr
                   THEN [recs EXCEPT ![i].own.wrapper = w]
                   ELSE [recs EXCEPT ![i] = WithSub(@, Full(i), WrapSub(w, o, a))]
  /\ UNCHANGED <<layers, th, orphaned>>

\* The new value is an object that the root of a layer takes in, the innermost
\* first; the walk follows.
WriteObject(t, o, a, v, order) ==
  /\ Writes(t)
  /\ v # heap[o][a]
  /\ \E n \in First(Takers(o, a, v)) :
     LET l == layers[o][n]
         i == RecOf(l.root)
         path == Append(l.expr, a)
     IN /\ Instrument(v, path, i)
        /\ recs' = [recs EXCEPT ![i] = WithSub(Met(@, v), Full(i), ClassSub(v, path, l.root))]
        /\ th' = IF Full(i) THEN th
                 ELSE [th EXCEPT ![t] = [Idle EXCEPT !.pc = "walk", !.op = "write",
                                           !.rec = i, !.work = Items(v, path, 1, order)]]
  /\ heap' = [heap EXCEPT ![o][a] = v]
  /\ out' = WriteOut(o, a, v)
  /\ UNCHANGED wraps

\* Something is done to a container through its wrapper, wherever the program
\* got it from.  A wrapper that was nulled is silent.
Mutate(t, w) ==
  /\ th[t].pc = "idle"
  /\ w \in DOMAIN wraps
  /\ wraps[w] # NoExpr
  /\ out' = Reported(t, "mutate", {wraps[w]})
  /\ UNCHANGED <<heap, layers, wraps, recs, reg, lock, installing, th, clobbered,
                 orphaned, left>>

\* An object nothing refers to dies, and a new one is made at its place.  The
\* references of the watches are weak.
Forgotten(p, o) == [p EXCEPT !.obj = IF @ = o THEN NoObj ELSE @,
                             !.holder = IF @ = o THEN NoObj ELSE @]

Die(o) ==
  /\ left.deaths > 0
  /\ \A p \in Objs \ {o}, a \in Attrs : heap[p][a] # o
  /\ \A t \in Threads : /\ th[t].obj # o
                        /\ \A k \in DOMAIN th[t].work : th[t].work[k].obj # o
  /\ left' = [left EXCEPT !.deaths = @ - 1]
  /\ heap' = [heap EXCEPT ![o] = [a \in Attrs |-> Nil]]
  /\ layers' = [layers EXCEPT ![o] = << >>]
  /\ recs' = [i \in DOMAIN recs |->
                [recs[i] EXCEPT !.own = Forgotten(@, o),
                                !.subs = [k \in DOMAIN @ |-> Forgotten(@[k], o)]]]
  /\ th' = [t \in Threads |->
              [th[t] EXCEPT !.todo = [k \in DOMAIN @ |-> Forgotten(@[k], o)]]]
  /\ clobbered' = clobbered \ {o}
  /\ orphaned' = orphaned \ {o}
  /\ out' = Quiet
  /\ UNCHANGED <<wraps, reg, lock, installing>>

-----------------------------------------------------------------------------

Init ==
  /\ heap \in [Objs -> [Attrs -> {Nil, Plain} \cup Objs]]
  /\ layers = [o \in Objs |-> << >>]
  /\ wraps = << >>
  /\ recs = << >>
  /\ reg = << >>
  /\ lock = NoThread
  /\ installing = NoThread
  /\ th = [t \in Threads |-> Idle]
  /\ out = Quiet
  /\ clobbered = {}
  /\ orphaned = {}
  /\ left = [calls |-> MaxCalls, writes |-> MaxWrites, deaths |-> MaxDeaths]

Values == Scalars \cup {Nil, Plain} \cup Objs \cup Wraps

Next ==
  \/ \E t \in Threads :
       \/ \E e \in Exprs : \/ \E o \in Objs : EnterWatch(t, e, o)
                           \/ EnterRemoval(t, "unwatch", e)
       \/ EnterRemoval(t, "clear", NoExpr)
       \/ Acquire(t) \/ Pop(t) \/ PopNothing(t) \/ Undo(t)
       \/ Read(t) \/ SwapAttr(t) \/ Wrap(t) \/ Exit(t)
       \/ \E order \in Orders : SwapAny(t, order) \/ WalkInstall(t, order)
       \/ WalkSkip(t) \/ WalkWrap(t)
       \/ \E o \in Objs, a \in Attrs :
            \/ \E v \in Scalars \cup {Nil, Plain} \cup Objs \cup DOMAIN wraps :
                 WriteValue(t, o, a, v)
            \/ WriteContainer(t, o, a)
            \/ \E v \in Objs, order \in Orders : WriteObject(t, o, a, v, order)
       \/ \E w \in Wraps : Mutate(t, w)
  \/ \E o \in Objs : Die(o)

Spec == Init /\ [][Next]_vars

-----------------------------------------------------------------------------
(* Properties.                                                             *)

Layer == [attr : Attrs \cup {AnyAttr}, expr : Seq(STRING), root : Exprs]
Payload == [obj : Objs \cup {NoObj}, orig : Seq(Layer), cls : Seq(Layer),
            wrapper : Wraps \cup {NoWrap}, holder : Objs \cup {NoObj},
            attr : Attrs \cup {AnyAttr}]
Rec == [expr : Exprs, own : Payload, subs : Seq(Payload), visited : SUBSET Objs,
        capped : BOOLEAN]
Item == [obj : Objs, attr : Attrs, path : Seq(STRING), depth : 1 .. Depth]
ThreadState ==
  [pc : {"idle", "lock", "pop", "undo", "read", "swap", "wrap", "walk", "exit"},
   op : {"none", "watch", "unwatch", "clear", "write"},
   expr : Exprs \cup {NoExpr}, obj : Objs \cup {NoObj}, rec : Nat,
   orig : Seq(Layer), init : Values, todo : Seq(Payload), work : Seq(Item)]

\* The variables keep their shape; whoever runs under the registry's lock holds
\* it, and the recorded sub-watches of a root stay under their cap.
TypeOK ==
  /\ heap \in [Objs -> [Attrs -> Values]]
  /\ layers \in [Objs -> Seq(Layer)]
  /\ wraps \in Seq(Seq(STRING)) /\ Len(wraps) <= MaxWraps
  /\ recs \in Seq(Rec)
  /\ reg \in Seq(DOMAIN recs)
  /\ lock \in Threads \cup {NoThread}
  /\ installing \in Threads \cup {NoThread}
  /\ th \in [Threads -> ThreadState]
  /\ clobbered \subseteq Objs
  /\ orphaned \subseteq Objs
  /\ \A t \in Threads : lock = t <=> /\ th[t].pc \notin {"idle", "lock"}
                                     /\ th[t].op # "write"
  /\ \A i \in DOMAIN recs : Len(recs[i].subs) <= MaxSubs

Carries(p, o) == p.obj = o /\ p.cls # << >>

\* Removing one watch never takes away the class of another on the same
\* object: what a registered watch installed stays in the class of its object,
\* unless another thread changed the class between the reading and the setting
\* of one installation (_undo_attr_watch_payload, _add_attr_watch,
\* _install_single_object_watch).
LayerKept ==
  \A i \in RegIds : \A k \in DOMAIN Payloads(i) :
    LET p == Payloads(i)[k]
    IN p.obj # NoObj /\ p.obj \notin clobbered => IsPrefix(p.cls, layers[p.obj])

\* A write that changes an attribute is reported under every registered watch
\* that covers it, however many layers lie above or below that watch's own and
\* whatever was removed from the object before (_WatchedSubclass.__setattr__,
\* _WatchedAnyAttrSubclass.__setattr__).
ChangeReported ==
  out.op = "write" =>
    \A i \in RegIds : \A k \in DOMAIN Payloads(i) :
      LET p == Payloads(i)[k]
      IN /\ Carries(p, out.obj)
         /\ Sees(Last(p.cls), out.attr)
         /\ out.obj \notin clobbered
         => NameFor(Last(p.cls), out.attr) \in out.hits

\* A class is left on an object in three ways only: it was not the object's
\* class any more when its watch was removed, or its root was full, or no longer
\* registered, when it was installed.  Else each layer is one that a registered
\* watch, or a removal in progress, will take off (_undo_attr_watch_payload,
\* _try_add_sub_watch).
LayersOwned ==
  \A o \in Objs \ orphaned : \A n \in DOMAIN layers[o] :
    LET cls == SubSeq(layers[o], 1, n) IN
      \/ \E i \in RegIds : \E k \in DOMAIN Payloads(i) :
           Payloads(i)[k].obj = o /\ Payloads(i)[k].cls = cls
      \/ \E t \in Threads : \E k \in DOMAIN th[t].todo :
           th[t].todo[k].obj = o /\ th[t].todo[k].cls = cls

\* An object graph with cycles and shared objects is instrumented once: no
\* watch records two classes for one live object, over its whole life
\* (_instrument_object_tree and the write hook share visited_ids).
InstrumentedOnce ==
  \A i \in RegIds : \A j, k \in DOMAIN Payloads(i) :
    j # k /\ Payloads(i)[j].cls # << >> /\ Payloads(i)[k].cls # << >>
      => Payloads(i)[j].obj # Payloads(i)[k].obj \/ Payloads(i)[j].obj = NoObj

\* No removal silences the wrapper that another registered watch put in
\* (_undo_attr_watch_payload, _wrap_container).
WrapperKept ==
  \A i \in RegIds : \A k \in DOMAIN Payloads(i) :
    LET w == Payloads(i)[k].wrapper
    IN w # NoWrap => wraps[w] # NoExpr /\ IsPrefix(recs[i].expr, wraps[w])

\* Claim of containers.py:93-95 and __init__.py:93: once a watch is removed,
\* what the program does is not reported under its name.
UnwatchSilences ==
  out.op \in {"write", "mutate"} /\ lock = NoThread =>
    \A h \in out.hits : \E i \in RegIds : IsPrefix(recs[i].expr, h)

\* Claim of registry.py:562-568: the swaps of __class__ the runtime makes
\* itself are silent rewrites, not changes to report.
OwnSwapSilent == out.op \in {"undo", "swap"} => out.hits = {}
=============================================================================
