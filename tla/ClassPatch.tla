----------------------------- MODULE ClassPatch -----------------------------
(***************************************************************************)
(* classpatch.py: watches on objects whose metaclass refuses the dynamic   *)
(* subclass of AttrWatch.  The class itself gets a patched __setattr__,    *)
(* which looks the written object up by id() in a table of the patch.      *)
(*                                                                         *)
(* watch(), unwatch() and clear_watches() hold the registry's lock and     *)
(* _classpatch_lock, and a write of the program sees their work through    *)
(* one table, so each is one step.  A write is not: it is bound to the     *)
(* function found first, calls on along the functions that the patches     *)
(* saved, and reports when the original has returned.                      *)
(*                                                                         *)
(* Values are immutables and objects; containers in watched attributes are *)
(* the subject of AttrWatch.                                               *)
(***************************************************************************)
EXTENDS ValueHash, SequencesExt

CONSTANTS
  Threads,    \* threads of the debugged program
  Addrs,      \* values of id(object)
  Classes,    \* classes that refuse a dynamic subclass
  Mro,        \* Mro[c]: c and its bases, nearest first
  Own,        \* classes that define __setattr__ themselves
  Refusing,   \* classes on which __setattr__ cannot be set either
  Attrs,      \* names of attributes
  Vals,       \* values, records as in ValueHash
  Exprs,      \* expressions to watch
  KeyOf,      \* KeyOf[e]: the attribute e ends in, or Wildcard for a bare name
  Wildcard,   \* the key "__any__"
  None,       \* no class, no attribute value, no expression
  MaxObjects, \* bound: objects created in a behaviour
  MaxCalls,   \* bound: calls of watch, unwatch and clear_watches
  MaxWrites,  \* bound: writes of attributes
  MaxFaults   \* bound: restorations of __setattr__ that the class refuses

Keys == Attrs \cup {Wildcard}

ASSUME ClassPatchAssumption ==
  /\ \A c \in Classes : Mro[c] \in Seq(Classes) /\ Mro[c] # << >> /\ Mro[c][1] = c
  /\ Own \subseteq Classes /\ Refusing \subseteq Classes
  /\ KeyOf \in [Exprs -> Keys]
  /\ Wildcard \notin Attrs
  /\ None \notin Vals \cup Exprs \cup Classes
  /\ {MaxObjects, MaxCalls, MaxWrites, MaxFaults} \subseteq Nat

VARIABLES
  obj,     \* the object at each address; inc = 0 when there is none
  val,     \* val[a][n]: the value of attribute n of that object
  func,    \* cls.__dict__["__setattr__"]
  patches, \* every _ClassPatch made
  reg,     \* _classpatch_registry: the patch of each class, 0 if none
  watches, \* _attr_watches, as far as they are class patches
  th,      \* the write each thread is in
  hit,     \* the hit reported by the last step
  shared,  \* ghost: keys under which two expressions watched a live object
  stuck,   \* ghost: classes that refused a restoration
  budget   \* what is left of each bound

vars == <<obj, val, func, patches, reg, watches, th, hit, shared, stuck, budget>>

\* Functions: not defined in the class, the original one, or the number of
\* the patch they belong to.
Absent == 0
Original == -1

NoObject == [inc |-> 0, cls |-> None]
NoVals == [n \in Attrs |-> None]
NoWatch == [expr |-> None, addr |-> None, inc |-> 0]
NoTable == [a \in Addrs |-> [k \in Keys |-> NoWatch]]
NoHit == [watch |-> NoWatch, addr |-> None, inc |-> 0, attr |-> None,
          calm |-> FALSE]
Idle == [pc |-> "idle", addr |-> None, attr |-> None, new |-> None,
         guard |-> FALSE, fn |-> Original, due |-> << >>, replaced |-> None,
         covered |-> FALSE, calm |-> FALSE]

Spend(what) == /\ budget[what] > 0
               /\ budget' = [budget EXCEPT ![what] = @ - 1]

Live(a) == obj[a].inc # 0

\* obj_ref of a watch still gives its object.
Alive(w) == w # NoWatch /\ Live(w.addr) /\ obj[w.addr].inc = w.inc

-----------------------------------------------------------------------------
(* Looking up and replacing __setattr__.                                   *)

\* The first definition along some classes; the original when there is none.
FirstOf(cs) ==
  LET own == {i \in DOMAIN cs : func[cs[i]] # Absent}
  IN IF own = {} THEN Original ELSE func[cs[Min(own)]]

\* What a write of an instance of c is bound to, and what a patch of c calls on
\* to (_orig_callable): the class's own __setattr__, or the inherited one.
Callable(c) == FirstOf(Mro[c])

\* Mutant: the inherited function is written into the class.
CallableOf(p) == patches[p].orig

\* What is put back: the class's own __setattr__, or none.
Restored(p) == patches[p].saved

\* Mutant: what the patch calls on to is looked up when it is called.
Dynamic(p, a) == Callable(obj[a].cls)

\* _orig, bound when the patch was made.
CallsOn(p, a) == patches[p].orig

\* Mutant: the number of a patch, as if it were bound to itself.
OwnNumber(c) == Len(patches) + 1

\* The function that a new patch of c saves.
Bound(c) == Callable(c)

\* Mutant: only the entry of an attribute is taken.
PoppedAttr(p, a, k) ==
  IF k = Wildcard THEN patches[p].table
  ELSE [patches[p].table EXCEPT ![a][k] = NoWatch]

Popped(p, a, k) == [patches[p].table EXCEPT ![a][k] = NoWatch]

\* Mutant: the class counts as unwatched when the object leaves the table.
LastOfObject(table, a) == table[a] = NoTable[a]

LastOfClass(table, a) == table = NoTable

\* Mutant: the entry is looked up by attribute alone.
ExactEntry(p, a, n) == patches[p].table[a][n]

\* The entry for a write of attribute n: the specific one goes before "__any__".
EntryFor(p, a, n) ==
  LET row == patches[p].table[a]
  IN IF row[n] # NoWatch THEN row[n] ELSE row[Wildcard]

-----------------------------------------------------------------------------
(* watch() and unwatch().  A watch of an expression that is watched, and    *)
(* clear_watches(), are sequences of these calls under one lock.            *)

\* A call falls into the writes in progress.
Disturbed == [t \in Threads |-> [th[t] EXCEPT !.calm = FALSE]]

\* _try_classpatch_attr_watch and _try_classpatch_object_watch: the patch is
\* made for the first watched instance of the class.
Watch(e, a) ==
  LET c == obj[a].cls
      n == Len(patches) + 1
      p == IF reg[c] = 0 THEN n ELSE reg[c]
      w == [expr |-> e, addr |-> a, inc |-> obj[a].inc]
      all == IF reg[c] # 0 THEN patches
             ELSE Append(patches, [saved |-> func[c], orig |-> Bound(c),
                                   table |-> NoTable])
      old == all[p].table[a][KeyOf[e]]
  IN /\ Live(a)
     /\ watches[e] = NoWatch
     /\ reg[c] # 0 \/ c \notin Refusing
     /\ Spend("calls")
     /\ patches' = [all EXCEPT ![p].table[a][KeyOf[e]] = w]
     /\ func' = IF reg[c] = 0 THEN [func EXCEPT ![c] = p] ELSE func
     /\ reg' = [reg EXCEPT ![c] = p]
     /\ watches' = [watches EXCEPT ![e] = w]
     /\ shared' = IF Alive(old) THEN shared \cup {<<a, KeyOf[e]>>} ELSE shared
     /\ th' = Disturbed
     /\ hit' = NoHit
     /\ UNCHANGED <<obj, val, stuck>>

\* The class refuses the new __setattr__: nothing is left behind.  (watch() then
\* raises, or falls back to module LocalWatch.)
WatchRefused(a) ==
  /\ Live(a)
  /\ obj[a].cls \in Refusing /\ reg[obj[a].cls] = 0
  /\ Spend("calls")
  /\ hit' = NoHit
  /\ UNCHANGED <<obj, val, func, patches, reg, watches, th, shared, stuck>>

\* remove_watch: the entry is found through the object, so a dead object
\* leaves its entry behind, and so does one whose class has no patch any more.
UnwatchGone(e) ==
  /\ watches[e] # NoWatch
  /\ Alive(watches[e]) => reg[obj[watches[e].addr].cls] = 0
  /\ Spend("calls")
  /\ watches' = [watches EXCEPT ![e] = NoWatch]
  /\ th' = Disturbed
  /\ hit' = NoHit
  /\ UNCHANGED <<obj, val, func, patches, reg, shared, stuck>>

\* remove_watch with _remove_classpatch_attr_watch: the entry goes, and with
\* the last entry of the class its old __setattr__ comes back, unless the class
\* refuses it.
Unwatch(e, accepts) ==
  LET w == watches[e]
      c == obj[w.addr].cls
      p == reg[c]
      table == Popped(p, w.addr, KeyOf[e])
      last == LastOfClass(table, w.addr)
  IN /\ w # NoWatch
     /\ Alive(w) /\ p # 0
     /\ IF last /\ ~ accepts
        THEN /\ budget["calls"] > 0 /\ budget["faults"] > 0
             /\ budget' = [budget EXCEPT !["calls"] = @ - 1, !["faults"] = @ - 1]
             /\ stuck' = stuck \cup {c}
        ELSE Spend("calls") /\ UNCHANGED stuck
     /\ watches' = [watches EXCEPT ![e] = NoWatch]
     /\ patches' = [patches EXCEPT ![p].table = table]
     /\ func' = IF last /\ accepts THEN [func EXCEPT ![c] = Restored(p)]
                ELSE func
     /\ reg' = IF last THEN [reg EXCEPT ![c] = 0] ELSE reg
     /\ th' = Disturbed
     /\ hit' = NoHit
     /\ UNCHANGED <<obj, val, shared>>

-----------------------------------------------------------------------------
(* The program creates and loses objects, and writes their attributes.     *)

Create(a, c) ==
  /\ ~ Live(a)
  /\ Spend("objects")
  /\ obj' = [obj EXCEPT ![a] = [inc |-> budget.objects, cls |-> c]]
  /\ hit' = NoHit
  /\ UNCHANGED <<val, func, patches, reg, watches, th, shared, stuck>>

Die(a) ==
  /\ Live(a)
  /\ \A t \in Threads : th[t].addr # a
  /\ obj' = [obj EXCEPT ![a] = NoObject]
  /\ val' = [val EXCEPT ![a] = NoVals]
  /\ shared' = {s \in shared : s[1] # a}
  /\ hit' = NoHit
  /\ UNCHANGED <<func, patches, reg, watches, th, stuck, budget>>

\* The watch of e stands for attribute n of the object at a, and no other
\* expression has shared its entry.
Covers(e, a, n) ==
  /\ watches[e].addr = a /\ watches[e].inc = obj[a].inc
  /\ KeyOf[e] \in {n, Wildcard}
  /\ <<a, KeyOf[e]>> \notin shared

\* A statement obj.n = v, or one that a report runs on its own thread with the
\* registry's guard up (a repr, the debugger).
BeginWrite(t, a, n, v, g) ==
  /\ th[t].pc = "idle"
  /\ Live(a)
  /\ Spend("writes")
  /\ th' = [th EXCEPT ![t] =
       [pc |-> "call", addr |-> a, attr |-> n, new |-> v, guard |-> g,
        fn |-> Callable(obj[a].cls), due |-> << >>, replaced |-> None,
        covered |-> ~ g /\ \E e \in Exprs : Covers(e, a, n), calm |-> TRUE]]
  /\ hit' = NoHit
  /\ UNCHANGED <<obj, val, func, patches, reg, watches, shared, stuck>>

\* patched_setattr up to the call of what it saved: it notes the entry and the
\* old value, if the object has an entry and the guard is down.
CallPatched(t) ==
  LET w == th[t]
      e == EntryFor(w.fn, w.addr, w.attr)
  IN /\ w.pc = "call" /\ w.fn # Original
     /\ th' = [th EXCEPT ![t] =
          [w EXCEPT !.fn = CallsOn(w.fn, w.addr),
                    !.due = IF e = NoWatch \/ w.guard THEN @
                            ELSE Append(@, [watch |-> e,
                                            old |-> val[w.addr][w.attr]])]]
     /\ hit' = NoHit
     /\ UNCHANGED <<obj, val, func, patches, reg, watches, shared, stuck, budget>>

\* The original __setattr__ assigns; with no entry the write is over.
Assign(t) ==
  LET w == th[t]
  IN /\ w.pc = "call" /\ w.fn = Original
     /\ val' = [val EXCEPT ![w.addr][w.attr] = w.new]
     /\ th' = [th EXCEPT ![t] =
          IF w.due = << >> THEN Idle
          ELSE [w EXCEPT !.pc = "report", !.replaced = val[w.addr][w.attr]]]
     /\ hit' = NoHit
     /\ UNCHANGED <<obj, func, patches, reg, watches, shared, stuck, budget>>

\* It raises: nothing is reported.
AssignRaises(t) ==
  /\ th[t].pc = "call" /\ th[t].fn = Original
  /\ th' = [th EXCEPT ![t] = Idle]
  /\ hit' = NoHit
  /\ UNCHANGED <<obj, val, func, patches, reg, watches, shared, stuck, budget>>

SameHash(v, w) ==
  \/ v = w
  \/ v # None /\ w # None /\ ValueHash(v) = ValueHash(w)

\* Back in patched_setattr, from the innermost call outwards.
Report(t) ==
  LET w == th[t]
      d == Last(w.due)
  IN /\ w.pc = "report"
     /\ hit' = IF SameHash(d.old, w.new) THEN NoHit
               ELSE [watch |-> d.watch, addr |-> w.addr, inc |-> obj[w.addr].inc,
                     attr |-> w.attr, calm |-> w.calm]
     /\ th' = [th EXCEPT ![t] = IF Len(w.due) = 1 THEN Idle
                                ELSE [w EXCEPT !.due = Front(@)]]
     /\ UNCHANGED <<obj, val, func, patches, reg, watches, shared, stuck, budget>>

-----------------------------------------------------------------------------

Defined == [c \in Classes |-> IF c \in Own THEN Original ELSE Absent]

Init ==
  /\ obj = [a \in Addrs |-> NoObject]
  /\ val = [a \in Addrs |-> NoVals]
  /\ func = Defined
  /\ patches = << >>
  /\ reg = [c \in Classes |-> 0]
  /\ watches = [e \in Exprs |-> NoWatch]
  /\ th = [t \in Threads |-> Idle]
  /\ hit = NoHit
  /\ shared = {} /\ stuck = {}
  /\ budget = [objects |-> MaxObjects, calls |-> MaxCalls,
               writes |-> MaxWrites, faults |-> MaxFaults]

WriteStep(t) == CallPatched(t) \/ Assign(t) \/ AssignRaises(t) \/ Report(t)

Next ==
  \/ \E a \in Addrs, c \in Classes : Create(a, c)
  \/ \E a \in Addrs : Die(a) \/ WatchRefused(a)
  \/ \E e \in Exprs, a \in Addrs : Watch(e, a)
  \/ \E e \in Exprs : UnwatchGone(e)
  \/ \E e \in Exprs, accepts \in BOOLEAN : Unwatch(e, accepts)
  \/ \E t \in Threads, a \in Addrs, n \in Attrs, v \in Vals, g \in BOOLEAN :
       BeginWrite(t, a, n, v, g)
  \/ \E t \in Threads : WriteStep(t)

Spec == Init /\ [][Next]_vars

\* A thread in the middle of a write goes on with it: it holds none of the
\* locks, and nothing it calls waits.
FairSpec == Spec /\ \A t \in Threads : WF_vars(WriteStep(t))

-----------------------------------------------------------------------------
(* Properties that hold.                                                   *)

WatchRec == [expr : Exprs, addr : Addrs, inc : 1 .. MaxObjects]
Func == {Absent, Original} \cup 1 .. Len(patches)
Table == [Addrs -> [Keys -> WatchRec \cup {NoWatch}]]
Due == [watch : WatchRec, old : Vals \cup {None}]
Write == [pc : {"call", "report"}, addr : Addrs, attr : Attrs, new : Vals,
          guard : BOOLEAN, fn : Func \ {Absent}, due : Seq(Due),
          replaced : Vals \cup {None}, covered : BOOLEAN, calm : BOOLEAN]

\* The variables keep the shape of the code's tables, and the functions that
\* patches saved are older than they are.
TypeOK ==
  /\ \A a \in Addrs : obj[a] = NoObject
                        \/ obj[a] \in [inc : 1 .. MaxObjects, cls : Classes]
  /\ val \in [Addrs -> [Attrs -> Vals \cup {None}]]
  /\ func \in [Classes -> Func]
  /\ patches \in Seq([saved : Func, orig : Func \ {Absent}, table : Table])
  /\ \A p \in 1 .. Len(patches) : patches[p].orig < p /\ patches[p].saved < p
  /\ reg \in [Classes -> 0 .. Len(patches)]
  /\ \A e \in Exprs : watches[e] \in WatchRec \cup {NoWatch}
  /\ th \in [Threads -> Write \cup {Idle}]
  /\ shared \subseteq Addrs \X Keys /\ stuck \subseteq Classes

\* A class has a patched __setattr__ exactly as long as its patch has an entry;
\* then it has its own definition back, and no entry is left in a patch that
\* writes may still be bound to (classpatch.py:204-229).  Only a class that
\* refuses the restoration keeps a patched function, with an empty table.
PatchedWhileWatched ==
  /\ \A c \in Classes :
       IF reg[c] = 0 THEN c \in stuck \/ func[c] = Defined[c]
       ELSE func[c] = reg[c] /\ patches[reg[c]].table # NoTable
  /\ \A p \in 1 .. Len(patches) :
       (\A c \in Classes : reg[c] # p) => patches[p].table = NoTable

\* The watch of a live object keeps its entry in the patch of the object's
\* class, whatever is watched and unwatched in the class and its bases, unless
\* another expression has watched the same attribute of the same object: that
\* one replaces the entry, and either's removal takes it (classpatch.py:191, 209).
EntryKept ==
  \A e \in Exprs :
    LET w == watches[e] c == obj[w.addr].cls
    IN Alive(w) /\ <<w.addr, KeyOf[e]>> \notin shared
         => reg[c] # 0 /\ patches[reg[c]].table[w.addr][KeyOf[e]] = w

\* A report belongs to a watch that is registered; a watch that was removed is
\* silent, but for a write already in progress, and for the entries that dead
\* objects leave behind.
UnwatchedSilent ==
  hit # NoHit /\ hit.calm /\ hit.watch.inc = hit.inc
    => watches[hit.watch.expr] = hit.watch

Ends(t) == th[t].pc # "idle" /\ th'[t].pc = "idle" /\ ~ AssignRaises(t)

Unraced(w) == \A i \in DOMAIN w.due : w.due[i].old = w.replaced

\* A write that changes a watched attribute is reported when it ends, whichever
\* chain of patched functions it went through, unless watch or unwatch was called
\* meanwhile or another thread wrote between the look at the old value and the
\* assignment (classpatch.py:152-160).
ChangeReported ==
  [][\A t \in Threads :
       Ends(t) /\ th[t].covered /\ th[t].calm /\ Unraced(th[t])
         /\ (th[t].pc = "report" => th[t].replaced # th[t].new)
       => hit' # NoHit /\ hit'.addr = th[t].addr]_vars

\* Every write ends: the functions saved by the patches of a class and of its
\* bases never lead back to themselves, in whatever order they are made, removed
\* and refused.
WritesEnd == \A t \in Threads : th[t].pc # "idle" ~> th[t].pc = "idle"
=============================================================================
