-------------------------- MODULE ClassPatch_proofs --------------------------
(* Theorems about ClassPatch, for every value of its constants.              *)
EXTENDS ClassPatch, SequenceTheorems, WellFoundedInduction, TLAPS

-----------------------------------------------------------------------------
(* The shape of the state, with types that do not grow with the patches.     *)

Patch == [saved : Int, orig : Int, table : Table]

Busy == [pc : {"call", "report"}, addr : Addrs, attr : Attrs, new : Vals,
         guard : BOOLEAN, fn : Int, due : Seq(Due), replaced : Vals \cup {None},
         covered : BOOLEAN, calm : BOOLEAN]

\* What can be called: the original, or a patch that has been made.
Callee(f, n) == f = Original \/ f \in 1 .. n

Budget == [objects : 0 .. MaxObjects, calls : Nat, writes : Nat, faults : Nat]

Objects ==
  /\ obj \in [Addrs -> [inc : 0 .. MaxObjects, cls : Classes \cup {None}]]
  /\ \A a \in Addrs : IF Live(a) THEN obj[a].cls \in Classes ELSE obj[a] = NoObject
  /\ val \in [Addrs -> [Attrs -> Vals \cup {None}]]
  /\ budget \in Budget

Tables ==
  /\ patches \in Seq(Patch)
  /\ \A p \in 1 .. Len(patches) :
       /\ Callee(patches[p].orig, p - 1)
       /\ patches[p].saved = Absent \/ Callee(patches[p].saved, p - 1)
  /\ func \in [Classes -> Int]
  /\ \A c \in Classes : func[c] = Absent \/ Callee(func[c], Len(patches))
  /\ reg \in [Classes -> Nat]
  /\ \A c \in Classes : reg[c] <= Len(patches)
  /\ watches \in [Exprs -> WatchRec \cup {NoWatch}]
  /\ shared \subseteq Addrs \X Keys /\ stuck \subseteq Classes

Writes ==
  /\ th \in [Threads -> Busy \cup {Idle}]
  /\ \A t \in Threads : th[t].pc # "idle" =>
       /\ Callee(th[t].fn, Len(patches))
       /\ Live(th[t].addr)
       /\ th[t].pc = "report" => th[t].due # << >>

Shape == Objects /\ Tables /\ Writes

-----------------------------------------------------------------------------
(* What the properties rest on.                                              *)

\* The patch of a class is its own, and saved what the class defined.
Registered ==
  /\ \A c, d \in Classes : reg[c] # 0 /\ reg[c] = reg[d] => c = d
  /\ \A c \in Classes :
       reg[c] # 0 => c \in stuck \/ patches[reg[c]].saved = Defined[c]

\* Objects still to come have numbers of their own.
Fresh ==
  /\ \A a \in Addrs : Live(a) => budget.objects < obj[a].inc
  /\ \A e \in Exprs : watches[e] # NoWatch => budget.objects < watches[e].inc
  /\ \A p \in 1 .. Len(patches), a \in Addrs, k \in Keys :
       patches[p].table[a][k] # NoWatch
         => budget.objects < patches[p].table[a][k].inc

\* An entry is of the object at its place, or of a dead one; if the object is
\* alive the patch is that of its class, and the watch is registered.
Sound(w, p, a, k) ==
  /\ w.addr = a /\ KeyOf[w.expr] = k
  /\ w.inc = obj[a].inc => reg[obj[a].cls] = p /\ watches[w.expr] = w

Rows ==
  /\ \A e \in Exprs : watches[e] # NoWatch => watches[e].expr = e
  /\ \A p \in 1 .. Len(patches), a \in Addrs, k \in Keys :
       patches[p].table[a][k] # NoWatch => Sound(patches[p].table[a][k], p, a, k)

\* A write that no call has fallen into reports only registered watches.
Awaited ==
  \A t \in Threads : th[t].calm =>
    \A i \in DOMAIN th[t].due :
      LET w == th[t].due[i].watch
      IN w.inc = obj[th[t].addr].inc => watches[w.expr] = w

\* A write of a watched attribute has passed an entry, or is about to.
Noticed ==
  \A t \in Threads : th[t].covered /\ th[t].calm =>
    \/ th[t].due # << >>
    \/ /\ th[t].pc = "call" /\ th[t].fn \in 1 .. Len(patches)
       /\ EntryFor(th[t].fn, th[t].addr, th[t].attr) # NoWatch
       /\ ~ th[t].guard

IInv == /\ Shape /\ Registered /\ PatchedWhileWatched /\ Fresh /\ Rows
        /\ EntryKept /\ Awaited /\ Noticed /\ UnwatchedSilent

-----------------------------------------------------------------------------
(* Facts about the helpers.                                                  *)

LEMMA KeyTypes ==
  /\ KeyOf \in [Exprs -> Keys] /\ Attrs \subseteq Keys /\ Wildcard \in Keys
  /\ MaxObjects \in Nat
BY ClassPatchAssumption DEF ClassPatchAssumption, Keys

\* The number of the object tells a watch from none.
LEMMA WatchOrNone ==
  ASSUME NEW w \in WatchRec \cup {NoWatch}
  PROVE  /\ w.inc \in Nat
         /\ w # NoWatch <=> w.inc # 0
         /\ w # NoWatch => /\ w \in WatchRec /\ w.expr \in Exprs /\ w.addr \in Addrs
                           /\ w.inc \in 1 .. MaxObjects
BY KeyTypes DEF WatchRec, NoWatch

LEMMA LiveType ==
  ASSUME Objects, NEW a \in Addrs, Live(a)
  PROVE  obj[a].cls \in Classes /\ obj[a].inc \in 1 .. MaxObjects
<1>1. obj[a] \in [inc : 0 .. MaxObjects, cls : Classes \cup {None}]
  BY DEF Objects
<1>2. obj[a].inc \in 0 .. MaxObjects /\ obj[a].inc # 0
  BY <1>1 DEF Live
<1>3. obj[a].inc \in 1 .. MaxObjects
  BY <1>2, KeyTypes
<1>4. QED
  BY <1>3 DEF Objects

LEMMA EmptyTable ==
  ASSUME NEW table \in Table
  PROVE  table = NoTable <=> \A a \in Addrs, k \in Keys : table[a][k] = NoWatch
<1>1. ASSUME \A a \in Addrs, k \in Keys : table[a][k] = NoWatch PROVE table = NoTable
  <2>1. \A a \in Addrs : table[a] = [k \in Keys |-> NoWatch]
    BY <1>1 DEF Table
  <2>2. QED
    BY <2>1 DEF Table, NoTable
<1>2. QED
  BY <1>1 DEF NoTable

LEMMA NoTableType == NoTable \in Table
BY DEF NoTable, Table

\* An entry of a patch.
LEMMA EntryType ==
  ASSUME Tables, NEW p \in 1 .. Len(patches), NEW a \in Addrs, NEW k \in Keys
  PROVE  patches[p].table[a][k] \in WatchRec \cup {NoWatch}
<1>1. patches[p] \in Patch
  BY DEF Tables
<1>2. QED
  BY <1>1 DEF Patch, Table

\* A table is replaced, by one that differs in one place.
With(q, p, a, k, w) == [q EXCEPT ![p].table = [q[p].table EXCEPT ![a][k] = w]]

LEMMA SetEntry ==
  ASSUME NEW q \in Seq(Patch), NEW p \in 1 .. Len(q), NEW a \in Addrs, NEW k \in Keys,
         NEW w \in WatchRec \cup {NoWatch}, NEW r, r = With(q, p, a, k, w)
  PROVE  /\ r \in Seq(Patch) /\ Len(r) = Len(q)
         /\ \A i \in 1 .. Len(q) : /\ r[i].saved = q[i].saved /\ r[i].orig = q[i].orig
                                   /\ i # p => r[i] = q[i]
         /\ \A b \in Addrs, j \in Keys :
              r[p].table[b][j] = IF b = a /\ j = k THEN w ELSE q[p].table[b][j]
<1> DEFINE tab == [q[p].table EXCEPT ![a][k] = w]
<1>0. q[p] \in Patch
  OBVIOUS
<1>1. q[p] \in Patch /\ q[p].table \in Table
  BY <1>0 DEF Patch
<1>2. tab \in Table
  BY <1>1 DEF Table
<1>3. \A b \in Addrs, j \in Keys :
        tab[b][j] = IF b = a /\ j = k THEN w ELSE q[p].table[b][j]
  BY <1>1 DEF Table
<1> HIDE DEF tab
<1>4. [q[p] EXCEPT !.table = tab] \in Patch
  BY <1>1, <1>2 DEF Patch
<1>5. r = [q EXCEPT ![p] = [q[p] EXCEPT !.table = tab]]
  BY DEF tab, With
<1>6. r \in Seq(Patch) /\ Len(r) = Len(q)
  BY <1>4, <1>5
<1>7. r[p] = [q[p] EXCEPT !.table = tab] /\ \A i \in 1 .. Len(q) : i # p => r[i] = q[i]
  BY <1>5
<1>8. r[p].table = tab /\ r[p].saved = q[p].saved /\ r[p].orig = q[p].orig
  BY <1>1, <1>7 DEF Patch
<1>9. QED
  BY <1>3, <1>6, <1>7, <1>8

\* A set of numbers has a least member, if it has any.
LEMMA LeastMember ==
  ASSUME NEW S \in SUBSET Nat, S # {} PROVE Min(S) \in S
<1> DEFINE Less == {p \in Nat \X Nat : p[1] < p[2]}
<1>1. IsWellFoundedOn(Less, Nat)
  BY NatLessThanWellFounded DEF OpToRel
<1>2. PICK m \in S : \A n \in S : ~ (<<n, m>> \in Less)
  BY <1>1, WFMin
<1>3. \A a, b \in Nat : a < b => <<a, b>> \in Less
  OBVIOUS
<1> HIDE DEF Less
<1>4. ASSUME NEW n \in S PROVE m <= n
  <2>1. n \in Nat /\ m \in Nat /\ ~ (n < m)
    BY <1>2, <1>3
  <2>2. QED
    BY <2>1
<1>5. QED
  BY <1>4 DEF Min

LEMMA CallableType ==
  ASSUME Tables, NEW c \in Classes
  PROVE  Callee(Callable(c), Len(patches))
<1>1. Mro[c] \in Seq(Classes)
  BY ClassPatchAssumption DEF ClassPatchAssumption
<1> DEFINE own == {i \in DOMAIN Mro[c] : func[Mro[c][i]] # Absent}
<1>2. CASE own = {}
  BY <1>2 DEF Callable, FirstOf, Callee
<1>3. CASE own # {}
  <2>1. Callable(c) = func[Mro[c][Min(own)]]
    BY <1>3 DEF Callable, FirstOf
  <2>2. own \in SUBSET Nat /\ \A i \in own : i \in 1 .. Len(Mro[c]) /\ func[Mro[c][i]] # Absent
    BY <1>1
  <2>3. Min(own) \in own
    <3> HIDE DEF own
    <3>1. QED
      BY <1>3, <2>2, LeastMember
  <2> HIDE DEF own
  <2>4. Mro[c][Min(own)] \in Classes /\ func[Mro[c][Min(own)]] # Absent
    <3>1. Min(own) \in 1 .. Len(Mro[c]) /\ func[Mro[c][Min(own)]] # Absent
      BY <2>2, <2>3, Zenon
    <3>2. QED
      BY <1>1, <3>1, ElementOfSeq
  <2>5. \A d \in Classes : func[d] = Absent \/ Callee(func[d], Len(patches))
    BY DEF Tables
  <2>6. Callee(func[Mro[c][Min(own)]], Len(patches))
    BY <2>4, <2>5, Zenon
  <2>7. QED
    BY <2>1, <2>6, Zenon
<1>4. QED
  BY <1>2, <1>3

\* A class that defines __setattr__ calls its own.
LEMMA OwnCallable ==
  ASSUME Tables, NEW c \in Classes, func[c] # Absent PROVE Callable(c) = func[c]
<1>1. Mro[c] \in Seq(Classes) /\ Mro[c] # << >> /\ Mro[c][1] = c
  BY ClassPatchAssumption DEF ClassPatchAssumption
<1> DEFINE own == {i \in DOMAIN Mro[c] : func[Mro[c][i]] # Absent}
<1>2. 1 \in own /\ \A i \in own : i \in Nat /\ 1 <= i
  BY <1>1
<1>3. Min(own) = 1
  <2>1. Min(own) \in own /\ \A i \in own : Min(own) <= i
    BY <1>2 DEF Min
  <2> HIDE DEF own
  <2>2. QED
    BY <1>2, <2>1
<1>4. QED
  BY <1>1, <1>2, <1>3 DEF Callable, FirstOf

-----------------------------------------------------------------------------
(* What watch() and unwatch() do to the tables.                              *)

\* Patch p is as before, but for its table.
SameFunctions(p) ==
  patches'[p].saved = patches[p].saved /\ patches'[p].orig = patches[p].orig

EntryAfter(p, a, k) ==
  IF p \in 1 .. Len(patches) THEN patches[p].table[a][k] ELSE NoWatch

\* watch() of e, on the object at a, enters the watch in patch p.
Enters(e, a, p) ==
  LET c == obj[a].cls
      w == [expr |-> e, addr |-> a, inc |-> obj[a].inc]
  IN /\ Live(a) /\ c \in Classes /\ w \in WatchRec
     /\ watches[e] = NoWatch /\ watches' = [watches EXCEPT ![e] = w]
     /\ p = IF reg[c] = 0 THEN Len(patches) + 1 ELSE reg[c]
     /\ Len(patches') = IF reg[c] = 0 THEN p ELSE Len(patches)
     /\ patches' \in Seq(Patch)
     /\ \A i \in 1 .. Len(patches) : SameFunctions(i)
     /\ \A i \in 1 .. Len(patches) : i # p => patches'[i] = patches[i]
     /\ reg[c] = 0 => patches'[p].saved = func[c] /\ patches'[p].orig = Callable(c)
     /\ \A i \in 1 .. Len(patches'), b \in Addrs, j \in Keys :
          patches'[i].table[b][j] =
            IF i = p /\ b = a /\ j = KeyOf[e] THEN w ELSE EntryAfter(i, b, j)
     /\ reg' = [reg EXCEPT ![c] = p]
     /\ func' = IF reg[c] = 0 THEN [func EXCEPT ![c] = p] ELSE func
     /\ shared' = IF Alive(EntryAfter(p, a, KeyOf[e]))
                  THEN shared \cup {<<a, KeyOf[e]>>} ELSE shared
     /\ UNCHANGED stuck

LEMMA WatchEnters ==
  ASSUME Shape, NEW e \in Exprs, NEW a \in Addrs, Watch(e, a)
  PROVE  \E p \in 1 .. Len(patches') : Enters(e, a, p)
<1> DEFINE c == obj[a].cls
           k == KeyOf[e]
           w == [expr |-> e, addr |-> a, inc |-> obj[a].inc]
           n == Len(patches) + 1
           p == IF reg[c] = 0 THEN n ELSE reg[c]
           new == [saved |-> func[c], orig |-> Bound(c), table |-> NoTable]
           all == IF reg[c] # 0 THEN patches ELSE Append(patches, new)
<1>1. /\ Live(a) /\ watches[e] = NoWatch
      /\ patches' = [all EXCEPT ![p].table[a][k] = w]
      /\ func' = IF reg[c] = 0 THEN [func EXCEPT ![c] = p] ELSE func
      /\ reg' = [reg EXCEPT ![c] = p]
      /\ watches' = [watches EXCEPT ![e] = w]
      /\ shared' = IF Alive(all[p].table[a][k]) THEN shared \cup {<<a, k>>} ELSE shared
      /\ UNCHANGED stuck
  BY DEF Watch
<1>2. c \in Classes /\ obj[a].inc \in 1 .. MaxObjects
  BY <1>1, LiveType DEF Shape
<1>3. w \in WatchRec /\ k \in Keys
  BY <1>2, KeyTypes DEF WatchRec
<1>4. patches \in Seq(Patch) /\ reg[c] \in Nat /\ reg[c] <= Len(patches)
  BY <1>2 DEF Shape, Tables
<1>5. new \in Patch
  <2>1. func[c] \in Int
    BY <1>2 DEF Shape, Tables
  <2>2. Bound(c) \in Int
    BY <1>2, <1>4, CallableType DEF Shape, Bound, Callee, Original
  <2>3. QED
    BY <2>1, <2>2, NoTableType DEF Patch
<1>6. /\ all \in Seq(Patch) /\ p \in 1 .. Len(all)
      /\ Len(all) = IF reg[c] = 0 THEN p ELSE Len(patches)
      /\ \A i \in 1 .. Len(patches) : i \in 1 .. Len(all) /\ all[i] = patches[i]
      /\ reg[c] = 0 => all[p] = new
  <2> HIDE DEF new, c
  <2>1. CASE reg[c] = 0
    BY <1>4, <1>5, <2>1, AppendProperties
  <2>2. CASE reg[c] # 0
    BY <1>4, <2>2
  <2>3. QED
    BY <2>1, <2>2
<1>7. \A i \in 1 .. Len(all), b \in Addrs, j \in Keys :
        all[i].table[b][j] = EntryAfter(i, b, j)
  <2>1. SUFFICES ASSUME NEW i \in 1 .. Len(all), NEW b \in Addrs, NEW j \in Keys
                 PROVE  all[i].table[b][j] = EntryAfter(i, b, j)
    OBVIOUS
  <2>2. CASE i \in 1 .. Len(patches)
    BY <1>6, <2>2 DEF EntryAfter
  <2>3. CASE i \notin 1 .. Len(patches)
    <3>1. i = p /\ reg[c] = 0
      <4> HIDE DEF all, c
      <4>1. QED
        BY <1>4, <1>6, <2>3
    <3>2. all[i].table = NoTable
      BY <1>6, <3>1
    <3>3. QED
      BY <2>3, <3>2 DEF EntryAfter, NoTable
  <2>4. QED
    BY <2>2, <2>3
<1> HIDE DEF all, p
<1>8. patches' = With(all, p, a, k, w)
  BY <1>1 DEF With
<1>9. /\ patches' \in Seq(Patch) /\ Len(patches') = Len(all)
      /\ \A i \in 1 .. Len(all) : /\ patches'[i].saved = all[i].saved
                                  /\ patches'[i].orig = all[i].orig
                                  /\ i # p => patches'[i] = all[i]
      /\ \A b \in Addrs, j \in Keys :
           patches'[p].table[b][j] = IF b = a /\ j = k THEN w ELSE all[p].table[b][j]
  <2> HIDE DEF w, k
  <2>1. all \in Seq(Patch) /\ p \in 1 .. Len(all) /\ w \in WatchRec \cup {NoWatch}
        /\ a \in Addrs /\ k \in Keys
    BY <1>3, <1>6
  <2>2. QED
    BY <2>1, <1>8, SetEntry
<1>10. \A i \in 1 .. Len(patches'), b \in Addrs, j \in Keys :
         patches'[i].table[b][j] =
           IF i = p /\ b = a /\ j = k THEN w ELSE EntryAfter(i, b, j)
  <2> HIDE DEF w, k
  <2>1. QED
    BY <1>6, <1>7, <1>9
<1>11. p = IF reg[c] = 0 THEN Len(patches) + 1 ELSE reg[c]
  BY DEF p
<1>12. \A i \in 1 .. Len(patches) : SameFunctions(i) /\ (i # p => patches'[i] = patches[i])
  BY <1>6, <1>9 DEF SameFunctions
<1>13. reg[c] = 0 => patches'[p].saved = func[c] /\ patches'[p].orig = Callable(c)
  BY <1>6, <1>9 DEF Bound
<1>14. all[p].table[a][k] = EntryAfter(p, a, k)
  BY <1>3, <1>6, <1>7
<1>15. Enters(e, a, p)
  <2> HIDE DEF w, k, c
  <2>1. Len(patches') = IF reg[c] = 0 THEN p ELSE Len(patches)
    BY <1>6, <1>9
  <2> USE DEF w, k, c
  <2>2. QED
    BY <1>1, <1>2, <1>3, <1>9, <1>10, <1>11, <1>12, <1>13, <1>14, <2>1,
       ZenonT(60) DEF Enters
<1>16. QED
  BY <1>6, <1>9, <1>15

\* unwatch() of e, whose object is alive, takes its entry from patch p of class c.
Leaves(e, c, p) ==
  LET w == watches[e]
  IN /\ Alive(w) /\ w \in WatchRec /\ c = obj[w.addr].cls /\ c \in Classes
     /\ reg[c] = p /\ p \in 1 .. Len(patches)
     /\ watches' = [watches EXCEPT ![e] = NoWatch]
     /\ patches' \in Seq(Patch) /\ Len(patches') = Len(patches)
     /\ \A i \in 1 .. Len(patches) : SameFunctions(i)
     /\ \A i \in 1 .. Len(patches) : i # p => patches'[i] = patches[i]
     /\ \A i \in 1 .. Len(patches), b \in Addrs, j \in Keys :
          patches'[i].table[b][j] =
            IF i = p /\ b = w.addr /\ j = KeyOf[e] THEN NoWatch
            ELSE patches[i].table[b][j]
     /\ \/ /\ patches'[p].table # NoTable
           /\ UNCHANGED <<reg, func, stuck>>
        \/ /\ patches'[p].table = NoTable
           /\ reg' = [reg EXCEPT ![c] = 0]
           /\ \/ func' = [func EXCEPT ![c] = patches[p].saved] /\ stuck' = stuck
              \/ func' = func /\ stuck' = stuck \cup {c}

LEMMA UnwatchLeaves ==
  ASSUME Shape, NEW e \in Exprs, NEW accepts \in BOOLEAN, Unwatch(e, accepts)
  PROVE  \E c \in Classes, p \in 1 .. Len(patches) : Leaves(e, c, p)
<1> DEFINE w == watches[e]
           c == obj[w.addr].cls
           p == reg[c]
           table == Popped(p, w.addr, KeyOf[e])
           last == LastOfClass(table, w.addr)
<1>1. /\ w # NoWatch /\ Alive(w) /\ p # 0
      /\ watches' = [watches EXCEPT ![e] = NoWatch]
      /\ patches' = [patches EXCEPT ![p].table = table]
      /\ func' = IF last /\ accepts THEN [func EXCEPT ![c] = patches[p].saved] ELSE func
      /\ reg' = IF last THEN [reg EXCEPT ![c] = 0] ELSE reg
      /\ stuck' = IF last /\ ~ accepts THEN stuck \cup {c} ELSE stuck
  BY DEF Unwatch, Restored
<1>2. w \in WatchRec /\ w.addr \in Addrs /\ KeyOf[e] \in Keys
  <2>1. w \in WatchRec \cup {NoWatch}
    BY DEF Shape, Tables
  <2>2. QED
    BY <1>1, <2>1, KeyTypes, WatchOrNone
<1>3. c \in Classes
  BY <1>1, <1>2 DEF Shape, Objects, Alive
<1>4. patches \in Seq(Patch) /\ p \in 1 .. Len(patches)
  <2>1. patches \in Seq(Patch) /\ p \in Nat /\ p <= Len(patches)
    BY <1>3 DEF Shape, Tables
  <2>2. QED
    BY <1>1, <2>1
<1>5. patches' = With(patches, p, w.addr, KeyOf[e], NoWatch)
  BY <1>1 DEF With, Popped
<1>6. /\ patches' \in Seq(Patch) /\ Len(patches') = Len(patches)
      /\ \A i \in 1 .. Len(patches) : SameFunctions(i)
      /\ \A i \in 1 .. Len(patches) : i # p => patches'[i] = patches[i]
      /\ \A b \in Addrs, j \in Keys :
           patches'[p].table[b][j] =
             IF b = w.addr /\ j = KeyOf[e] THEN NoWatch ELSE patches[p].table[b][j]
  <2> DEFINE a == w.addr k == KeyOf[e]
  <2>1. a \in Addrs /\ k \in Keys /\ patches' = With(patches, p, a, k, NoWatch)
    BY <1>2, <1>5
  <2> HIDE DEF w, c, p, a, k
  <2>2. QED
    BY <1>4, <2>1, SetEntry DEF SameFunctions, a, k
<1>7. patches'[p].table = table
  <2>1. patches[p] \in Patch
    BY <1>4
  <2> HIDE DEF table, p
  <2>2. patches'[p] = [patches[p] EXCEPT !.table = table]
    BY <1>1, <1>4
  <2>3. QED
    BY <2>1, <2>2 DEF Patch
<1>8. last <=> patches'[p].table = NoTable
  BY <1>7 DEF LastOfClass
<1>9. \/ /\ patches'[p].table # NoTable
         /\ UNCHANGED <<reg, func, stuck>>
      \/ /\ patches'[p].table = NoTable
         /\ reg' = [reg EXCEPT ![c] = 0]
         /\ \/ func' = [func EXCEPT ![c] = patches[p].saved] /\ stuck' = stuck
            \/ func' = func /\ stuck' = stuck \cup {c}
  <2> HIDE DEF last, c, p
  <2>1. QED
    BY <1>1, <1>8
<1>10. \A i \in 1 .. Len(patches), b \in Addrs, j \in Keys :
         patches'[i].table[b][j] =
           IF i = p /\ b = w.addr /\ j = KeyOf[e] THEN NoWatch
           ELSE patches[i].table[b][j]
  <2> HIDE DEF w, c, p
  <2>1. QED
    BY <1>6
<1>11. Leaves(e, c, p)
  BY <1>1, <1>2, <1>3, <1>4, <1>6, <1>9, <1>10, ZenonT(60) DEF Leaves
<1>12. QED
  BY <1>3, <1>4, <1>11

-----------------------------------------------------------------------------
(* The shape is kept.                                                        *)

LEMMA SpendBudget ==
  ASSUME budget \in Budget, NEW what \in {"objects", "calls", "writes", "faults"},
         Spend(what)
  PROVE  /\ budget' \in Budget
         /\ budget'.objects = IF what = "objects" THEN budget.objects - 1
                              ELSE budget.objects
         /\ budget[what] > 0
<1>1. budget[what] > 0 /\ budget' = [budget EXCEPT ![what] = @ - 1]
  BY DEF Spend
<1>2. MaxObjects \in Nat
  BY KeyTypes
<1>3. CASE what = "objects"
  BY <1>1, <1>2, <1>3 DEF Budget
<1>4. CASE what = "calls"
  BY <1>1, <1>4 DEF Budget
<1>5. CASE what = "writes"
  BY <1>1, <1>5 DEF Budget
<1>6. CASE what = "faults"
  BY <1>1, <1>6 DEF Budget
<1>7. QED
  BY <1>3, <1>4, <1>5, <1>6

\* A step of a write, of any thread.
WriteOf(t) ==
  \/ \E a \in Addrs, n \in Attrs, v \in Vals, g \in BOOLEAN : BeginWrite(t, a, n, v, g)
  \/ WriteStep(t)

\* The tables and the objects stay as they are.
Quiet == UNCHANGED <<obj, func, patches, reg, watches, shared, stuck>>

LEMMA WriteQuiet ==
  ASSUME Shape, NEW t \in Threads, WriteOf(t)
  PROVE  Quiet /\ budget' \in Budget /\ budget'.objects = budget.objects
<1>1. Quiet /\ (UNCHANGED budget \/ Spend("writes"))
  BY DEF WriteOf, WriteStep, BeginWrite, CallPatched, Assign, AssignRaises, Report, Quiet
<1>2. budget \in Budget
  BY DEF Shape, Objects
<1>3. QED
  BY <1>1, <1>2, SpendBudget

LEMMA RefusedQuiet ==
  ASSUME Shape, NEW a \in Addrs, WatchRefused(a)
  PROVE  /\ Quiet /\ budget' \in Budget /\ budget'.objects = budget.objects
         /\ UNCHANGED <<val, th>>
<1>1. Quiet /\ Spend("calls") /\ UNCHANGED <<val, th>>
  BY DEF WatchRefused, Quiet
<1>2. budget \in Budget
  BY DEF Shape, Objects
<1>3. QED
  BY <1>1, <1>2, SpendBudget

\* A call of watch() or unwatch().
Calling(a, e, accepts) == Watch(e, a) \/ UnwatchGone(e) \/ Unwatch(e, accepts)

LEMMA CallBudget ==
  ASSUME Shape, NEW a \in Addrs, NEW e \in Exprs, NEW accepts \in BOOLEAN,
         Calling(a, e, accepts)
  PROVE  /\ budget' \in Budget /\ budget'.objects = budget.objects
         /\ UNCHANGED <<obj, val>> /\ th' = Disturbed
<1>1. UNCHANGED <<obj, val>> /\ th' = Disturbed
  BY DEF Calling, Watch, UnwatchGone, Unwatch
<1>2. \/ Spend("calls")
      \/ /\ budget["calls"] > 0 /\ budget["faults"] > 0
         /\ budget' = [budget EXCEPT !["calls"] = @ - 1, !["faults"] = @ - 1]
  BY Zenon DEF Calling, Watch, UnwatchGone, Unwatch
<1>3. budget \in Budget
  BY DEF Shape, Objects
<1>4. CASE Spend("calls")
  BY <1>1, <1>3, <1>4, SpendBudget
<1>5. CASE /\ budget["calls"] > 0 /\ budget["faults"] > 0
           /\ budget' = [budget EXCEPT !["calls"] = @ - 1, !["faults"] = @ - 1]
  BY <1>1, <1>3, <1>5 DEF Budget
<1>6. QED
  BY <1>2, <1>4, <1>5

LEMMA WriteObjects == ASSUME Shape, NEW t \in Threads, WriteOf(t) PROVE Objects'
<1>1. Quiet /\ budget' \in Budget
  BY WriteQuiet
<1>2. val' \in [Addrs -> [Attrs -> Vals \cup {None}]]
  <2>1. CASE Assign(t)
    <3>1. th[t].pc # "idle" /\ val' = [val EXCEPT ![th[t].addr][th[t].attr] = th[t].new]
      BY <2>1 DEF Assign
    <3>2. th[t] \in Busy
      BY <3>1 DEF Shape, Writes, Idle
    <3>3. th[t].addr \in Addrs /\ th[t].attr \in Attrs /\ th[t].new \in Vals
      BY <3>2 DEF Busy
    <3>4. QED
      BY <3>1, <3>3 DEF Shape, Objects
  <2>2. CASE UNCHANGED val
    BY <2>2 DEF Shape, Objects
  <2>3. QED
    BY <2>1, <2>2 DEF WriteOf, WriteStep, BeginWrite, CallPatched, AssignRaises, Report
<1>3. QED
  BY <1>1, <1>2 DEF Shape, Objects, Live, Quiet

LEMMA CreateObjects ==
  ASSUME Shape, NEW a \in Addrs, NEW c \in Classes, Create(a, c)
  PROVE  /\ Objects' /\ budget'.objects = budget.objects - 1
         /\ budget.objects \in 1 .. MaxObjects
<1>1. /\ ~ Live(a) /\ obj' = [obj EXCEPT ![a] = [inc |-> budget.objects, cls |-> c]]
      /\ Spend("objects") /\ UNCHANGED val
  BY DEF Create
<1>2. budget \in Budget
  BY DEF Shape, Objects
<1>3. /\ budget' \in Budget /\ budget'.objects = budget.objects - 1
      /\ budget.objects \in 1 .. MaxObjects
  <2>1. budget["objects"] > 0 /\ budget' \in Budget /\ budget'.objects = budget.objects - 1
    BY <1>1, <1>2, SpendBudget
  <2>2. budget.objects \in 0 .. MaxObjects
    BY <1>2 DEF Budget
  <2>3. QED
    BY <2>1, <2>2, KeyTypes
<1>4. [inc |-> budget.objects, cls |-> c] \in [inc : 0 .. MaxObjects, cls : Classes \cup {None}]
  BY <1>3, KeyTypes
<1>5. obj' \in [Addrs -> [inc : 0 .. MaxObjects, cls : Classes \cup {None}]]
  BY <1>1, <1>4 DEF Shape, Objects
<1>6. ASSUME NEW b \in Addrs
      PROVE  (IF Live(b) THEN obj[b].cls \in Classes ELSE obj[b] = NoObject)'
  <2>1. CASE b = a
    BY <1>1, <1>3, <2>1 DEF Shape, Objects, Live
  <2>2. CASE b # a
    BY <1>1, <2>2 DEF Shape, Objects, Live
  <2>3. QED
    BY <2>1, <2>2
<1>7. QED
  BY <1>1, <1>3, <1>5, <1>6 DEF Shape, Objects

LEMMA DieObjects == ASSUME Shape, NEW a \in Addrs, Die(a) PROVE Objects'
<1>1. /\ obj' = [obj EXCEPT ![a] = NoObject] /\ val' = [val EXCEPT ![a] = NoVals]
      /\ UNCHANGED budget
  BY DEF Die
<1>2. NoVals \in [Attrs -> Vals \cup {None}]
  BY DEF NoVals
<1>3. val' \in [Addrs -> [Attrs -> Vals \cup {None}]]
  BY <1>1, <1>2 DEF Shape, Objects
<1>4. NoObject \in [inc : 0 .. MaxObjects, cls : Classes \cup {None}]
  BY KeyTypes DEF NoObject
<1>5. obj' \in [Addrs -> [inc : 0 .. MaxObjects, cls : Classes \cup {None}]]
  BY <1>1, <1>4 DEF Shape, Objects
<1>6. ASSUME NEW b \in Addrs
      PROVE  (IF Live(b) THEN obj[b].cls \in Classes ELSE obj[b] = NoObject)'
  BY <1>1 DEF Shape, Objects, Live, NoObject
<1>7. QED
  BY <1>1, <1>3, <1>5, <1>6 DEF Shape, Objects

LEMMA CalleeGrows ==
  ASSUME NEW f, NEW m \in Nat, NEW n \in Nat, m <= n, Callee(f, m)
  PROVE  Callee(f, n) /\ f \in Int /\ f # Absent
BY DEF Callee, Original, Absent

LEMMA QuietTables ==
  ASSUME Tables, UNCHANGED <<func, patches, reg, watches, stuck>>, shared' \subseteq shared
  PROVE  Tables'
BY DEF Tables

LEMMA EntersTables ==
  ASSUME Shape, NEW e \in Exprs, NEW a \in Addrs, NEW p \in 1 .. Len(patches'),
         Enters(e, a, p)
  PROVE  Tables'
<1> DEFINE c == obj[a].cls
           w == [expr |-> e, addr |-> a, inc |-> obj[a].inc]
<1>1. /\ c \in Classes /\ w \in WatchRec /\ watches' = [watches EXCEPT ![e] = w]
      /\ p = IF reg[c] = 0 THEN Len(patches) + 1 ELSE reg[c]
      /\ Len(patches') = IF reg[c] = 0 THEN p ELSE Len(patches)
      /\ patches' \in Seq(Patch)
      /\ \A i \in 1 .. Len(patches) : SameFunctions(i)
      /\ reg[c] = 0 => patches'[p].saved = func[c] /\ patches'[p].orig = Callable(c)
      /\ reg' = [reg EXCEPT ![c] = p]
      /\ func' = IF reg[c] = 0 THEN [func EXCEPT ![c] = p] ELSE func
      /\ shared' \in {shared \cup {<<a, KeyOf[e]>>}, shared}
  BY DEF Enters
<1>2. UNCHANGED stuck
  BY DEF Enters
<1>3. Len(patches) \in Nat /\ reg[c] \in Nat /\ reg[c] <= Len(patches)
  BY <1>1 DEF Shape, Tables
<1>4. Len(patches') \in Nat /\ Len(patches) <= Len(patches')
  BY <1>1, <1>3
<1> HIDE DEF c, w
<1>5. ASSUME NEW i \in 1 .. Len(patches')
      PROVE  /\ Callee(patches'[i].orig, i - 1)
             /\ patches'[i].saved = Absent \/ Callee(patches'[i].saved, i - 1)
  <2>1. CASE i \in 1 .. Len(patches)
    BY <1>1, <2>1 DEF Shape, Tables, SameFunctions
  <2>2. CASE i \notin 1 .. Len(patches)
    <3>1. reg[c] = 0 /\ i = p /\ i - 1 = Len(patches)
      BY <1>1, <1>3, <2>2
    <3>2. patches'[i].saved = func[c] /\ patches'[i].orig = Callable(c)
      BY <1>1, <3>1
    <3>3. func[c] = Absent \/ Callee(func[c], Len(patches))
      BY <1>1 DEF Shape, Tables
    <3>4. Callee(Callable(c), Len(patches))
      BY <1>1, CallableType DEF Shape
    <3>5. QED
      BY <3>1, <3>2, <3>3, <3>4
  <2>3. QED
    BY <2>1, <2>2
<1>6. func' \in [Classes -> Int]
  BY <1>1 DEF Shape, Tables
<1>7. ASSUME NEW d \in Classes PROVE func'[d] = Absent \/ Callee(func'[d], Len(patches'))
  <2>1. func[d] = Absent \/ Callee(func[d], Len(patches'))
    BY <1>3, <1>4, CalleeGrows DEF Shape, Tables
  <2>2. func'[d] = func[d] \/ func'[d] = p
    BY <1>1 DEF Shape, Tables
  <2>3. QED
    BY <2>1, <2>2 DEF Callee
<1>8. reg' \in [Classes -> Nat] /\ \A d \in Classes : reg'[d] <= Len(patches')
  BY <1>1, <1>3, <1>4 DEF Shape, Tables
<1>9. watches' \in [Exprs -> WatchRec \cup {NoWatch}]
  BY <1>1 DEF Shape, Tables
<1>10. shared' \subseteq Addrs \X Keys
  <2>1. <<a, KeyOf[e]>> \in Addrs \X Keys
    BY KeyTypes
  <2>2. shared \subseteq Addrs \X Keys
    BY DEF Shape, Tables
  <2>3. QED
    BY <1>1, <2>1, <2>2
<1>11. QED
  BY <1>1, <1>2, <1>5, <1>6, <1>7, <1>8, <1>9, <1>10 DEF Shape, Tables

LEMMA LeavesTables ==
  ASSUME Shape, NEW e \in Exprs, NEW c \in Classes, NEW p \in 1 .. Len(patches),
         Leaves(e, c, p), UNCHANGED shared
  PROVE  Tables'
<1>1. /\ watches' = [watches EXCEPT ![e] = NoWatch]
      /\ patches' \in Seq(Patch) /\ Len(patches') = Len(patches)
      /\ \A i \in 1 .. Len(patches) : SameFunctions(i)
      /\ reg' = reg \/ reg' = [reg EXCEPT ![c] = 0]
      /\ func' = func \/ func' = [func EXCEPT ![c] = patches[p].saved]
      /\ stuck' \in {stuck, stuck \cup {c}}
  BY DEF Leaves
<1>2. \A i \in 1 .. Len(patches') :
        /\ Callee(patches'[i].orig, i - 1)
        /\ patches'[i].saved = Absent \/ Callee(patches'[i].saved, i - 1)
  BY <1>1 DEF Shape, Tables, SameFunctions
<1>3. patches[p].saved \in Int
      /\ (patches[p].saved = Absent \/ Callee(patches[p].saved, Len(patches)))
  <2>1. patches[p].saved = Absent \/ Callee(patches[p].saved, p - 1)
    BY DEF Shape, Tables
  <2>2. Len(patches) \in Nat /\ p - 1 \in Nat /\ p - 1 <= Len(patches)
    BY DEF Shape, Tables
  <2>3. QED
    BY <2>1, <2>2, CalleeGrows DEF Absent
<1>4. func' \in [Classes -> Int]
  BY <1>1, <1>3 DEF Shape, Tables
<1>5. ASSUME NEW d \in Classes PROVE func'[d] = Absent \/ Callee(func'[d], Len(patches'))
  <2>1. func[d] = Absent \/ Callee(func[d], Len(patches))
    BY DEF Shape, Tables
  <2>2. func'[d] \in {func[d], patches[p].saved}
    BY <1>1 DEF Shape, Tables
  <2>3. QED
    BY <1>1, <1>3, <2>1, <2>2
<1>6. reg' \in [Classes -> Nat] /\ \A d \in Classes : reg'[d] <= Len(patches')
  <2>1. reg \in [Classes -> Nat] /\ \A d \in Classes : reg[d] <= Len(patches)
    BY DEF Shape, Tables
  <2>2. Len(patches) \in Nat
    BY DEF Shape, Tables
  <2>3. QED
    BY <1>1, <2>1, <2>2
<1>7. watches' \in [Exprs -> WatchRec \cup {NoWatch}]
  BY <1>1 DEF Shape, Tables
<1>8. QED
  BY <1>1, <1>2, <1>4, <1>5, <1>6, <1>7 DEF Shape, Tables

\* What a thread in the middle of a write holds.
LEMMA BusyType ==
  ASSUME Writes, NEW t \in Threads, th[t].pc # "idle"
  PROVE  th[t] \in Busy /\ Callee(th[t].fn, Len(patches)) /\ Live(th[t].addr)
         /\ (th[t].pc = "report" => th[t].due # << >>)
BY DEF Writes, Idle

LEMMA EntryForType ==
  ASSUME Tables, NEW p \in 1 .. Len(patches), NEW a \in Addrs, NEW n \in Attrs
  PROVE  \E k \in Keys : EntryFor(p, a, n) = patches[p].table[a][k]
BY KeyTypes DEF EntryFor

\* What a write is after one of its steps.
Fit(x) ==
  /\ x \in Busy \cup {Idle}
  /\ x.pc # "idle" => /\ Callee(x.fn, Len(patches)) /\ Live(x.addr)
                      /\ x.pc = "report" => x.due # << >>

LEMMA FitWrites ==
  ASSUME Writes, NEW t \in Threads, NEW x, Fit(x), th' = [th EXCEPT ![t] = x],
         UNCHANGED <<obj, patches>>
  PROVE  Writes'
BY DEF Writes, Fit, Live, Callee

LEMMA IdleFit == Fit(Idle)
BY DEF Fit, Idle

LEMMA BeginFit ==
  ASSUME Shape, NEW t \in Threads, NEW a \in Addrs, NEW n \in Attrs, NEW v \in Vals,
         NEW g \in BOOLEAN, BeginWrite(t, a, n, v, g)
  PROVE  \E x : Fit(x) /\ th' = [th EXCEPT ![t] = x]
<1> DEFINE x == [pc |-> "call", addr |-> a, attr |-> n, new |-> v, guard |-> g,
                 fn |-> Callable(obj[a].cls), due |-> << >>, replaced |-> None,
                 covered |-> ~ g /\ \E e \in Exprs : Covers(e, a, n), calm |-> TRUE]
<1>1. Live(a) /\ th' = [th EXCEPT ![t] = x]
  BY DEF BeginWrite
<1>2. obj[a].cls \in Classes
  BY <1>1, LiveType DEF Shape
<1>3. Callee(Callable(obj[a].cls), Len(patches))
  BY <1>2, CallableType DEF Shape
<1>4. Callable(obj[a].cls) \in Int
  BY <1>3 DEF Callee, Original
<1>5. (~ g /\ \E e \in Exprs : Covers(e, a, n)) \in BOOLEAN
  OBVIOUS
<1>6. << >> \in Seq(Due)
  OBVIOUS
<1>7. x \in Busy
  BY <1>4, <1>5, <1>6 DEF Busy
<1>8. Fit(x)
  BY <1>1, <1>3, <1>7 DEF Fit
<1>9. QED
  BY <1>1, <1>8

LEMMA CallFit ==
  ASSUME Shape, NEW t \in Threads, CallPatched(t)
  PROVE  \E x : Fit(x) /\ th' = [th EXCEPT ![t] = x]
<1> DEFINE w == th[t]
           e == EntryFor(w.fn, w.addr, w.attr)
           d == [watch |-> e, old |-> val[w.addr][w.attr]]
           due == IF e = NoWatch \/ w.guard THEN w.due ELSE Append(w.due, d)
           f == patches[w.fn].orig
           x == [w EXCEPT !.fn = f, !.due = due]
<1>1. /\ w.pc = "call" /\ w.fn # Original
      /\ th' = [th EXCEPT ![t] = x]
  BY DEF CallPatched, CallsOn
<1>2. w \in Busy /\ Callee(w.fn, Len(patches)) /\ Live(w.addr)
  BY <1>1, BusyType DEF Shape
<1>3. w.addr \in Addrs /\ w.attr \in Attrs /\ w.due \in Seq(Due)
  BY <1>2 DEF Busy
<1>4. w.fn \in 1 .. Len(patches)
  BY <1>1, <1>2 DEF Callee
<1>5. e \in WatchRec \cup {NoWatch}
  <2> HIDE DEF w
  <2>1. PICK k \in Keys : e = patches[w.fn].table[w.addr][k]
    BY <1>3, <1>4, EntryForType DEF Shape
  <2>2. QED
    BY <1>3, <1>4, <2>1, EntryType DEF Shape
<1>6. due \in Seq(Due)
  <2>1. val[w.addr][w.attr] \in Vals \cup {None}
    BY <1>3 DEF Shape, Objects
  <2> HIDE DEF e, w
  <2>2. CASE e = NoWatch \/ w.guard
    BY <1>3, <2>2
  <2>3. CASE ~ (e = NoWatch \/ w.guard)
    <3>1. d \in Due
      BY <1>5, <2>1, <2>3 DEF Due
    <3>2. Append(w.due, d) \in Seq(Due)
      BY <1>3, <3>1
    <3>3. QED
      BY <2>3, <3>2
  <2>4. QED
    BY <2>2, <2>3
<1>7. f \in Int /\ Callee(f, Len(patches))
  <2>1. Callee(f, w.fn - 1)
    BY <1>4 DEF Shape, Tables
  <2>2. Len(patches) \in Nat /\ w.fn - 1 \in Nat /\ w.fn - 1 <= Len(patches)
    BY <1>4 DEF Shape, Tables
  <2> HIDE DEF f, w
  <2>3. QED
    BY <2>1, <2>2, CalleeGrows
<1> HIDE DEF f, due, w
<1>8. x \in Busy /\ x.pc = "call" /\ x.fn = f /\ x.addr = w.addr
  BY <1>1, <1>2, <1>6, <1>7 DEF Busy
<1>9. Fit(x)
  BY <1>2, <1>7, <1>8 DEF Fit
<1>10. QED
  BY <1>1, <1>9

LEMMA AssignFit ==
  ASSUME Shape, NEW t \in Threads, Assign(t)
  PROVE  \E x : Fit(x) /\ th' = [th EXCEPT ![t] = x]
<1> DEFINE w == th[t]
           x == IF w.due = << >> THEN Idle
                ELSE [w EXCEPT !.pc = "report", !.replaced = val[w.addr][w.attr]]
<1>1. w.pc = "call" /\ th' = [th EXCEPT ![t] = x]
  BY DEF Assign
<1>2. w \in Busy /\ Callee(w.fn, Len(patches)) /\ Live(w.addr)
  BY <1>1, BusyType DEF Shape
<1>3. w.addr \in Addrs /\ w.attr \in Attrs
  BY <1>2 DEF Busy
<1>4. val[w.addr][w.attr] \in Vals \cup {None}
  BY <1>3 DEF Shape, Objects
<1>5. CASE w.due = << >>
  BY <1>1, <1>5, IdleFit
<1>6. CASE w.due # << >>
  <2> DEFINE y == [w EXCEPT !.pc = "report", !.replaced = val[w.addr][w.attr]]
  <2>1. y \in Busy /\ y.fn = w.fn /\ y.addr = w.addr /\ y.due = w.due
    BY <1>2, <1>4 DEF Busy
  <2>2. Fit(y)
    <3> HIDE DEF y, w
    <3>1. QED
      BY <1>2, <1>6, <2>1 DEF Fit
  <2>3. QED
    BY <1>1, <1>6, <2>2
<1>7. QED
  BY <1>5, <1>6

\* Without its last entry.
LEMMA ShorterQueue ==
  ASSUME NEW S, NEW q \in Seq(S), q # << >>
  PROVE  /\ Len(q) \in Nat \ {0} /\ Last(q) \in S
         /\ Front(q) \in Seq(S) /\ Len(Front(q)) = Len(q) - 1
         /\ \A i \in 1 .. Len(q) - 1 : Front(q)[i] = q[i]
         /\ Len(q) # 1 => Front(q) # << >>
<1>1. Len(q) \in Nat \ {0}
  BY EmptySeq
<1> DEFINE n == Len(q) - 1
<1>2. n \in Nat /\ n < Len(q) /\ Front(q) = SubSeq(q, 1, n)
  BY <1>1 DEF Front
<1>3. /\ Front(q) \in Seq(S) /\ Len(Front(q)) = n
      /\ \A i \in 1 .. n : Front(q)[i] = q[i]
  <2> HIDE DEF n
  <2>1. SubSeq(q, 1, n) \in Seq(S)
    BY <1>2
  <2>2. Len(SubSeq(q, 1, n)) = n
    BY <1>2
  <2>3. \A i \in 1 .. n : SubSeq(q, 1, n)[i] = q[i]
    BY <1>2
  <2>4. QED
    BY <1>2, <2>1, <2>2, <2>3, Zenon
<1>4. Len(q) # 1 => Front(q) # << >>
  BY <1>1, <1>3, EmptySeq
<1>5. QED
  BY <1>1, <1>3, <1>4 DEF Last

LEMMA ReportFit ==
  ASSUME Shape, NEW t \in Threads, Report(t)
  PROVE  \E x : Fit(x) /\ th' = [th EXCEPT ![t] = x]
<1> DEFINE w == th[t]
           y == [w EXCEPT !.due = Front(w.due)]
<1>1. /\ w.pc = "report"
      /\ th' = [th EXCEPT ![t] = IF Len(w.due) = 1 THEN Idle ELSE y]
  BY DEF Report
<1>2. w \in Busy /\ Callee(w.fn, Len(patches)) /\ Live(w.addr) /\ w.due # << >>
  BY <1>1, BusyType DEF Shape
<1>3. w.due \in Seq(Due)
  BY <1>2 DEF Busy
<1>4. CASE Len(w.due) = 1
  BY <1>1, <1>4, IdleFit
<1>5. CASE Len(w.due) # 1
  <2>1. Front(w.due) \in Seq(Due) /\ Front(w.due) # << >>
    <3>1. w.due \in Seq(Due) /\ w.due # << >> /\ Len(w.due) # 1
      BY <1>2, <1>3, <1>5
    <3> HIDE DEF w
    <3>2. QED
      BY <3>1, ShorterQueue
  <2>2. y \in Busy /\ y.fn = w.fn /\ y.addr = w.addr /\ y.due = Front(w.due)
    BY <1>2, <2>1 DEF Busy
  <2>3. Fit(y)
    <3> HIDE DEF y, w
    <3>1. QED
      BY <1>2, <2>1, <2>2 DEF Fit
  <2>4. QED
    BY <1>1, <1>5, <2>3
<1>6. QED
  BY <1>4, <1>5

LEMMA WriteWrites == ASSUME Shape, NEW t \in Threads, WriteOf(t) PROVE Writes'
<1>1. Writes /\ UNCHANGED <<obj, patches>>
  BY WriteQuiet DEF Quiet, Shape
<1>2. \E x : Fit(x) /\ th' = [th EXCEPT ![t] = x]
  <2>1. CASE \E a \in Addrs, n \in Attrs, v \in Vals, g \in BOOLEAN : BeginWrite(t, a, n, v, g)
    BY <2>1, BeginFit
  <2>2. CASE CallPatched(t)
    BY <2>2, CallFit
  <2>3. CASE Assign(t)
    BY <2>3, AssignFit
  <2>4. CASE AssignRaises(t)
    BY <2>4, IdleFit DEF AssignRaises
  <2>5. CASE Report(t)
    BY <2>5, ReportFit
  <2>6. QED
    BY <2>1, <2>2, <2>3, <2>4, <2>5 DEF WriteOf, WriteStep
<1>3. PICK x : Fit(x) /\ th' = [th EXCEPT ![t] = x]
  BY <1>2
<1>4. QED
  BY <1>1, <1>3, FitWrites

LEMMA DisturbedThread ==
  ASSUME Writes, th' = Disturbed, NEW t \in Threads
  PROVE  /\ th'[t] \in Busy \cup {Idle} /\ ~ th'[t].calm
         /\ th'[t].pc = th[t].pc /\ th'[t].fn = th[t].fn
         /\ th'[t].addr = th[t].addr /\ th'[t].due = th[t].due
<1>1. th'[t] = [th[t] EXCEPT !.calm = FALSE] /\ th[t] \in Busy \cup {Idle}
  BY DEF Disturbed, Writes
<1>2. CASE th[t] \in Busy
  BY <1>1, <1>2 DEF Busy
<1>3. CASE th[t] = Idle
  <2>1. th'[t] = [Idle EXCEPT !.calm = FALSE]
    BY <1>1, <1>3
  <2>2. th'[t] = Idle
    BY <2>1, Zenon DEF Idle
  <2>3. QED
    BY <1>3, <2>2 DEF Idle
<1>4. QED
  BY <1>1, <1>2, <1>3

LEMMA DisturbedWrites ==
  ASSUME Shape, th' = Disturbed, UNCHANGED obj,
         Len(patches') \in Nat, Len(patches) <= Len(patches')
  PROVE  Writes'
<1>1. th' \in [Threads -> Busy \cup {Idle}]
  <2>1. \A t \in Threads : th'[t] \in Busy \cup {Idle}
    BY DisturbedThread DEF Shape
  <2>2. QED
    BY <2>1 DEF Disturbed
<1>2. ASSUME NEW t \in Threads, th'[t].pc # "idle"
      PROVE  /\ Callee(th'[t].fn, Len(patches')) /\ Live(th[t].addr)'
             /\ th'[t].pc = "report" => th'[t].due # << >>
  <2>1. /\ th'[t].pc = th[t].pc /\ th'[t].fn = th[t].fn
        /\ th'[t].addr = th[t].addr /\ th'[t].due = th[t].due
    BY DisturbedThread DEF Shape
  <2>2. Callee(th[t].fn, Len(patches)) /\ Live(th[t].addr)
        /\ (th[t].pc = "report" => th[t].due # << >>)
    BY <1>2, <2>1, BusyType DEF Shape
  <2>3. Callee(th[t].fn, Len(patches'))
    <3>1. Len(patches) \in Nat
      BY DEF Shape, Tables
    <3>2. QED
      BY <2>2, <3>1, CalleeGrows
  <2>4. QED
    BY <2>1, <2>2, <2>3 DEF Live
<1>3. QED
  BY <1>1, <1>2 DEF Writes

\* Objects come where there was none, and go when no write is about them.
LEMMA ObjectsWrites ==
  ASSUME Shape, NEW a \in Addrs, UNCHANGED <<patches, th>>,
         (\E c \in Classes : Create(a, c)) \/ Die(a)
  PROVE  Writes'
<1>1. ASSUME NEW t \in Threads, th[t].pc # "idle" PROVE Live(th[t].addr)'
  <2>1. Live(th[t].addr) /\ th[t] \in Busy
    BY <1>1, BusyType DEF Shape
  <2>2. th[t].addr \in Addrs
    BY <2>1 DEF Busy
  <2>3. th[t].addr # a
    BY <2>1 DEF Create, Die
  <2>4. obj'[th[t].addr] = obj[th[t].addr]
    BY <2>2, <2>3 DEF Create, Die, Shape, Objects
  <2>5. QED
    BY <2>1, <2>4 DEF Live
<1>2. QED
  BY <1>1 DEF Shape, Writes

\* UnwatchGone, as far as the invariant sees it.
Drops(e) ==
  /\ watches' = [watches EXCEPT ![e] = NoWatch]
  /\ Alive(watches[e]) => reg[obj[watches[e].addr].cls] = 0
  /\ UNCHANGED <<func, patches, reg, shared, stuck>>

\* What a call of watch() or unwatch() does to the tables.
Tabled(e) ==
  \/ \E a \in Addrs, p \in 1 .. Len(patches') : Enters(e, a, p)
  \/ Drops(e)
  \/ (\E c \in Classes, p \in 1 .. Len(patches) : Leaves(e, c, p)) /\ UNCHANGED shared

\* A step by a call.
Called(e) ==
  /\ Tabled(e)
  /\ UNCHANGED <<obj, val>> /\ th' = Disturbed /\ hit' = NoHit
  /\ budget' \in Budget /\ budget'.objects = budget.objects

LEMMA CallingCalled ==
  ASSUME Shape, NEW a \in Addrs, NEW e \in Exprs, NEW accepts \in BOOLEAN,
         Calling(a, e, accepts)
  PROVE  Called(e)
<1>1. /\ UNCHANGED <<obj, val>> /\ th' = Disturbed
      /\ budget' \in Budget /\ budget'.objects = budget.objects
  BY CallBudget
<1>2. hit' = NoHit
  BY DEF Calling, Watch, UnwatchGone, Unwatch
<1>3. Tabled(e)
  <2>1. CASE Watch(e, a)
    BY <2>1, WatchEnters DEF Tabled
  <2>2. CASE UnwatchGone(e)
    BY <2>2 DEF UnwatchGone, Drops, Tabled
  <2>3. CASE Unwatch(e, accepts)
    <3>1. UNCHANGED shared
      BY <2>3 DEF Unwatch
    <3>2. QED
      BY <2>3, <3>1, UnwatchLeaves DEF Tabled
  <2>4. QED
    BY <2>1, <2>2, <2>3 DEF Calling
<1>4. QED
  BY <1>1, <1>2, <1>3 DEF Called

LEMMA CalledShape ==
  ASSUME Shape, NEW e \in Exprs, Called(e) PROVE Shape'
<1>1. Objects'
  BY DEF Called, Shape, Objects, Live
<1>2. Tables' /\ Len(patches) <= Len(patches')
  <2>1. CASE \E a \in Addrs, p \in 1 .. Len(patches') : Enters(e, a, p)
    <3>1. PICK a \in Addrs, p \in 1 .. Len(patches') : Enters(e, a, p)
      BY <2>1
    <3>2. Len(patches) \in Nat /\ reg[obj[a].cls] \in Nat
      BY <3>1 DEF Enters, Shape, Tables
    <3>3. Len(patches) <= Len(patches')
      BY <3>1, <3>2 DEF Enters
    <3>4. QED
      BY <3>1, <3>3, EntersTables
  <2>2. CASE Drops(e)
    <3>1. watches' \in [Exprs -> WatchRec \cup {NoWatch}]
      BY <2>2 DEF Drops, Shape, Tables
    <3>2. Len(patches) \in Nat
      BY DEF Shape, Tables
    <3>3. QED
      BY <2>2, <3>1, <3>2 DEF Drops, Shape, Tables
  <2>3. CASE (\E c \in Classes, p \in 1 .. Len(patches) : Leaves(e, c, p))
             /\ UNCHANGED shared
    <3>1. PICK c \in Classes, p \in 1 .. Len(patches) : Leaves(e, c, p)
      BY <2>3
    <3>2. Len(patches') = Len(patches) /\ Len(patches) \in Nat
      BY <3>1 DEF Leaves, Shape, Tables
    <3>3. QED
      BY <2>3, <3>1, <3>2, LeavesTables
  <2>4. QED
    BY <2>1, <2>2, <2>3 DEF Called, Tabled
<1>3. Writes'
  <2>1. Len(patches') \in Nat
    BY <1>2 DEF Tables
  <2>2. QED
    BY <1>2, <2>1, DisturbedWrites DEF Called
<1>4. QED
  BY <1>1, <1>2, <1>3 DEF Shape

\* The steps, as far as the tables are concerned.
LEMMA NextCases ==
  ASSUME Shape, Next
  PROVE  \/ \E a \in Addrs, c \in Classes : Create(a, c)
         \/ \E a \in Addrs : Die(a)
         \/ \E a \in Addrs : WatchRefused(a)
         \/ \E e \in Exprs : Called(e)
         \/ \E t \in Threads : WriteOf(t)
<1>1. CASE \E e \in Exprs, a \in Addrs : Watch(e, a)
  <2>1. PICK e \in Exprs, a \in Addrs : Calling(a, e, TRUE)
    BY <1>1 DEF Calling
  <2>2. QED
    BY <2>1, CallingCalled
<1>2. CASE \E e \in Exprs : UnwatchGone(e)
  <2>1. PICK e \in Exprs : UnwatchGone(e)
    BY <1>2
  <2>2. Called(e)
    <3>1. budget' \in Budget /\ budget'.objects = budget.objects
      BY <2>1, SpendBudget DEF UnwatchGone, Shape, Objects
    <3>2. QED
      BY <2>1, <3>1 DEF UnwatchGone, Drops, Tabled, Called
  <2>3. QED
    BY <2>2
<1>3. CASE \E e \in Exprs, accepts \in BOOLEAN : Unwatch(e, accepts)
  <2>1. PICK e \in Exprs, accepts \in BOOLEAN : Unwatch(e, accepts)
    BY <1>3
  <2>2. watches[e].addr \in Addrs
    <3>1. watches[e] # NoWatch /\ watches[e] \in WatchRec \cup {NoWatch}
      BY <2>1 DEF Unwatch, Shape, Tables
    <3>2. QED
      BY <3>1, WatchOrNone
  <2>3. Calling(watches[e].addr, e, accepts)
    BY <2>1 DEF Calling
  <2>4. QED
    BY <2>2, <2>3, CallingCalled
<1>4. CASE \E t \in Threads, a \in Addrs, n \in Attrs, v \in Vals, g \in BOOLEAN :
             BeginWrite(t, a, n, v, g)
  BY <1>4 DEF WriteOf
<1>5. CASE \E t \in Threads : WriteStep(t)
  BY <1>5 DEF WriteOf
<1>6. QED
  BY <1>1, <1>2, <1>3, <1>4, <1>5 DEF Next

LEMMA NextShape == ASSUME Shape, [Next]_vars PROVE Shape'
<1>1. ASSUME NEW a \in Addrs, NEW c \in Classes, Create(a, c) PROVE Shape'
  <2>1. Objects'
    BY <1>1, CreateObjects
  <2>2. Tables'
    BY <1>1, QuietTables DEF Create, Shape
  <2>3. Writes'
    BY <1>1, ObjectsWrites DEF Create
  <2>4. QED
    BY <2>1, <2>2, <2>3 DEF Shape
<1>2. ASSUME NEW a \in Addrs, Die(a) PROVE Shape'
  <2>1. Objects'
    BY <1>2, DieObjects
  <2>2. Tables'
    <3>1. shared' \subseteq shared /\ UNCHANGED <<func, patches, reg, watches, stuck>>
      BY <1>2 DEF Die
    <3>2. QED
      BY <3>1, QuietTables DEF Shape
  <2>3. Writes'
    BY <1>2, ObjectsWrites DEF Die
  <2>4. QED
    BY <2>1, <2>2, <2>3 DEF Shape
<1>3. ASSUME NEW a \in Addrs, WatchRefused(a) PROVE Shape'
  <2>1. Quiet /\ budget' \in Budget /\ UNCHANGED <<val, th>>
    BY <1>3, RefusedQuiet
  <2>2. QED
    BY <2>1 DEF Shape, Objects, Tables, Writes, Live, Quiet
<1>4. ASSUME NEW t \in Threads, WriteOf(t) PROVE Shape'
  <2>1. Objects' /\ Writes'
    BY <1>4, WriteObjects, WriteWrites
  <2>2. Tables'
    BY <1>4, WriteQuiet, QuietTables DEF Quiet, Shape
  <2>3. QED
    BY <2>1, <2>2 DEF Shape
<1>5. CASE UNCHANGED vars
  BY <1>5 DEF vars, Shape, Objects, Tables, Writes, Live
<1>6. QED
  BY <1>1, <1>2, <1>3, <1>4, <1>5, NextCases, CalledShape

-----------------------------------------------------------------------------
(* A class and its patch.                                                    *)

LEMMA EntersRegistered ==
  ASSUME Shape, Registered, PatchedWhileWatched,
         NEW e \in Exprs, NEW a \in Addrs, NEW p \in 1 .. Len(patches'), Enters(e, a, p)
  PROVE  Registered' /\ PatchedWhileWatched'
<1> DEFINE c == obj[a].cls
<1>1. /\ c \in Classes
      /\ p = IF reg[c] = 0 THEN Len(patches) + 1 ELSE reg[c]
      /\ Len(patches') = IF reg[c] = 0 THEN p ELSE Len(patches)
      /\ \A i \in 1 .. Len(patches) : SameFunctions(i)
      /\ \A i \in 1 .. Len(patches) : i # p => patches'[i] = patches[i]
      /\ reg[c] = 0 => patches'[p].saved = func[c]
      /\ reg' = [reg EXCEPT ![c] = p]
      /\ func' = IF reg[c] = 0 THEN [func EXCEPT ![c] = p] ELSE func
      /\ UNCHANGED stuck
  BY DEF Enters
<1>2. patches'[p].table # NoTable
  <2>1. KeyOf[e] \in Keys
    BY KeyTypes
  <2>2. patches'[p].table[a][KeyOf[e]] = [expr |-> e, addr |-> a, inc |-> obj[a].inc]
    BY <2>1, Zenon DEF Enters
  <2>3. [expr |-> e, addr |-> a, inc |-> obj[a].inc] # NoWatch
    BY WatchOrNone DEF Enters, Live
  <2>4. QED
    BY <2>1, <2>2, <2>3 DEF NoTable
<1> HIDE DEF c
<1>3. Len(patches) \in Nat /\ reg \in [Classes -> Nat]
      /\ \A d \in Classes : reg[d] <= Len(patches)
  BY DEF Shape, Tables
<1>4. \A d \in Classes : reg'[d] = IF d = c THEN p ELSE reg[d]
  BY <1>1, <1>3
<1>5. ASSUME NEW d \in Classes, d # c PROVE reg[d] # p
  BY <1>1, <1>3, <1>5 DEF Registered
<1>6. \A d \in Classes : reg[d] # 0 =>
        /\ reg[d] \in 1 .. Len(patches) /\ SameFunctions(reg[d])
        /\ d # c => patches'[reg[d]] = patches[reg[d]]
  <2>1. ASSUME NEW d \in Classes, reg[d] # 0 PROVE reg[d] \in 1 .. Len(patches)
    BY <1>3, <2>1
  <2>2. QED
    BY <1>1, <1>5, <2>1
<1>7. Registered'
  <2>1. ASSUME NEW d \in Classes, NEW b \in Classes, reg'[d] # 0, reg'[d] = reg'[b]
        PROVE  d = b
    BY <1>4, <1>5, <2>1 DEF Registered
  <2>2. ASSUME NEW d \in Classes, reg'[d] # 0
        PROVE  d \in stuck' \/ patches'[reg'[d]].saved = Defined[d]
    <3>1. CASE d = c /\ reg[c] = 0
      <4>1. c \in stuck \/ func[c] = Defined[c]
        BY <1>1, <3>1 DEF PatchedWhileWatched
      <4>2. QED
        BY <1>1, <1>4, <3>1, <4>1
    <3>2. CASE ~ (d = c /\ reg[c] = 0)
      <4>1. reg'[d] = reg[d]
        BY <1>1, <1>4, <3>2
      <4>2. reg[d] # 0 /\ patches'[reg[d]].saved = patches[reg[d]].saved
        BY <1>6, <2>2, <4>1 DEF SameFunctions
      <4>3. QED
        BY <1>1, <4>1, <4>2 DEF Registered
    <3>3. QED
      BY <3>1, <3>2
  <2>3. QED
    BY <2>1, <2>2 DEF Registered
<1>8. PatchedWhileWatched'
  <2>1. ASSUME NEW d \in Classes
        PROVE  IF reg'[d] = 0 THEN d \in stuck' \/ func'[d] = Defined[d]
               ELSE func'[d] = reg'[d] /\ patches'[reg'[d]].table # NoTable
    <3>1. CASE d = c
      <4>1. reg'[d] = p /\ p # 0
        BY <1>1, <1>3, <1>4, <3>1
      <4>2. func'[d] = p
        BY <1>1, <3>1 DEF PatchedWhileWatched, Shape, Tables
      <4>3. QED
        BY <1>2, <4>1, <4>2
    <3>2. CASE d # c
      <4>1. reg'[d] = reg[d] /\ func'[d] = func[d]
        BY <1>1, <1>4, <3>2 DEF Shape, Tables
      <4>2. QED
        BY <1>1, <1>6, <3>2, <4>1 DEF PatchedWhileWatched
    <3>3. QED
      BY <3>1, <3>2
  <2>2. ASSUME NEW i \in 1 .. Len(patches'), \A d \in Classes : reg'[d] # i
        PROVE  patches'[i].table = NoTable
    <3>1. i # p
      BY <1>1, <1>4, <2>2
    <3>2. i \in 1 .. Len(patches)
      BY <1>1, <1>3, <3>1
    <3>3. \A d \in Classes : reg[d] # i
      BY <1>1, <1>4, <2>2, <3>2
    <3>4. QED
      BY <1>1, <3>1, <3>2, <3>3 DEF PatchedWhileWatched
  <2>3. QED
    BY <2>1, <2>2 DEF PatchedWhileWatched, Defined
<1>9. QED
  BY <1>7, <1>8

LEMMA LeavesRegistered ==
  ASSUME Shape, Registered, PatchedWhileWatched,
         NEW e \in Exprs, NEW c \in Classes, NEW p \in 1 .. Len(patches), Leaves(e, c, p)
  PROVE  Registered' /\ PatchedWhileWatched'
<1>1. /\ reg[c] = p /\ p # 0 /\ Len(patches') = Len(patches)
      /\ \A i \in 1 .. Len(patches) : SameFunctions(i)
      /\ \A i \in 1 .. Len(patches) : i # p => patches'[i] = patches[i]
  BY DEF Leaves
<1>2. Len(patches) \in Nat /\ reg \in [Classes -> Nat] /\ func \in [Classes -> Int]
      /\ \A d \in Classes : reg[d] <= Len(patches)
  BY DEF Shape, Tables
<1>3. \A d \in Classes : d # c => reg[d] # p
  BY <1>1 DEF Registered
<1>4. \A d \in Classes : reg[d] # 0 => reg[d] \in 1 .. Len(patches)
  BY <1>2
<1>5. CASE patches'[p].table # NoTable /\ UNCHANGED <<reg, func, stuck>>
  <2>1. Registered'
    BY <1>1, <1>4, <1>5 DEF Registered, SameFunctions
  <2>2. \A d \in Classes :
          IF reg[d] = 0 THEN d \in stuck \/ func[d] = Defined[d]
          ELSE func[d] = reg[d] /\ patches'[reg[d]].table # NoTable
    BY <1>1, <1>3, <1>4, <1>5 DEF PatchedWhileWatched
  <2>3. ASSUME NEW i \in 1 .. Len(patches), \A d \in Classes : reg[d] # i
        PROVE  patches'[i].table = NoTable
    BY <1>1, <2>3 DEF PatchedWhileWatched
  <2>4. QED
    BY <1>1, <1>5, <2>1, <2>2, <2>3 DEF PatchedWhileWatched, Defined
<1>6. CASE /\ patches'[p].table = NoTable /\ reg' = [reg EXCEPT ![c] = 0]
           /\ \/ func' = [func EXCEPT ![c] = patches[p].saved] /\ stuck' = stuck
              \/ func' = func /\ stuck' = stuck \cup {c}
  <2>1. \A d \in Classes : reg'[d] = IF d = c THEN 0 ELSE reg[d]
    BY <1>2, <1>6
  <2>2. stuck \subseteq stuck' /\ \A d \in Classes : d # c => func'[d] = func[d]
    BY <1>2, <1>6
  <2>3. Registered'
    <3>1. ASSUME NEW d \in Classes, reg'[d] # 0
          PROVE  d \in stuck' \/ patches'[reg'[d]].saved = Defined[d]
      <4>1. reg'[d] = reg[d] /\ SameFunctions(reg[d])
        BY <1>1, <1>4, <2>1, <3>1
      <4>2. QED
        BY <2>2, <3>1, <4>1 DEF Registered, SameFunctions
    <3>2. \A d, b \in Classes : reg'[d] # 0 /\ reg'[d] = reg'[b] => d = b
      BY <2>1 DEF Registered
    <3>3. QED
      BY <3>1, <3>2 DEF Registered
  <2>4. c \in stuck' \/ func'[c] = Defined[c]
    BY <1>1, <1>2, <1>6, <2>2 DEF Registered
  <2>5. \A d \in Classes :
          IF reg'[d] = 0 THEN d \in stuck' \/ func'[d] = Defined[d]
          ELSE func'[d] = reg'[d] /\ patches'[reg'[d]].table # NoTable
    <3>1. ASSUME NEW d \in Classes, d # c
          PROVE  IF reg'[d] = 0 THEN d \in stuck' \/ func'[d] = Defined[d]
                 ELSE func'[d] = reg'[d] /\ patches'[reg'[d]].table # NoTable
      <4>1. reg'[d] = reg[d] /\ func'[d] = func[d]
        BY <2>1, <2>2, <3>1
      <4>2. reg[d] # 0 => patches'[reg[d]] = patches[reg[d]]
        BY <1>1, <1>3, <1>4, <3>1
      <4>3. QED
        BY <2>2, <4>1, <4>2 DEF PatchedWhileWatched
    <3>2. QED
      BY <2>1, <2>4, <3>1
  <2>6. ASSUME NEW i \in 1 .. Len(patches), \A d \in Classes : reg'[d] # i
        PROVE  patches'[i].table = NoTable
    <3>1. CASE i = p
      BY <1>6, <3>1
    <3>2. CASE i # p
      <4>1. \A d \in Classes : reg[d] # i
        BY <1>1, <2>1, <2>6, <3>2
      <4>2. QED
        BY <1>1, <3>2, <4>1 DEF PatchedWhileWatched
    <3>3. QED
      BY <3>1, <3>2
  <2>7. QED
    BY <1>1, <2>3, <2>5, <2>6 DEF PatchedWhileWatched, Defined
<1>7. QED
  BY <1>5, <1>6 DEF Leaves

LEMMA NextRegistered ==
  ASSUME Shape, Registered, PatchedWhileWatched, [Next]_vars
  PROVE  Registered' /\ PatchedWhileWatched'
<1>1. CASE UNCHANGED <<func, patches, reg, stuck>>
  BY <1>1 DEF Registered, PatchedWhileWatched, Defined
<1>2. CASE \E e \in Exprs : Called(e)
  <2>1. PICK e \in Exprs : Tabled(e)
    BY <1>2 DEF Called
  <2>2. QED
    BY <1>1, <2>1, EntersRegistered, LeavesRegistered DEF Tabled, Drops
<1>3. \/ UNCHANGED <<func, patches, reg, stuck>>
      \/ \E e \in Exprs : Called(e)
  <2>1. CASE Next
    BY <2>1, NextCases, WriteQuiet, RefusedQuiet DEF Create, Die, Quiet
  <2>2. QED
    BY <2>1 DEF vars
<1>4. QED
  BY <1>1, <1>2, <1>3

-----------------------------------------------------------------------------
(* Numbers of objects, and the entries of the tables.                        *)

\* A watch taken from the tables after a call was there before, or is the new one.
LEMMA CalledEntry ==
  ASSUME Shape, NEW e \in Exprs, Called(e),
         NEW i \in 1 .. Len(patches'), NEW b \in Addrs, NEW j \in Keys,
         patches'[i].table[b][j] # NoWatch
  PROVE  \/ i \in 1 .. Len(patches) /\ patches'[i].table[b][j] = patches[i].table[b][j]
         \/ /\ Live(b) /\ j = KeyOf[e] /\ reg'[obj[b].cls] = i
            /\ patches'[i].table[b][j] = [expr |-> e, addr |-> b, inc |-> obj[b].inc]
            /\ watches'[e] = patches'[i].table[b][j]
<1>1. CASE \E a \in Addrs, p \in 1 .. Len(patches') : Enters(e, a, p)
  <2>1. PICK a \in Addrs, p \in 1 .. Len(patches') : Enters(e, a, p)
    BY <1>1
  <2>2. patches'[i].table[b][j] =
          IF i = p /\ b = a /\ j = KeyOf[e]
          THEN [expr |-> e, addr |-> a, inc |-> obj[a].inc] ELSE EntryAfter(i, b, j)
    BY <2>1, Zenon DEF Enters
  <2>3. CASE i = p /\ b = a /\ j = KeyOf[e]
    <3>1. patches'[i].table[b][j] = [expr |-> e, addr |-> b, inc |-> obj[b].inc]
      BY <2>2, <2>3
    <3>2. /\ Live(b) /\ obj[b].cls \in Classes /\ reg' = [reg EXCEPT ![obj[b].cls] = i]
          /\ watches' = [watches EXCEPT ![e] = [expr |-> e, addr |-> b, inc |-> obj[b].inc]]
      BY <2>1, <2>3 DEF Enters
    <3>3. reg'[obj[b].cls] = i
          /\ watches'[e] = [expr |-> e, addr |-> b, inc |-> obj[b].inc]
      BY <3>2 DEF Shape, Tables
    <3>4. QED
      BY <2>3, <3>1, <3>2, <3>3
  <2>4. CASE ~ (i = p /\ b = a /\ j = KeyOf[e])
    BY <2>2, <2>4 DEF EntryAfter
  <2>5. QED
    BY <2>3, <2>4
<1>2. CASE Drops(e)
  BY <1>2 DEF Drops
<1>3. CASE \E c \in Classes, p \in 1 .. Len(patches) : Leaves(e, c, p)
  <2>1. PICK c \in Classes, p \in 1 .. Len(patches) : Leaves(e, c, p)
    BY <1>3
  <2>2. i \in 1 .. Len(patches)
    BY <2>1 DEF Leaves
  <2>3. patches'[i].table[b][j] =
          IF i = p /\ b = watches[e].addr /\ j = KeyOf[e] THEN NoWatch
          ELSE patches[i].table[b][j]
    BY <2>1, <2>2, Zenon DEF Leaves
  <2>4. QED
    BY <2>2, <2>3
<1>4. QED
  BY <1>1, <1>2, <1>3 DEF Called, Tabled

LEMMA CalledWatch ==
  ASSUME Shape, NEW e \in Exprs, Called(e), NEW d \in Exprs, watches'[d] # NoWatch
  PROVE  \/ d # e /\ watches'[d] = watches[d]
         \/ \E a \in Addrs : Live(a)
              /\ watches'[d] = [expr |-> d, addr |-> a, inc |-> obj[a].inc]
<1>1. watches \in [Exprs -> WatchRec \cup {NoWatch}]
  BY DEF Shape, Tables
<1>2. CASE \E a \in Addrs, p \in 1 .. Len(patches') : Enters(e, a, p)
  <2>1. PICK a \in Addrs, p \in 1 .. Len(patches') : Enters(e, a, p)
    BY <1>2
  <2>2. Live(a)
        /\ watches' = [watches EXCEPT ![e] = [expr |-> e, addr |-> a, inc |-> obj[a].inc]]
    BY <2>1 DEF Enters
  <2>3. QED
    BY <1>1, <2>2
<1>3. CASE watches' = [watches EXCEPT ![e] = NoWatch]
  BY <1>1, <1>3
<1>4. QED
  BY <1>2, <1>3 DEF Called, Tabled, Drops, Leaves

LEMMA NextFresh ==
  ASSUME Shape, Fresh, [Next]_vars PROVE Fresh'
<1>0. budget.objects \in Nat
  BY KeyTypes DEF Shape, Objects, Budget
<1>1. ASSUME NEW a \in Addrs, NEW c \in Classes, Create(a, c) PROVE Fresh'
  <2>1. budget'.objects = budget.objects - 1
    BY <1>1, CreateObjects
  <2>2. UNCHANGED <<patches, watches>>
        /\ obj' = [obj EXCEPT ![a] = [inc |-> budget.objects, cls |-> c]]
    BY <1>1 DEF Create
  <2>3. ASSUME NEW b \in Addrs, Live(b)' PROVE budget'.objects < obj'[b].inc
    <3>1. CASE b = a
      BY <1>0, <2>1, <2>2, <3>1 DEF Shape, Objects
    <3>2. CASE b # a
      <4>1. obj'[b] = obj[b] /\ Live(b)
        BY <2>2, <2>3, <3>2 DEF Shape, Objects, Live
      <4>2. obj[b].inc \in Nat
        BY <4>1, KeyTypes, LiveType DEF Shape
      <4>3. QED
        BY <1>0, <2>1, <4>1, <4>2 DEF Fresh
    <3>3. QED
      BY <3>1, <3>2
  <2>4. ASSUME NEW e \in Exprs, watches[e] # NoWatch
        PROVE  budget'.objects < watches[e].inc
    <3>1. watches[e].inc \in Nat
      BY WatchOrNone DEF Shape, Tables
    <3>2. QED
      BY <1>0, <2>1, <2>4, <3>1 DEF Fresh
  <2>5. ASSUME NEW p \in 1 .. Len(patches), NEW b \in Addrs, NEW k \in Keys,
               patches[p].table[b][k] # NoWatch
        PROVE  budget'.objects < patches[p].table[b][k].inc
    <3>1. patches[p].table[b][k].inc \in Nat
      BY EntryType, WatchOrNone DEF Shape
    <3>2. QED
      BY <1>0, <2>1, <2>5, <3>1 DEF Fresh
  <2>6. QED
    BY <2>2, <2>3, <2>4, <2>5 DEF Fresh
<1>2. ASSUME NEW a \in Addrs, Die(a) PROVE Fresh'
  <2>1. \A b \in Addrs : Live(b)' => Live(b) /\ obj'[b] = obj[b]
    BY <1>2 DEF Die, Live, NoObject, Shape, Objects
  <2>2. UNCHANGED <<patches, watches, budget>>
    BY <1>2 DEF Die
  <2>3. QED
    BY <2>1, <2>2 DEF Fresh
<1>3. ASSUME NEW e \in Exprs, Called(e) PROVE Fresh'
  <2>1. UNCHANGED obj /\ budget'.objects = budget.objects
    BY <1>3 DEF Called
  <2>2. ASSUME NEW d \in Exprs, watches'[d] # NoWatch
        PROVE  budget.objects < watches'[d].inc
    <3>1. CASE watches'[d] = watches[d]
      BY <2>2, <3>1 DEF Fresh
    <3>2. CASE \E a \in Addrs : Live(a)
                 /\ watches'[d] = [expr |-> d, addr |-> a, inc |-> obj[a].inc]
      <4>1. PICK a \in Addrs : Live(a)
              /\ watches'[d] = [expr |-> d, addr |-> a, inc |-> obj[a].inc]
        BY <3>2
      <4>2. QED
        BY <4>1 DEF Fresh
    <3>3. QED
      BY <1>3, <2>2, <3>1, <3>2, CalledWatch, Zenon
  <2>3. ASSUME NEW p \in 1 .. Len(patches'), NEW b \in Addrs, NEW k \in Keys,
               patches'[p].table[b][k] # NoWatch
        PROVE  budget.objects < patches'[p].table[b][k].inc
    <3>1. CASE p \in 1 .. Len(patches) /\ patches'[p].table[b][k] = patches[p].table[b][k]
      BY <2>3, <3>1 DEF Fresh
    <3>2. CASE Live(b) /\ patches'[p].table[b][k]
                            = [expr |-> e, addr |-> b, inc |-> obj[b].inc]
      BY <3>2 DEF Fresh
    <3>3. QED
      BY <1>3, <2>3, <3>1, <3>2, CalledEntry
  <2>4. QED
    BY <2>1, <2>2, <2>3 DEF Fresh, Live
<1>4. CASE UNCHANGED <<obj, patches, watches>> /\ budget'.objects = budget.objects
  BY <1>4 DEF Fresh, Live
<1>5. QED
  <2>1. CASE Next
    BY <1>1, <1>2, <1>3, <1>4, <2>1, NextCases, WriteQuiet, RefusedQuiet DEF Quiet
  <2>2. QED
    BY <1>4, <2>1 DEF vars

\* An entry of a live object is that of a class with this patch.
LEMMA SoundClass ==
  ASSUME Shape, Rows, NEW p \in 1 .. Len(patches), NEW a \in Addrs, NEW k \in Keys,
         NEW w, w = patches[p].table[a][k], w # NoWatch, w.inc = obj[a].inc
  PROVE  /\ Live(a) /\ obj[a].cls \in Classes /\ reg[obj[a].cls] = p
         /\ w.addr = a /\ w.expr \in Exprs /\ watches[w.expr] = w
<1>1. w \in WatchRec \cup {NoWatch}
  BY EntryType DEF Shape
<1>2. Live(a) /\ w.expr \in Exprs
  BY <1>1, WatchOrNone DEF Live
<1>3. obj[a].cls \in Classes
  BY <1>2, LiveType DEF Shape
<1>4. QED
  BY <1>2, <1>3 DEF Rows, Sound

LEMMA CalledRows ==
  ASSUME Shape, Registered, Rows, NEW e \in Exprs, Called(e) PROVE Rows'
<1>1. ASSUME NEW d \in Exprs, watches'[d] # NoWatch PROVE watches'[d].expr = d
  <2>1. CASE watches'[d] = watches[d]
    BY <1>1, <2>1 DEF Rows
  <2>2. CASE \E a \in Addrs : watches'[d] = [expr |-> d, addr |-> a, inc |-> obj[a].inc]
    BY <2>2
  <2>3. QED
    BY <1>1, <2>1, <2>2, CalledWatch
<1>2. ASSUME NEW i \in 1 .. Len(patches'), NEW b \in Addrs, NEW j \in Keys,
             patches'[i].table[b][j] # NoWatch
      PROVE  Sound(patches[i].table[b][j], i, b, j)'
  <2> DEFINE v == patches'[i].table[b][j]
  <2>0. UNCHANGED obj
    BY DEF Called
  <2>1. CASE /\ Live(b) /\ j = KeyOf[e] /\ reg'[obj[b].cls] = i
             /\ v = [expr |-> e, addr |-> b, inc |-> obj[b].inc] /\ watches'[e] = v
    BY <2>0, <2>1 DEF Sound
  <2>2. CASE i \in 1 .. Len(patches) /\ v = patches[i].table[b][j]
    <3>1. v.addr = b /\ KeyOf[v.expr] = j
      BY <1>2, <2>2 DEF Rows, Sound
    <3>2. SUFFICES ASSUME v.inc = obj[b].inc
                   PROVE  reg'[obj[b].cls] = i /\ watches'[v.expr] = v
      BY <2>0, <3>1 DEF Sound
    <3>3. /\ Live(b) /\ obj[b].cls \in Classes /\ reg[obj[b].cls] = i
          /\ v.expr \in Exprs /\ watches[v.expr] = v
      <4> HIDE DEF v
      <4>1. v # NoWatch
        BY <1>2 DEF v
      <4>2. QED
        BY <2>2, <3>2, <4>1, SoundClass
    <3>4. watches \in [Exprs -> WatchRec \cup {NoWatch}] /\ reg \in [Classes -> Nat]
      BY DEF Shape, Tables
    <3>5. v # NoWatch /\ i # 0
      BY <1>2, <2>2
    <3> HIDE DEF v
    <3>6. CASE \E a \in Addrs, p \in 1 .. Len(patches') : Enters(e, a, p)
      <4>1. PICK a \in Addrs, p \in 1 .. Len(patches') : Enters(e, a, p)
        BY <3>6
      <4>2. v.expr # e
        BY <3>3, <3>5, <4>1 DEF Enters
      <4>3. watches'[v.expr] = watches[v.expr]
        BY <3>3, <3>4, <4>1, <4>2 DEF Enters
      <4>4. reg'[obj[b].cls] = i
        BY <3>3, <3>4, <3>5, <4>1 DEF Enters
      <4>5. QED
        BY <3>3, <4>3, <4>4
    <3>7. CASE Drops(e)
      <4>1. v.expr # e
        <5>1. SUFFICES ASSUME watches[e] = v PROVE FALSE
          BY <3>3
        <5>2. Alive(watches[e])
          BY <3>1, <3>2, <3>3, <3>5, <5>1 DEF Alive
        <5>3. QED
          BY <3>1, <3>3, <3>5, <3>7, <5>1, <5>2 DEF Drops
      <4>2. QED
        BY <3>3, <3>4, <3>7, <4>1 DEF Drops
    <3>8. CASE \E c \in Classes, p \in 1 .. Len(patches) : Leaves(e, c, p)
      <4>1. PICK c \in Classes, p \in 1 .. Len(patches) : Leaves(e, c, p)
        BY <3>8
      <4>2. /\ c = obj[watches[e].addr].cls /\ reg[c] = p
            /\ watches' = [watches EXCEPT ![e] = NoWatch]
            /\ v = IF i = p /\ b = watches[e].addr /\ j = KeyOf[e] THEN NoWatch
                   ELSE patches[i].table[b][j]
            /\ \/ reg' = reg
               \/ patches'[p].table = NoTable /\ reg' = [reg EXCEPT ![c] = 0]
        BY <2>2, <4>1, Zenon DEF Leaves, v
      <4>3. v.expr # e
        <5>1. SUFFICES ASSUME watches[e] = v, v.expr = e PROVE FALSE
          BY <3>3
        <5>2. QED
          BY <3>1, <3>3, <3>5, <4>2, <5>1
      <4>4. watches'[v.expr] = v
        BY <3>3, <3>4, <4>2, <4>3
      <4>5. ~ (i = p /\ patches'[p].table = NoTable)
        BY <3>5 DEF v, NoTable
      <4>6. obj[b].cls = c => i = p
        BY <3>3, <4>2
      <4>7. reg'[obj[b].cls] = i
        BY <3>3, <3>4, <4>2, <4>5, <4>6
      <4>8. QED
        BY <4>4, <4>7
    <3>9. QED
      BY <3>6, <3>7, <3>8 DEF Called, Tabled
  <2>3. QED
    BY <1>2, <2>1, <2>2, CalledEntry
<1>3. QED
  BY <1>1, <1>2 DEF Rows

LEMMA NextRows ==
  ASSUME Shape, Registered, Fresh, Rows, [Next]_vars PROVE Rows'
<1>1. ASSUME UNCHANGED <<patches, reg, watches>>, NEW a \in Addrs,
             \A b \in Addrs : b # a => obj'[b] = obj[b],
             obj'[a].inc \in 0 .. budget.objects
      PROVE  Rows'
  <2>1. ASSUME NEW i \in 1 .. Len(patches), NEW b \in Addrs, NEW k \in Keys,
               patches[i].table[b][k] # NoWatch
        PROVE  Sound(patches[i].table[b][k], i, b, k)'
    <3> DEFINE v == patches[i].table[b][k]
    <3>1. Sound(v, i, b, k)
      BY <2>1 DEF Rows
    <3>2. CASE b = a
      <4>1. v.inc # obj'[a].inc
        <5>1. budget.objects < patches[i].table[b][k].inc
          BY <2>1 DEF Fresh
        <5>2. v.inc \in Nat /\ budget.objects \in Nat
          <6>1. v \in WatchRec \cup {NoWatch}
            BY EntryType DEF Shape
          <6>2. v.inc \in Nat
            BY <6>1, WatchOrNone
          <6>3. budget.objects \in Nat
            BY KeyTypes DEF Shape, Objects, Budget
          <6>4. QED
            BY <6>2, <6>3
        <5>3. budget.objects < v.inc
          BY <5>1
        <5> HIDE DEF v
        <5>4. QED
          BY <1>1, <5>2, <5>3
      <4>2. QED
        BY <1>1, <3>1, <3>2, <4>1 DEF Sound
    <3>3. CASE b # a
      BY <1>1, <3>1, <3>3 DEF Sound
    <3>4. QED
      BY <3>2, <3>3
  <2>2. QED
    BY <1>1, <2>1 DEF Rows
<1>2. budget.objects \in Nat
  BY KeyTypes DEF Shape, Objects, Budget
<1>3. ASSUME NEW a \in Addrs, NEW c \in Classes, Create(a, c) PROVE Rows'
  BY <1>1, <1>2, <1>3 DEF Create, Shape, Objects
<1>4. ASSUME NEW a \in Addrs, Die(a) PROVE Rows'
  BY <1>1, <1>2, <1>4 DEF Die, NoObject, Shape, Objects
<1>5. CASE UNCHANGED <<obj, patches, reg, watches>>
  BY <1>5 DEF Rows, Sound
<1>6. QED
  <2>1. CASE Next
    BY <1>3, <1>4, <1>5, <2>1, NextCases, CalledRows, WriteQuiet, RefusedQuiet DEF Quiet
  <2>2. QED
    BY <1>5, <2>1 DEF vars

-----------------------------------------------------------------------------
(* Every watch keeps its entry.                                              *)

LEMMA CalledKept ==
  ASSUME Shape, Registered, Rows, EntryKept, NEW e \in Exprs, Called(e)
  PROVE  EntryKept'
<1>0. /\ watches \in [Exprs -> WatchRec \cup {NoWatch}] /\ reg \in [Classes -> Nat]
      /\ Len(patches) \in Nat /\ \A d \in Classes : reg[d] <= Len(patches)
  BY DEF Shape, Tables
<1>1. UNCHANGED obj
  BY DEF Called
<1>2. SUFFICES ASSUME NEW d \in Exprs, watches'[d] # NoWatch,
                      Live(watches'[d].addr), obj[watches'[d].addr].inc = watches'[d].inc,
                      <<watches'[d].addr, KeyOf[d]>> \notin shared'
               PROVE  /\ reg'[obj[watches'[d].addr].cls] # 0
                      /\ patches'[reg'[obj[watches'[d].addr].cls]]
                           .table[watches'[d].addr][KeyOf[d]] = watches'[d]
  BY <1>1 DEF EntryKept, Alive, Live
<1> DEFINE v == watches'[d]
           b == v.addr
           j == KeyOf[d]
           k == obj[b].cls
\* If the watch was there before.
<1>3. ASSUME v = watches[d], shared \subseteq shared'
      PROVE  /\ Alive(v) /\ v.expr = d /\ b \in Addrs /\ j \in Keys /\ k \in Classes
             /\ reg[k] # 0 /\ reg[k] \in 1 .. Len(patches)
             /\ patches[reg[k]].table[b][j] = v
  <2>1. v # NoWatch /\ Alive(v)
    BY <1>2 DEF Alive
  <2>2. v.expr = d
    BY <1>3, <2>1 DEF Rows
  <2>3. b \in Addrs /\ j \in Keys
    BY <1>0, <1>3, <2>1, KeyTypes, WatchOrNone
  <2>4. k \in Classes
    BY <2>1, <2>3, LiveType DEF Alive, Shape
  <2>5. reg[k] # 0 /\ patches[reg[k]].table[b][j] = v
    BY <1>2, <1>3, <2>1 DEF EntryKept
  <2>6. reg[k] \in 1 .. Len(patches)
    BY <1>0, <2>4, <2>5
  <2>7. QED
    BY <2>1, <2>2, <2>3, <2>4, <2>5, <2>6
<1>4. CASE \E a \in Addrs, p \in 1 .. Len(patches') : Enters(e, a, p)
  <2>1. PICK a \in Addrs, p \in 1 .. Len(patches') : Enters(e, a, p)
    BY <1>4
  <2> DEFINE w == [expr |-> e, addr |-> a, inc |-> obj[a].inc]
  <2>2. /\ watches' = [watches EXCEPT ![e] = w] /\ obj[a].cls \in Classes
        /\ reg' = [reg EXCEPT ![obj[a].cls] = p]
        /\ p = IF reg[obj[a].cls] = 0 THEN Len(patches) + 1 ELSE reg[obj[a].cls]
        /\ Len(patches') = IF reg[obj[a].cls] = 0 THEN p ELSE Len(patches)
        /\ shared' = IF Alive(EntryAfter(p, a, KeyOf[e]))
                     THEN shared \cup {<<a, KeyOf[e]>>} ELSE shared
    BY <2>1 DEF Enters
  <2>3. \A i \in 1 .. Len(patches'), q \in Addrs, h \in Keys :
          patches'[i].table[q][h] =
            IF i = p /\ q = a /\ h = KeyOf[e] THEN w ELSE EntryAfter(i, q, h)
    BY <2>1, Zenon DEF Enters
  <2>4. CASE d = e
    <3>1. v = w /\ b = a
      BY <1>0, <2>2, <2>4
    <3>2. reg'[obj[a].cls] = p /\ p # 0
      BY <1>0, <2>2
    <3>3. patches'[p].table[a][KeyOf[e]] = w
      BY <2>3, KeyTypes
    <3>4. QED
      BY <2>4, <3>1, <3>2, <3>3
  <2>5. CASE d # e
    <3>1. v = watches[d]
      BY <1>0, <2>2, <2>5
    <3>2. shared \subseteq shared'
      BY <2>2
    <3>3. /\ Alive(v) /\ v.expr = d /\ b \in Addrs /\ j \in Keys /\ k \in Classes
          /\ reg[k] # 0 /\ reg[k] \in 1 .. Len(patches)
          /\ patches[reg[k]].table[b][j] = v
      BY <1>3, <3>1, <3>2
    <3> HIDE DEF v, j, k, w
    <3>4. reg'[k] = reg[k]
      BY <1>0, <2>2, <3>3
    <3>5. reg[k] \in 1 .. Len(patches')
      BY <1>0, <2>2, <3>3
    <3>6. EntryAfter(reg[k], b, j) = v
      BY <3>3 DEF EntryAfter
    <3>7. ~ (reg[k] = p /\ b = a /\ j = KeyOf[e])
      BY <1>2, <2>2, <3>3, <3>6 DEF v, j
    <3>8. patches'[reg[k]].table[b][j] = v
      BY <2>3, <3>3, <3>5, <3>6, <3>7
    <3>9. QED
      BY <3>3, <3>4, <3>8 DEF v, j, k
  <2>6. QED
    BY <2>4, <2>5
<1>5. CASE Drops(e)
  <2>1. v = watches[d] /\ UNCHANGED <<shared, reg, patches>>
    BY <1>0, <1>2, <1>5 DEF Drops
  <2>2. QED
    BY <1>3, <2>1
<1>6. CASE (\E c \in Classes, p \in 1 .. Len(patches) : Leaves(e, c, p))
           /\ UNCHANGED shared
  <2>1. PICK c \in Classes, p \in 1 .. Len(patches) : Leaves(e, c, p)
    BY <1>6
  <2> DEFINE w == watches[e]
  <2>2. /\ Alive(w) /\ w \in WatchRec /\ c = obj[w.addr].cls /\ reg[c] = p
        /\ watches' = [watches EXCEPT ![e] = NoWatch]
        /\ \/ reg' = reg
           \/ patches'[p].table = NoTable /\ reg' = [reg EXCEPT ![c] = 0]
    BY <2>1 DEF Leaves
  <2>3. \A i \in 1 .. Len(patches), q \in Addrs, h \in Keys :
          patches'[i].table[q][h] =
            IF i = p /\ q = w.addr /\ h = KeyOf[e] THEN NoWatch
            ELSE patches[i].table[q][h]
    BY <2>1, Zenon DEF Leaves
  <2>4. d # e /\ v = watches[d]
    BY <1>0, <1>2, <2>2
  <2>5. /\ Alive(v) /\ v.expr = d /\ b \in Addrs /\ j \in Keys /\ k \in Classes
        /\ reg[k] # 0 /\ reg[k] \in 1 .. Len(patches)
        /\ patches[reg[k]].table[b][j] = v
    BY <1>3, <1>6, <2>4
  <2>6. w # NoWatch /\ w.expr = e
    BY <2>2 DEF Alive, Rows
  <2>7. ~ (reg[k] = p /\ b = w.addr /\ j = KeyOf[e])
    <3>1. SUFFICES ASSUME reg[k] = p, b = w.addr, j = KeyOf[e] PROVE FALSE
      OBVIOUS
    <3>2. <<w.addr, KeyOf[e]>> \notin shared
      BY <1>2, <1>6, <3>1
    <3>3. patches[reg[c]].table[w.addr][KeyOf[e]] = w
      BY <2>2, <3>2 DEF EntryKept
    <3>4. v = w
      BY <2>2, <2>5, <3>1, <3>3
    <3>5. QED
      BY <2>4, <2>5, <2>6, <3>4
  <2> HIDE DEF v, j, k, w
  <2>8. patches'[reg[k]].table[b][j] = v
    BY <2>3, <2>5, <2>7
  <2>9. v # NoWatch
    BY <2>5 DEF Alive
  <2>10. reg'[k] = reg[k]
    <3>1. CASE reg' = reg
      BY <3>1
    <3>2. CASE patches'[p].table = NoTable /\ reg' = [reg EXCEPT ![c] = 0]
      <4>1. reg[k] # p
        BY <2>5, <2>8, <2>9, <3>2 DEF NoTable
      <4>2. k # c
        BY <2>2, <4>1
      <4>3. QED
        BY <1>0, <2>5, <3>2, <4>2
    <3>3. QED
      BY <2>2, <3>1, <3>2
  <2>11. QED
    BY <2>5, <2>8, <2>10 DEF v, j, k
<1>7. QED
  BY <1>4, <1>5, <1>6 DEF Called, Tabled

LEMMA NextKept ==
  ASSUME Shape, Registered, Fresh, Rows, EntryKept, [Next]_vars PROVE EntryKept'
<1>1. ASSUME UNCHANGED <<patches, reg, watches>>, NEW a \in Addrs,
             \A b \in Addrs : b # a => obj'[b] = obj[b],
             \A s \in shared : s[1] # a => s \in shared',
             \A e \in Exprs : watches[e] # NoWatch => obj'[a].inc # watches[e].inc
      PROVE  EntryKept'
  <2>1. ASSUME NEW e \in Exprs, Alive(watches[e])',
               <<watches'[e].addr, KeyOf[e]>> \notin shared'
        PROVE  /\ reg'[obj'[watches'[e].addr].cls] # 0
               /\ patches'[reg'[obj'[watches'[e].addr].cls]]
                    .table[watches'[e].addr][KeyOf[e]] = watches'[e]
    <3>1. watches[e] # NoWatch /\ obj'[watches[e].addr].inc = watches[e].inc
          /\ obj'[watches[e].addr].inc # 0
      BY <1>1, <2>1 DEF Alive, Live
    <3>2. watches[e].addr \in Addrs
      BY <3>1, WatchOrNone DEF Shape, Tables
    <3>3. watches[e].addr # a
      BY <1>1, <3>1
    <3>4. obj'[watches[e].addr] = obj[watches[e].addr]
      BY <1>1, <3>2, <3>3
    <3>5. Alive(watches[e])
      BY <3>1, <3>4 DEF Alive, Live
    <3>6. <<watches[e].addr, KeyOf[e]>> \notin shared
      <4>1. <<watches[e].addr, KeyOf[e]>>[1] # a
        BY <3>3
      <4>2. QED
        BY <1>1, <2>1, <4>1
    <3>7. QED
      BY <1>1, <3>4, <3>5, <3>6 DEF EntryKept
  <2>2. QED
    BY <2>1 DEF EntryKept
<1>2. budget.objects \in Nat
  BY KeyTypes DEF Shape, Objects, Budget
<1>3. ASSUME NEW a \in Addrs, NEW c \in Classes, Create(a, c) PROVE EntryKept'
  <2>1. obj' = [obj EXCEPT ![a] = [inc |-> budget.objects, cls |-> c]]
        /\ UNCHANGED <<patches, reg, watches, shared>>
    BY <1>3 DEF Create
  <2>2. obj'[a].inc = budget.objects /\ \A b \in Addrs : b # a => obj'[b] = obj[b]
    BY <2>1 DEF Shape, Objects
  <2>3. \A e \in Exprs : watches[e] # NoWatch => budget.objects # watches[e].inc
    BY <1>2 DEF Fresh
  <2>4. QED
    BY <1>1, <2>1, <2>2, <2>3
<1>4. ASSUME NEW a \in Addrs, Die(a) PROVE EntryKept'
  <2>1. obj' = [obj EXCEPT ![a] = NoObject] /\ shared' = {s \in shared : s[1] # a}
        /\ UNCHANGED <<patches, reg, watches>>
    BY <1>4 DEF Die
  <2>2. obj'[a].inc = 0 /\ \A b \in Addrs : b # a => obj'[b] = obj[b]
    BY <2>1 DEF NoObject, Shape, Objects
  <2>3. \A e \in Exprs : watches[e] # NoWatch => 0 # watches[e].inc
    BY WatchOrNone DEF Shape, Tables
  <2>4. QED
    BY <1>1, <2>1, <2>2, <2>3
<1>5. CASE UNCHANGED <<obj, patches, reg, watches, shared>>
  BY <1>5 DEF EntryKept, Alive, Live
<1>6. QED
  <2>1. CASE Next
    BY <1>3, <1>4, <1>5, <2>1, NextCases, CalledKept, WriteQuiet, RefusedQuiet DEF Quiet
  <2>2. QED
    BY <1>5, <2>1 DEF vars

-----------------------------------------------------------------------------
(* What the writes in progress will report.                                  *)

\* The hits of a write that no call has fallen into are of registered watches.
Await(x) ==
  x.calm => \A i \in DOMAIN x.due :
    x.due[i].watch.inc = obj[x.addr].inc
      => watches[x.due[i].watch.expr] = x.due[i].watch

\* It has passed an entry, or is about to.
Notice(x) ==
  x.covered /\ x.calm =>
    \/ x.due # << >>
    \/ /\ x.pc = "call" /\ x.fn \in 1 .. Len(patches)
       /\ EntryFor(x.fn, x.addr, x.attr) # NoWatch
       /\ ~ x.guard

LEMMA ByThread ==
  /\ Awaited <=> \A t \in Threads : Await(th[t])
  /\ Noticed <=> \A t \in Threads : Notice(th[t])
BY DEF Awaited, Noticed, Await, Notice

LEMMA IdleAwaits == Await(Idle) /\ Notice(Idle)
BY DEF Await, Notice, Idle

LEMMA BeginAwaits ==
  ASSUME IInv, NEW t \in Threads, NEW a \in Addrs, NEW n \in Attrs, NEW v \in Vals,
         NEW g \in BOOLEAN, BeginWrite(t, a, n, v, g)
  PROVE  Await(th'[t]) /\ Notice(th'[t])
<1> DEFINE c == obj[a].cls
           x == [pc |-> "call", addr |-> a, attr |-> n, new |-> v, guard |-> g,
                 fn |-> Callable(c), due |-> << >>, replaced |-> None,
                 covered |-> ~ g /\ \E e \in Exprs : Covers(e, a, n), calm |-> TRUE]
<1>1. Live(a) /\ th' = [th EXCEPT ![t] = x]
  BY DEF BeginWrite
<1>2. th'[t] = x
  BY <1>1 DEF IInv, Shape, Writes
<1>3. Await(x)
  BY DEF Await
<1>4. ASSUME NEW e \in Exprs, Covers(e, a, n)
      PROVE  /\ Callable(c) \in 1 .. Len(patches)
             /\ EntryFor(Callable(c), a, n) # NoWatch
  <2>1. c \in Classes /\ obj[a].inc \in 1 .. MaxObjects
    BY <1>1, LiveType DEF IInv, Shape
  <2>2. /\ watches[e].addr = a /\ watches[e].inc = obj[a].inc
        /\ KeyOf[e] \in {n, Wildcard} /\ <<a, KeyOf[e]>> \notin shared
    BY <1>4 DEF Covers
  <2>3. watches[e] # NoWatch /\ Alive(watches[e])
    BY <1>1, <2>1, <2>2 DEF Alive, NoWatch
  <2>4. reg[c] # 0 /\ patches[reg[c]].table[a][KeyOf[e]] = watches[e]
    BY <2>2, <2>3 DEF IInv, EntryKept
  <2>5. func[c] = reg[c]
    BY <2>1, <2>4 DEF IInv, PatchedWhileWatched
  <2>6. Callable(c) = reg[c]
    BY <2>1, <2>4, <2>5, OwnCallable DEF IInv, Shape, Absent
  <2>7. reg[c] \in 1 .. Len(patches)
    BY <2>1, <2>4 DEF IInv, Shape, Tables
  <2>8. EntryFor(reg[c], a, n) # NoWatch
    BY <2>2, <2>3, <2>4 DEF EntryFor
  <2>9. QED
    BY <2>6, <2>7, <2>8
<1>5. Notice(x)
  <2>1. x.covered => ~ g /\ \E e \in Exprs : Covers(e, a, n)
    OBVIOUS
  <2>2. x.pc = "call" /\ x.fn = Callable(c) /\ x.addr = a /\ x.attr = n /\ x.guard = g
    OBVIOUS
  <2> HIDE DEF x, c
  <2>3. QED
    BY <1>4, <2>1, <2>2 DEF Notice
<1>6. QED
  BY <1>2, <1>3, <1>5

LEMMA CallAwaits ==
  ASSUME IInv, NEW t \in Threads, CallPatched(t)
  PROVE  Await(th'[t]) /\ Notice(th'[t])
<1> DEFINE w == th[t]
           e == EntryFor(w.fn, w.addr, w.attr)
           d == [watch |-> e, old |-> val[w.addr][w.attr]]
           due == IF e = NoWatch \/ w.guard THEN w.due ELSE Append(w.due, d)
           x == [w EXCEPT !.fn = patches[w.fn].orig, !.due = due]
<1>1. /\ w.pc = "call" /\ w.fn # Original
      /\ th' = [th EXCEPT ![t] = x]
  BY DEF CallPatched, CallsOn
<1>2. th'[t] = x
  BY <1>1 DEF IInv, Shape, Writes
<1>3. w \in Busy /\ Callee(w.fn, Len(patches))
  BY <1>1, BusyType DEF IInv, Shape
<1>4. w.addr \in Addrs /\ w.attr \in Attrs /\ w.due \in Seq(Due)
  BY <1>3 DEF Busy
<1>5. w.fn \in 1 .. Len(patches)
  BY <1>1, <1>3 DEF Callee
<1>6. /\ x.due = due /\ x.addr = w.addr /\ x.calm = w.calm /\ x.covered = w.covered
      /\ x.pc = "call"
  BY <1>1, <1>3 DEF Busy
<1>7. Await(w) /\ Notice(w)
  BY ByThread DEF IInv
<1>8. Await(x)
  <2>1. ASSUME e # NoWatch, e.inc = obj[w.addr].inc PROVE watches[e.expr] = e
    <3> DEFINE f == w.fn
               b == w.addr
    <3>1. PICK k \in Keys : e = patches[f].table[b][k]
      BY <1>4, <1>5, EntryForType DEF IInv, Shape
    <3>2. f \in 1 .. Len(patches) /\ b \in Addrs /\ e.inc = obj[b].inc
      BY <1>4, <1>5, <2>1
    <3> HIDE DEF e, f, b
    <3>3. QED
      BY <2>1, <3>1, <3>2, SoundClass DEF IInv
  <2> HIDE DEF e, w, x
  <2>2. CASE e = NoWatch \/ w.guard
    BY <1>6, <1>7, <2>2 DEF Await
  <2>3. CASE ~ (e = NoWatch \/ w.guard)
    <3>1. due = Append(w.due, d)
      BY <2>3
    <3>2. e \in WatchRec \cup {NoWatch} /\ val[w.addr][w.attr] \in Vals \cup {None}
      <4>1. PICK k \in Keys : e = patches[w.fn].table[w.addr][k]
        BY <1>4, <1>5, EntryForType DEF IInv, Shape, e
      <4>2. e \in WatchRec \cup {NoWatch}
        BY <1>4, <1>5, <4>1, EntryType DEF IInv, Shape
      <4>3. QED
        BY <1>4, <4>2 DEF IInv, Shape, Objects
    <3>3. d \in Due
      BY <2>3, <3>2 DEF Due
    <3>4. d.watch = e
      OBVIOUS
    <3> HIDE DEF d, due
    <3>5. \A i \in DOMAIN due :
            due[i] = d \/ (i \in DOMAIN w.due /\ due[i] = w.due[i])
      BY <1>4, <3>1, <3>3, AppendProperties
    <3>6. ASSUME x.calm, NEW i \in DOMAIN x.due,
                 x.due[i].watch.inc = obj[x.addr].inc
          PROVE  watches[x.due[i].watch.expr] = x.due[i].watch
      <4>1. CASE due[i] = d
        BY <1>6, <2>1, <2>3, <3>4, <3>6, <4>1
      <4>2. CASE i \in DOMAIN w.due /\ due[i] = w.due[i]
        BY <1>6, <1>7, <3>6, <4>2 DEF Await
      <4>3. QED
        BY <1>6, <3>5, <3>6, <4>1, <4>2
    <3>7. QED
      BY <3>6 DEF Await
  <2>4. QED
    BY <2>2, <2>3
<1>9. Notice(x)
  <2> HIDE DEF x, w, e
  <2>1. SUFFICES ASSUME w.covered, w.calm PROVE due # << >>
    BY <1>6 DEF Notice
  <2>2. w.due # << >> \/ (e # NoWatch /\ ~ w.guard)
    BY <1>7, <2>1 DEF Notice, e
  <2>3. Append(w.due, d) # << >>
    <3> HIDE DEF d
    <3>1. Len(Append(w.due, d)) = Len(w.due) + 1 /\ Len(w.due) \in Nat
      BY <1>4
    <3>2. QED
      BY <3>1, EmptySeq
  <2>4. QED
    BY <2>2, <2>3
<1>10. QED
  BY <1>2, <1>8, <1>9

LEMMA AssignAwaits ==
  ASSUME IInv, NEW t \in Threads, Assign(t)
  PROVE  Await(th'[t]) /\ Notice(th'[t])
<1> DEFINE w == th[t]
           y == [w EXCEPT !.pc = "report", !.replaced = val[w.addr][w.attr]]
<1>1. w.pc = "call" /\ th' = [th EXCEPT ![t] = IF w.due = << >> THEN Idle ELSE y]
  BY DEF Assign
<1>2. w \in Busy /\ Await(w)
  BY <1>1, BusyType, ByThread DEF IInv, Shape
<1>3. th'[t] = IF w.due = << >> THEN Idle ELSE y
  BY <1>1 DEF IInv, Shape, Writes
<1>4. y.due = w.due /\ y.addr = w.addr /\ y.calm = w.calm
  BY <1>2 DEF Busy
<1> HIDE DEF w, y
<1>5. w.due # << >> => Await(y) /\ Notice(y)
  BY <1>2, <1>4 DEF Await, Notice
<1>6. QED
  BY <1>3, <1>5, IdleAwaits

LEMMA ReportAwaits ==
  ASSUME IInv, NEW t \in Threads, Report(t)
  PROVE  Await(th'[t]) /\ Notice(th'[t])
<1> DEFINE w == th[t]
           y == [w EXCEPT !.due = Front(w.due)]
<1>1. w.pc = "report" /\ th' = [th EXCEPT ![t] = IF Len(w.due) = 1 THEN Idle ELSE y]
  BY DEF Report
<1>2. w \in Busy /\ Await(w) /\ w.due # << >>
  BY <1>1, BusyType, ByThread DEF IInv, Shape
<1>3. th'[t] = IF Len(w.due) = 1 THEN Idle ELSE y
  BY <1>1 DEF IInv, Shape, Writes
<1>4. y.due = Front(w.due) /\ y.addr = w.addr /\ y.calm = w.calm /\ w.due \in Seq(Due)
  BY <1>2 DEF Busy
<1> HIDE DEF w, y
<1>5. /\ Len(w.due) \in Nat \ {0} /\ Front(w.due) \in Seq(Due)
      /\ Len(Front(w.due)) = Len(w.due) - 1
      /\ \A i \in 1 .. Len(w.due) - 1 : Front(w.due)[i] = w.due[i]
      /\ Len(w.due) # 1 => Front(w.due) # << >>
  BY <1>2, <1>4, ShorterQueue
<1>6. Await(y)
  <2>1. \A i \in DOMAIN y.due : i \in DOMAIN w.due /\ y.due[i] = w.due[i]
    BY <1>4, <1>5
  <2>2. QED
    BY <1>2, <1>4, <2>1 DEF Await
<1>7. Len(w.due) # 1 => Notice(y)
  BY <1>4, <1>5 DEF Notice
<1>8. QED
  BY <1>3, <1>6, <1>7, IdleAwaits

LEMMA WriteAwaits ==
  ASSUME IInv, NEW t \in Threads, WriteOf(t) PROVE Awaited' /\ Noticed'
<1>1. Await(th'[t]) /\ Notice(th'[t])
  <2>1. CASE \E a \in Addrs, n \in Attrs, v \in Vals, g \in BOOLEAN : BeginWrite(t, a, n, v, g)
    BY <2>1, BeginAwaits
  <2>2. CASE AssignRaises(t)
    <3>1. th'[t] = Idle
      BY <2>2 DEF AssignRaises, IInv, Shape, Writes
    <3>2. QED
      BY <3>1, IdleAwaits
  <2>3. QED
    BY <2>1, <2>2, CallAwaits, AssignAwaits, ReportAwaits DEF WriteOf, WriteStep
<1>2. \A s \in Threads : s # t => th'[s] = th[s]
  <2>1. \E x : th' = [th EXCEPT ![t] = x]
    BY Zenon DEF WriteOf, WriteStep, BeginWrite, CallPatched, Assign, AssignRaises, Report
  <2>2. QED
    BY <2>1 DEF IInv, Shape, Writes
<1>3. \A s \in Threads : Await(th'[s]) /\ Notice(th'[s])
  BY <1>1, <1>2, ByThread DEF IInv
<1>4. UNCHANGED <<obj, watches, patches>>
  BY WriteQuiet DEF Quiet, IInv
<1>5. QED
  BY <1>3, <1>4 DEF Await, Notice, Awaited, Noticed, EntryFor

LEMMA NextAwaited ==
  ASSUME IInv, [Next]_vars PROVE Awaited' /\ Noticed'
<1>1. ASSUME NEW a \in Addrs, (\E c \in Classes : Create(a, c)) \/ Die(a)
      PROVE  Awaited' /\ Noticed'
  <2>1. UNCHANGED <<th, watches, patches>>
    BY <1>1 DEF Create, Die
  <2>2. ASSUME NEW t \in Threads, th[t].calm PROVE obj'[th[t].addr] = obj[th[t].addr]
    <3>1. th[t].pc # "idle"
      BY <2>2 DEF IInv, Shape, Writes, Busy, Idle
    <3>2. th[t] \in Busy /\ Live(th[t].addr)
      BY <3>1, BusyType DEF IInv, Shape
    <3>3. th[t].addr \in Addrs /\ th[t].addr # a
      BY <1>1, <3>2 DEF Busy, Create, Die
    <3>4. QED
      BY <1>1, <3>3 DEF Create, Die, IInv, Shape, Objects
  <2>3. Awaited'
    BY <2>1, <2>2 DEF IInv, Awaited
  <2>4. Noticed'
    BY <2>1 DEF IInv, Noticed, EntryFor
  <2>5. QED
    BY <2>3, <2>4
<1>2. ASSUME NEW e \in Exprs, Called(e) PROVE Awaited' /\ Noticed'
  <2>1. \A t \in Threads : ~ th'[t].calm
    BY <1>2, DisturbedThread DEF Called, IInv, Shape
  <2>2. QED
    BY <2>1 DEF Awaited, Noticed
<1>3. CASE UNCHANGED <<obj, th, watches, patches>>
  BY <1>3 DEF IInv, Awaited, Noticed, EntryFor
<1>4. QED
  <2>1. CASE Next
    BY <1>1, <1>2, <1>3, <2>1, NextCases, WriteAwaits, RefusedQuiet DEF Quiet, IInv
  <2>2. QED
    BY <1>3, <2>1 DEF vars

LEMMA NextSilent ==
  ASSUME IInv, [Next]_vars PROVE UnwatchedSilent'
<1>1. ASSUME NEW t \in Threads, Report(t) PROVE UnwatchedSilent'
  <2> DEFINE w == th[t]
             d == Last(w.due)
  <2>1. /\ w.pc = "report" /\ UNCHANGED <<obj, watches>>
        /\ hit' = NoHit \/ hit' = [watch |-> d.watch, addr |-> w.addr,
                                   inc |-> obj[w.addr].inc, attr |-> w.attr,
                                   calm |-> w.calm]
    BY <1>1, Zenon DEF Report
  <2>2. w \in Busy /\ w.due # << >> /\ Await(w)
    BY <2>1, BusyType, ByThread DEF IInv, Shape
  <2>3. w.due \in Seq(Due) /\ Len(w.due) \in DOMAIN w.due
    BY <2>2, EmptySeq DEF Busy
  <2>4. w.calm /\ d.watch.inc = obj[w.addr].inc => watches[d.watch.expr] = d.watch
    BY <2>2, <2>3 DEF Await, Last
  <2> HIDE DEF w, d
  <2>5. QED
    BY <2>1, <2>4 DEF UnwatchedSilent
<1>2. CASE hit' = NoHit
  BY <1>2 DEF UnwatchedSilent
<1>3. CASE UNCHANGED vars
  BY <1>3 DEF vars, IInv, UnwatchedSilent
<1>4. CASE Next
  <2>1. hit' = NoHit \/ \E t \in Threads : Report(t)
    BY <1>4, Zenon DEF Next, Create, Die, WatchRefused, Watch, UnwatchGone, Unwatch,
       BeginWrite, WriteStep, CallPatched, Assign, AssignRaises
  <2>2. QED
    BY <1>1, <1>2, <2>1
<1>5. QED
  BY <1>3, <1>4

-----------------------------------------------------------------------------
(* The theorems.                                                             *)

LEMMA InitInv == Init => IInv
<1> SUFFICES ASSUME Init PROVE IInv
  OBVIOUS
<1>1. NoObject \in [inc : 0 .. MaxObjects, cls : Classes \cup {None}]
      /\ NoVals \in [Attrs -> Vals \cup {None}]
      /\ NoWatch \in WatchRec \cup {NoWatch}
  BY KeyTypes DEF NoObject, NoVals
<1>2. budget \in Budget
  BY ClassPatchAssumption DEF Init, Budget, ClassPatchAssumption
<1>3. Objects
  BY <1>1, <1>2 DEF Init, Objects, Live, NoObject
<1>4. Len(patches) = 0 /\ patches \in Seq(Patch)
  BY DEF Init
<1>5. \A c \in Classes : func[c] \in {Absent, Original} /\ func[c] = Defined[c]
  BY DEF Init, Defined
<1>6. func \in [Classes -> Int]
  BY <1>5 DEF Init, Defined, Absent, Original
<1>7. Tables
  BY <1>1, <1>4, <1>5, <1>6 DEF Init, Tables, Callee
<1>8. \A t \in Threads : th[t] = Idle
  BY DEF Init
<1>9. Writes
  <2>1. th \in [Threads -> Busy \cup {Idle}]
    BY DEF Init
  <2>2. Idle.pc = "idle"
    BY DEF Idle
  <2>3. QED
    BY <1>8, <2>1, <2>2 DEF Writes
<1>10. Registered /\ PatchedWhileWatched
  BY <1>4, <1>5 DEF Init, Registered, PatchedWhileWatched
<1>11. Fresh /\ Rows
  BY <1>4 DEF Init, Fresh, Rows, Live, NoObject
<1>12. EntryKept
  BY DEF Init, EntryKept, Alive
<1>13. Awaited /\ Noticed
  BY <1>8, ByThread, IdleAwaits
<1>14. UnwatchedSilent
  BY DEF Init, UnwatchedSilent
<1>15. QED
  BY <1>3, <1>7, <1>9, <1>10, <1>11, <1>12, <1>13, <1>14 DEF IInv, Shape

LEMMA NextInv == IInv /\ [Next]_vars => IInv'
BY NextShape, NextRegistered, NextFresh, NextRows, NextKept, NextAwaited, NextSilent
   DEF IInv

\* The invariant that the theorems below rest on.
THEOREM Invariant == Spec => []IInv
BY InitInv, NextInv, PTL DEF Spec

LEMMA ShapeType == ASSUME Shape PROVE TypeOK
<1>1. \A a \in Addrs : obj[a] = NoObject
                         \/ obj[a] \in [inc : 1 .. MaxObjects, cls : Classes]
  <2>1. SUFFICES ASSUME NEW a \in Addrs, Live(a)
                 PROVE  obj[a] \in [inc : 1 .. MaxObjects, cls : Classes]
    BY DEF Shape, Objects
  <2>2. obj[a] \in [inc : 0 .. MaxObjects, cls : Classes \cup {None}]
    BY DEF Shape, Objects
  <2>3. obj[a].cls \in Classes /\ obj[a].inc \in 1 .. MaxObjects
    BY <2>1, LiveType DEF Shape
  <2>4. QED
    BY <2>2, <2>3
<1>2. Len(patches) \in Nat /\ patches \in Seq(Patch)
  BY DEF Shape, Tables
<1>3. \A f : Callee(f, Len(patches)) => f \in Func \ {Absent}
  BY <1>2 DEF Callee, Func, Absent, Original
<1>4. func \in [Classes -> Func]
  BY <1>3 DEF Shape, Tables, Func
<1>5. ASSUME NEW p \in 1 .. Len(patches)
      PROVE  /\ patches[p] \in [saved : Func, orig : Func \ {Absent}, table : Table]
             /\ patches[p].orig < p /\ patches[p].saved < p
  <2>1. p \in Nat /\ p - 1 \in Nat /\ p - 1 <= Len(patches) /\ patches[p] \in Patch
    BY <1>2
  <2>2. /\ Callee(patches[p].orig, p - 1)
        /\ patches[p].saved = Absent \/ Callee(patches[p].saved, p - 1)
    BY DEF Shape, Tables
  <2>3. \A f : Callee(f, p - 1) => Callee(f, Len(patches)) /\ f < p
    BY <1>2, <2>1 DEF Callee, Original
  <2>4. patches[p].orig \in Func \ {Absent} /\ patches[p].orig < p
    BY <1>3, <2>2, <2>3
  <2>5. patches[p].saved \in Func /\ patches[p].saved < p
    BY <1>3, <2>1, <2>2, <2>3 DEF Func, Absent
  <2>6. QED
    BY <2>1, <2>4, <2>5 DEF Patch
<1>6. patches \in Seq([saved : Func, orig : Func \ {Absent}, table : Table])
  <2> DEFINE S == [saved : Func, orig : Func \ {Absent}, table : Table]
  <2>1. \A p \in 1 .. Len(patches) : patches[p] \in S
    BY <1>5
  <2> HIDE DEF S
  <2>2. patches \in Seq(S)
    BY <1>2, <2>1
  <2>3. QED
    BY <2>2 DEF S
<1>7. reg \in [Classes -> 0 .. Len(patches)]
  BY <1>2 DEF Shape, Tables
<1>8. ASSUME NEW t \in Threads PROVE th[t] \in Write \cup {Idle}
  <2>1. CASE th[t].pc = "idle"
    BY <2>1 DEF Shape, Writes, Busy
  <2>2. CASE th[t].pc # "idle"
    <3>1. th[t] \in Busy /\ th[t].fn \in Func \ {Absent}
      BY <1>3, <2>2, BusyType DEF Shape
    <3>2. QED
      BY <3>1 DEF Busy, Write
  <2>3. QED
    BY <2>1, <2>2
<1>9. th \in [Threads -> Write \cup {Idle}]
  BY <1>8 DEF Shape, Writes
<1>10. QED
  BY <1>1, <1>4, <1>5, <1>6, <1>7, <1>9 DEF TypeOK, Shape, Objects, Tables

\* The tables of classpatch.py keep their shape, and the functions that a patch
\* saved are older than it: the chain that a write calls along goes down and ends
\* at the original __setattr__ (classpatch.py:120-140).
THEOREM TypeCorrect == Spec => []TypeOK
<1>1. IInv => TypeOK
  BY ShapeType DEF IInv
<1>2. QED
  BY Invariant, <1>1, PTL

\* However watch and unwatch alternate in a class and its bases, a class has a
\* patched __setattr__ exactly as long as its patch has an entry, and its own
\* definition afterwards, unless it refuses the restoration (classpatch.py:204-229).
THEOREM PatchesEnd == Spec => []PatchedWhileWatched
<1>1. IInv => PatchedWhileWatched
  BY DEF IInv
<1>2. QED
  BY Invariant, <1>1, PTL

\* The watch of a live object keeps its entry in the patch of the object's class,
\* unless another expression has watched the same attribute of the same object
\* (classpatch.py:191, 209).
THEOREM EntriesStay == Spec => []EntryKept
<1>1. IInv => EntryKept
  BY DEF IInv
<1>2. QED
  BY Invariant, <1>1, PTL

\* A write that no call of watch or unwatch fell into reports only watches that
\* are registered, for every number of threads, classes and objects.  A watch of an
\* object that has died is excepted: its entry stays, and a write of the object that
\* has got its id reports it, registered or not (classpatch.py:108-160).
THEOREM RemovedStaySilent == Spec => []UnwatchedSilent
<1>1. IInv => UnwatchedSilent
  BY DEF IInv
<1>2. QED
  BY Invariant, <1>1, PTL


\* Only its own step ends a write.
LEMMA EndingStep ==
  ASSUME IInv, [Next]_vars, NEW t \in Threads, Ends(t)
  PROVE  (Assign(t) /\ th[t].due = << >>) \/ (Report(t) /\ Len(th[t].due) = 1)
<1>1. th[t].pc # "idle" /\ th'[t].pc = "idle" /\ ~ AssignRaises(t)
  BY DEF Ends
<1>2. th[t] \in Busy
  BY <1>1, BusyType DEF IInv, Shape
<1>3. th' # th
  BY <1>1
<1>4. PICK s \in Threads : WriteOf(s)
  <2>1. ASSUME NEW e \in Exprs, Called(e) PROVE FALSE
    BY <1>1, <2>1, DisturbedThread DEF Called, IInv, Shape
  <2>2. Next
    BY <1>3 DEF vars
  <2>3. QED
    BY <1>3, <2>1, <2>2, NextCases, RefusedQuiet DEF IInv, Create, Die
<1>5. s = t
  <2>1. \E x : th' = [th EXCEPT ![s] = x]
    BY <1>4, Zenon DEF WriteOf, WriteStep, BeginWrite, CallPatched, Assign, AssignRaises,
       Report
  <2>2. s # t => th'[t] = th[t]
    BY <2>1 DEF IInv, Shape, Writes
  <2>3. QED
    BY <1>1, <2>2
<1>6. CASE \E a \in Addrs, n \in Attrs, v \in Vals, g \in BOOLEAN : BeginWrite(t, a, n, v, g)
  BY <1>1, <1>6 DEF BeginWrite
<1>7. CASE CallPatched(t)
  <2>1. \E f, q : th' = [th EXCEPT ![t] = [th[t] EXCEPT !.fn = f, !.due = q]]
        /\ th[t].pc = "call"
    BY <1>7, Zenon DEF CallPatched
  <2>2. PICK f, q : th' = [th EXCEPT ![t] = [th[t] EXCEPT !.fn = f, !.due = q]]
    BY <2>1
  <2>3. th'[t] = [th[t] EXCEPT !.fn = f, !.due = q]
    BY <2>2 DEF IInv, Shape, Writes
  <2>4. th'[t].pc = th[t].pc
    BY <1>2, <2>3 DEF Busy
  <2>5. QED
    BY <1>1, <2>4
<1>8. CASE Assign(t)
  <2>1. SUFFICES ASSUME th[t].due # << >> PROVE FALSE
    BY <1>8
  <2>2. \E o : th' = [th EXCEPT ![t] = [th[t] EXCEPT !.pc = "report", !.replaced = o]]
    BY <1>8, <2>1, Zenon DEF Assign
  <2>3. PICK o : th' = [th EXCEPT ![t] = [th[t] EXCEPT !.pc = "report", !.replaced = o]]
    BY <2>2
  <2>4. th'[t] = [th[t] EXCEPT !.pc = "report", !.replaced = o]
    BY <2>3 DEF IInv, Shape, Writes
  <2>5. th'[t].pc = "report"
    BY <1>2, <2>4 DEF Busy
  <2>6. QED
    BY <1>1, <2>5
<1>9. CASE Report(t)
  <2>1. SUFFICES ASSUME Len(th[t].due) # 1 PROVE FALSE
    BY <1>9
  <2>2. th' = [th EXCEPT ![t] = [th[t] EXCEPT !.due = Front(th[t].due)]]
        /\ th[t].pc = "report"
    BY <1>9, <2>1, Zenon DEF Report
  <2>3. th'[t] = [th[t] EXCEPT !.due = Front(th[t].due)]
    BY <2>2 DEF IInv, Shape, Writes
  <2>4. th'[t].pc = "report"
    BY <1>2, <2>2, <2>3 DEF Busy
  <2>5. QED
    BY <1>1, <2>4
<1>10. QED
  BY <1>1, <1>4, <1>5, <1>6, <1>7, <1>8, <1>9 DEF WriteOf, WriteStep

\* Where the hash tells the values apart, a write that changes a watched attribute
\* is reported when it ends, through whatever chain of patched functions, unless
\* watch or unwatch was called meanwhile or another thread wrote in between
\* (classpatch.py:120-160).
THEOREM ChangesReported ==
  ASSUME \A v, w \in Vals : ValueHash(v) = ValueHash(w) => v = w
  PROVE  Spec => ChangeReported
<1>1. ASSUME IInv, [Next]_vars, NEW t \in Threads, Ends(t),
             th[t].covered, th[t].calm, Unraced(th[t]),
             th[t].pc = "report" => th[t].replaced # th[t].new
      PROVE  hit' # NoHit /\ hit'.addr = th[t].addr
  <2> DEFINE w == th[t]
             d == Last(w.due)
  <2>1. w \in Busy /\ Live(w.addr) /\ Notice(w)
    BY <1>1, BusyType, ByThread DEF Ends, IInv, Shape
  <2>2. ~ (Assign(t) /\ w.due = << >>)
    BY <1>1, <2>1 DEF Assign, Notice, Original
  <2>3. Report(t) /\ Len(w.due) = 1
    BY <1>1, <2>2, EndingStep
  <2>4. w.due \in Seq(Due) /\ w.new \in Vals /\ d = w.due[1]
    BY <2>1, <2>3 DEF Busy, Last
  <2>5. d \in Due /\ d.old = w.replaced
    <3> HIDE DEF w, d
    <3>1. 1 \in DOMAIN w.due /\ w.due[1] \in Due
      BY <2>3, <2>4
    <3>2. QED
      BY <1>1, <2>4, <3>1 DEF Unraced, w
  <2>6. d.old # w.new
    BY <1>1, <2>3, <2>5 DEF Report
  <2>7. ~ SameHash(d.old, w.new)
    BY <1>1, <2>4, <2>5, <2>6 DEF SameHash, Due
  <2>8. hit' = [watch |-> d.watch, addr |-> w.addr, inc |-> obj[w.addr].inc,
                attr |-> w.attr, calm |-> w.calm]
    BY <2>3, <2>7 DEF Report
  <2> HIDE DEF w, d
  <2>9. hit'.addr = w.addr /\ hit'.inc # NoHit.inc
    BY <2>1, <2>8 DEF Live, NoHit
  <2>10. QED
    BY <2>9 DEF w
<1>2. ASSUME IInv, [Next]_vars
      PROVE  [\A t \in Threads :
               Ends(t) /\ th[t].covered /\ th[t].calm /\ Unraced(th[t])
                 /\ (th[t].pc = "report" => th[t].replaced # th[t].new)
               => hit' # NoHit /\ hit'.addr = th[t].addr]_vars
  BY <1>1, <1>2
<1>3. QED
  BY Invariant, <1>2, PTL DEF Spec, ChangeReported
=============================================================================
