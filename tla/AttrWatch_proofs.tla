------------------------- MODULE AttrWatch_proofs -------------------------
(***************************************************************************)
(* Proofs about AttrWatch, for every number of threads, objects, attributes  *)
(* and expressions, and for every bound.                                     *)
(***************************************************************************)
EXTENDS AttrWatch, SequenceTheorems, FiniteSetTheorems, WellFoundedInduction,
        TLAPS

-----------------------------------------------------------------------------
(* The inductive invariant.                                                *)

PayloadsOf(r) == {r.subs[k] : k \in DOMAIN r.subs} \cup {r.own}
Classed(p) == p.cls # << >>

\* What a thread has to know at each step of a call.
StateOK(s) ==
  /\ s.op = "watch" => s.obj \in Objs /\ s.expr \in Exprs
  /\ s.op = "write" => s.pc = "walk"
  /\ s.pc = "lock" => s.op \in {"watch", "unwatch", "clear"}
  /\ s.pc \in {"read", "swap", "wrap"} => s.op = "watch"
  /\ s.pc = "wrap" => /\ s.rec \in DOMAIN recs
                      /\ recs[s.rec].expr = s.expr
                      /\ Dotted(s.expr)
  /\ s.pc = "walk" => /\ s.op \in {"watch", "write"}
                      /\ s.rec \in DOMAIN recs
                      /\ ~ Dotted(recs[s.rec].expr)
                      /\ s.work # << >>
                      /\ \A k \in DOMAIN s.work :
                           IsPrefix(recs[s.rec].expr, s.work[k].path)
  /\ s.pc = "undo" <=> s.todo # << >>

ThreadsInv == \A t \in Threads : StateOK(th[t])

\* A layer's name begins with that of its root, and the layers that watch every
\* attribute belong to roots that are plain names.
WellFormed(cls) ==
  \A n \in DOMAIN cls :
    LET l == cls[n] IN /\ IsPrefix(l.root, l.expr)
                       /\ l.attr = AnyAttr => ~ Dotted(l.root)

LayersInv ==
  /\ \A o \in Objs : WellFormed(layers[o])
  /\ \A t \in Threads : WellFormed(th[t].orig)
  /\ \A i \in DOMAIN recs : \A p \in PayloadsOf(recs[i]) : WellFormed(p.orig)
  /\ \A t \in Threads : \A k \in DOMAIN th[t].todo : WellFormed(th[t].todo[k].orig)

\* The table has one watch of an expression, and none of the expression that is
\* being installed.
TableInv ==
  /\ \A j, k \in DOMAIN reg : j # k => recs[reg[j]].expr # recs[reg[k]].expr
  /\ \A t \in Threads : th[t].pc \in {"read", "swap"} =>
       \A i \in RegIds : recs[i].expr # th[t].expr

\* A recorded class has one layer more than the class it replaced, and that
\* layer belongs to the root that recorded it; a removal in progress undoes
\* layers of no root in the table.
Extends(p) == Classed(p) => p.cls = Append(p.orig, Last(p.cls))

PayloadInv ==
  /\ \A i \in DOMAIN recs : \A p \in PayloadsOf(recs[i]) :
       Extends(p) /\ (Classed(p) => Last(p.cls).root = recs[i].expr)
  /\ \A t \in Threads : \A k \in DOMAIN th[t].todo :
       LET p == th[t].todo[k] IN
         /\ Extends(p)
         /\ Classed(p) => \A i \in RegIds : Last(p.cls).root # recs[i].expr

\* Nothing takes layers off an object between the reading and the setting of
\* its class; what a write puts on is put on a bare object.
SwapInv ==
  \A t \in Threads : th[t].pc = "swap" =>
    layers[th[t].obj] = th[t].orig \/ th[t].orig = << >>

\* A root has met every object it records a class for.
VisitedInv ==
  \A i \in DOMAIN recs :
    /\ ~ Dotted(recs[i].expr) =>
         \A p \in PayloadsOf(recs[i]) :
           Classed(p) /\ p.obj # NoObj => p.obj \in recs[i].visited
    /\ Dotted(recs[i].expr) =>
         \A k \in DOMAIN recs[i].subs : ~ Classed(recs[i].subs[k])

\* Wrappers are numbered as they are made, and recorded once.
WrapsInv ==
  /\ \A i \in DOMAIN recs : \A p \in PayloadsOf(recs[i]) : p.wrapper <= Len(wraps)
  /\ \A t \in Threads : \A k \in DOMAIN th[t].todo :
       th[t].todo[k].wrapper <= Len(wraps)
  /\ \A i, j \in DOMAIN recs : i # j =>
       \A p \in PayloadsOf(recs[i]), q \in PayloadsOf(recs[j]) :
         p.wrapper # NoWrap => p.wrapper # q.wrapper
  /\ \A t \in Threads : \A k \in DOMAIN th[t].todo : \A i \in RegIds :
       \A p \in PayloadsOf(recs[i]) :
         p.wrapper # NoWrap => p.wrapper # th[t].todo[k].wrapper

\* The properties, stated over the set of what a watch has recorded.
KeptInv ==
  \A i \in RegIds : \A p \in PayloadsOf(recs[i]) :
    p.obj # NoObj /\ p.obj \notin clobbered => IsPrefix(p.cls, layers[p.obj])

Owner(p, o, cls) == p.obj = o /\ p.cls = cls

Owned(o, cls) ==
  \/ \E i \in RegIds : \E p \in PayloadsOf(recs[i]) : Owner(p, o, cls)
  \/ \E t \in Threads : \E k \in DOMAIN th[t].todo : Owner(th[t].todo[k], o, cls)

OwnedInv ==
  \A o \in Objs \ orphaned : \A n \in DOMAIN layers[o] :
    Owned(o, SubSeq(layers[o], 1, n))

Apart(p, q) == Classed(p) /\ Classed(q) => p.obj # q.obj \/ p.obj = NoObj

OnceInv ==
  \A i \in DOMAIN recs :
    /\ \A j, k \in DOMAIN recs[i].subs : j # k => Apart(recs[i].subs[j], recs[i].subs[k])
    /\ \A k \in DOMAIN recs[i].subs : Apart(recs[i].subs[k], recs[i].own)

NamedInv ==
  \A i \in RegIds : \A p \in PayloadsOf(recs[i]) :
    p.wrapper # NoWrap => /\ wraps[p.wrapper] # NoExpr
                          /\ IsPrefix(recs[i].expr, wraps[p.wrapper])

IInv ==
  /\ TypeOK
  /\ ThreadsInv /\ LayersInv /\ TableInv /\ PayloadInv /\ SwapInv
  /\ VisitedInv /\ WrapsInv
  /\ KeptInv /\ OwnedInv /\ OnceInv /\ NamedInv

-----------------------------------------------------------------------------
(* Sequences.                                                              *)

\* A set of numbers has a least member, if it has any.
LEMMA LeastMember ==
  ASSUME NEW S \in SUBSET Nat, S # {}
  PROVE  Min(S) \in S /\ \A n \in S : Min(S) <= n
<1> DEFINE Less == {p \in Nat \X Nat : p[1] < p[2]}
<1>1. IsWellFoundedOn(Less, Nat)
  BY NatLessThanWellFounded DEF OpToRel
<1>2. PICK m \in S : \A n \in S : ~ (<<n, m>> \in Less)
  BY <1>1, WFMin
<1>3. \A a, b \in Nat : a < b => <<a, b>> \in Less
  OBVIOUS
<1> HIDE DEF Less
<1>4. ASSUME NEW n \in S PROVE m <= n
  <2>1. n \in Nat /\ m \in Nat /\ ~ (n < m)
    BY <1>2, <1>3
  <2>2. QED
    BY <2>1
<1>5. QED
  BY <1>4 DEF Min

\* A prefix, position by position.
LEMMA PrefixByPosition ==
  ASSUME NEW S, NEW s \in Seq(S), NEW q \in Seq(S)
  PROVE  IsPrefix(s, q) <=> Len(s) <= Len(q) /\ \A k \in 1 .. Len(s) : s[k] = q[k]
<1>1. Len(s) \in Nat /\ Len(q) \in Nat
  BY LenProperties
<1>2. ASSUME Len(s) <= Len(q)
      PROVE  SubSeq(s, 1, Len(s)) = SubSeq(q, 1, Len(s))
               <=> \A k \in 1 .. Len(s) : s[k] = q[k]
  <2>1. \A k \in 1 .. Len(s) : s[k] \in S /\ q[k] \in S
    BY <1>1, <1>2, ElementOfSeq
  <2>2. /\ SubSeq(q, 1, Len(s)) \in Seq(S)
        /\ Len(SubSeq(q, 1, Len(s))) = Len(s)
        /\ \A k \in 1 .. Len(s) : SubSeq(q, 1, Len(s))[k] = q[k]
    BY <1>1, <2>1, SubSeqProperties
  <2>3. SubSeq(s, 1, Len(s)) = s
    BY SubSeqFull
  <2>4. QED
    BY <2>2, <2>3, SeqEqual
<1>3. QED
  BY <1>1, <1>2 DEF IsPrefix

LEMMA PrefixRefl ==
  ASSUME NEW S, NEW s \in Seq(S) PROVE IsPrefix(s, s)
BY LenProperties, PrefixByPosition

LEMMA PrefixTrans ==
  ASSUME NEW S, NEW r \in Seq(S), NEW s \in Seq(S), NEW q \in Seq(S),
         IsPrefix(r, s), IsPrefix(s, q)
  PROVE  IsPrefix(r, q)
<1>1. Len(r) \in Nat /\ Len(s) \in Nat /\ Len(q) \in Nat
  BY LenProperties
<1>2. Len(r) <= Len(s) /\ \A k \in 1 .. Len(r) : r[k] = s[k]
  BY PrefixByPosition
<1>3. Len(s) <= Len(q) /\ \A k \in 1 .. Len(s) : s[k] = q[k]
  BY PrefixByPosition
<1>4. QED
  BY <1>1, <1>2, <1>3, PrefixByPosition

LEMMA PrefixAppend ==
  ASSUME NEW S, NEW s \in Seq(S), NEW x \in S
  PROVE  IsPrefix(s, Append(s, x))
<1>1. PICK q : q = Append(s, x)
  OBVIOUS
<1>2. q \in Seq(S) /\ Len(q) = Len(s) + 1 /\ \A k \in 1 .. Len(s) : q[k] = s[k]
  BY <1>1, AppendProperties
<1>3. Len(s) \in Nat
  BY LenProperties
<1>4. IsPrefix(s, q)
  BY <1>2, <1>3, PrefixByPosition
<1>5. QED
  BY <1>1, <1>4

\* A prefix of a sequence with one element more is that sequence, or a prefix of
\* what it extends.
LEMMA PrefixOfAppend ==
  ASSUME NEW S, NEW r \in Seq(S), NEW s \in Seq(S), NEW x \in S,
         IsPrefix(r, Append(s, x)), r # Append(s, x)
  PROVE  IsPrefix(r, s)
<1>1. PICK q : q = Append(s, x)
  OBVIOUS
<1>2. /\ Len(s) \in Nat /\ Len(r) \in Nat /\ q \in Seq(S) /\ Len(q) = Len(s) + 1
      /\ IsPrefix(r, q) /\ r # q /\ \A k \in 1 .. Len(s) : q[k] = s[k]
  BY <1>1, LenProperties, AppendProperties
<1>3. Len(r) <= Len(s) + 1 /\ \A k \in 1 .. Len(r) : r[k] = q[k]
  BY <1>2, PrefixByPosition
<1>4. ASSUME Len(r) = Len(s) + 1 PROVE FALSE
  <2>1. Len(r) = Len(q) /\ \A k \in 1 .. Len(r) : r[k] = q[k]
    BY <1>2, <1>3, <1>4
  <2>2. r = q
    BY <1>2, <2>1, SeqEqual
  <2>3. QED
    BY <1>2, <2>2
<1>5. QED
  BY <1>2, <1>3, <1>4, PrefixByPosition

\* The first n elements, when the sequence only grows beyond them.
LEMMA SamePrefix ==
  ASSUME NEW S, NEW s \in Seq(S), NEW q \in Seq(S), IsPrefix(s, q),
         NEW n \in 1 .. Len(s)
  PROVE  SubSeq(s, 1, n) = SubSeq(q, 1, n)
<1>1. /\ Len(s) \in Nat /\ Len(q) \in Nat /\ n \in Nat
      /\ Len(s) <= Len(q) /\ \A k \in 1 .. Len(s) : s[k] = q[k]
  BY LenProperties, PrefixByPosition
<1>2. \A k \in 1 .. n : s[k] \in S /\ q[k] \in S /\ s[k] = q[k]
  BY <1>1, ElementOfSeq
<1>3. /\ SubSeq(s, 1, n) \in Seq(S) /\ Len(SubSeq(s, 1, n)) = n
      /\ \A k \in 1 .. n : SubSeq(s, 1, n)[k] = s[k]
  BY <1>1, <1>2, SubSeqProperties
<1>4. /\ SubSeq(q, 1, n) \in Seq(S) /\ Len(SubSeq(q, 1, n)) = n
      /\ \A k \in 1 .. n : SubSeq(q, 1, n)[k] = q[k]
  BY <1>1, <1>2, SubSeqProperties
<1>5. QED
  BY <1>2, <1>3, <1>4, SeqEqual

LEMMA LastOfAppend ==
  ASSUME NEW S, NEW s \in Seq(S), NEW x \in S
  PROVE  Append(s, x) # << >> /\ Last(Append(s, x)) = x
BY AppendProperties DEF Last

\* What is left of a sequence without one of its elements.
LEMMA RemoveAtProperties ==
  ASSUME NEW S, NEW q \in Seq(S), NEW i \in DOMAIN q
  PROVE  /\ RemoveAt(q, i) \in Seq(S)
         /\ DOMAIN RemoveAt(q, i) = 1 .. Len(q) - 1
         /\ \A n \in 1 .. Len(q) - 1 :
              RemoveAt(q, i)[n] = IF n < i THEN q[n] ELSE q[n + 1]
<1> DEFINE a == SubSeq(q, 1, i - 1)
           b == SubSeq(q, i + 1, Len(q))
<1>2. Len(q) \in Nat /\ DOMAIN q = 1 .. Len(q) /\ i \in 1 .. Len(q)
  BY LenProperties
<1>3. \A n \in 1 .. Len(q) : q[n] \in S
  BY ElementOfSeq
<1>4. /\ a \in Seq(S) /\ Len(a) = i - 1
      /\ \A n \in 1 .. i - 1 : a[n] = q[n]
  <2>1. 1 \in Int /\ i - 1 \in Int /\ \A n \in 1 .. i - 1 : q[n] \in S
    BY <1>2, <1>3
  <2>2. /\ a \in Seq(S)
        /\ Len(a) = IF 1 <= i - 1 THEN i - 1 - 1 + 1 ELSE 0
        /\ \A n \in 1 .. i - 1 - 1 + 1 : a[n] = q[1 + n - 1]
    BY <2>1, SubSeqProperties
  <2>3. QED
    BY <2>2, <1>2
<1>5. /\ b \in Seq(S) /\ Len(b) = Len(q) - i
      /\ \A n \in 1 .. Len(q) - i : b[n] = q[i + n]
  <2>1. i + 1 \in Int /\ Len(q) \in Int /\ \A n \in i + 1 .. Len(q) : q[n] \in S
    BY <1>2, <1>3
  <2>2. /\ b \in Seq(S)
        /\ Len(b) = IF i + 1 <= Len(q) THEN Len(q) - (i + 1) + 1 ELSE 0
        /\ \A n \in 1 .. Len(q) - (i + 1) + 1 : b[n] = q[i + 1 + n - 1]
    BY <2>1, SubSeqProperties
  <2> HIDE DEF b
  <2>3. Len(b) = Len(q) - i
    BY <2>2, <1>2
  <2>4. ASSUME NEW n \in 1 .. Len(q) - i PROVE b[n] = q[i + n]
    <3>1. n \in 1 .. Len(q) - (i + 1) + 1 /\ i + 1 + n - 1 = i + n
      BY <1>2
    <3>2. b[n] = q[i + 1 + n - 1]
      BY <3>1, <2>2
    <3>3. QED
      BY <3>1, <3>2
  <2>5. QED
    BY <2>2, <2>3, <2>4
<1>6. RemoveAt(q, i) = a \o b
  BY DEF RemoveAt
<1> HIDE DEF a, b
<1>7. /\ RemoveAt(q, i) \in Seq(S) /\ Len(RemoveAt(q, i)) = Len(a) + Len(b)
      /\ \A n \in 1 .. Len(a) + Len(b) :
           RemoveAt(q, i)[n] = IF n <= Len(a) THEN a[n] ELSE b[n - Len(a)]
  <2>1. a \in Seq(S) /\ b \in Seq(S)
    BY <1>4, <1>5
  <2>2. /\ a \o b \in Seq(S) /\ Len(a \o b) = Len(a) + Len(b)
        /\ \A n \in 1 .. Len(a) + Len(b) :
             (a \o b)[n] = IF n <= Len(a) THEN a[n] ELSE b[n - Len(a)]
    BY <2>1, ConcatProperties
  <2>3. QED
    BY <2>2, <1>6
<1>8. DOMAIN RemoveAt(q, i) = 1 .. Len(q) - 1
  BY <1>7, <1>4, <1>5, <1>2, LenProperties
<1>9. \A n \in 1 .. Len(q) - 1 : RemoveAt(q, i)[n] = IF n < i THEN q[n] ELSE q[n + 1]
  <2> TAKE n \in 1 .. Len(q) - 1
  <2>1. RemoveAt(q, i)[n] = IF n <= i - 1 THEN a[n] ELSE b[n - (i - 1)]
    BY <1>7, <1>4, <1>5, <1>2
  <2>2. CASE n < i
    BY <2>1, <2>2, <1>4, <1>2
  <2>3. CASE ~ n < i
    <3>1. n - (i - 1) \in 1 .. Len(q) - i /\ i + (n - (i - 1)) = n + 1
      BY <2>3, <1>2
    <3>2. b[n - (i - 1)] = q[i + (n - (i - 1))]
      BY <3>1, <1>5
    <3>3. RemoveAt(q, i)[n] = b[n - (i - 1)]
      BY <2>1, <2>3, <1>2
    <3>4. QED
      BY <3>1, <3>2, <3>3, <2>3
  <2>4. QED
    BY <2>2, <2>3
<1>10. QED
  BY <1>7, <1>8, <1>9

\* A sequence read backwards, and then one element more.
LEMMA ReverseProperties ==
  ASSUME NEW S, NEW s \in Seq(S)
  PROVE  /\ Reverse(s) \in Seq(S)
         /\ \A k \in DOMAIN Reverse(s) : \E j \in DOMAIN s : Reverse(s)[k] = s[j]
         /\ \A j \in DOMAIN s : \E k \in DOMAIN Reverse(s) : Reverse(s)[k] = s[j]
<1>1. Len(s) \in Nat /\ DOMAIN s = 1 .. Len(s) /\ \A k \in 1 .. Len(s) : s[k] \in S
  BY LenProperties, ElementOfSeq
<1>2. PICK n \in Nat : n = Len(s)
  BY <1>1
<1>3. Reverse(s) = [k \in 1 .. n |-> s[(n - k) + 1]]
  BY <1>2 DEF Reverse
<1>4. \A k \in 1 .. n : (n - k) + 1 \in 1 .. n /\ (n - ((n - k) + 1)) + 1 = k
  OBVIOUS
<1>5. Reverse(s) \in [1 .. n -> S]
  BY <1>1, <1>2, <1>3, <1>4
<1>6. Reverse(s) \in Seq(S)
  BY <1>5, SeqDef
<1>7. DOMAIN Reverse(s) = 1 .. n /\ \A k \in 1 .. n : Reverse(s)[k] = s[(n - k) + 1]
  BY <1>3
<1>8. ASSUME NEW j \in DOMAIN s PROVE \E k \in DOMAIN Reverse(s) : Reverse(s)[k] = s[j]
  <2>1. PICK k \in 1 .. n : k = (n - j) + 1
    BY <1>1, <1>2, <1>4
  <2>2. (n - k) + 1 = j
    BY <1>1, <1>2, <2>1
  <2>3. QED
    BY <1>7, <2>2
<1>9. QED
  BY <1>1, <1>2, <1>4, <1>6, <1>7, <1>8

-----------------------------------------------------------------------------
(* What the operators of the model build.                                  *)

LEMMA Names == /\ AnyAttr \notin Attrs
               /\ \A a \in Attrs : a \in STRING
               /\ \A e \in Exprs : e \in Seq(STRING) /\ e # << >>
BY AttrAssumption DEF AttrAssumption

LEMMA Numbers == /\ Depth \in Nat /\ Depth > 0 /\ MaxSubs \in Nat /\ MaxWraps \in Nat
                 /\ MaxCalls \in Nat /\ NoObj \notin Objs /\ NoThread \notin Threads
BY AttrAssumption DEF AttrAssumption

LEMMA EmptyOf == \A S : << >> \in Seq(S)
BY EmptySeq

LEMMA NoPayloadType ==
  /\ NoPayload \in Payload /\ NoPayload.cls = << >> /\ NoPayload.orig = << >>
  /\ NoPayload.wrapper = NoWrap /\ NoPayload.obj = NoObj
BY EmptyOf DEF NoPayload, Payload

LEMMA IdleType ==
  /\ Idle \in ThreadState /\ Idle.pc = "idle" /\ Idle.op = "none"
  /\ Idle.todo = << >> /\ Idle.work = << >> /\ Idle.orig = << >>
BY EmptyOf DEF Idle, ThreadState, NoExpr, Values

\* The layers of a watch on an attribute and of a watch on an object.
LEMMA LayerTypes ==
  /\ \A e \in Exprs : Dotted(e) =>
       AttrLayer(e) \in Layer /\ AttrLayer(e).root = e /\ AttrLayer(e).expr = e
  /\ \A e \in Seq(STRING), root \in Exprs :
       /\ AnyLayer(e, root) \in Layer /\ AnyLayer(e, root).root = root
       /\ AnyLayer(e, root).expr = e
<1>1. ASSUME NEW e \in Exprs, Dotted(e) PROVE AttrLayer(e) \in Layer
  BY <1>1, Names, AttrAssumption DEF AttrAssumption, AttrLayer, Layer
<1>2. ASSUME NEW e \in Seq(STRING), NEW root \in Exprs PROVE AnyLayer(e, root) \in Layer
  BY DEF AnyLayer, Layer
<1>3. QED
  BY <1>1, <1>2 DEF AttrLayer, AnyLayer

LEMMA WellFormedLayers ==
  /\ \A e \in Exprs : Dotted(e) =>
       /\ IsPrefix(AttrLayer(e).root, AttrLayer(e).expr)
       /\ AttrLayer(e).attr # AnyAttr
  /\ \A e, root : IsPrefix(root, e) => IsPrefix(AnyLayer(e, root).root, AnyLayer(e, root).expr)
  /\ \A e \in Exprs : IsPrefix(e, e)
<1>1. \A e \in Exprs : IsPrefix(e, e)
  BY Names, PrefixRefl
<1>2. QED
  BY <1>1, Names, AttrAssumption DEF AttrAssumption, AttrLayer, AnyLayer

LEMMA SubTypes ==
  /\ \A w \in Wraps, o \in Objs, a \in Attrs :
       /\ WrapSub(w, o, a) \in Payload /\ ~ Classed(WrapSub(w, o, a))
       /\ WrapSub(w, o, a).wrapper = w /\ WrapSub(w, o, a).orig = << >>
       /\ WrapSub(w, o, a).obj = NoObj
  /\ \A o \in Objs, e \in Seq(STRING), root \in Exprs :
       /\ ClassSub(o, e, root) \in Payload /\ ClassSub(o, e, root).obj = o
       /\ ClassSub(o, e, root).orig = << >> /\ ClassSub(o, e, root).wrapper = NoWrap
       /\ ClassSub(o, e, root).cls = << AnyLayer(e, root) >>
<1>1. ASSUME NEW w \in Wraps, NEW o \in Objs, NEW a \in Attrs
      PROVE  /\ WrapSub(w, o, a) \in Payload /\ ~ Classed(WrapSub(w, o, a))
             /\ WrapSub(w, o, a).wrapper = w /\ WrapSub(w, o, a).orig = << >>
             /\ WrapSub(w, o, a).obj = NoObj
  BY NoPayloadType, EmptyOf DEF WrapSub, NoPayload, Payload, Classed
<1>2. ASSUME NEW o \in Objs, NEW e \in Seq(STRING), NEW root \in Exprs
      PROVE  /\ ClassSub(o, e, root) \in Payload /\ ClassSub(o, e, root).obj = o
             /\ ClassSub(o, e, root).orig = << >> /\ ClassSub(o, e, root).wrapper = NoWrap
             /\ ClassSub(o, e, root).cls = << AnyLayer(e, root) >>
  <2>1. PICK c : c = << AnyLayer(e, root) >>
    OBVIOUS
  <2>2. c \in Seq(Layer)
    BY <2>1, LayerTypes
  <2>3. ClassSub(o, e, root) = [NoPayload EXCEPT !.obj = o, !.cls = c]
    BY <2>1 DEF ClassSub
  <2>4. QED
    BY <2>1, <2>2, <2>3, EmptyOf DEF NoPayload, Payload
<1>3. QED
  BY <1>1, <1>2

\* Recording a sub-watch.
LEMMA WithSubType ==
  ASSUME NEW r \in Rec, NEW full \in BOOLEAN, NEW p \in Payload,
         Len(r.subs) <= MaxSubs, ~ full => Len(r.subs) < MaxSubs
  PROVE  LET q == WithSub(r, full, p) IN
         /\ q \in Rec /\ q.expr = r.expr /\ q.own = r.own /\ q.visited = r.visited
         /\ Len(q.subs) <= MaxSubs
         /\ full => q.subs = r.subs
         /\ ~ full => q.subs = Append(r.subs, p)
<1>1. CASE full
  BY <1>1 DEF WithSub, Rec
<1>2. CASE ~ full
  <2>1. PICK n : n = Append(r.subs, p)
    OBVIOUS
  <2>2. n \in Seq(Payload) /\ Len(n) = Len(r.subs) + 1 /\ Len(r.subs) \in Nat
    BY <2>1, AppendProperties, LenProperties DEF Rec
  <2>3. WithSub(r, full, p) = [r EXCEPT !.subs = n]
    BY <1>2, <2>1 DEF WithSub
  <2>4. [r EXCEPT !.subs = n] \in Rec
    BY <2>2 DEF Rec
  <2>5. [r EXCEPT !.subs = n].subs = n
    BY DEF Rec
  <2>6. Len(n) <= MaxSubs
    BY <1>2, <2>2, Numbers
  <2>7. QED
    BY <1>2, <2>1, <2>3, <2>4, <2>5, <2>6
<1>3. QED
  BY <1>1, <1>2

LEMMA MetType ==
  ASSUME NEW r \in Rec, NEW v \in Objs
  PROVE  /\ Met(r, v) \in Rec /\ Met(r, v).expr = r.expr /\ Met(r, v).own = r.own
         /\ Met(r, v).subs = r.subs /\ Met(r, v).visited = r.visited \cup {v}
BY DEF Met, Rec

\* The attributes of an object still to be looked at.
LEMMA ItemsType ==
  ASSUME NEW o \in Objs, NEW path \in Seq(STRING), NEW d \in 1 .. Depth,
         NEW order \in Orders
  PROVE  /\ Items(o, path, d, order) \in Seq(Item)
         /\ Items(o, path, d, order) # << >>
         /\ \A k \in DOMAIN Items(o, path, d, order) :
              Items(o, path, d, order)[k].path = path
<1>1. PICK n \in Nat : n = Cardinality(Attrs) /\ n # 0
  <2>1. IsFiniteSet(Attrs) /\ Attrs # {}
    BY AttrAssumption DEF AttrAssumption
  <2>2. QED
    BY <2>1, FS_CardinalityType, FS_EmptySet
<1>2. order \in [1 .. n -> Attrs]
  BY <1>1 DEF Orders, SetToSeqs
<1>3. PICK q : q = Items(o, path, d, order)
  OBVIOUS
<1>4. q = [k \in 1 .. n |-> [obj |-> o, attr |-> order[k], path |-> path, depth |-> d]]
  BY <1>2, <1>3 DEF Items
<1>5. \A k \in 1 .. n : q[k] \in Item /\ q[k].path = path
  BY <1>2, <1>4 DEF Item
<1>6. q \in [1 .. n -> Item]
  BY <1>4, <1>5
<1>7. q \in Seq(Item) /\ DOMAIN q = 1 .. n
  BY <1>6, SeqDef
<1>8. q # << >>
  BY <1>1, <1>7, EmptySeq, LenProperties
<1>9. QED
  BY <1>3, <1>5, <1>7, <1>8

\* The elements of q are elements of s.
From(q, s) == \A k \in DOMAIN q : \E j \in DOMAIN s : q[k] = s[j]

LEMMA TailType ==
  ASSUME NEW S, NEW s \in Seq(S), s # << >>
  PROVE  /\ Tail(s) \in Seq(S) /\ From(Tail(s), s)
         /\ Head(s) \in S /\ Head(s) = s[1] /\ 1 \in DOMAIN s
         /\ \A k \in DOMAIN s : k = 1 \/ \E j \in DOMAIN Tail(s) : s[k] = Tail(s)[j]
<1>1. PICK q : q = Tail(s)
  OBVIOUS
<1>2. /\ q \in Seq(S) /\ Len(q) = Len(s) - 1 /\ Head(s) \in S
      /\ \A i \in 1 .. Len(q) : q[i] = s[i + 1]
  BY <1>1, HeadTailProperties
<1>3. /\ Len(s) \in Nat /\ Len(s) # 0 /\ DOMAIN s = 1 .. Len(s)
      /\ DOMAIN q = 1 .. Len(q)
  BY <1>2, LenProperties, EmptySeq
<1>4. From(q, s)
  <2>1. ASSUME NEW k \in DOMAIN q PROVE \E j \in DOMAIN s : q[k] = s[j]
    <3>1. k + 1 \in DOMAIN s /\ q[k] = s[k + 1]
      BY <1>2, <1>3
    <3>2. QED
      BY <3>1
  <2>2. QED
    BY <2>1 DEF From
<1>5. ASSUME NEW k \in DOMAIN s, k # 1 PROVE \E j \in DOMAIN q : s[k] = q[j]
  <2>1. PICK j \in Nat : j = k - 1 /\ j \in DOMAIN q /\ j + 1 = k
    BY <1>2, <1>3, <1>5
  <2>2. q[j] = s[k]
    BY <1>2, <1>3, <2>1
  <2>3. QED
    BY <2>1, <2>2
<1>6. Head(s) = s[1]
  OBVIOUS
<1>7. QED
  BY <1>1, <1>2, <1>3, <1>4, <1>5, <1>6

LEMMA ReturnedType ==
  ASSUME NEW work \in Seq(Item), work # << >>
  PROVE  Returned(work) \in Seq(Item) /\ From(Returned(work), work)
<1> DEFINE outer == {n \in DOMAIN work : work[n].path # Head(work).path}
<1>1. Len(work) \in Nat /\ DOMAIN work = 1 .. Len(work)
      /\ \A k \in 1 .. Len(work) : work[k] \in Item
  BY LenProperties, ElementOfSeq
<1>2. CASE outer = {}
  <2>1. Returned(work) = << >>
    BY <1>2 DEF Returned
  <2>2. QED
    BY <2>1, EmptyOf DEF From
<1>3. CASE outer # {}
  <2>1. PICK m : m = Min(outer)
    OBVIOUS
  <2>2. m \in 1 .. Len(work)
    <3>1. outer \in SUBSET Nat /\ outer \subseteq 1 .. Len(work)
      BY <1>1
    <3> HIDE DEF outer
    <3>2. QED
      BY <1>3, <2>1, <3>1, LeastMember
  <2>3. PICK q : q = SubSeq(work, m, Len(work))
    OBVIOUS
  <2>4. Returned(work) = q
    BY <1>3, <2>1, <2>3 DEF Returned
  <2>5. /\ m \in Int /\ Len(work) \in Int
        /\ \A k \in m .. Len(work) : work[k] \in Item
    BY <1>1, <2>2
  <2>6. /\ q \in Seq(Item)
        /\ Len(q) = IF m <= Len(work) THEN Len(work) - m + 1 ELSE 0
        /\ \A k \in 1 .. Len(work) - m + 1 : q[k] = work[m + k - 1]
    BY <2>3, <2>5, SubSeqProperties
  <2>7. ASSUME NEW k \in DOMAIN q PROVE \E j \in DOMAIN work : q[k] = work[j]
    <3>1. k \in 1 .. Len(work) - m + 1 /\ m + k - 1 \in DOMAIN work
      BY <1>1, <2>2, <2>6, LenProperties
    <3>2. QED
      BY <2>6, <3>1
  <2>8. QED
    BY <2>4, <2>6, <2>7 DEF From
<1>4. QED
  BY <1>2, <1>3

LEMMA ConcatType ==
  ASSUME NEW S, NEW r \in Seq(S), NEW s \in Seq(S)
  PROVE  /\ r \o s \in Seq(S)
         /\ \A k \in DOMAIN (r \o s) : \/ \E j \in DOMAIN r : (r \o s)[k] = r[j]
                                       \/ \E j \in DOMAIN s : (r \o s)[k] = s[j]
<1>1. PICK q : q = r \o s
  OBVIOUS
<1>2. /\ q \in Seq(S) /\ Len(q) = Len(r) + Len(s)
      /\ \A i \in 1 .. Len(r) + Len(s) : q[i] = IF i <= Len(r) THEN r[i] ELSE s[i - Len(r)]
  BY <1>1, ConcatProperties
<1>3. /\ Len(r) \in Nat /\ Len(s) \in Nat /\ DOMAIN r = 1 .. Len(r)
      /\ DOMAIN s = 1 .. Len(s) /\ DOMAIN q = 1 .. Len(r) + Len(s)
  BY <1>2, LenProperties
<1>4. ASSUME NEW k \in DOMAIN q
      PROVE  (\E j \in DOMAIN r : q[k] = r[j]) \/ (\E j \in DOMAIN s : q[k] = s[j])
  <2>1. CASE k <= Len(r)
    BY <1>2, <1>3, <2>1
  <2>2. CASE ~ k <= Len(r)
    <3>1. k - Len(r) \in DOMAIN s /\ q[k] = s[k - Len(r)]
      BY <1>2, <1>3, <2>2
    <3>2. QED
      BY <3>1
  <2>3. QED
    BY <2>1, <2>2
<1>5. QED
  BY <1>1, <1>2, <1>4

-----------------------------------------------------------------------------
(* Threads, records and the table.                                         *)

Holding(s) == s.pc \notin {"idle", "lock"} /\ s.op # "write"

LockInv == \A t \in Threads : lock = t <=> Holding(th[t])

LEMMA TypeParts ==
  TypeOK <=> /\ heap \in [Objs -> [Attrs -> Values]]
             /\ layers \in [Objs -> Seq(Layer)]
             /\ wraps \in Seq(Seq(STRING)) /\ Len(wraps) <= MaxWraps
             /\ recs \in Seq(Rec)
             /\ reg \in Seq(DOMAIN recs)
             /\ lock \in Threads \cup {NoThread}
             /\ installing \in Threads \cup {NoThread}
             /\ th \in [Threads -> ThreadState]
             /\ clobbered \subseteq Objs
             /\ orphaned \subseteq Objs
             /\ LockInv
             /\ \A i \in DOMAIN recs : Len(recs[i].subs) <= MaxSubs
BY DEF TypeOK, LockInv, Holding

LEMMA TypePartsPrime ==
  TypeOK' <=> /\ heap' \in [Objs -> [Attrs -> Values]]
              /\ layers' \in [Objs -> Seq(Layer)]
              /\ wraps' \in Seq(Seq(STRING)) /\ Len(wraps') <= MaxWraps
              /\ recs' \in Seq(Rec)
              /\ reg' \in Seq(DOMAIN recs')
              /\ lock' \in Threads \cup {NoThread}
              /\ installing' \in Threads \cup {NoThread}
              /\ th' \in [Threads -> ThreadState]
              /\ clobbered' \subseteq Objs
              /\ orphaned' \subseteq Objs
              /\ LockInv'
              /\ \A i \in DOMAIN recs' : Len(recs'[i].subs) <= MaxSubs
BY DEF TypeOK, LockInv, Holding

\* Records stay, with their expressions.
RecsKept == /\ DOMAIN recs \subseteq DOMAIN recs'
            /\ \A i \in DOMAIN recs : recs'[i].expr = recs[i].expr

LEMMA StateKept ==
  ASSUME NEW s, StateOK(s), RecsKept PROVE StateOK(s)'
BY DEF StateOK, RecsKept

\* One thread goes on.
LEMMA ThreadStep ==
  ASSUME TypeOK, NEW t \in Threads, NEW s \in ThreadState,
         th' = [th EXCEPT ![t] = s]
  PROVE  /\ th' \in [Threads -> ThreadState] /\ th'[t] = s
         /\ \A u \in Threads \ {t} : th'[u] = th[u]
BY DEF TypeOK

LEMMA StateNow ==
  ASSUME NEW s, StateOK(s)', NEW t, th'[t] = s PROVE StateOK(th[t])'
BY DEF StateOK

LEMMA ThreadsKept ==
  ASSUME ThreadsInv, RecsKept, NEW t \in Threads, NEW s, th'[t] = s, StateOK(s)',
         \A u \in Threads \ {t} : th'[u] = th[u]
  PROVE  ThreadsInv'
<1>1. ASSUME NEW u \in Threads \ {t} PROVE StateOK(th[u])'
  <2>1. PICK r : r = th[u]
    OBVIOUS
  <2>2. StateOK(r)
    BY <2>1 DEF ThreadsInv
  <2>3. StateOK(r)'
    BY <2>2, StateKept
  <2>4. th'[u] = r
    BY <2>1
  <2>5. QED
    BY <2>3, <2>4, StateNow
<1>2. StateOK(th[t])'
  BY StateNow
<1>3. QED
  BY <1>1, <1>2 DEF ThreadsInv

LEMMA LockKept ==
  ASSUME TypeOK, lock' = lock, NEW t \in Threads, Holding(th'[t]) <=> Holding(th[t]),
         \A u \in Threads \ {t} : th'[u] = th[u]
  PROVE  LockInv'
BY TypeParts DEF LockInv, Holding

\* The thread's walk goes on with what is left of its work, or ends.
LEMMA WalkOnEffect ==
  ASSUME TypeOK, ThreadsInv, RecsKept, lock' = lock,
         NEW t \in Threads, th[t].pc = "walk",
         NEW work \in Seq(Item), WalkOn(t, work),
         \A k \in DOMAIN work : IsPrefix(recs[th[t].rec].expr, work[k].path)
  PROVE  /\ th' \in [Threads -> ThreadState] /\ ThreadsInv' /\ LockInv'
         /\ \A u \in Threads \ {t} : th'[u] = th[u]
         /\ th'[t].todo = th[t].todo /\ th'[t].orig \in {th[t].orig, << >>}
         /\ th'[t].pc \in {"walk", "exit", "idle"}
<1>1. th[t] \in ThreadState /\ StateOK(th[t])
  BY TypeParts DEF ThreadsInv
<1>2. PICK r : r = th[t]
  OBVIOUS
<1>3. /\ r \in ThreadState /\ r.pc = "walk" /\ r.op \in {"watch", "write"}
      /\ r.rec \in DOMAIN recs /\ ~ Dotted(recs[r.rec].expr) /\ r.todo = << >>
      /\ r.op = "watch" => r.obj \in Objs /\ r.expr \in Exprs
  BY <1>1, <1>2 DEF StateOK
<1>4. recs'[r.rec].expr = recs[r.rec].expr /\ r.rec \in DOMAIN recs'
  BY <1>3 DEF RecsKept
<1>5. CASE work # << >>
  <2>1. PICK s : s = [r EXCEPT !.work = work]
    OBVIOUS
  <2>2. th' = [th EXCEPT ![t] = s]
    BY <1>2, <1>5, <2>1 DEF WalkOn
  <2>3. /\ s \in ThreadState /\ s.pc = r.pc /\ s.op = r.op /\ s.todo = r.todo
        /\ s.rec = r.rec /\ s.work = work /\ s.orig = r.orig /\ s.obj = r.obj
        /\ s.expr = r.expr
    BY <1>3, <2>1 DEF ThreadState
  <2>4. StateOK(s)'
    BY <1>2, <1>3, <1>4, <1>5, <2>3 DEF StateOK
  <2>5. /\ th' \in [Threads -> ThreadState] /\ th'[t] = s
        /\ \A u \in Threads \ {t} : th'[u] = th[u]
    BY <2>2, <2>3, ThreadStep
  <2>6. ThreadsInv'
    BY <2>4, <2>5, ThreadsKept
  <2>7. LockInv'
    BY <1>2, <2>3, <2>5, LockKept DEF Holding
  <2>8. QED
    BY <1>2, <1>3, <2>3, <2>5, <2>6, <2>7
<1>6. CASE work = << >> /\ r.op = "watch"
  <2>1. PICK s : s = [r EXCEPT !.work = << >>, !.pc = "exit"]
    OBVIOUS
  <2>2. th' = [th EXCEPT ![t] = s]
    BY <1>2, <1>6, <2>1 DEF WalkOn
  <2>3. /\ s \in ThreadState /\ s.pc = "exit" /\ s.op = r.op /\ s.todo = r.todo
        /\ s.orig = r.orig /\ s.obj = r.obj /\ s.expr = r.expr
    BY <1>3, <2>1, EmptyOf DEF ThreadState
  <2>4. StateOK(s)'
    BY <1>3, <1>6, <2>3 DEF StateOK
  <2>5. /\ th' \in [Threads -> ThreadState] /\ th'[t] = s
        /\ \A u \in Threads \ {t} : th'[u] = th[u]
    BY <2>2, <2>3, ThreadStep
  <2>6. ThreadsInv'
    BY <2>4, <2>5, ThreadsKept
  <2>7. LockInv'
    BY <1>2, <1>3, <2>3, <2>5, LockKept DEF Holding
  <2>8. QED
    BY <1>2, <1>3, <2>3, <2>5, <2>6, <2>7
<1>7. CASE work = << >> /\ r.op = "write"
  <2>2. th' = [th EXCEPT ![t] = Idle]
    BY <1>2, <1>7 DEF WalkOn
  <2>4. StateOK(Idle)'
    BY IdleType DEF StateOK
  <2>5. /\ th' \in [Threads -> ThreadState] /\ th'[t] = Idle
        /\ \A u \in Threads \ {t} : th'[u] = th[u]
    BY <2>2, IdleType, ThreadStep
  <2>6. ThreadsInv'
    BY <2>4, <2>5, ThreadsKept
  <2>7. LockInv'
    BY <1>2, <1>7, <2>5, IdleType, LockKept DEF Holding
  <2>8. QED
    BY <1>2, <1>3, <2>5, <2>6, <2>7, IdleType
<1>8. QED
  BY <1>3, <1>5, <1>6, <1>7

-----------------------------------------------------------------------------
(* Steps that change no class, record, wrapper or entry of the table.      *)

Quietly ==
  /\ UNCHANGED <<layers, wraps, recs, reg, clobbered, orphaned>>
  /\ \A u \in Threads :
       /\ th'[u].todo = th[u].todo
       /\ WellFormed(th'[u].orig)
       /\ th'[u].pc \in {"read", "swap"} =>
            \A i \in RegIds : recs[i].expr # th'[u].expr
       /\ th'[u].pc = "swap" =>
            layers[th'[u].obj] = th'[u].orig \/ th'[u].orig = << >>

LEMMA QuietType ==
  ASSUME TypeOK, UNCHANGED <<layers, wraps, recs, reg, clobbered, orphaned>>,
         heap' \in [Objs -> [Attrs -> Values]], lock' \in Threads \cup {NoThread},
         installing' \in Threads \cup {NoThread}, th' \in [Threads -> ThreadState],
         LockInv'
  PROVE  TypeOK'
BY TypeParts, TypePartsPrime

LEMMA QuietParts ==
  ASSUME IInv, Quietly
  PROVE  /\ LayersInv' /\ TableInv' /\ PayloadInv' /\ SwapInv' /\ VisitedInv'
         /\ WrapsInv' /\ KeptInv' /\ OwnedInv' /\ OnceInv' /\ NamedInv'
<1>1. LayersInv' /\ TableInv' /\ SwapInv'
  BY DEF IInv, Quietly, LayersInv, TableInv, SwapInv, RegIds
<1>2. PayloadInv' /\ VisitedInv' /\ WrapsInv'
  BY DEF IInv, Quietly, PayloadInv, VisitedInv, WrapsInv, RegIds
<1>3. KeptInv' /\ OnceInv' /\ NamedInv'
  BY DEF IInv, Quietly, KeptInv, OnceInv, NamedInv, RegIds
<1>4. OwnedInv'
  BY DEF IInv, Quietly, OwnedInv, Owned, RegIds
<1>5. QED
  BY <1>1, <1>2, <1>3, <1>4

LEMMA QuietStep ==
  ASSUME IInv, UNCHANGED <<heap, layers, wraps, recs, reg, clobbered, orphaned>>,
         NEW t \in Threads, NEW s \in ThreadState, th' = [th EXCEPT ![t] = s],
         StateOK(s), s.todo = th[t].todo, s.orig = << >> \/ WellFormed(s.orig),
         s.pc \in {"read", "swap"} => \A i \in RegIds : recs[i].expr # s.expr,
         s.pc = "swap" => layers[s.obj] = s.orig,
         lock' \in Threads \cup {NoThread}, installing' \in Threads \cup {NoThread},
         LockInv'
  PROVE  IInv'
<1>1. TypeOK /\ ThreadsInv /\ RecsKept
  BY DEF IInv, RecsKept
<1>2. /\ th' \in [Threads -> ThreadState] /\ th'[t] = s
      /\ \A u \in Threads \ {t} : th'[u] = th[u]
  BY <1>1, ThreadStep
<1>3. StateOK(s)'
  BY <1>1, StateKept
<1>4. ThreadsInv'
  BY <1>1, <1>2, <1>3, ThreadsKept
<1>5. TypeOK'
  BY <1>1, <1>2, QuietType, TypeParts
<1>6. Quietly
  <2>1. ASSUME NEW u \in Threads
        PROVE  /\ th'[u].todo = th[u].todo
               /\ WellFormed(th'[u].orig)
               /\ th'[u].pc \in {"read", "swap"} =>
                    \A i \in RegIds : recs[i].expr # th'[u].expr
               /\ th'[u].pc = "swap" =>
                    layers[th'[u].obj] = th'[u].orig \/ th'[u].orig = << >>
    <3>1. CASE u = t
      <4>1. WellFormed(<< >>)
        BY DEF WellFormed
      <4>2. QED
        BY <1>2, <3>1, <4>1
    <3>2. CASE u # t
      BY <1>2, <3>2 DEF IInv, LayersInv, TableInv, SwapInv
    <3>3. QED
      BY <3>1, <3>2
  <2>2. QED
    BY <2>1 DEF Quietly
<1>7. QED
  BY <1>4, <1>5, <1>6, QuietParts DEF IInv

LEMMA EnterInv ==
  ASSUME IInv, NEW t \in Threads,
         \/ \E e \in Exprs, o \in Objs : EnterWatch(t, e, o)
         \/ \E e \in Exprs : EnterRemoval(t, "unwatch", e)
         \/ EnterRemoval(t, "clear", NoExpr)
  PROVE  IInv'
<1>1. /\ TypeOK /\ th[t] \in ThreadState /\ StateOK(th[t])
  BY TypeParts DEF IInv, ThreadsInv
<1>2. ASSUME NEW s \in ThreadState, th[t].pc = "idle", s.pc = "lock", s.todo = << >>, s.orig = << >>,
             s.op \in {"watch", "unwatch", "clear"},
             s.op = "watch" => s.obj \in Objs /\ s.expr \in Exprs,
             th' = [th EXCEPT ![t] = s],
             UNCHANGED <<heap, layers, wraps, recs, reg, lock, clobbered, orphaned>>,
             installing' \in Threads \cup {NoThread}
      PROVE  IInv'
  <2>1. StateOK(s) /\ th[t].todo = << >>
    BY <1>1, <1>2 DEF StateOK
  <2>2. LockInv'
    BY <1>1, <1>2, ThreadStep, LockKept DEF Holding
  <2>3. lock' \in Threads \cup {NoThread}
    BY <1>1, <1>2, TypeParts
  <2>4. QED
    BY <1>2, <2>1, <2>2, <2>3, QuietStep
<1>3. ASSUME NEW e \in Exprs, NEW o \in Objs, EnterWatch(t, e, o) PROVE IInv'
  <2>1. PICK s : s = [Idle EXCEPT !.pc = "lock", !.op = "watch", !.expr = e, !.obj = o]
    OBVIOUS
  <2>2. /\ s \in ThreadState /\ s.pc = "lock" /\ s.todo = << >> /\ s.orig = << >>
        /\ s.op = "watch" /\ s.obj = o /\ s.expr = e
    BY <2>1, IdleType DEF ThreadState
  <2>3. /\ th[t].pc = "idle" /\ installing' = t /\ th' = [th EXCEPT ![t] = s]
        /\ UNCHANGED <<heap, layers, wraps, recs, reg, lock, clobbered, orphaned>>
    BY <1>3, <2>1 DEF EnterWatch
  <2>4. QED
    BY <1>2, <2>2, <2>3
<1>4. ASSUME NEW op \in {"unwatch", "clear"}, NEW e \in Exprs \cup {NoExpr},
             EnterRemoval(t, op, e)
      PROVE  IInv'
  <2>1. PICK s : s = [Idle EXCEPT !.pc = "lock", !.op = op, !.expr = e]
    OBVIOUS
  <2>2. /\ s \in ThreadState /\ s.pc = "lock" /\ s.todo = << >> /\ s.orig = << >>
        /\ s.op = op
    BY <2>1, IdleType DEF ThreadState
  <2>3. /\ th[t].pc = "idle" /\ installing' = installing /\ th' = [th EXCEPT ![t] = s]
        /\ UNCHANGED <<heap, layers, wraps, recs, reg, lock, clobbered, orphaned>>
    BY <1>4, <2>1 DEF EnterRemoval
  <2>4. QED
    BY <1>1, <1>2, <2>2, <2>3, TypeParts
<1>5. QED
  BY <1>3, <1>4

LEMMA AcquireInv ==
  ASSUME IInv, NEW t \in Threads, Acquire(t) PROVE IInv'
<1>1. /\ TypeOK /\ th[t] \in ThreadState /\ StateOK(th[t]) /\ LockInv
      /\ th \in [Threads -> ThreadState]
  BY TypeParts DEF IInv, ThreadsInv
<1>2. PICK s : s = [th[t] EXCEPT !.pc = "pop"]
  OBVIOUS
<1>3. /\ s \in ThreadState /\ s.pc = "pop" /\ s.todo = th[t].todo /\ s.orig = th[t].orig
      /\ s.op = th[t].op /\ s.obj = th[t].obj /\ s.expr = th[t].expr
  BY <1>1, <1>2 DEF ThreadState
<1>4. /\ th[t].pc = "lock" /\ lock = NoThread /\ lock' = t /\ installing' = installing
      /\ th' = [th EXCEPT ![t] = s]
      /\ UNCHANGED <<heap, layers, wraps, recs, reg, clobbered, orphaned>>
  BY <1>2 DEF Acquire
<1>5. StateOK(s) /\ s.op # "write"
  BY <1>1, <1>3, <1>4 DEF StateOK
<1>6. th'[t] = s /\ \A u \in Threads \ {t} : th'[u] = th[u]
  BY <1>1, <1>3, <1>4, ThreadStep
<1>7. LockInv'
  <2>1. \A u \in Threads \ {t} : ~ Holding(th[u])
    BY <1>1, <1>4, Numbers DEF LockInv
  <2>2. Holding(s)
    BY <1>3, <1>5 DEF Holding
  <2>3. QED
    BY <1>4, <1>6, <2>1, <2>2 DEF LockInv, Holding
<1>8. WellFormed(s.orig)
  BY <1>3 DEF IInv, LayersInv
<1>9. QED
  BY <1>1, <1>3, <1>4, <1>5, <1>7, <1>8, QuietStep, TypeParts

LEMMA PopNothingInv ==
  ASSUME IInv, NEW t \in Threads, PopNothing(t) PROVE IInv'
<1>1. /\ TypeOK /\ th[t] \in ThreadState /\ StateOK(th[t]) /\ LockInv
      /\ th \in [Threads -> ThreadState]
  BY TypeParts DEF IInv, ThreadsInv
<1>2. PICK pc \in {"read", "exit"} : pc = IF th[t].op = "watch" THEN "read" ELSE "exit"
  OBVIOUS
<1>3. PICK s : s = [th[t] EXCEPT !.pc = pc]
  OBVIOUS
<1>4. /\ s \in ThreadState /\ s.pc = pc /\ s.todo = th[t].todo /\ s.orig = th[t].orig
      /\ s.op = th[t].op /\ s.obj = th[t].obj /\ s.expr = th[t].expr
  BY <1>1, <1>3 DEF ThreadState
<1>5. /\ th[t].pc = "pop" /\ Removable(t) = {} /\ lock' = lock /\ installing' = installing
      /\ th' = [th EXCEPT ![t] = s]
      /\ UNCHANGED <<heap, layers, wraps, recs, reg, clobbered, orphaned>>
  BY <1>2, <1>3 DEF PopNothing
<1>6. StateOK(s)
  BY <1>1, <1>2, <1>4, <1>5 DEF StateOK
<1>7. LockInv'
  BY <1>1, <1>4, <1>5, ThreadStep, LockKept DEF Holding
<1>8. WellFormed(s.orig)
  BY <1>4 DEF IInv, LayersInv
<1>9. \A i \in RegIds : recs[i].expr # s.expr
  BY <1>4, <1>5 DEF Removable, RegIds
<1>10. QED
  BY <1>1, <1>4, <1>5, <1>6, <1>7, <1>8, <1>9, QuietStep, TypeParts

LEMMA ReadInv ==
  ASSUME IInv, NEW t \in Threads, Read(t) PROVE IInv'
<1>1. /\ TypeOK /\ th[t] \in ThreadState /\ StateOK(th[t]) /\ LockInv
      /\ th \in [Threads -> ThreadState] /\ layers \in [Objs -> Seq(Layer)]
      /\ heap \in [Objs -> [Attrs -> Values]]
  BY TypeParts DEF IInv, ThreadsInv
<1>2. PICK o : o = th[t].obj
  OBVIOUS
<1>3. PICK init : init = IF Dotted(th[t].expr) THEN heap[o][Last(th[t].expr)] ELSE Nil
  OBVIOUS
<1>4. PICK s : s = [th[t] EXCEPT !.pc = "swap", !.orig = layers[o], !.init = init]
  OBVIOUS
<1>5. /\ th[t].pc = "read" /\ lock' = lock /\ installing' = installing
      /\ th' = [th EXCEPT ![t] = s]
      /\ UNCHANGED <<heap, layers, wraps, recs, reg, clobbered, orphaned>>
  BY <1>2, <1>3, <1>4 DEF Read
<1>6. th[t].op = "watch" /\ o \in Objs /\ th[t].expr \in Exprs /\ th[t].todo = << >>
  BY <1>1, <1>2, <1>5 DEF StateOK
<1>7. init \in Values
  <2>1. Dotted(th[t].expr) => Last(th[t].expr) \in Attrs
    BY <1>6, AttrAssumption DEF AttrAssumption
  <2>2. QED
    BY <1>1, <1>3, <1>6, <2>1 DEF Values
<1>8. /\ s \in ThreadState /\ s.pc = "swap" /\ s.todo = th[t].todo /\ s.orig = layers[o]
      /\ s.op = th[t].op /\ s.obj = o /\ s.expr = th[t].expr
  BY <1>1, <1>2, <1>4, <1>6, <1>7 DEF ThreadState
<1>9. StateOK(s)
  BY <1>6, <1>8 DEF StateOK
<1>10. LockInv'
  BY <1>1, <1>5, <1>8, ThreadStep, LockKept DEF Holding
<1>11. WellFormed(s.orig) /\ \A i \in RegIds : recs[i].expr # s.expr
  BY <1>5, <1>6, <1>8 DEF IInv, LayersInv, TableInv
<1>12. QED
  BY <1>1, <1>5, <1>8, <1>9, <1>10, <1>11, QuietStep, TypeParts

LEMMA ExitInv ==
  ASSUME IInv, NEW t \in Threads, Exit(t) PROVE IInv'
<1>1. /\ TypeOK /\ th[t] \in ThreadState /\ StateOK(th[t]) /\ LockInv
      /\ th \in [Threads -> ThreadState] /\ lock \in Threads \cup {NoThread}
  BY TypeParts DEF IInv, ThreadsInv
<1>2. /\ th[t].pc = "exit" /\ lock' = NoThread /\ installing' \in {installing, NoThread}
      /\ th' = [th EXCEPT ![t] = Idle]
      /\ UNCHANGED <<heap, layers, wraps, recs, reg, clobbered, orphaned>>
  BY DEF Exit
<1>3. StateOK(Idle) /\ th[t].todo = << >>
  BY <1>1, <1>2, IdleType DEF StateOK
<1>4. th'[t] = Idle /\ \A u \in Threads \ {t} : th'[u] = th[u]
  BY <1>1, <1>2, IdleType, ThreadStep
<1>5. th[t].op # "write"
  BY <1>1, <1>2 DEF StateOK
<1>6. LockInv'
  <2>1. Holding(th[t]) /\ ~ Holding(Idle)
    BY <1>2, <1>5, IdleType DEF Holding
  <2>2. lock = t
    BY <1>1, <2>1 DEF LockInv
  <2>3. QED
    BY <1>1, <1>2, <1>4, <2>1, <2>2, Numbers DEF LockInv, Holding
<1>7. QED
  BY <1>1, <1>2, <1>3, <1>6, IdleType, QuietStep, TypeParts

LEMMA WalkSkipInv ==
  ASSUME IInv, NEW t \in Threads, WalkSkip(t) PROVE IInv'
<1>1. /\ TypeOK /\ ThreadsInv /\ th[t] \in ThreadState /\ StateOK(th[t])
  BY TypeParts DEF IInv, ThreadsInv
<1>2. /\ th[t].pc = "walk" /\ WalkOn(t, Tail(th[t].work)) /\ lock' = lock
      /\ UNCHANGED <<heap, layers, wraps, recs, reg, installing, clobbered, orphaned>>
  BY DEF WalkSkip
<1>3. RecsKept
  BY <1>2 DEF RecsKept
<1>4. PICK q : q = Tail(th[t].work)
  OBVIOUS
<1>5. q \in Seq(Item) /\ \A k \in DOMAIN q : IsPrefix(recs[th[t].rec].expr, q[k].path)
  <2>1. th[t].work \in Seq(Item) /\ th[t].work # << >>
    BY <1>1, <1>2 DEF StateOK, ThreadState
  <2>2. q \in Seq(Item) /\ From(q, th[t].work)
    BY <1>4, <2>1, TailType
  <2>3. QED
    BY <1>1, <1>2, <2>2 DEF From, StateOK
<1>6. /\ th' \in [Threads -> ThreadState] /\ ThreadsInv' /\ LockInv'
      /\ \A u \in Threads \ {t} : th'[u] = th[u]
      /\ th'[t].todo = th[t].todo /\ th'[t].orig \in {th[t].orig, << >>}
      /\ th'[t].pc \in {"walk", "exit", "idle"}
  BY <1>1, <1>2, <1>3, <1>4, <1>5, WalkOnEffect
<1>7. TypeOK'
  BY <1>1, <1>2, <1>6, QuietType, TypeParts
<1>8. Quietly
  <2>1. WellFormed(<< >>)
    BY DEF WellFormed
  <2>2. QED
    BY <1>2, <1>6, <2>1 DEF Quietly, IInv, LayersInv, TableInv, SwapInv
<1>9. QED
  BY <1>6, <1>7, <1>8, QuietParts DEF IInv

\* Only the heap may change.
LEMMA HeapInv ==
  ASSUME IInv, heap' \in [Objs -> [Attrs -> Values]],
         UNCHANGED <<layers, wraps, recs, reg, lock, installing, th, clobbered, orphaned>>
  PROVE  IInv'
<1>1. TypeOK'
  BY QuietType, TypeParts DEF IInv, LockInv
<1>2. ThreadsInv'
  BY DEF IInv, ThreadsInv, StateOK
<1>3. Quietly
  BY DEF Quietly, IInv, LayersInv, TableInv, SwapInv
<1>4. QED
  BY <1>1, <1>2, <1>3, QuietParts DEF IInv

LEMMA WrapRange == TypeOK => DOMAIN wraps \subseteq Wraps
<1> SUFFICES ASSUME TypeOK PROVE DOMAIN wraps \subseteq Wraps
  OBVIOUS
<1>1. /\ Len(wraps) \in Nat /\ DOMAIN wraps = 1 .. Len(wraps) /\ Len(wraps) <= MaxWraps
  BY TypeParts, LenProperties
<1>2. QED
  BY <1>1, Numbers DEF Wraps

\* A cell of the heap is written.
LEMMA HeapWrite ==
  ASSUME TypeOK, NEW o \in Objs, NEW a, NEW v \in Values,
         heap' = [heap EXCEPT ![o][a] = v]
  PROVE  heap' \in [Objs -> [Attrs -> Values]]
<1>1. heap \in [Objs -> [Attrs -> Values]]
  BY TypeParts
<1>2. PICK row : row = [heap[o] EXCEPT ![a] = v]
  OBVIOUS
<1>3. row \in [Attrs -> Values]
  BY <1>1, <1>2
<1>4. heap' = [heap EXCEPT ![o] = row]
  BY <1>2
<1>5. QED
  BY <1>1, <1>3, <1>4

LEMMA WriteValueInv ==
  ASSUME IInv, NEW t \in Threads, NEW o \in Objs, NEW a \in Attrs,
         NEW v \in Scalars \cup {Nil, Plain} \cup Objs \cup DOMAIN wraps,
         WriteValue(t, o, a, v)
  PROVE  IInv'
<1>1. TypeOK
  BY DEF IInv
<1>2. /\ heap' = [heap EXCEPT ![o][a] = v]
      /\ UNCHANGED <<layers, wraps, recs, reg, lock, installing, th, clobbered, orphaned>>
  BY DEF WriteValue, Writes
<1>3. v \in Values
  BY <1>1, WrapRange DEF Values
<1>4. QED
  BY <1>1, <1>2, <1>3, HeapWrite, HeapInv

LEMMA MutateInv ==
  ASSUME IInv, NEW t \in Threads, NEW w \in Wraps, Mutate(t, w) PROVE IInv'
<1>1. UNCHANGED <<heap, layers, wraps, recs, reg, lock, installing, th, clobbered,
                  orphaned>>
  BY DEF Mutate
<1>2. QED
  BY <1>1, HeapInv, TypeParts DEF IInv

-----------------------------------------------------------------------------
(* A wrapper is made, and a watch may record it.                           *)

SameClass(p, q) == p.obj = q.obj /\ p.orig = q.orig /\ p.cls = q.cls

\* The threads go on as far as the table and the classes are concerned.
Calm ==
  \A u \in Threads :
    /\ th'[u].todo = th[u].todo
    /\ WellFormed(th'[u].orig)
    /\ th'[u].pc \in {"read", "swap"} => th'[u] = th[u]

LEMMA CalmStep ==
  ASSUME IInv, NEW t \in Threads, \A u \in Threads \ {t} : th'[u] = th[u],
         th'[t].todo = th[t].todo, th'[t].orig \in {th[t].orig, << >>},
         th'[t].pc \notin {"read", "swap"}
  PROVE  Calm
<1>1. WellFormed(<< >>)
  BY DEF WellFormed
<1>2. QED
  BY <1>1 DEF Calm, IInv, LayersInv

\* Record r becomes s: wrapper w is recorded, or takes the place of another.
WrapRec(r, s, w) ==
  /\ s.expr = r.expr /\ s.visited = r.visited
  /\ SameClass(s.own, r.own) /\ s.own.wrapper \in {r.own.wrapper, w}
  /\ \/ s.subs = r.subs
     \/ \E p \in Payload : /\ s.subs = Append(r.subs, p)
                           /\ ~ Classed(p) /\ p.orig = << >> /\ p.wrapper = w

\* What recording a sub-watch does to the positions of the others.
LEMMA AppendedSubs ==
  ASSUME NEW r \in Rec, NEW s \in Rec, NEW p \in Payload, s.subs = Append(r.subs, p)
  PROVE  /\ Len(r.subs) \in Nat /\ DOMAIN r.subs = 1 .. Len(r.subs)
         /\ DOMAIN s.subs = 1 .. Len(r.subs) + 1
         /\ \A k \in DOMAIN r.subs : s.subs[k] = r.subs[k]
         /\ s.subs[Len(r.subs) + 1] = p
         /\ \A k \in DOMAIN s.subs : k \in DOMAIN r.subs \/ s.subs[k] = p
<1>1. r.subs \in Seq(Payload) /\ s.subs \in Seq(Payload)
  BY DEF Rec
<1>2. PICK q : q = s.subs
  OBVIOUS
<1>3. /\ Len(q) = Len(r.subs) + 1
      /\ \A k \in 1 .. Len(r.subs) : q[k] = r.subs[k]
      /\ q[Len(r.subs) + 1] = p
  BY <1>1, <1>2, AppendProperties
<1>4. Len(r.subs) \in Nat /\ DOMAIN r.subs = 1 .. Len(r.subs) /\ DOMAIN q = 1 .. Len(q)
  BY <1>1, <1>2, LenProperties
<1>5. \A k \in DOMAIN q : k \in DOMAIN r.subs \/ q[k] = p
  BY <1>3, <1>4
<1>6. QED
  BY <1>2, <1>3, <1>4, <1>5

LEMMA WrapRecPayloads ==
  ASSUME NEW r \in Rec, NEW s \in Rec, NEW w, WrapRec(r, s, w)
  PROVE  /\ \A p \in PayloadsOf(s) :
              \/ \E q \in PayloadsOf(r) : SameClass(p, q) /\ p.wrapper \in {q.wrapper, w}
              \/ ~ Classed(p) /\ p.orig = << >> /\ p.wrapper = w
         /\ \A q \in PayloadsOf(r) : \E p \in PayloadsOf(s) : SameClass(p, q)
<1>1. CASE s.subs = r.subs
  BY <1>1 DEF WrapRec, PayloadsOf, SameClass
<1>2. ASSUME NEW n \in Payload, s.subs = Append(r.subs, n), ~ Classed(n),
             n.orig = << >>, n.wrapper = w
      PROVE  /\ \A p \in PayloadsOf(s) :
                  \/ \E q \in PayloadsOf(r) : SameClass(p, q) /\ p.wrapper \in {q.wrapper, w}
                  \/ ~ Classed(p) /\ p.orig = << >> /\ p.wrapper = w
             /\ \A q \in PayloadsOf(r) : \E p \in PayloadsOf(s) : SameClass(p, q)
  <2>1. /\ \A k \in DOMAIN r.subs : k \in DOMAIN s.subs /\ s.subs[k] = r.subs[k]
        /\ \A k \in DOMAIN s.subs : k \in DOMAIN r.subs \/ s.subs[k] = n
    BY <1>2, AppendedSubs
  <2>2. SameClass(s.own, r.own) /\ s.own.wrapper \in {r.own.wrapper, w}
    BY DEF WrapRec
  <2>3. QED
    BY <1>2, <2>1, <2>2 DEF PayloadsOf, SameClass
<1>3. QED
  BY <1>1, <1>2 DEF WrapRec

\* What a recorded wrapper leaves as it is.
LEMMA WrapRecOnce ==
  ASSUME NEW r \in Rec, NEW s \in Rec, NEW w, WrapRec(r, s, w)
  PROVE  /\ (\A j, k \in DOMAIN r.subs : j # k => Apart(r.subs[j], r.subs[k])) =>
              \A j, k \in DOMAIN s.subs : j # k => Apart(s.subs[j], s.subs[k])
         /\ (\A k \in DOMAIN r.subs : Apart(r.subs[k], r.own)) =>
              \A k \in DOMAIN s.subs : Apart(s.subs[k], s.own)
         /\ (\A k \in DOMAIN r.subs : ~ Classed(r.subs[k])) =>
              \A k \in DOMAIN s.subs : ~ Classed(s.subs[k])
<1>1. s.own.obj = r.own.obj /\ s.own.cls = r.own.cls
  BY DEF WrapRec, SameClass
<1>2. CASE s.subs = r.subs
  BY <1>1, <1>2 DEF Apart, Classed
<1>3. ASSUME NEW n \in Payload, s.subs = Append(r.subs, n), ~ Classed(n)
      PROVE  /\ (\A j, k \in DOMAIN r.subs : j # k => Apart(r.subs[j], r.subs[k])) =>
                  \A j, k \in DOMAIN s.subs : j # k => Apart(s.subs[j], s.subs[k])
             /\ (\A k \in DOMAIN r.subs : Apart(r.subs[k], r.own)) =>
                  \A k \in DOMAIN s.subs : Apart(s.subs[k], s.own)
             /\ (\A k \in DOMAIN r.subs : ~ Classed(r.subs[k])) =>
                  \A k \in DOMAIN s.subs : ~ Classed(s.subs[k])
  <2>1. /\ \A k \in DOMAIN r.subs : s.subs[k] = r.subs[k]
        /\ \A k \in DOMAIN s.subs : k \in DOMAIN r.subs \/ s.subs[k] = n
    BY <1>3, AppendedSubs
  <2>2. \A k \in DOMAIN s.subs : s.subs[k] = n => ~ Classed(s.subs[k])
    BY <1>3
  <2>3. QED
    BY <1>1, <2>1, <2>2 DEF Apart, Classed
<1>4. QED
  BY <1>2, <1>3 DEF WrapRec

\* A wrapper of that name is made, and recorded by watch i at most.
WrapMade(i, name) ==
  /\ wraps' = Append(wraps, name) /\ name \in Seq(STRING) /\ name # NoExpr
  /\ recs' \in Seq(Rec) /\ DOMAIN recs' = DOMAIN recs
  /\ \A j \in DOMAIN recs :
       \/ recs'[j] = recs[j]
       \/ /\ j = i /\ IsPrefix(recs[j].expr, name)
          /\ WrapRec(recs[j], recs'[j], Len(wraps) + 1)

LEMMA WrapParts ==
  ASSUME IInv, Calm, NEW i, NEW name, WrapMade(i, name),
         UNCHANGED <<layers, reg, clobbered, orphaned>>
  PROVE  /\ LayersInv' /\ TableInv' /\ PayloadInv' /\ SwapInv' /\ VisitedInv'
         /\ WrapsInv' /\ KeptInv' /\ OwnedInv' /\ OnceInv' /\ NamedInv'
<1> DEFINE w == Len(wraps) + 1
<1> USE DEF WrapMade
<1>1. /\ recs \in Seq(Rec) /\ wraps \in Seq(Seq(STRING)) /\ Len(wraps) \in Nat
      /\ RegIds \subseteq DOMAIN recs /\ RegIds' = RegIds
      /\ \A j \in DOMAIN recs : recs[j] \in Rec /\ recs'[j] \in Rec
  <2>1. recs \in Seq(Rec) /\ wraps \in Seq(Seq(STRING)) /\ reg \in Seq(DOMAIN recs)
    BY TypeParts DEF IInv
  <2>2. Len(wraps) \in Nat /\ \A j \in DOMAIN recs : recs[j] \in Rec
    BY <2>1, LenProperties, ElementOfSeq
  <2>3. \A j \in DOMAIN recs : recs'[j] \in Rec
    BY LenProperties, ElementOfSeq
  <2>4. RegIds \subseteq DOMAIN recs
    BY <2>1, LenProperties, ElementOfSeq DEF RegIds
  <2>5. QED
    BY <2>1, <2>2, <2>3, <2>4 DEF RegIds
<1>2. \A j \in DOMAIN recs : /\ recs'[j].expr = recs[j].expr
                             /\ recs'[j].visited = recs[j].visited
  BY DEF WrapRec
<1>3. ASSUME NEW j \in DOMAIN recs, NEW p \in PayloadsOf(recs'[j])
      PROVE  \/ \E q \in PayloadsOf(recs[j]) :
                  /\ SameClass(p, q)
                  /\ p.wrapper = q.wrapper
                       \/ (p.wrapper = w /\ j = i /\ IsPrefix(recs[j].expr, name))
             \/ /\ ~ Classed(p) /\ p.orig = << >>
                /\ p.wrapper = w /\ j = i /\ IsPrefix(recs[j].expr, name)
  <2>1. CASE recs'[j] = recs[j]
    BY <2>1 DEF SameClass
  <2>2. CASE recs'[j] # recs[j]
    <3>1. /\ j = i /\ IsPrefix(recs[j].expr, name) /\ WrapRec(recs[j], recs'[j], w)
      BY <2>2
    <3> HIDE DEF w
    <3>2. QED
      BY <1>1, <3>1, WrapRecPayloads
  <2>3. QED
    BY <2>1, <2>2
<1>4. ASSUME NEW j \in DOMAIN recs, NEW q \in PayloadsOf(recs[j])
      PROVE  \E p \in PayloadsOf(recs'[j]) : SameClass(p, q)
  <2>1. CASE recs'[j] = recs[j]
    BY <2>1 DEF SameClass
  <2>2. CASE recs'[j] # recs[j]
    BY <1>1, <2>2, WrapRecPayloads
  <2>3. QED
    BY <2>1, <2>2
<1>5. PICK n \in Nat : n = w
  BY <1>1
<1>6. /\ wraps'[n] = name /\ Len(wraps') = n
      /\ \A k \in 1 .. Len(wraps) : wraps'[k] = wraps[k]
  <2>1. PICK q : q = wraps'
    OBVIOUS
  <2>2. Len(q) = Len(wraps) + 1 /\ q[Len(wraps) + 1] = name
        /\ \A k \in 1 .. Len(wraps) : q[k] = wraps[k]
    BY <1>1, <2>1, AppendProperties
  <2>3. QED
    BY <1>5, <2>1, <2>2
<1>7. n = Len(wraps) + 1
  BY <1>5
<1> HIDE DEF w
<1>8. LayersInv'
  <2>1. ASSUME NEW j \in DOMAIN recs, NEW p \in PayloadsOf(recs'[j])
        PROVE  WellFormed(p.orig)
    <3>1. p.orig = << >> \/ \E q \in PayloadsOf(recs[j]) : p.orig = q.orig
      BY <1>3 DEF SameClass
    <3>2. WellFormed(<< >>)
      BY DEF WellFormed
    <3>3. QED
      BY <3>1, <3>2 DEF IInv, LayersInv
  <2>2. QED
    BY <2>1 DEF IInv, LayersInv, Calm
<1>9. TableInv' /\ SwapInv'
  <2>1. \A k \in DOMAIN reg : reg[k] \in DOMAIN recs
    BY <1>1 DEF RegIds
  <2>2. \A j, k \in DOMAIN reg' : j # k => recs'[reg'[j]].expr # recs'[reg'[k]].expr
    BY <1>2, <2>1 DEF IInv, TableInv
  <2>3. ASSUME NEW u \in Threads, th'[u].pc \in {"read", "swap"}, NEW j \in RegIds
        PROVE  recs'[j].expr # th'[u].expr
    BY <1>1, <1>2, <2>3 DEF IInv, TableInv, Calm
  <2>4. SwapInv'
    <3>1. ASSUME NEW u \in Threads, th'[u].pc = "swap"
          PROVE  layers'[th'[u].obj] = th'[u].orig \/ th'[u].orig = << >>
      <4>1. th'[u] = th[u]
        BY <3>1 DEF Calm
      <4>2. QED
        BY <3>1, <4>1 DEF IInv, SwapInv
    <3>2. QED
      BY <3>1 DEF SwapInv
  <2>5. TableInv'
    BY <1>1, <2>2, <2>3 DEF TableInv
  <2>6. QED
    BY <2>4, <2>5
<1>10. PayloadInv'
  <2>1. ASSUME NEW j \in DOMAIN recs, NEW p \in PayloadsOf(recs'[j])
        PROVE  Extends(p) /\ (Classed(p) => Last(p.cls).root = recs'[j].expr)
    <3>1. CASE ~ Classed(p)
      BY <3>1 DEF Extends
    <3>2. CASE Classed(p)
      <4>1. PICK q \in PayloadsOf(recs[j]) : SameClass(p, q)
        BY <1>3, <3>2
      <4>2. /\ q.cls = p.cls /\ q.orig = p.orig
            /\ Extends(q) /\ (Classed(q) => Last(q.cls).root = recs[j].expr)
        BY <4>1 DEF SameClass, IInv, PayloadInv
      <4>3. QED
        BY <1>2, <4>2 DEF Extends, Classed
    <3>3. QED
      BY <3>1, <3>2
  <2>2. ASSUME NEW u \in Threads, NEW k \in DOMAIN th'[u].todo
        PROVE  /\ Extends(th'[u].todo[k])
               /\ Classed(th'[u].todo[k]) =>
                    \A j \in RegIds : Last(th'[u].todo[k].cls).root # recs'[j].expr
    <3>1. th'[u].todo = th[u].todo
      BY DEF Calm
    <3>2. QED
      BY <1>1, <1>2, <2>2, <3>1 DEF IInv, PayloadInv
  <2>3. QED
    BY <1>1, <2>1, <2>2 DEF PayloadInv
<1>11. VisitedInv'
  <2>1. ASSUME NEW j \in DOMAIN recs
        PROVE  /\ ~ Dotted(recs'[j].expr) =>
                    \A p \in PayloadsOf(recs'[j]) :
                      Classed(p) /\ p.obj # NoObj => p.obj \in recs'[j].visited
               /\ Dotted(recs'[j].expr) =>
                    \A k \in DOMAIN recs'[j].subs : ~ Classed(recs'[j].subs[k])
    <3>1. ASSUME ~ Dotted(recs[j].expr), NEW p \in PayloadsOf(recs'[j]), Classed(p),
                 p.obj # NoObj
          PROVE  p.obj \in recs[j].visited
      BY <1>3, <3>1 DEF SameClass, Classed, IInv, VisitedInv
    <3>2. ASSUME Dotted(recs[j].expr)
          PROVE  \A k \in DOMAIN recs'[j].subs : ~ Classed(recs'[j].subs[k])
      <4>1. \A k \in DOMAIN recs[j].subs : ~ Classed(recs[j].subs[k])
        BY <3>2 DEF IInv, VisitedInv
      <4>2. QED
        BY <1>1, <4>1, WrapRecOnce
    <3>3. QED
      BY <1>2, <3>1, <3>2
  <2>2. QED
    BY <2>1 DEF VisitedInv
<1>12. WrapsInv'
  <2>1. ASSUME NEW j \in DOMAIN recs, NEW p \in PayloadsOf(recs'[j])
        PROVE  \/ p.wrapper = n /\ j = i
               \/ /\ p.wrapper \in Nat /\ p.wrapper <= Len(wraps)
                  /\ \E q \in PayloadsOf(recs[j]) : q.wrapper = p.wrapper
    <3>1. \A q \in PayloadsOf(recs[j]) : q.wrapper \in Nat /\ q.wrapper <= Len(wraps)
      <4>1. \A q \in PayloadsOf(recs[j]) : q \in Payload
        <5>1. recs[j].subs \in Seq(Payload) /\ recs[j].own \in Payload
          BY <1>1 DEF Rec
        <5>2. QED
          BY <5>1, LenProperties, ElementOfSeq DEF PayloadsOf
      <4>2. QED
        BY <4>1, Numbers DEF IInv, WrapsInv, Payload, Wraps, NoWrap
    <3>2. QED
      BY <1>3, <1>5, <3>1
  <2>2. \A t \in Threads : \A k \in DOMAIN th[t].todo :
           th[t].todo[k].wrapper <= Len(wraps) /\ th[t].todo[k].wrapper \in Nat
    <3>1. ASSUME NEW t \in Threads, NEW k \in DOMAIN th[t].todo
          PROVE  th[t].todo[k].wrapper \in Nat
      <4>1. th[t].todo[k] \in Payload
        <5>1. th[t].todo \in Seq(Payload)
          BY TypeParts DEF IInv, ThreadState
        <5>2. QED
          BY <5>1, <3>1, LenProperties, ElementOfSeq
      <4>2. QED
        BY <4>1, Numbers DEF Payload, Wraps, NoWrap
    <3>2. QED
      BY <3>1 DEF IInv, WrapsInv
  <2>3. \A j \in DOMAIN recs : \A p \in PayloadsOf(recs'[j]) : p.wrapper <= n
    BY <1>1, <1>7, <2>1
  <2>4. ASSUME NEW t \in Threads, NEW k \in DOMAIN th[t].todo
        PROVE  th[t].todo[k].wrapper <= n
    BY <1>1, <1>7, <2>2
  <2>5. ASSUME NEW j \in DOMAIN recs, NEW k \in DOMAIN recs, j # k,
               NEW p \in PayloadsOf(recs'[j]), NEW q \in PayloadsOf(recs'[k]),
               p.wrapper # NoWrap
        PROVE  p.wrapper # q.wrapper
    <3>1. CASE p.wrapper = n /\ j = i
      <4>1. q.wrapper \in Nat /\ q.wrapper <= Len(wraps)
        BY <2>1, <2>5, <3>1
      <4>2. QED
        BY <1>1, <1>7, <3>1, <4>1
    <3>2. CASE q.wrapper = n /\ k = i
      <4>1. p.wrapper \in Nat /\ p.wrapper <= Len(wraps)
        BY <2>1, <2>5, <3>2
      <4>2. QED
        BY <1>1, <1>7, <3>2, <4>1
    <3>3. CASE ~ (p.wrapper = n /\ j = i) /\ ~ (q.wrapper = n /\ k = i)
      <4>1. /\ \E x \in PayloadsOf(recs[j]) : x.wrapper = p.wrapper
            /\ \E y \in PayloadsOf(recs[k]) : y.wrapper = q.wrapper
        BY <2>1, <3>3
      <4>2. QED
        BY <2>5, <4>1 DEF IInv, WrapsInv
    <3>4. QED
      BY <3>1, <3>2, <3>3
  <2>6. ASSUME NEW t \in Threads, NEW k \in DOMAIN th[t].todo, NEW j \in RegIds,
               NEW p \in PayloadsOf(recs'[j]), p.wrapper # NoWrap
        PROVE  p.wrapper # th[t].todo[k].wrapper
    <3>1. CASE p.wrapper = n
      BY <1>1, <1>7, <2>2, <3>1
    <3>2. CASE p.wrapper # n
      <4>1. \E x \in PayloadsOf(recs[j]) : x.wrapper = p.wrapper
        BY <1>1, <2>1, <3>2
      <4>2. QED
        BY <2>6, <4>1 DEF IInv, WrapsInv
    <3>3. QED
      BY <3>1, <3>2
  <2>7. \A t \in Threads : th'[t].todo = th[t].todo
    BY DEF Calm
  <2>8. /\ \A j \in DOMAIN recs' : \A p \in PayloadsOf(recs'[j]) : p.wrapper <= Len(wraps')
        /\ \A t \in Threads : \A k \in DOMAIN th'[t].todo :
             th'[t].todo[k].wrapper <= Len(wraps')
    BY <1>6, <2>3, <2>4, <2>7
  <2>9. /\ \A j, k \in DOMAIN recs' : j # k =>
             \A p \in PayloadsOf(recs'[j]), q \in PayloadsOf(recs'[k]) :
               p.wrapper # NoWrap => p.wrapper # q.wrapper
        /\ \A t \in Threads : \A k \in DOMAIN th'[t].todo : \A j \in RegIds' :
             \A p \in PayloadsOf(recs'[j]) :
               p.wrapper # NoWrap => p.wrapper # th'[t].todo[k].wrapper
    <3>1. \A j, k \in DOMAIN recs' : j # k =>
            \A p \in PayloadsOf(recs'[j]), q \in PayloadsOf(recs'[k]) :
              p.wrapper # NoWrap => p.wrapper # q.wrapper
      BY <2>5
    <3>2. ASSUME NEW t \in Threads, NEW k \in DOMAIN th'[t].todo, NEW j \in RegIds',
                 NEW p \in PayloadsOf(recs'[j]), p.wrapper # NoWrap
          PROVE  p.wrapper # th'[t].todo[k].wrapper
      BY <1>1, <2>6, <2>7, <3>2
    <3>3. QED
      BY <3>1, <3>2
  <2>10. QED
    BY <2>8, <2>9 DEF WrapsInv
<1>13. KeptInv'
  <2>1. ASSUME NEW j \in RegIds, NEW p \in PayloadsOf(recs'[j]), p.obj # NoObj,
               p.obj \notin clobbered
        PROVE  IsPrefix(p.cls, layers[p.obj])
    <3>1. CASE \E q \in PayloadsOf(recs[j]) : SameClass(p, q)
      BY <2>1, <3>1 DEF SameClass, IInv, KeptInv
    <3>2. CASE ~ Classed(p)
      <4>1. Len(<< >>) = 0 /\ SubSeq(<< >>, 1, 0) = << >>
        BY SubSeqEmpty
      <4>2. SubSeq(layers[p.obj], 1, 0) = << >>
        BY SubSeqEmpty
      <4>3. Len(layers[p.obj]) \in Nat
        <5>1. p \in Payload
          <6>1. recs'[j].subs \in Seq(Payload) /\ recs'[j].own \in Payload
            BY <1>1 DEF Rec
          <6>2. QED
            BY <6>1, LenProperties, ElementOfSeq DEF PayloadsOf
        <5>2. layers[p.obj] \in Seq(Layer)
          BY <2>1, <5>1, TypeParts DEF IInv, Payload
        <5>3. QED
          BY <5>2, LenProperties
      <4>4. QED
        BY <3>2, <4>1, <4>2, <4>3 DEF Classed, IsPrefix
    <3>3. QED
      BY <1>1, <1>3, <3>1, <3>2
  <2>2. QED
    BY <1>1, <2>1 DEF KeptInv
<1>14. OwnedInv'
  <2>1. ASSUME NEW o, NEW cls, Owned(o, cls)
        PROVE  \/ \E j \in RegIds : \E p \in PayloadsOf(recs'[j]) : Owner(p, o, cls)
               \/ \E t \in Threads : \E k \in DOMAIN th'[t].todo : Owner(th'[t].todo[k], o, cls)
    <3>1. CASE \E j \in RegIds : \E q \in PayloadsOf(recs[j]) : Owner(q, o, cls)
      BY <1>1, <1>4, <3>1 DEF Owner, SameClass
    <3>2. CASE \E t \in Threads : \E k \in DOMAIN th[t].todo : Owner(th[t].todo[k], o, cls)
      BY <3>2 DEF Calm
    <3>3. QED
      BY <2>1, <3>1, <3>2 DEF Owned
  <2>2. \A o \in Objs \ orphaned : \A k \in DOMAIN layers[o] : Owned(o, SubSeq(layers[o], 1, k))
    BY DEF IInv, OwnedInv
  <2>3. QED
    BY <1>1, <2>1, <2>2 DEF OwnedInv, Owned
<1>15. OnceInv'
  <2>1. ASSUME NEW j \in DOMAIN recs
        PROVE  /\ \A k, m \in DOMAIN recs'[j].subs :
                    k # m => Apart(recs'[j].subs[k], recs'[j].subs[m])
               /\ \A k \in DOMAIN recs'[j].subs : Apart(recs'[j].subs[k], recs'[j].own)
    <3>1. /\ \A k, m \in DOMAIN recs[j].subs :
               k # m => Apart(recs[j].subs[k], recs[j].subs[m])
          /\ \A k \in DOMAIN recs[j].subs : Apart(recs[j].subs[k], recs[j].own)
      BY DEF IInv, OnceInv
    <3>2. CASE recs'[j] = recs[j]
      BY <3>1, <3>2
    <3>3. CASE recs'[j] # recs[j]
      BY <1>1, <3>1, <3>3, WrapRecOnce
    <3>4. QED
      BY <3>2, <3>3
  <2>2. QED
    BY <2>1 DEF OnceInv
<1>16. NamedInv'
  <2>1. ASSUME NEW j \in RegIds, NEW p \in PayloadsOf(recs'[j]), p.wrapper # NoWrap
        PROVE  wraps'[p.wrapper] # NoExpr /\ IsPrefix(recs[j].expr, wraps'[p.wrapper])
    <3>1. CASE p.wrapper = n /\ IsPrefix(recs[j].expr, name)
      BY <1>6, <3>1
    <3>2. CASE \E q \in PayloadsOf(recs[j]) : p.wrapper = q.wrapper
      <4>1. wraps[p.wrapper] # NoExpr /\ IsPrefix(recs[j].expr, wraps[p.wrapper])
        BY <2>1, <3>2 DEF IInv, NamedInv
      <4>2. p.wrapper \in 1 .. Len(wraps)
        <5>1. p \in Payload
          <6>1. recs'[j].subs \in Seq(Payload) /\ recs'[j].own \in Payload
            BY <1>1 DEF Rec
          <6>2. QED
            BY <6>1, LenProperties, ElementOfSeq DEF PayloadsOf
        <5>2. p.wrapper <= Len(wraps)
          BY <1>1, <3>2 DEF IInv, WrapsInv
        <5>3. p.wrapper \in Wraps
          BY <2>1, <5>1 DEF Payload
        <5>4. QED
          BY <1>1, <5>2, <5>3, Numbers DEF Wraps
      <4>3. QED
        BY <1>6, <4>1, <4>2
    <3>3. QED
      BY <1>1, <1>3, <1>5, <3>1, <3>2
  <2>2. QED
    BY <1>1, <1>2, <2>1 DEF NamedInv
<1>17. QED
  BY <1>8, <1>9, <1>10, <1>11, <1>12, <1>13, <1>14, <1>15, <1>16

LEMMA PrefixNotEmpty ==
  ASSUME NEW S, NEW s \in Seq(S), NEW q \in Seq(S), IsPrefix(s, q), s # << >>
  PROVE  q # << >>
<1>1. Len(s) \in Nat /\ Len(q) \in Nat /\ Len(s) <= Len(q) /\ Len(s) # 0
  BY LenProperties, PrefixByPosition, EmptySeq
<1>2. QED
  BY <1>1

\* What is recorded is typed.
LEMMA PayloadTypes ==
  /\ \A r \in Rec : \A p \in PayloadsOf(r) : p \in Payload
  /\ \A p \in Payload : p.wrapper \in Nat /\ p.orig \in Seq(Layer) /\ p.cls \in Seq(Layer)
<1>1. ASSUME NEW r \in Rec, NEW p \in PayloadsOf(r) PROVE p \in Payload
  <2>1. r.subs \in Seq(Payload) /\ r.own \in Payload
    BY DEF Rec
  <2>2. QED
    BY <2>1, LenProperties, ElementOfSeq DEF PayloadsOf
<1>2. \A p \in Payload : p.wrapper \in Nat /\ p.orig \in Seq(Layer) /\ p.cls \in Seq(Layer)
  BY Numbers DEF Payload, Wraps, NoWrap
<1>3. QED
  BY <1>1, <1>2

LEMMA StoredTypes ==
  ASSUME TypeOK
  PROVE  /\ \A i \in DOMAIN recs : recs[i] \in Rec /\ recs[i].expr \in Exprs
         /\ \A i \in DOMAIN recs : \A p \in PayloadsOf(recs[i]) : p \in Payload
         /\ \A t \in Threads : \A k \in DOMAIN th[t].todo : th[t].todo[k] \in Payload
         /\ RegIds \subseteq DOMAIN recs
         /\ \A k \in DOMAIN reg : reg[k] \in DOMAIN recs
         /\ \A o \in Objs : layers[o] \in Seq(Layer)
         /\ \A o \in Objs : \A n \in DOMAIN layers[o] : layers[o][n] \in Layer
<1>1. /\ recs \in Seq(Rec) /\ reg \in Seq(DOMAIN recs) /\ layers \in [Objs -> Seq(Layer)]
      /\ th \in [Threads -> ThreadState]
  BY TypeParts
<1>2. \A i \in DOMAIN recs : recs[i] \in Rec /\ recs[i].expr \in Exprs
  <2>1. \A i \in DOMAIN recs : recs[i] \in Rec
    BY <1>1, LenProperties, ElementOfSeq
  <2>2. QED
    BY <2>1 DEF Rec
<1>3. ASSUME NEW t \in Threads, NEW k \in DOMAIN th[t].todo PROVE th[t].todo[k] \in Payload
  <2>1. th[t].todo \in Seq(Payload)
    BY <1>1 DEF ThreadState
  <2>2. QED
    BY <2>1, LenProperties, ElementOfSeq
<1>4. \A k \in DOMAIN reg : reg[k] \in DOMAIN recs
  BY <1>1, LenProperties, ElementOfSeq
<1>5. ASSUME NEW o \in Objs PROVE /\ layers[o] \in Seq(Layer)
                                  /\ \A n \in DOMAIN layers[o] : layers[o][n] \in Layer
  BY <1>1, LenProperties, ElementOfSeq
<1>6. QED
  BY <1>2, <1>3, <1>4, <1>5, PayloadTypes DEF RegIds

LEMMA RecSet ==
  ASSUME NEW rs \in Seq(Rec), NEW i \in DOMAIN rs, NEW s \in Rec
  PROVE  LET q == [rs EXCEPT ![i] = s] IN
         /\ q \in Seq(Rec) /\ DOMAIN q = DOMAIN rs /\ q[i] = s
         /\ \A j \in DOMAIN rs \ {i} : q[j] = rs[j]
<1>1. PICK q : q = [rs EXCEPT ![i] = s]
  OBVIOUS
<1>2. rs \in [1 .. Len(rs) -> Rec] /\ Len(rs) \in Nat
  BY LenProperties
<1>3. q \in [1 .. Len(rs) -> Rec] /\ q[i] = s /\ \A j \in DOMAIN rs \ {i} : q[j] = rs[j]
  BY <1>1, <1>2
<1>4. q \in Seq(Rec)
  BY <1>2, <1>3, SeqDef
<1>5. QED
  BY <1>1, <1>2, <1>3, <1>4

LEMMA WrapType ==
  ASSUME TypeOK, NEW name \in Seq(STRING), wraps' = Append(wraps, name),
         Len(wraps) < MaxWraps, recs' \in Seq(Rec), DOMAIN recs' = DOMAIN recs,
         \A i \in DOMAIN recs : Len(recs'[i].subs) <= MaxSubs,
         heap' \in [Objs -> [Attrs -> Values]], th' \in [Threads -> ThreadState], LockInv',
         UNCHANGED <<layers, reg, lock, installing, clobbered, orphaned>>
  PROVE  TypeOK'
<1>1. wraps' \in Seq(Seq(STRING)) /\ Len(wraps') <= MaxWraps
  <2>1. PICK q : q = Append(wraps, name)
    OBVIOUS
  <2>2. wraps \in Seq(Seq(STRING)) /\ Len(wraps) \in Nat
    BY TypeParts, LenProperties
  <2>3. q \in Seq(Seq(STRING)) /\ Len(q) = Len(wraps) + 1
    BY <2>1, <2>2, AppendProperties
  <2>4. wraps' = q
    BY <2>1
  <2>5. QED
    BY <2>2, <2>3, <2>4, Numbers
<1>2. reg' \in Seq(DOMAIN recs')
  BY TypeParts
<1>3. QED
  BY <1>1, <1>2, TypeParts, TypePartsPrime

\* The number of the next wrapper.
LEMMA NewWrapper ==
  ASSUME TypeOK, Len(wraps) < MaxWraps
  PROVE  Len(wraps) + 1 \in Wraps /\ Len(wraps) + 1 \in Values /\ Len(wraps) + 1 # NoWrap
<1>1. Len(wraps) \in Nat
  BY TypeParts, LenProperties
<1>2. QED
  BY <1>1, Numbers DEF Wraps, Values, NoWrap

LEMMA WrapInv ==
  ASSUME IInv, NEW t \in Threads, Wrap(t) PROVE IInv'
<1>1. /\ TypeOK /\ ThreadsInv /\ th[t] \in ThreadState /\ StateOK(th[t])
  BY TypeParts DEF IInv, ThreadsInv
<1>2. PICK e : e = th[t].expr
  OBVIOUS
<1>3. PICK o : o = th[t].obj
  OBVIOUS
<1>4. PICK i : i = th[t].rec
  OBVIOUS
<1>5. PICK w : w = Len(wraps) + 1
  OBVIOUS
<1>6. PICK a : a = Last(e)
  OBVIOUS
<1>7. PICK own : own = [recs[i].own EXCEPT !.wrapper = w, !.holder = o, !.attr = a]
  OBVIOUS
<1>8. PICK r : r = [recs[i] EXCEPT !.own = own]
  OBVIOUS
<1>9. PICK s : s = [th[t] EXCEPT !.pc = "exit"]
  OBVIOUS
<1>10. /\ th[t].pc = "wrap" /\ Len(wraps) < MaxWraps
       /\ heap' = [heap EXCEPT ![o][a] = w] /\ wraps' = Append(wraps, e)
       /\ th' = [th EXCEPT ![t] = s]
       /\ UNCHANGED <<layers, reg, lock, installing, clobbered, orphaned>>
  BY <1>2, <1>3, <1>5, <1>6, <1>9 DEF Wrap
<1>11. recs' = [recs EXCEPT ![i].own = own]
  BY <1>2, <1>3, <1>4, <1>5, <1>6, <1>7 DEF Wrap
<1>12. /\ o \in Objs /\ e \in Exprs /\ i \in DOMAIN recs /\ recs[i].expr = e /\ Dotted(e)
       /\ th[t].op = "watch"
  BY <1>1, <1>2, <1>3, <1>4, <1>10 DEF StateOK
<1>13. a \in Attrs /\ e \in Seq(STRING) /\ e # NoExpr /\ IsPrefix(e, e)
  BY <1>6, <1>12, Names, PrefixRefl, AttrAssumption DEF AttrAssumption, NoExpr
<1>14. recs[i] \in Rec /\ recs[i].own \in Payload /\ recs \in Seq(Rec)
  BY <1>1, <1>12, StoredTypes, TypeParts DEF Rec
<1>15. /\ own \in Payload /\ SameClass(own, recs[i].own) /\ own.wrapper = w
  BY <1>1, <1>5, <1>7, <1>10, <1>12, <1>13, <1>14, NewWrapper DEF Payload, SameClass
<1>16. /\ r \in Rec /\ r.expr = recs[i].expr /\ r.visited = recs[i].visited
       /\ r.own = own /\ r.subs = recs[i].subs
  BY <1>8, <1>14, <1>15 DEF Rec
<1>17. recs' = [recs EXCEPT ![i] = r]
  BY <1>8, <1>11
<1>18. WrapRec(recs[i], r, w)
  BY <1>15, <1>16 DEF WrapRec
<1>19. /\ recs' \in Seq(Rec) /\ DOMAIN recs' = DOMAIN recs /\ recs'[i] = r
       /\ \A j \in DOMAIN recs \ {i} : recs'[j] = recs[j]
  BY <1>12, <1>14, <1>16, <1>17, RecSet
<1>20. RecsKept
  BY <1>16, <1>19 DEF RecsKept
<1>21. /\ s \in ThreadState /\ s.pc = "exit" /\ s.op = th[t].op /\ s.todo = th[t].todo
       /\ s.orig = th[t].orig /\ s.obj = o /\ s.expr = e
  BY <1>1, <1>2, <1>3, <1>9 DEF ThreadState
<1>22. StateOK(s)'
  BY <1>1, <1>10, <1>12, <1>21 DEF StateOK
<1>23. /\ th' \in [Threads -> ThreadState] /\ th'[t] = s
       /\ \A u \in Threads \ {t} : th'[u] = th[u]
  BY <1>1, <1>10, <1>21, ThreadStep
<1>24. ThreadsInv'
  BY <1>1, <1>20, <1>22, <1>23, ThreadsKept
<1>25. LockInv'
  BY <1>1, <1>10, <1>12, <1>21, <1>23, LockKept DEF Holding
<1>26. Calm
  BY <1>21, <1>23, CalmStep
<1>27. heap' \in [Objs -> [Attrs -> Values]]
  BY <1>1, <1>5, <1>10, <1>12, HeapWrite, NewWrapper
<1>28. \A j \in DOMAIN recs : Len(recs'[j].subs) <= MaxSubs
  BY <1>1, <1>16, <1>19, TypeParts
<1>29. TypeOK'
  BY <1>1, <1>10, <1>13, <1>19, <1>23, <1>25, <1>27, <1>28, WrapType
<1>30. \A j \in DOMAIN recs :
         \/ recs'[j] = recs[j]
         \/ j = i /\ IsPrefix(recs[j].expr, e) /\ WrapRec(recs[j], recs'[j], Len(wraps) + 1)
  BY <1>5, <1>12, <1>13, <1>18, <1>19
<1>31. WrapMade(i, e)
  BY <1>10, <1>13, <1>19, <1>30 DEF WrapMade
<1>32. QED
  BY <1>10, <1>24, <1>26, <1>29, <1>31, WrapParts DEF IInv

LEMMA WithWrap ==
  ASSUME NEW r \in Rec, NEW full \in BOOLEAN, NEW w \in Wraps, NEW o \in Objs,
         NEW a \in Attrs, Len(r.subs) <= MaxSubs, ~ full => Len(r.subs) < MaxSubs
  PROVE  LET q == WithSub(r, full, WrapSub(w, o, a)) IN
         /\ q \in Rec /\ q.expr = r.expr /\ Len(q.subs) <= MaxSubs /\ WrapRec(r, q, w)
<1>1. PICK p : p = WrapSub(w, o, a)
  OBVIOUS
<1>2. p \in Payload /\ ~ Classed(p) /\ p.orig = << >> /\ p.wrapper = w
  BY <1>1, SubTypes
<1>3. PICK q : q = WithSub(r, full, p)
  OBVIOUS
<1>4. /\ q \in Rec /\ q.expr = r.expr /\ q.own = r.own /\ q.visited = r.visited
      /\ Len(q.subs) <= MaxSubs
      /\ full => q.subs = r.subs
      /\ ~ full => q.subs = Append(r.subs, p)
  BY <1>2, <1>3, WithSubType
<1>5. WrapRec(r, q, w)
  BY <1>2, <1>4, SMTT(30) DEF WrapRec, SameClass
<1>6. QED
  BY <1>1, <1>3, <1>4, <1>5

\* The name of what a thread that walks comes to next.
LEMMA WalkNext ==
  ASSUME IInv, NEW t \in Threads, th[t].pc = "walk"
  PROVE  LET work == th[t].work  it == Head(work)  path == Append(it.path, it.attr) IN
         /\ work \in Seq(Item) /\ work # << >>
         /\ it.obj \in Objs /\ it.attr \in Attrs
         /\ it.depth \in 1 .. Depth
         /\ th[t].rec \in DOMAIN recs /\ ~ Dotted(recs[th[t].rec].expr)
         /\ path \in Seq(STRING) /\ path # NoExpr
         /\ IsPrefix(recs[th[t].rec].expr, path)
         /\ \A k \in DOMAIN work : IsPrefix(recs[th[t].rec].expr, work[k].path)
<1>1. /\ TypeOK /\ th[t] \in ThreadState /\ StateOK(th[t])
  BY TypeParts DEF IInv, ThreadsInv
<1>2. PICK work : work = th[t].work
  OBVIOUS
<1>3. /\ work \in Seq(Item) /\ work # << >> /\ th[t].rec \in DOMAIN recs
      /\ ~ Dotted(recs[th[t].rec].expr)
      /\ \A k \in DOMAIN work : IsPrefix(recs[th[t].rec].expr, work[k].path)
  BY <1>1, <1>2 DEF StateOK, ThreadState
<1>4. PICK it : it = Head(work)
  OBVIOUS
<1>5. it \in Item /\ it = work[1] /\ 1 \in DOMAIN work
  BY <1>3, <1>4, TailType
<1>6. PICK x : x = recs[th[t].rec].expr
  OBVIOUS
<1>7. /\ it.obj \in Objs /\ it.attr \in Attrs /\ it.path \in Seq(STRING)
      /\ it.depth \in 1 .. Depth /\ IsPrefix(x, it.path) /\ it.attr \in STRING
  BY <1>3, <1>5, <1>6, Names DEF Item
<1>8. x \in Seq(STRING) /\ x # << >>
  BY <1>1, <1>3, <1>6, StoredTypes, Names
<1>9. PICK path : path = Append(it.path, it.attr)
  OBVIOUS
<1>10. path \in Seq(STRING) /\ IsPrefix(it.path, path)
  BY <1>7, <1>9, AppendProperties, PrefixAppend
<1>11. IsPrefix(x, path)
  BY <1>7, <1>8, <1>10, PrefixTrans
<1>12. path # NoExpr
  BY <1>8, <1>10, <1>11, PrefixNotEmpty DEF NoExpr
<1>13. QED
  BY <1>2, <1>3, <1>4, <1>6, <1>7, <1>9, <1>10, <1>11, <1>12

\* A record is full, or has room.
LEMMA Room ==
  ASSUME TypeOK, NEW i \in DOMAIN recs
  PROVE  /\ Full(i) \in BOOLEAN /\ Len(recs[i].subs) <= MaxSubs
         /\ ~ Full(i) => Len(recs[i].subs) < MaxSubs
<1>1. recs[i].subs \in Seq(Payload) /\ recs[i].capped \in BOOLEAN
  BY StoredTypes DEF Rec
<1>2. Len(recs[i].subs) \in Nat
  BY <1>1, LenProperties
<1>3. QED
  BY <1>1, <1>2, Numbers, TypeParts DEF Full

LEMMA WalkWrapInv ==
  ASSUME IInv, NEW t \in Threads, WalkWrap(t) PROVE IInv'
<1>1. TypeOK /\ ThreadsInv
  BY DEF IInv
<1>2. PICK work : work = th[t].work
  OBVIOUS
<1>3. PICK it : it = Head(work)
  OBVIOUS
<1>4. PICK i : i = th[t].rec
  OBVIOUS
<1>5. PICK w : w = Len(wraps) + 1
  OBVIOUS
<1>6. PICK full : full = Full(i)
  OBVIOUS
<1>7. PICK r : r = WithSub(recs[i], full, WrapSub(w, it.obj, it.attr))
  OBVIOUS
<1>8. PICK name : name = Append(it.path, it.attr)
  OBVIOUS
<1>9. PICK rest : rest = IF full THEN Returned(work) ELSE Tail(work)
  OBVIOUS
<1>10. /\ th[t].pc = "walk" /\ Len(wraps) < MaxWraps
       /\ heap' = [heap EXCEPT ![it.obj][it.attr] = w]
       /\ wraps' = Append(wraps, name)
       /\ recs' = [recs EXCEPT ![i] = r]
       /\ WalkOn(t, rest)
       /\ UNCHANGED <<layers, reg, lock, installing, clobbered, orphaned>>
  BY <1>2, <1>3, <1>4, <1>5, <1>6, <1>7, <1>8, <1>9 DEF WalkWrap
<1>11. /\ work \in Seq(Item) /\ work # << >>
       /\ it.obj \in Objs /\ it.attr \in Attrs /\ i \in DOMAIN recs
       /\ name \in Seq(STRING) /\ name # NoExpr /\ IsPrefix(recs[i].expr, name)
       /\ \A k \in DOMAIN work : IsPrefix(recs[i].expr, work[k].path)
  BY <1>2, <1>3, <1>4, <1>8, <1>10, WalkNext
<1>12. /\ recs[i] \in Rec /\ recs \in Seq(Rec) /\ full \in BOOLEAN
       /\ Len(recs[i].subs) <= MaxSubs
       /\ ~ full => Len(recs[i].subs) < MaxSubs
  BY <1>1, <1>6, <1>11, Room, StoredTypes, TypeParts
<1>13. w \in Wraps /\ w \in Values
  BY <1>1, <1>5, <1>10, NewWrapper
<1>14. /\ r \in Rec /\ r.expr = recs[i].expr /\ Len(r.subs) <= MaxSubs
       /\ WrapRec(recs[i], r, w)
  <2>1. PICK x : x = recs[i]
    OBVIOUS
  <2>2. PICK o \in Objs : o = it.obj
    BY <1>11
  <2>3. PICK a \in Attrs : a = it.attr
    BY <1>11
  <2>4. x \in Rec /\ Len(x.subs) <= MaxSubs /\ (~ full => Len(x.subs) < MaxSubs)
    BY <1>12, <2>1
  <2>5. r = WithSub(x, full, WrapSub(w, o, a))
    BY <1>7, <2>1, <2>2, <2>3
  <2>6. r \in Rec /\ r.expr = x.expr /\ Len(r.subs) <= MaxSubs /\ WrapRec(x, r, w)
    BY <1>12, <1>13, <2>4, <2>5, WithWrap
  <2>7. QED
    BY <2>1, <2>6
<1>15. /\ recs' \in Seq(Rec) /\ DOMAIN recs' = DOMAIN recs /\ recs'[i] = r
       /\ \A j \in DOMAIN recs \ {i} : recs'[j] = recs[j]
  BY <1>10, <1>11, <1>12, <1>14, RecSet
<1>16. RecsKept
  BY <1>14, <1>15 DEF RecsKept
<1>17. rest \in Seq(Item) /\ \A k \in DOMAIN rest : IsPrefix(recs[i].expr, rest[k].path)
  <2>1. rest \in Seq(Item) /\ From(rest, work)
    BY <1>9, <1>11, ReturnedType, TailType
  <2>2. QED
    BY <1>11, <2>1 DEF From
<1>18. /\ th' \in [Threads -> ThreadState] /\ ThreadsInv' /\ LockInv'
       /\ \A u \in Threads \ {t} : th'[u] = th[u]
       /\ th'[t].todo = th[t].todo /\ th'[t].orig \in {th[t].orig, << >>}
       /\ th'[t].pc \in {"walk", "exit", "idle"}
  BY <1>1, <1>4, <1>10, <1>16, <1>17, WalkOnEffect
<1>19. Calm
  BY <1>18, CalmStep
<1>20. heap' \in [Objs -> [Attrs -> Values]]
  BY <1>1, <1>10, <1>11, <1>13, HeapWrite
<1>21. \A j \in DOMAIN recs : Len(recs'[j].subs) <= MaxSubs
  BY <1>1, <1>14, <1>15, TypeParts
<1>22. TypeOK'
  BY <1>1, <1>10, <1>11, <1>15, <1>18, <1>20, <1>21, WrapType
<1>23. \A j \in DOMAIN recs :
         \/ recs'[j] = recs[j]
         \/ j = i /\ IsPrefix(recs[j].expr, name) /\ WrapRec(recs[j], recs'[j], Len(wraps) + 1)
  BY <1>5, <1>11, <1>14, <1>15
<1>24. WrapMade(i, name)
  BY <1>10, <1>11, <1>15, <1>23 DEF WrapMade
<1>25. QED
  BY <1>10, <1>18, <1>19, <1>22, <1>24, WrapParts DEF IInv

\* The watch a registered expression stands for, and the name of a layer.
LEMMA RecOfRoot ==
  ASSUME NEW e, IsRegistered(e) PROVE RecOf(e) \in RegIds /\ recs[RecOf(e)].expr = e
BY DEF IsRegistered, RecOf

LEMMA LayerName ==
  ASSUME IInv, NEW o \in Objs, NEW n \in DOMAIN layers[o], NEW a \in Attrs
  PROVE  LET l == layers[o][n] IN
         /\ l.root \in Exprs /\ l.expr \in Seq(STRING)
         /\ IsPrefix(l.root, l.expr)
         /\ l.attr = AnyAttr => ~ Dotted(l.root)
         /\ NameFor(l, a) \in Seq(STRING) /\ NameFor(l, a) # NoExpr
         /\ IsPrefix(l.root, NameFor(l, a))
         /\ Append(l.expr, a) \in Seq(STRING) /\ IsPrefix(l.root, Append(l.expr, a))
<1>1. PICK l : l = layers[o][n]
  OBVIOUS
<1>2. l \in Layer /\ IsPrefix(l.root, l.expr) /\ (l.attr = AnyAttr => ~ Dotted(l.root))
  BY <1>1, StoredTypes DEF IInv, LayersInv, WellFormed
<1>3. /\ l.root \in Exprs /\ l.expr \in Seq(STRING) /\ l.root \in Seq(STRING)
      /\ l.root # << >> /\ a \in STRING
  BY <1>2, Names DEF Layer
<1>4. PICK x : x = Append(l.expr, a)
  OBVIOUS
<1>5. x \in Seq(STRING) /\ IsPrefix(l.expr, x)
  BY <1>3, <1>4, AppendProperties, PrefixAppend
<1>6. IsPrefix(l.root, x)
  BY <1>2, <1>3, <1>5, PrefixTrans
<1>7. PICK y : y = NameFor(l, a)
  OBVIOUS
<1>8. y \in {x, l.expr}
  BY <1>4, <1>7 DEF NameFor
<1>9. y \in Seq(STRING) /\ IsPrefix(l.root, y)
  BY <1>2, <1>3, <1>5, <1>6, <1>8
<1>10. y # NoExpr
  BY <1>3, <1>9, PrefixNotEmpty DEF NoExpr
<1>11. QED
  BY <1>1, <1>2, <1>3, <1>4, <1>5, <1>6, <1>7, <1>9, <1>10

LEMMA WriteContainerInv ==
  ASSUME IInv, NEW t \in Threads, NEW o \in Objs, NEW a \in Attrs,
         WriteContainer(t, o, a)
  PROVE  IInv'
<1>1. TypeOK /\ ThreadsInv
  BY DEF IInv
<1>2. PICK w : w = Len(wraps) + 1
  OBVIOUS
<1>3. PICK n \in Topmost(Watching(o, a)) :
        /\ heap' = [heap EXCEPT ![o][a] = w]
        /\ wraps' = Append(wraps, NameFor(layers[o][n], a))
        /\ recs' = IF ~ IsRegistered(layers[o][n].root) THEN recs
                   ELSE IF layers[o][n].attr # AnyAttr
                   THEN [recs EXCEPT ![RecOf(layers[o][n].root)].own.wrapper = w]
                   ELSE [recs EXCEPT ![RecOf(layers[o][n].root)] =
                           WithSub(@, Full(RecOf(layers[o][n].root)), WrapSub(w, o, a))]
  BY <1>2 DEF WriteContainer
<1>4. /\ Len(wraps) < MaxWraps
      /\ UNCHANGED <<layers, reg, lock, installing, th, clobbered, orphaned>>
  BY DEF WriteContainer, Writes
<1>5. n \in DOMAIN layers[o]
  BY <1>3 DEF Topmost, Watching
<1>6. PICK root : root = layers[o][n].root
  OBVIOUS
<1>7. PICK name : name = NameFor(layers[o][n], a)
  OBVIOUS
<1>8. name \in Seq(STRING) /\ name # NoExpr /\ IsPrefix(root, name)
  BY <1>5, <1>6, <1>7, LayerName
<1>9. PICK i : i = RecOf(root)
  OBVIOUS
<1>10. w \in Wraps /\ w \in Values
  BY <1>1, <1>2, <1>4, NewWrapper
<1>11. heap' \in [Objs -> [Attrs -> Values]]
  BY <1>1, <1>3, <1>10, HeapWrite
<1>12. ThreadsInv /\ Calm /\ LockInv' /\ th' \in [Threads -> ThreadState]
  BY <1>1, <1>4, TypeParts DEF IInv, Calm, LayersInv, LockInv
<1>13. ASSUME IsRegistered(root)
       PROVE  \E r \in Rec : /\ recs' = [recs EXCEPT ![i] = r]
                             /\ WrapRec(recs[i], r, w) /\ Len(r.subs) <= MaxSubs
                             /\ i \in DOMAIN recs /\ recs[i].expr = root
  <2>1. i \in DOMAIN recs /\ recs[i].expr = root
    BY <1>1, <1>9, <1>13, RecOfRoot, StoredTypes
  <2>2. recs[i] \in Rec /\ Full(i) \in BOOLEAN
        /\ Len(recs[i].subs) <= MaxSubs /\ (~ Full(i) => Len(recs[i].subs) < MaxSubs)
    BY <1>1, <2>1, Room, StoredTypes
  <2>3. CASE layers[o][n].attr = AnyAttr
    <3>1. PICK r : r = WithSub(recs[i], Full(i), WrapSub(w, o, a))
      OBVIOUS
    <3>2. r \in Rec /\ Len(r.subs) <= MaxSubs /\ WrapRec(recs[i], r, w)
      BY <1>10, <2>2, <3>1, WithWrap
    <3>3. recs' = [recs EXCEPT ![i] = r]
      BY <1>3, <1>6, <1>9, <1>13, <2>3, <3>1
    <3>4. QED
      BY <2>1, <3>2, <3>3
  <2>4. CASE layers[o][n].attr # AnyAttr
    <3>1. PICK own : own = [recs[i].own EXCEPT !.wrapper = w]
      OBVIOUS
    <3>2. recs[i].own \in Payload
      BY <2>2 DEF Rec
    <3>3. own \in Payload /\ SameClass(own, recs[i].own) /\ own.wrapper = w
      BY <1>10, <3>1, <3>2 DEF Payload, SameClass
    <3>4. PICK r : r = [recs[i] EXCEPT !.own = own]
      OBVIOUS
    <3>5. /\ r \in Rec /\ r.expr = recs[i].expr /\ r.visited = recs[i].visited
          /\ r.own = own /\ r.subs = recs[i].subs
      BY <2>2, <3>3, <3>4 DEF Rec
    <3>6. recs' = [recs EXCEPT ![i].own.wrapper = w]
      BY <1>3, <1>6, <1>9, <1>13, <2>4
    <3>7. recs' = [recs EXCEPT ![i] = r]
      BY <3>1, <3>4, <3>6
    <3>8. WrapRec(recs[i], r, w)
      BY <3>3, <3>5 DEF WrapRec
    <3>9. QED
      BY <2>1, <2>2, <3>5, <3>7, <3>8
  <2>5. QED
    BY <2>3, <2>4
<1>14. /\ recs' \in Seq(Rec) /\ DOMAIN recs' = DOMAIN recs /\ RecsKept
       /\ \A j \in DOMAIN recs : Len(recs'[j].subs) <= MaxSubs
       /\ \A j \in DOMAIN recs :
            \/ recs'[j] = recs[j]
            \/ /\ j = i /\ IsPrefix(recs[j].expr, name)
               /\ WrapRec(recs[j], recs'[j], Len(wraps) + 1)
  <2>1. CASE ~ IsRegistered(root)
    <3>1. recs' = recs
      BY <1>3, <1>6, <2>1
    <3>2. QED
      BY <1>1, <3>1, TypeParts DEF RecsKept
  <2>2. CASE IsRegistered(root)
    <3>1. PICK r \in Rec : /\ recs' = [recs EXCEPT ![i] = r]
                           /\ WrapRec(recs[i], r, w) /\ Len(r.subs) <= MaxSubs
                           /\ i \in DOMAIN recs /\ recs[i].expr = root
      BY <1>13, <2>2
    <3>2. recs \in Seq(Rec) /\ \A j \in DOMAIN recs : Len(recs[j].subs) <= MaxSubs
      BY <1>1, TypeParts
    <3>3. /\ recs' \in Seq(Rec) /\ DOMAIN recs' = DOMAIN recs /\ recs'[i] = r
          /\ \A j \in DOMAIN recs \ {i} : recs'[j] = recs[j]
      BY <3>1, <3>2, RecSet
    <3>4. r.expr = recs[i].expr
      BY <3>1 DEF WrapRec
    <3>5. QED
      BY <1>2, <1>8, <3>1, <3>2, <3>3, <3>4 DEF RecsKept
  <2>3. QED
    BY <2>1, <2>2
<1>15. ThreadsInv'
  BY <1>4, <1>12, <1>14, StateKept, StateNow DEF ThreadsInv
<1>16. wraps' = Append(wraps, name)
  BY <1>3, <1>7
<1>17. TypeOK'
  BY <1>1, <1>4, <1>8, <1>11, <1>12, <1>14, <1>16, WrapType
<1>18. UNCHANGED <<layers, reg, clobbered, orphaned>>
  BY <1>4
<1>19. \A j \in DOMAIN recs :
         \/ recs'[j] = recs[j]
         \/ /\ j = i /\ IsPrefix(recs[j].expr, name)
            /\ WrapRec(recs[j], recs'[j], Len(wraps) + 1)
  BY <1>14
<1>20. /\ LayersInv' /\ TableInv' /\ PayloadInv' /\ SwapInv' /\ VisitedInv'
       /\ WrapsInv' /\ KeptInv' /\ OwnedInv' /\ OnceInv' /\ NamedInv'
  <2>1. WrapMade(i, name)
    BY <1>8, <1>14, <1>16, <1>19 DEF WrapMade
  <2>2. QED
    BY <1>12, <1>18, <2>1, WrapParts
<1>21. QED
  BY <1>15, <1>17, <1>20 DEF IInv

-----------------------------------------------------------------------------
(* An object gets a layer of its own, and a watch may record it.           *)

\* A class of one layer.
Single(c, l) ==
  /\ c \in Seq(Layer) /\ c # << >> /\ DOMAIN c = {1} /\ Len(c) = 1 /\ c[1] = l
  /\ Last(c) = l /\ c = Append(<< >>, l) /\ SubSeq(c, 1, 1) = c

LEMMA SingleClass ==
  ASSUME NEW l \in Layer PROVE Single(<< l >>, l)
<1>1. PICK c : c = << l >>
  OBVIOUS
<1>2. c \in Seq(Layer) /\ c = Append(<< >>, l)
  BY <1>1
<1>3. Len(c) = 1 /\ c[1] = l /\ c # << >> /\ Last(c) = l
  BY <1>1 DEF Last
<1>4. DOMAIN c = {1}
  BY <1>2, <1>3, LenProperties
<1>5. SubSeq(c, 1, 1) = c
  BY <1>2, <1>3, SubSeqFull
<1>6. QED
  BY <1>1, <1>2, <1>3, <1>4, <1>5 DEF Single

\* Object v gets layer l, which watch i may record as p.
ClassMade(i, v, l, p) ==
  /\ i \in DOMAIN recs /\ v \in Objs
  /\ layers[v] = << >> /\ v \notin recs[i].visited /\ ~ Dotted(recs[i].expr)
  /\ l \in Layer /\ l.root = recs[i].expr /\ IsPrefix(l.root, l.expr)
  /\ p \in Payload /\ p.obj = v /\ p.orig = << >> /\ Single(p.cls, l)
  /\ p.wrapper = NoWrap
  /\ layers' = [layers EXCEPT ![v] = p.cls]
  /\ recs' \in Seq(Rec) /\ DOMAIN recs' = DOMAIN recs
  /\ \A j \in DOMAIN recs \ {i} : recs'[j] = recs[j]
  /\ recs'[i].expr = recs[i].expr /\ recs'[i].own = recs[i].own
  /\ recs'[i].visited = recs[i].visited \cup {v}
  /\ \/ recs'[i].subs = recs[i].subs /\ v \in orphaned'
     \/ recs'[i].subs = Append(recs[i].subs, p) /\ (i \in RegIds \/ v \in orphaned')
  /\ orphaned \subseteq orphaned' /\ orphaned' \subseteq orphaned \cup {v}
  /\ UNCHANGED <<wraps, reg, clobbered>>

\* Nothing recorded is lost, and p is all that is new.
LEMMA ClassMadePayloads ==
  ASSUME TypeOK, NEW i, NEW v, NEW l, NEW p, ClassMade(i, v, l, p)
  PROVE  /\ \A j \in DOMAIN recs : \A q \in PayloadsOf(recs'[j]) :
              q \in PayloadsOf(recs[j]) \/ (j = i /\ q = p)
         /\ \A j \in DOMAIN recs : \A q \in PayloadsOf(recs[j]) : q \in PayloadsOf(recs'[j])
         /\ v \notin orphaned' => i \in RegIds /\ p \in PayloadsOf(recs'[i])
         /\ \A j \in DOMAIN recs : recs'[j].expr = recs[j].expr
         /\ \A j \in DOMAIN recs : recs[j].visited \subseteq recs'[j].visited
         /\ RegIds' = RegIds /\ RegIds \subseteq DOMAIN recs
         /\ \A k \in DOMAIN reg : reg[k] \in DOMAIN recs
<1>1. recs[i] \in Rec /\ recs'[i] \in Rec
  <2>1. recs'[i] \in Rec
    BY LenProperties, ElementOfSeq DEF ClassMade
  <2>2. QED
    BY <2>1, StoredTypes DEF ClassMade
<1>2. /\ \A q \in PayloadsOf(recs'[i]) : q \in PayloadsOf(recs[i]) \/ q = p
      /\ \A q \in PayloadsOf(recs[i]) : q \in PayloadsOf(recs'[i])
      /\ v \notin orphaned' => i \in RegIds /\ p \in PayloadsOf(recs'[i])
  <2>1. recs'[i].own = recs[i].own
    BY DEF ClassMade
  <2>2. CASE recs'[i].subs = recs[i].subs /\ v \in orphaned'
    BY <2>1, <2>2 DEF PayloadsOf
  <2>3. CASE recs'[i].subs = Append(recs[i].subs, p) /\ (i \in RegIds \/ v \in orphaned')
    <3>1. PICK r : r = recs[i]
      OBVIOUS
    <3>2. PICK s : s = recs'[i]
      OBVIOUS
    <3>3. p \in Payload
      BY DEF ClassMade
    <3>4. /\ \A k \in DOMAIN r.subs : k \in DOMAIN s.subs /\ s.subs[k] = r.subs[k]
          /\ \A k \in DOMAIN s.subs : k \in DOMAIN r.subs \/ s.subs[k] = p
          /\ Len(r.subs) + 1 \in DOMAIN s.subs /\ s.subs[Len(r.subs) + 1] = p
      BY <1>1, <2>3, <3>1, <3>2, <3>3, AppendedSubs
    <3>5. QED
      BY <2>1, <2>3, <3>1, <3>2, <3>4 DEF PayloadsOf
  <2>4. QED
    BY <2>2, <2>3 DEF ClassMade
<1>3. QED
  BY <1>2, StoredTypes DEF ClassMade, RegIds

\* Who is answerable for a class after a step.
OwnedNext(o, cls) ==
  \/ \E i \in RegIds' : \E p \in PayloadsOf(recs'[i]) : Owner(p, o, cls)
  \/ \E t \in Threads : \E k \in DOMAIN th'[t].todo : Owner(th'[t].todo[k], o, cls)

LEMMA OwnedLater ==
  ASSUME \A o \in Objs \ orphaned' : \A n \in DOMAIN layers'[o] :
           OwnedNext(o, SubSeq(layers'[o], 1, n))
  PROVE  OwnedInv'
BY DEF OwnedInv, Owned, OwnedNext

LEMMA EmptyIsPrefix ==
  ASSUME NEW S, NEW q \in Seq(S) PROVE IsPrefix(<< >>, q)
<1>1. PICK e : e = << >>
  OBVIOUS
<1>2. e \in Seq(S) /\ Len(e) = 0 /\ Len(q) \in Nat
  BY <1>1, EmptySeq, LenProperties
<1>3. 1 .. Len(e) = {} /\ Len(e) <= Len(q)
  BY <1>2
<1>4. IsPrefix(e, q)
  BY <1>2, <1>3, PrefixByPosition
<1>5. QED
  BY <1>1, <1>4

LEMMA PrefixOfEmpty ==
  ASSUME NEW S, NEW q \in Seq(S), IsPrefix(q, << >>) PROVE q = << >>
<1>1. << >> \in Seq(S) /\ Len(<< >>) = 0 /\ Len(q) \in Nat
  BY EmptySeq, LenProperties
<1>2. Len(q) <= 0
  BY <1>1, PrefixByPosition
<1>3. QED
  BY <1>1, <1>2, EmptySeq

LEMMA ClassParts ==
  ASSUME IInv, Calm, NEW i, NEW v, NEW l, NEW p, ClassMade(i, v, l, p)
  PROVE  /\ LayersInv' /\ TableInv' /\ PayloadInv' /\ SwapInv' /\ VisitedInv'
         /\ WrapsInv' /\ KeptInv' /\ OwnedInv' /\ OnceInv' /\ NamedInv'
<1>1. /\ \A j \in DOMAIN recs : \A q \in PayloadsOf(recs'[j]) :
           q \in PayloadsOf(recs[j]) \/ (j = i /\ q = p)
      /\ \A j \in DOMAIN recs : \A q \in PayloadsOf(recs[j]) : q \in PayloadsOf(recs'[j])
      /\ v \notin orphaned' => i \in RegIds /\ p \in PayloadsOf(recs'[i])
      /\ \A j \in DOMAIN recs : recs'[j].expr = recs[j].expr
      /\ \A j \in DOMAIN recs : recs[j].visited \subseteq recs'[j].visited
      /\ RegIds' = RegIds /\ RegIds \subseteq DOMAIN recs
      /\ \A k \in DOMAIN reg : reg[k] \in DOMAIN recs
  BY ClassMadePayloads DEF IInv
<1>2. /\ i \in DOMAIN recs /\ v \in Objs /\ layers[v] = << >>
      /\ v \notin recs[i].visited /\ ~ Dotted(recs[i].expr)
      /\ l \in Layer /\ l.root = recs[i].expr /\ IsPrefix(l.root, l.expr)
      /\ p \in Payload /\ p.obj = v /\ p.orig = << >> /\ Single(p.cls, l)
      /\ p.wrapper = NoWrap /\ DOMAIN recs' = DOMAIN recs
      /\ recs'[i].visited = recs[i].visited \cup {v}
      /\ UNCHANGED <<wraps, reg, clobbered>>
  BY DEF ClassMade
<1>3. /\ layers'[v] = p.cls /\ \A o \in Objs \ {v} : layers'[o] = layers[o]
      /\ \A o \in Objs : layers[o] \in Seq(Layer)
  BY TypeParts DEF IInv, ClassMade
<1>4. \A u \in Threads : th'[u].todo = th[u].todo
  BY DEF Calm
<1>5. WellFormed(<< >>)
  BY DEF WellFormed
<1>6. \A j \in DOMAIN recs : \A q \in PayloadsOf(recs[j]) : q \in Payload
  BY StoredTypes DEF IInv
<1>7. LayersInv'
  <2>1. WellFormed(p.cls)
    BY <1>2 DEF Single, WellFormed
  <2>2. \A o \in Objs : WellFormed(layers'[o])
    BY <1>3, <2>1 DEF IInv, LayersInv
  <2>3. \A j \in DOMAIN recs : \A q \in PayloadsOf(recs'[j]) : WellFormed(q.orig)
    BY <1>1, <1>2, <1>5 DEF IInv, LayersInv
  <2>4. \A u \in Threads : /\ WellFormed(th'[u].orig)
                           /\ \A k \in DOMAIN th'[u].todo : WellFormed(th'[u].todo[k].orig)
    BY <1>4 DEF IInv, LayersInv, Calm
  <2>5. QED
    BY <1>2, <2>2, <2>3, <2>4 DEF LayersInv
<1>8. TableInv'
  <2>1. \A j, k \in DOMAIN reg' : j # k => recs'[reg'[j]].expr # recs'[reg'[k]].expr
    BY <1>1, <1>2 DEF IInv, TableInv
  <2>2. ASSUME NEW u \in Threads, th'[u].pc \in {"read", "swap"}, NEW j \in RegIds
        PROVE  recs'[j].expr # th'[u].expr
    BY <1>1, <2>2 DEF IInv, TableInv, Calm
  <2>3. QED
    BY <1>1, <2>1, <2>2 DEF TableInv
<1>9. SwapInv'
  <2>1. ASSUME NEW u \in Threads, th'[u].pc = "swap"
        PROVE  layers'[th'[u].obj] = th'[u].orig \/ th'[u].orig = << >>
    <3>1. th'[u] = th[u]
      BY <2>1 DEF Calm
    <3>2. layers[th[u].obj] = th[u].orig \/ th[u].orig = << >>
      BY <2>1, <3>1 DEF IInv, SwapInv
    <3>3. th[u].obj \in Objs
      BY <2>1, <3>1 DEF IInv, ThreadsInv, StateOK
    <3>4. QED
      BY <1>2, <1>3, <3>1, <3>2, <3>3
  <2>2. QED
    BY <2>1 DEF SwapInv
<1>10. PayloadInv'
  <2>1. Extends(p) /\ (Classed(p) => Last(p.cls).root = recs'[i].expr)
    BY <1>1, <1>2 DEF Single, Extends
  <2>2. \A j \in DOMAIN recs : \A q \in PayloadsOf(recs'[j]) :
          Extends(q) /\ (Classed(q) => Last(q.cls).root = recs'[j].expr)
    BY <1>1, <2>1 DEF IInv, PayloadInv
  <2>3. ASSUME NEW u \in Threads, NEW k \in DOMAIN th'[u].todo
        PROVE  /\ Extends(th'[u].todo[k])
               /\ Classed(th'[u].todo[k]) =>
                    \A j \in RegIds : Last(th'[u].todo[k].cls).root # recs'[j].expr
    BY <1>1, <1>4, <2>3 DEF IInv, PayloadInv
  <2>4. QED
    BY <1>1, <1>2, <2>2, <2>3 DEF PayloadInv
<1>11. VisitedInv'
  <2>1. ASSUME NEW j \in DOMAIN recs, ~ Dotted(recs'[j].expr), NEW q \in PayloadsOf(recs'[j]),
               Classed(q), q.obj # NoObj
        PROVE  q.obj \in recs'[j].visited
    <3>1. q \in PayloadsOf(recs[j]) => q.obj \in recs[j].visited
      BY <1>1, <2>1 DEF IInv, VisitedInv
    <3>2. QED
      BY <1>1, <1>2, <2>1, <3>1
  <2>2. ASSUME NEW j \in DOMAIN recs, Dotted(recs'[j].expr), NEW k \in DOMAIN recs'[j].subs
        PROVE  ~ Classed(recs'[j].subs[k])
    <3>1. j # i /\ recs'[j] = recs[j]
      BY <1>1, <1>2, <2>2 DEF ClassMade
    <3>2. QED
      BY <2>2, <3>1 DEF IInv, VisitedInv
  <2>3. QED
    BY <1>2, <2>1, <2>2 DEF VisitedInv
<1>12. WrapsInv'
  <2>1. \A j \in DOMAIN recs : \A q \in PayloadsOf(recs'[j]) : q.wrapper <= Len(wraps)
    <3>1. NoWrap <= Len(wraps)
      <4>1. Len(wraps) \in Nat
        BY TypeParts, LenProperties DEF IInv
      <4>2. QED
        BY <4>1 DEF NoWrap
    <3>2. QED
      BY <1>1, <1>2, <3>1 DEF IInv, WrapsInv
  <2>2. ASSUME NEW j \in DOMAIN recs, NEW k \in DOMAIN recs, j # k,
               NEW q \in PayloadsOf(recs'[j]), NEW r \in PayloadsOf(recs'[k]),
               q.wrapper # NoWrap
        PROVE  q.wrapper # r.wrapper
    <3>1. q \in PayloadsOf(recs[j])
      BY <1>1, <1>2, <2>2
    <3>2. CASE r.wrapper = NoWrap
      BY <2>2, <3>2
    <3>3. CASE r.wrapper # NoWrap
      <4>1. r \in PayloadsOf(recs[k])
        BY <1>1, <1>2, <3>3
      <4>2. QED
        BY <2>2, <3>1, <4>1 DEF IInv, WrapsInv
    <3>4. QED
      BY <3>2, <3>3
  <2>3. ASSUME NEW u \in Threads, NEW k \in DOMAIN th[u].todo, NEW j \in RegIds,
               NEW q \in PayloadsOf(recs'[j]), q.wrapper # NoWrap
        PROVE  q.wrapper # th[u].todo[k].wrapper
    <3>1. q \in PayloadsOf(recs[j])
      BY <1>1, <1>2, <2>3
    <3>2. QED
      BY <2>3, <3>1 DEF IInv, WrapsInv
  <2>4. \A u \in Threads : \A k \in DOMAIN th'[u].todo : th'[u].todo[k].wrapper <= Len(wraps)
    BY <1>4 DEF IInv, WrapsInv
  <2>5. \A u \in Threads : \A k \in DOMAIN th'[u].todo : \A j \in RegIds' :
          \A q \in PayloadsOf(recs'[j]) : q.wrapper # NoWrap => q.wrapper # th'[u].todo[k].wrapper
    BY <1>1, <1>4, <2>3
  <2>6. QED
    BY <1>2, <2>1, <2>2, <2>4, <2>5 DEF WrapsInv
<1>13. KeptInv'
  <2>1. ASSUME NEW j \in RegIds, NEW q \in PayloadsOf(recs'[j]), q.obj # NoObj,
               q.obj \notin clobbered
        PROVE  IsPrefix(q.cls, layers'[q.obj])
    <3>1. CASE q = p
      <4>1. p.cls \in Seq(Layer)
        BY <1>2 DEF Single
      <4>2. QED
        BY <1>2, <1>3, <3>1, <4>1, PrefixRefl
    <3>2. CASE q \in PayloadsOf(recs[j])
      <4>1. q \in Payload /\ q.obj \in Objs /\ q.cls \in Seq(Layer)
        BY <1>1, <1>6, <2>1, <3>2, PayloadTypes DEF Payload
      <4>2. IsPrefix(q.cls, layers[q.obj])
        BY <2>1, <3>2 DEF IInv, KeptInv
      <4>3. CASE q.obj = v
        <5>1. q.cls = << >>
          BY <1>2, <4>1, <4>2, <4>3, PrefixOfEmpty
        <5>2. p.cls \in Seq(Layer)
          BY <1>2 DEF Single
        <5>3. QED
          BY <1>3, <4>3, <5>1, <5>2, EmptyIsPrefix
      <4>4. CASE q.obj # v
        BY <1>3, <4>1, <4>2, <4>4
      <4>5. QED
        BY <4>3, <4>4
    <3>3. QED
      BY <1>1, <3>1, <3>2
  <2>2. QED
    BY <1>1, <1>2, <2>1 DEF KeptInv
<1>14. OwnedInv'
  <2>1. ASSUME NEW o, NEW cls, Owned(o, cls) PROVE OwnedNext(o, cls)
    <3>1. CASE \E j \in RegIds : \E q \in PayloadsOf(recs[j]) : Owner(q, o, cls)
      BY <1>1, <3>1 DEF OwnedNext
    <3>2. CASE \E t \in Threads : \E k \in DOMAIN th[t].todo : Owner(th[t].todo[k], o, cls)
      BY <1>4, <3>2 DEF OwnedNext
    <3>3. QED
      BY <2>1, <3>1, <3>2 DEF Owned
  <2>2. ASSUME NEW o \in Objs \ orphaned', NEW n \in DOMAIN layers'[o]
        PROVE  OwnedNext(o, SubSeq(layers'[o], 1, n))
    <3>1. CASE o = v
      <4>1. i \in RegIds' /\ p \in PayloadsOf(recs'[i])
        BY <1>1, <2>2, <3>1
      <4>2. n = 1 /\ SubSeq(layers'[o], 1, n) = p.cls
        BY <1>2, <1>3, <2>2, <3>1 DEF Single
      <4>3. Owner(p, o, p.cls)
        BY <1>2, <3>1 DEF Owner
      <4>4. OwnedNext(o, p.cls)
        BY <4>1, <4>3 DEF OwnedNext
      <4>5. QED
        BY <4>2, <4>4
    <3>2. CASE o # v
      <4>1. layers'[o] = layers[o] /\ o \in Objs \ orphaned
        BY <1>3, <2>2, <3>2 DEF ClassMade
      <4>2. Owned(o, SubSeq(layers[o], 1, n))
        BY <2>2, <4>1 DEF IInv, OwnedInv
      <4>3. QED
        BY <2>1, <4>1, <4>2
    <3>3. QED
      BY <3>1, <3>2
  <2>3. QED
    BY <2>2, OwnedLater
<1>15. OnceInv'
  <2>1. ASSUME NEW j \in DOMAIN recs
        PROVE  /\ \A k, m \in DOMAIN recs'[j].subs :
                    k # m => Apart(recs'[j].subs[k], recs'[j].subs[m])
               /\ \A k \in DOMAIN recs'[j].subs : Apart(recs'[j].subs[k], recs'[j].own)
    <3>1. /\ \A k, m \in DOMAIN recs[j].subs :
               k # m => Apart(recs[j].subs[k], recs[j].subs[m])
          /\ \A k \in DOMAIN recs[j].subs : Apart(recs[j].subs[k], recs[j].own)
      BY DEF IInv, OnceInv
    <3>2. CASE recs'[j].subs = recs[j].subs /\ recs'[j].own = recs[j].own
      BY <3>1, <3>2
    <3>3. CASE ~ (recs'[j].subs = recs[j].subs /\ recs'[j].own = recs[j].own)
      <4>1. j = i /\ recs'[i].subs = Append(recs[i].subs, p) /\ recs'[i].own = recs[i].own
        BY <3>3 DEF ClassMade
      <4>2. \A q \in PayloadsOf(recs[i]) : Apart(p, q) /\ Apart(q, p)
        <5>1. \A q \in PayloadsOf(recs[i]) : Classed(q) => q.obj = NoObj \/ q.obj \in recs[i].visited
          BY <1>2 DEF IInv, VisitedInv
        <5>2. v # NoObj
          BY <1>2, Numbers
        <5>3. QED
          BY <1>2, <5>1, <5>2 DEF Apart
      <4>3. /\ \A k \in DOMAIN recs[i].subs : recs'[i].subs[k] = recs[i].subs[k]
            /\ \A k \in DOMAIN recs'[i].subs :
                 k \in DOMAIN recs[i].subs \/ k = Len(recs[i].subs) + 1
            /\ recs'[i].subs[Len(recs[i].subs) + 1] = p
        <5>1. recs[i] \in Rec /\ recs'[i] \in Rec
          <6>1. recs'[i] \in Rec
            BY LenProperties, ElementOfSeq DEF ClassMade
          <6>2. QED
            BY <1>2, <6>1, StoredTypes DEF IInv
        <5>2. PICK r : r = recs[i]
          OBVIOUS
        <5>3. PICK s : s = recs'[i]
          OBVIOUS
        <5>4. /\ Len(r.subs) \in Nat /\ DOMAIN r.subs = 1 .. Len(r.subs)
              /\ DOMAIN s.subs = 1 .. Len(r.subs) + 1
              /\ \A k \in DOMAIN r.subs : s.subs[k] = r.subs[k]
              /\ s.subs[Len(r.subs) + 1] = p
          BY <1>2, <4>1, <5>1, <5>2, <5>3, AppendedSubs
        <5>5. QED
          BY <5>2, <5>3, <5>4
      <4>4. \A k \in DOMAIN recs[i].subs : recs[i].subs[k] \in PayloadsOf(recs[i])
        BY DEF PayloadsOf
      <4>5. recs[i].own \in PayloadsOf(recs[i])
        BY DEF PayloadsOf
      <4>6. QED
        BY <3>1, <4>1, <4>2, <4>3, <4>4, <4>5
    <3>4. QED
      BY <3>2, <3>3
  <2>2. QED
    BY <1>2, <2>1 DEF OnceInv
<1>16. NamedInv'
  <2>1. ASSUME NEW j \in RegIds, NEW q \in PayloadsOf(recs'[j]), q.wrapper # NoWrap
        PROVE  wraps[q.wrapper] # NoExpr /\ IsPrefix(recs[j].expr, wraps[q.wrapper])
    BY <1>1, <1>2, <2>1 DEF IInv, NamedInv
  <2>2. QED
    BY <1>1, <1>2, <2>1 DEF NamedInv
<1>17. QED
  BY <1>7, <1>8, <1>9, <1>10, <1>11, <1>12, <1>13, <1>14, <1>15, <1>16

LEMMA ClassType ==
  ASSUME TypeOK, NEW i, NEW v, NEW l, NEW p, ClassMade(i, v, l, p),
         \A j \in DOMAIN recs : Len(recs'[j].subs) <= MaxSubs,
         heap' \in [Objs -> [Attrs -> Values]], th' \in [Threads -> ThreadState], LockInv',
         UNCHANGED <<lock, installing>>
  PROVE  TypeOK'
<1>1. layers' \in [Objs -> Seq(Layer)]
  BY TypeParts DEF ClassMade, Single
<1>2. orphaned' \subseteq Objs
  BY TypeParts DEF ClassMade
<1>3. /\ recs' \in Seq(Rec) /\ reg' \in Seq(DOMAIN recs')
      /\ \A j \in DOMAIN recs' : Len(recs'[j].subs) <= MaxSubs
      /\ wraps' = wraps /\ clobbered' = clobbered
  BY TypeParts DEF ClassMade
<1>4. QED
  BY <1>1, <1>2, <1>3, TypeParts, TypePartsPrime

LEMMA InstrumentEffect ==
  ASSUME IInv, NEW i \in DOMAIN recs, ~ Dotted(recs[i].expr),
         NEW v \in Objs, Instrumentable(v, i),
         NEW path \in Seq(STRING), IsPrefix(recs[i].expr, path),
         Instrument(v, path, i),
         recs' = [recs EXCEPT ![i] =
                    WithSub(Met(recs[i], v), Full(i), ClassSub(v, path, recs[i].expr))],
         UNCHANGED <<wraps, reg, clobbered>>
  PROVE  /\ \E l, p : ClassMade(i, v, l, p)
         /\ RecsKept
         /\ \A j \in DOMAIN recs : Len(recs'[j].subs) <= MaxSubs
<1>1. TypeOK
  BY DEF IInv
<1>2. PICK r : r = recs[i]
  OBVIOUS
<1>3. PICK root : root = r.expr
  OBVIOUS
<1>4. PICK full : full = Full(i)
  OBVIOUS
<1>5. /\ r \in Rec /\ root \in Exprs /\ full \in BOOLEAN
      /\ Len(r.subs) <= MaxSubs /\ (~ full => Len(r.subs) < MaxSubs)
  BY <1>1, <1>2, <1>3, <1>4, Room, StoredTypes
<1>6. PICK l : l = AnyLayer(path, root)
  OBVIOUS
<1>7. PICK p : p = ClassSub(v, path, root)
  OBVIOUS
<1>8. l \in Layer /\ l.root = root /\ l.expr = path /\ Single(<< l >>, l)
  BY <1>5, <1>6, LayerTypes, SingleClass
<1>9. /\ p \in Payload /\ p.obj = v /\ p.orig = << >> /\ p.wrapper = NoWrap
      /\ p.cls = << l >>
  BY <1>5, <1>6, <1>7, SubTypes
<1>10. PICK m : m = Met(r, v)
  OBVIOUS
<1>11. /\ m \in Rec /\ m.expr = r.expr /\ m.own = r.own /\ m.subs = r.subs
       /\ m.visited = r.visited \cup {v}
  BY <1>5, <1>10, MetType
<1>12. PICK q : q = WithSub(m, full, p)
  OBVIOUS
<1>13. /\ q \in Rec /\ q.expr = m.expr /\ q.own = m.own /\ q.visited = m.visited
       /\ Len(q.subs) <= MaxSubs
       /\ full => q.subs = m.subs
       /\ ~ full => q.subs = Append(m.subs, p)
  BY <1>5, <1>9, <1>11, <1>12, WithSubType
<1>14. recs' = [recs EXCEPT ![i] = q] /\ recs \in Seq(Rec)
  BY <1>1, <1>2, <1>3, <1>4, <1>7, <1>10, <1>12, TypeParts
<1>15. /\ recs' \in Seq(Rec) /\ DOMAIN recs' = DOMAIN recs /\ recs'[i] = q
       /\ \A j \in DOMAIN recs \ {i} : recs'[j] = recs[j]
  BY <1>13, <1>14, RecSet
<1>16. /\ layers' = [layers EXCEPT ![v] = p.cls]
       /\ orphaned' = IF full \/ i \notin RegIds THEN orphaned \cup {v} ELSE orphaned
  BY <1>2, <1>3, <1>4, <1>6, <1>9 DEF Instrument
<1>17. layers[v] = << >> /\ v \notin r.visited
  BY <1>2 DEF Instrumentable
<1>18. /\ \/ q.subs = r.subs /\ v \in orphaned'
          \/ q.subs = Append(r.subs, p) /\ (i \in RegIds \/ v \in orphaned')
       /\ orphaned \subseteq orphaned' /\ orphaned' \subseteq orphaned \cup {v}
  BY <1>5, <1>11, <1>13, <1>16
<1>19. Single(p.cls, l)
  BY <1>8, <1>9
<1>20. ClassMade(i, v, l, p)
  BY <1>2, <1>3, <1>8, <1>9, <1>11, <1>13, <1>15, <1>16, <1>17, <1>18, <1>19 DEF ClassMade
<1>21. RecsKept
  BY <1>2, <1>11, <1>13, <1>15 DEF RecsKept
<1>22. \A j \in DOMAIN recs : Len(recs'[j].subs) <= MaxSubs
  BY <1>1, <1>13, <1>15, TypeParts
<1>23. QED
  BY <1>20, <1>21, <1>22

LEMMA WalkInstallInv ==
  ASSUME IInv, NEW t \in Threads, NEW order \in Orders, WalkInstall(t, order)
  PROVE  IInv'
<1>1. TypeOK /\ ThreadsInv
  BY DEF IInv
<1>2. PICK work : work = th[t].work
  OBVIOUS
<1>3. PICK it : it = Head(work)
  OBVIOUS
<1>4. PICK i : i = th[t].rec
  OBVIOUS
<1>5. PICK v : v = heap[it.obj][it.attr]
  OBVIOUS
<1>6. PICK path : path = Append(it.path, it.attr)
  OBVIOUS
<1>7. PICK deeper : deeper = IF it.depth < Depth THEN Items(v, path, it.depth + 1, order)
                             ELSE << >>
  OBVIOUS
<1>8. PICK rest : rest = IF Full(i) THEN Returned(work) ELSE deeper \o Tail(work)
  BY Zenon
<1>9. /\ th[t].pc = "walk" /\ Instrumentable(v, i) /\ Instrument(v, path, i)
      /\ recs' = [recs EXCEPT ![i] =
                    WithSub(Met(recs[i], v), Full(i), ClassSub(v, path, recs[i].expr))]
      /\ WalkOn(t, rest)
      /\ UNCHANGED <<heap, wraps, reg, lock, installing, clobbered>>
  BY <1>2, <1>3, <1>4, <1>5, <1>6, <1>7, <1>8, ZenonT(30) DEF WalkInstall
<1>10. /\ work \in Seq(Item) /\ work # << >> /\ it.depth \in 1 .. Depth
       /\ i \in DOMAIN recs /\ ~ Dotted(recs[i].expr)
       /\ path \in Seq(STRING) /\ IsPrefix(recs[i].expr, path)
       /\ \A k \in DOMAIN work : IsPrefix(recs[i].expr, work[k].path)
  BY <1>2, <1>3, <1>4, <1>6, <1>9, WalkNext
<1>11. v \in Objs
  BY <1>9 DEF Instrumentable
<1>12. /\ \E l, p : ClassMade(i, v, l, p)
       /\ RecsKept
       /\ \A j \in DOMAIN recs : Len(recs'[j].subs) <= MaxSubs
  BY <1>9, <1>10, <1>11, InstrumentEffect
<1>13. deeper \in Seq(Item) /\ \A k \in DOMAIN deeper : deeper[k].path = path
  <2>1. CASE it.depth < Depth
    <3>1. PICK d : d = it.depth + 1
      OBVIOUS
    <3>2. d \in 1 .. Depth
      BY <1>10, <2>1, <3>1, Numbers
    <3>3. deeper = Items(v, path, d, order)
      BY <1>7, <2>1, <3>1
    <3>4. QED
      BY <1>10, <1>11, <3>2, <3>3, ItemsType
  <2>2. CASE ~ it.depth < Depth
    BY <1>7, <2>2, EmptyOf
  <2>3. QED
    BY <2>1, <2>2
<1>14. rest \in Seq(Item) /\ \A k \in DOMAIN rest : IsPrefix(recs[i].expr, rest[k].path)
  <2>1. CASE Full(i)
    <3>1. rest \in Seq(Item) /\ From(rest, work)
      BY <1>8, <1>10, <2>1, ReturnedType
    <3>2. QED
      BY <1>10, <3>1 DEF From
  <2>2. CASE ~ Full(i)
    <3>1. PICK tail : tail = Tail(work)
      OBVIOUS
    <3>2. tail \in Seq(Item) /\ From(tail, work)
      BY <1>10, <3>1, TailType
    <3>3. \A k \in DOMAIN tail : IsPrefix(recs[i].expr, tail[k].path)
      BY <1>10, <3>2 DEF From
    <3>4. rest = deeper \o tail
      BY <1>8, <2>2, <3>1
    <3>5. /\ rest \in Seq(Item)
          /\ \A k \in DOMAIN rest : \/ \E j \in DOMAIN deeper : rest[k] = deeper[j]
                                    \/ \E j \in DOMAIN tail : rest[k] = tail[j]
      <4>1. deeper \in Seq(Item) /\ tail \in Seq(Item)
        BY <1>13, <3>2
      <4>2. /\ deeper \o tail \in Seq(Item)
            /\ \A k \in DOMAIN (deeper \o tail) :
                 \/ \E j \in DOMAIN deeper : (deeper \o tail)[k] = deeper[j]
                 \/ \E j \in DOMAIN tail : (deeper \o tail)[k] = tail[j]
        BY <4>1, ConcatType
      <4>3. QED
        BY <3>4, <4>2, Zenon
    <3>6. ASSUME NEW k \in DOMAIN rest PROVE IsPrefix(recs[i].expr, rest[k].path)
      <4>1. CASE \E j \in DOMAIN deeper : rest[k] = deeper[j]
        BY <1>10, <1>13, <4>1
      <4>2. CASE \E j \in DOMAIN tail : rest[k] = tail[j]
        BY <3>3, <4>2
      <4>3. QED
        BY <3>5, <4>1, <4>2
    <3>7. QED
      BY <3>5, <3>6
  <2>3. QED
    BY <2>1, <2>2
<1>15. /\ th' \in [Threads -> ThreadState] /\ ThreadsInv' /\ LockInv'
       /\ \A u \in Threads \ {t} : th'[u] = th[u]
       /\ th'[t].todo = th[t].todo /\ th'[t].orig \in {th[t].orig, << >>}
       /\ th'[t].pc \in {"walk", "exit", "idle"}
  BY <1>1, <1>4, <1>9, <1>12, <1>14, WalkOnEffect
<1>16. Calm
  BY <1>15, CalmStep
<1>17. PICK l, p : ClassMade(i, v, l, p)
  BY <1>12
<1>18. heap' \in [Objs -> [Attrs -> Values]] /\ UNCHANGED <<lock, installing>>
  BY <1>1, <1>9, TypeParts
<1>19. TypeOK'
  BY <1>1, <1>12, <1>15, <1>17, <1>18, ClassType
<1>20. /\ LayersInv' /\ TableInv' /\ PayloadInv' /\ SwapInv' /\ VisitedInv'
       /\ WrapsInv' /\ KeptInv' /\ OwnedInv' /\ OnceInv' /\ NamedInv'
  BY <1>16, <1>17, ClassParts
<1>21. QED
  BY <1>15, <1>19, <1>20 DEF IInv

LEMMA WriteObjectInv ==
  ASSUME IInv, NEW t \in Threads, NEW o \in Objs, NEW a \in Attrs, NEW v \in Objs,
         NEW order \in Orders, WriteObject(t, o, a, v, order)
  PROVE  IInv'
<1>1. /\ TypeOK /\ ThreadsInv /\ th[t] \in ThreadState /\ StateOK(th[t])
  BY TypeParts DEF IInv, ThreadsInv
<1>2. PICK n \in First(Takers(o, a, v)) :
        LET l == layers[o][n]
            i == RecOf(l.root)
            path == Append(l.expr, a)
        IN /\ Instrument(v, path, i)
           /\ recs' = [recs EXCEPT ![i] = WithSub(Met(@, v), Full(i), ClassSub(v, path, l.root))]
           /\ th' = IF Full(i) THEN th
                    ELSE [th EXCEPT ![t] = [Idle EXCEPT !.pc = "walk", !.op = "write",
                                              !.rec = i, !.work = Items(v, path, 1, order)]]
  BY DEF WriteObject
<1>3. /\ th[t].pc = "idle" /\ heap' = [heap EXCEPT ![o][a] = v]
      /\ UNCHANGED <<wraps, reg, lock, installing, clobbered>>
  BY DEF WriteObject, Writes
<1>4. PICK root : root = layers[o][n].root
  OBVIOUS
<1>5. PICK i : i = RecOf(root)
  OBVIOUS
<1>6. PICK path : path = Append(layers[o][n].expr, a)
  OBVIOUS
<1>7. /\ n \in DOMAIN layers[o] /\ layers[o][n].attr = AnyAttr /\ IsRegistered(root)
      /\ Instrumentable(v, i)
  BY <1>2, <1>4, <1>5 DEF First, Takers, Watching
<1>8. i \in DOMAIN recs /\ recs[i].expr = root
  BY <1>1, <1>5, <1>7, RecOfRoot, StoredTypes
<1>9. path \in Seq(STRING) /\ IsPrefix(root, path) /\ ~ Dotted(root)
  BY <1>4, <1>6, <1>7, LayerName
<1>10. /\ Instrument(v, path, i)
       /\ recs' = [recs EXCEPT ![i] =
                     WithSub(Met(recs[i], v), Full(i), ClassSub(v, path, recs[i].expr))]
  BY <1>2, <1>4, <1>5, <1>6, <1>8
<1>11. /\ \E l, p : ClassMade(i, v, l, p)
       /\ RecsKept
       /\ \A j \in DOMAIN recs : Len(recs'[j].subs) <= MaxSubs
  BY <1>3, <1>7, <1>8, <1>9, <1>10, InstrumentEffect
<1>12. PICK work : work = Items(v, path, 1, order)
  OBVIOUS
<1>13. /\ work \in Seq(Item) /\ work # << >> /\ \A k \in DOMAIN work : work[k].path = path
  <2>1. 1 \in 1 .. Depth
    BY Numbers
  <2>2. QED
    BY <1>9, <1>12, <2>1, ItemsType
<1>14. PICK s : s = [Idle EXCEPT !.pc = "walk", !.op = "write", !.rec = i, !.work = work]
  OBVIOUS
<1>15. /\ s \in ThreadState /\ s.pc = "walk" /\ s.op = "write" /\ s.rec = i
       /\ s.work = work /\ s.todo = << >> /\ s.orig = << >>
  <2>1. i \in Nat
    <3>1. recs \in Seq(Rec)
      BY <1>1, TypeParts
    <3>2. QED
      BY <1>8, <3>1, LenProperties
  <2>2. QED
    BY <1>13, <1>14, <2>1, IdleType DEF ThreadState
<1>16. th' = th \/ th' = [th EXCEPT ![t] = s]
  BY <1>2, <1>4, <1>5, <1>6, <1>12, <1>14
<1>17. /\ th' \in [Threads -> ThreadState] /\ ThreadsInv' /\ LockInv' /\ Calm
  <2>1. CASE th' = th
    <3>1. ThreadsInv'
      BY <1>1, <1>11, <2>1, StateKept, StateNow DEF ThreadsInv
    <3>2. QED
      BY <1>1, <1>3, <2>1, <3>1, TypeParts DEF IInv, Calm, LayersInv, LockInv
  <2>2. CASE th' = [th EXCEPT ![t] = s]
    <3>1. /\ th' \in [Threads -> ThreadState] /\ th'[t] = s
          /\ \A u \in Threads \ {t} : th'[u] = th[u]
      BY <1>1, <1>15, <2>2, ThreadStep
    <3>2. StateOK(s)'
      <4>1. i \in DOMAIN recs' /\ recs'[i].expr = root
        BY <1>8, <1>11 DEF RecsKept
      <4>2. QED
        BY <1>9, <1>13, <1>15, <4>1 DEF StateOK
    <3>3. ThreadsInv'
      BY <1>1, <1>11, <3>1, <3>2, ThreadsKept
    <3>4. LockInv'
      BY <1>1, <1>3, <1>15, <3>1, LockKept DEF Holding
    <3>5. th[t].todo = << >>
      BY <1>1, <1>3 DEF StateOK
    <3>6. Calm
      BY <1>15, <3>1, <3>5, CalmStep
    <3>7. QED
      BY <3>1, <3>3, <3>4, <3>6
  <2>3. QED
    BY <1>16, <2>1, <2>2
<1>18. PICK l, p : ClassMade(i, v, l, p)
  BY <1>11
<1>19. heap' \in [Objs -> [Attrs -> Values]] /\ UNCHANGED <<lock, installing>>
  BY <1>1, <1>3, HeapWrite DEF Values
<1>20. TypeOK'
  BY <1>1, <1>11, <1>17, <1>18, <1>19, ClassType
<1>21. /\ LayersInv' /\ TableInv' /\ PayloadInv' /\ SwapInv' /\ VisitedInv'
       /\ WrapsInv' /\ KeptInv' /\ OwnedInv' /\ OnceInv' /\ NamedInv'
  BY <1>17, <1>18, ClassParts
<1>22. QED
  BY <1>17, <1>20, <1>21 DEF IInv

-----------------------------------------------------------------------------
(* A watch is installed: its object gets a class built on the one that was *)
(* read.                                                                   *)

\* One element more.
LEMMA Longer ==
  ASSUME NEW S, NEW s \in Seq(S), NEW x \in S
  PROVE  LET q == Append(s, x)  n == Len(s) + 1 IN
         /\ q \in Seq(S) /\ Len(q) = n /\ n \in Nat /\ n \notin DOMAIN s
         /\ DOMAIN q = DOMAIN s \cup {n} /\ q[n] = x
         /\ \A k \in DOMAIN s : q[k] = s[k]
<1>1. PICK q : q = Append(s, x)
  OBVIOUS
<1>2. PICK n \in Nat : n = Len(s) + 1
  BY LenProperties
<1>3. q \in Seq(S) /\ Len(q) = n /\ q[n] = x /\ \A k \in 1 .. Len(s) : q[k] = s[k]
  BY <1>1, <1>2, AppendProperties
<1>4. Len(s) \in Nat /\ DOMAIN s = 1 .. Len(s) /\ DOMAIN q = 1 .. n
  BY <1>3, LenProperties
<1>5. n \notin DOMAIN s /\ DOMAIN q = DOMAIN s \cup {n}
  BY <1>2, <1>4
<1>6. QED
  BY <1>1, <1>2, <1>3, <1>4, <1>5

\* The thread that is about to set a class holds the lock: nobody else installs,
\* and nothing is being removed.
LEMMA Alone ==
  ASSUME IInv, NEW t \in Threads, th[t].pc = "swap"
  PROVE  /\ lock = t /\ \A u \in Threads : th[u].todo = << >>
         /\ \A u \in Threads \ {t} : th[u].pc \notin {"read", "swap"}
<1>1. LockInv /\ \A u \in Threads : StateOK(th[u])
  BY TypeParts DEF IInv, ThreadsInv
<1>2. \A u \in Threads : th[u].op = "write" => th[u].pc = "walk"
  BY <1>1 DEF StateOK
<1>3. lock = t
  BY <1>1, <1>2 DEF LockInv, Holding
<1>4. \A u \in Threads \ {t} : ~ Holding(th[u])
  BY <1>1, <1>3 DEF LockInv
<1>5. \A u \in Threads \ {t} : th[u].pc \notin {"read", "swap", "undo"}
  BY <1>2, <1>4 DEF Holding
<1>6. \A u \in Threads : th[u].todo = << >>
  BY <1>1, <1>5 DEF StateOK
<1>7. QED
  BY <1>3, <1>5, <1>6

\* Object o gets layer l on top of class orig, for the watch r.
SwapMade(o, orig, l, r) ==
  /\ o \in Objs /\ orig \in Seq(Layer) /\ WellFormed(orig)
  /\ l \in Layer /\ l.root = r.expr /\ l.expr = r.expr
  /\ l.attr = AnyAttr => ~ Dotted(r.expr)
  /\ layers[o] = orig \/ orig = << >>
  /\ \A i \in RegIds : recs[i].expr # r.expr
  /\ r \in Rec /\ r.subs = << >> /\ r.own.obj = o /\ r.own.orig = orig
  /\ r.own.cls = Append(orig, l) /\ r.own.wrapper = NoWrap
  /\ ~ Dotted(r.expr) => o \in r.visited
  /\ layers' = [layers EXCEPT ![o] = Append(orig, l)]
  /\ recs' = Append(recs, r) /\ reg' = Append(reg, Len(recs) + 1)
  /\ clobbered' = IF layers[o] = orig THEN clobbered ELSE clobbered \cup {o}
  /\ UNCHANGED <<wraps, orphaned>>
  /\ \A u \in Threads : /\ th[u].todo = << >> /\ th'[u].todo = << >>
                        /\ th'[u].pc \notin {"read", "swap"}
                        /\ WellFormed(th'[u].orig)

\* Watch n is the new one, with entry m of the table; the others are as before.
NewWatch(n, m, r) ==
  /\ n \notin DOMAIN recs /\ DOMAIN recs' = DOMAIN recs \cup {n} /\ recs'[n] = r
  /\ \A i \in DOMAIN recs : recs'[i] = recs[i]
  /\ m \notin DOMAIN reg /\ DOMAIN reg' = DOMAIN reg \cup {m} /\ reg'[m] = n
  /\ \A k \in DOMAIN reg : reg'[k] = reg[k]
  /\ RegIds' = RegIds \cup {n} /\ RegIds \subseteq DOMAIN recs
  /\ \A k \in DOMAIN reg : reg[k] \in DOMAIN recs
  /\ PayloadsOf(r) = {r.own} /\ r.own.cls # << >>
  /\ recs' \in Seq(Rec) /\ reg' \in Seq(DOMAIN recs')

LEMMA SwapWatch ==
  ASSUME TypeOK, NEW o, NEW orig, NEW l, NEW r, SwapMade(o, orig, l, r)
  PROVE  \E n, m : NewWatch(n, m, r)
<1>1. recs \in Seq(Rec) /\ reg \in Seq(DOMAIN recs)
  BY TypeParts
<1>2. PICK n : n = Len(recs) + 1
  OBVIOUS
<1>3. PICK m : m = Len(reg) + 1
  OBVIOUS
<1>4. /\ recs' \in Seq(Rec) /\ n \notin DOMAIN recs
      /\ DOMAIN recs' = DOMAIN recs \cup {n} /\ recs'[n] = r
      /\ \A i \in DOMAIN recs : recs'[i] = recs[i]
  <2>1. r \in Rec
    BY DEF SwapMade
  <2>2. PICK q : q = Append(recs, r)
    OBVIOUS
  <2>3. /\ q \in Seq(Rec) /\ n \notin DOMAIN recs
        /\ DOMAIN q = DOMAIN recs \cup {n} /\ q[n] = r
        /\ \A i \in DOMAIN recs : q[i] = recs[i]
    BY <1>1, <1>2, <2>1, <2>2, Longer
  <2>4. recs' = q
    BY <2>2 DEF SwapMade
  <2>5. QED
    BY <2>3, <2>4
<1>5. /\ reg' \in Seq(DOMAIN recs') /\ m \notin DOMAIN reg
      /\ DOMAIN reg' = DOMAIN reg \cup {m} /\ reg'[m] = n
      /\ \A k \in DOMAIN reg : reg'[k] = reg[k]
  <2>1. PICK D : D = DOMAIN recs'
    OBVIOUS
  <2>2. n \in D /\ reg \in Seq(D)
    BY <1>1, <1>4, <2>1
  <2>3. PICK q : q = Append(reg, n)
    OBVIOUS
  <2>4. /\ q \in Seq(D) /\ m \notin DOMAIN reg
        /\ DOMAIN q = DOMAIN reg \cup {m} /\ q[m] = n
        /\ \A k \in DOMAIN reg : q[k] = reg[k]
    BY <1>3, <2>2, <2>3, Longer
  <2>5. reg' = q
    BY <1>2, <2>3 DEF SwapMade
  <2>6. QED
    BY <2>1, <2>4, <2>5
<1>6. /\ RegIds \subseteq DOMAIN recs /\ \A k \in DOMAIN reg : reg[k] \in DOMAIN recs
  BY StoredTypes
<1>7. RegIds' = RegIds \cup {n}
  <2>1. RegIds' = {reg'[k] : k \in DOMAIN reg'}
    BY DEF RegIds
  <2>2. QED
    BY <1>5, <2>1 DEF RegIds
<1>8. PayloadsOf(r) = {r.own}
  BY DEF SwapMade, PayloadsOf
<1>9. r.own.cls # << >>
  BY LastOfAppend DEF SwapMade
<1>10. QED
  BY <1>4, <1>5, <1>6, <1>7, <1>8, <1>9 DEF NewWatch

LEMMA SwapParts ==
  ASSUME IInv, NEW o, NEW orig, NEW l, NEW r, SwapMade(o, orig, l, r)
  PROVE  /\ LayersInv' /\ TableInv' /\ PayloadInv' /\ SwapInv' /\ VisitedInv'
         /\ WrapsInv' /\ KeptInv' /\ OwnedInv' /\ OnceInv' /\ NamedInv'
<1>1. PICK n, m : NewWatch(n, m, r)
  BY SwapWatch DEF IInv
<1>2. /\ n \notin DOMAIN recs /\ DOMAIN recs' = DOMAIN recs \cup {n} /\ recs'[n] = r
      /\ \A i \in DOMAIN recs : recs'[i] = recs[i]
      /\ m \notin DOMAIN reg /\ DOMAIN reg' = DOMAIN reg \cup {m} /\ reg'[m] = n
      /\ \A k \in DOMAIN reg : reg'[k] = reg[k]
      /\ RegIds' = RegIds \cup {n} /\ RegIds \subseteq DOMAIN recs
      /\ \A k \in DOMAIN reg : reg[k] \in DOMAIN recs
      /\ PayloadsOf(r) = {r.own} /\ r.own.cls # << >>
  BY <1>1 DEF NewWatch
<1>3. /\ o \in Objs /\ orig \in Seq(Layer) /\ WellFormed(orig)
      /\ l \in Layer /\ l.root = r.expr /\ l.expr = r.expr
      /\ (l.attr = AnyAttr => ~ Dotted(r.expr))
      /\ (layers[o] = orig \/ orig = << >>)
      /\ \A i \in RegIds : recs[i].expr # r.expr
      /\ r \in Rec /\ r.subs = << >> /\ r.own.obj = o /\ r.own.orig = orig
      /\ r.own.wrapper = NoWrap
      /\ (~ Dotted(r.expr) => o \in r.visited)
  BY DEF SwapMade
<1>4. PICK c : c = Append(orig, l)
  OBVIOUS
<1>5. PICK top : top = Len(orig) + 1
  OBVIOUS
<1>6. /\ c \in Seq(Layer) /\ DOMAIN c = DOMAIN orig \cup {top} /\ c[top] = l
      /\ \A k \in DOMAIN orig : c[k] = orig[k]
      /\ Len(c) = top /\ top \notin DOMAIN orig
      /\ Last(c) = l /\ IsPrefix(orig, c)
  BY <1>3, <1>4, <1>5, Longer, LastOfAppend, PrefixAppend
<1>7. /\ r.own.cls = c /\ layers'[o] = c
      /\ \A x \in Objs \ {o} : layers'[x] = layers[x]
      /\ \A x \in Objs : layers[x] \in Seq(Layer)
  BY <1>4, TypeParts DEF IInv, SwapMade
<1>8. /\ clobbered \subseteq clobbered' /\ (layers[o] # orig => o \in clobbered')
      /\ UNCHANGED <<wraps, orphaned>>
  BY DEF SwapMade
<1>9. \A u \in Threads : /\ th[u].todo = << >> /\ th'[u].todo = << >>
                         /\ th'[u].pc \notin {"read", "swap"}
                         /\ WellFormed(th'[u].orig)
  BY DEF SwapMade
<1>10. \A u \in Threads : \A k \in DOMAIN th'[u].todo : FALSE
  BY <1>9
<1>11. IsPrefix(l.root, l.expr)
  <2>1. r.expr \in Seq(STRING)
    BY <1>3, Names DEF Rec
  <2>2. QED
    BY <1>3, <2>1, PrefixRefl
<1>12. LayersInv'
  <2>1. WellFormed(c)
    BY <1>3, <1>6, <1>11 DEF WellFormed
  <2>2. \A x \in Objs : WellFormed(layers'[x])
    BY <1>7, <2>1 DEF IInv, LayersInv
  <2>3. \A i \in DOMAIN recs' : \A p \in PayloadsOf(recs'[i]) : WellFormed(p.orig)
    BY <1>2, <1>3 DEF IInv, LayersInv
  <2>4. QED
    BY <1>9, <1>10, <2>2, <2>3 DEF LayersInv
<1>13. TableInv'
  <2>1. ASSUME NEW j \in DOMAIN reg', NEW k \in DOMAIN reg', j # k
        PROVE  recs'[reg'[j]].expr # recs'[reg'[k]].expr
    <3>1. \A x \in DOMAIN reg : reg[x] \in RegIds
      BY DEF RegIds
    <3>2. CASE j \in DOMAIN reg /\ k \in DOMAIN reg
      BY <1>2, <2>1, <3>2 DEF IInv, TableInv
    <3>3. CASE j = m \/ k = m
      BY <1>2, <1>3, <2>1, <3>1, <3>3
    <3>4. QED
      BY <1>2, <3>2, <3>3
  <2>2. QED
    BY <1>9, <2>1 DEF TableInv
<1>14. SwapInv'
  BY <1>9 DEF SwapInv
<1>15. PayloadInv'
  <2>1. Extends(r.own) /\ Last(r.own.cls).root = r.expr
    BY <1>3, <1>4, <1>6, <1>7 DEF Extends
  <2>2. \A i \in DOMAIN recs' : \A p \in PayloadsOf(recs'[i]) :
          Extends(p) /\ (Classed(p) => Last(p.cls).root = recs'[i].expr)
    BY <1>2, <2>1 DEF IInv, PayloadInv
  <2>3. QED
    BY <1>10, <2>2 DEF PayloadInv
<1>16. VisitedInv'
  <2>1. ASSUME NEW i \in DOMAIN recs'
        PROVE  /\ ~ Dotted(recs'[i].expr) =>
                    \A p \in PayloadsOf(recs'[i]) :
                      Classed(p) /\ p.obj # NoObj => p.obj \in recs'[i].visited
               /\ Dotted(recs'[i].expr) =>
                    \A k \in DOMAIN recs'[i].subs : ~ Classed(recs'[i].subs[k])
    <3>1. CASE i = n
      BY <1>2, <1>3, <3>1
    <3>2. CASE i \in DOMAIN recs
      BY <1>2, <3>2 DEF IInv, VisitedInv
    <3>3. QED
      BY <1>2, <3>1, <3>2
  <2>2. QED
    BY <2>1 DEF VisitedInv
<1>17. WrapsInv'
  <2>1. NoWrap <= Len(wraps)
    <3>1. Len(wraps) \in Nat
      BY TypeParts, LenProperties DEF IInv
    <3>2. QED
      BY <3>1 DEF NoWrap
  <2>2. \A i \in DOMAIN recs' : \A p \in PayloadsOf(recs'[i]) : p.wrapper <= Len(wraps')
    BY <1>2, <1>3, <1>8, <2>1 DEF IInv, WrapsInv
  <2>3. \A i, j \in DOMAIN recs' : i # j =>
          \A p \in PayloadsOf(recs'[i]), q \in PayloadsOf(recs'[j]) :
            p.wrapper # NoWrap => p.wrapper # q.wrapper
    <3>1. ASSUME NEW i \in DOMAIN recs', NEW j \in DOMAIN recs', i # j,
                 NEW p \in PayloadsOf(recs'[i]), NEW q \in PayloadsOf(recs'[j]),
                 p.wrapper # NoWrap
          PROVE  p.wrapper # q.wrapper
      <4>1. i # n
        BY <1>2, <1>3, <3>1
      <4>2. CASE j = n
        BY <1>2, <1>3, <3>1, <4>2
      <4>3. CASE j # n
        BY <1>2, <3>1, <4>1, <4>3 DEF IInv, WrapsInv
      <4>4. QED
        BY <4>2, <4>3
    <3>2. QED
      BY <3>1
  <2>4. QED
    BY <1>10, <2>2, <2>3 DEF WrapsInv
<1>18. KeptInv'
  <2>1. ASSUME NEW i \in RegIds', NEW p \in PayloadsOf(recs'[i]), p.obj # NoObj,
               p.obj \notin clobbered'
        PROVE  IsPrefix(p.cls, layers'[p.obj])
    <3>1. CASE i = n
      BY <1>2, <1>3, <1>6, <1>7, <2>1, <3>1, PrefixRefl
    <3>2. CASE i \in RegIds
      <4>1. p \in PayloadsOf(recs[i]) /\ p.obj \notin clobbered /\ i \in DOMAIN recs
        BY <1>2, <1>8, <2>1, <3>2
      <4>2. p.obj \in Objs /\ p.cls \in Seq(Layer)
        BY <2>1, <4>1, StoredTypes, PayloadTypes DEF IInv, Payload
      <4>3. IsPrefix(p.cls, layers[p.obj])
        BY <2>1, <3>2, <4>1 DEF IInv, KeptInv
      <4>4. CASE p.obj = o
        <5>1. layers[o] = orig
          BY <1>8, <2>1, <4>4
        <5>2. IsPrefix(p.cls, c)
          BY <1>3, <1>6, <4>2, <4>3, <4>4, <5>1, PrefixTrans
        <5>3. QED
          BY <1>7, <4>4, <5>2
      <4>5. CASE p.obj # o
        BY <1>7, <4>2, <4>3, <4>5
      <4>6. QED
        BY <4>4, <4>5
    <3>3. QED
      BY <1>2, <3>1, <3>2
  <2>2. QED
    BY <2>1 DEF KeptInv
<1>19. OwnedInv'
  <2>1. ASSUME NEW x, NEW cls, Owned(x, cls) PROVE OwnedNext(x, cls)
    <3>1. \E j \in RegIds : \E q \in PayloadsOf(recs[j]) : Owner(q, x, cls)
      BY <1>9, <2>1 DEF Owned
    <3>2. QED
      BY <1>2, <3>1 DEF OwnedNext
  <2>2. OwnedNext(o, c)
    <3>1. Owner(r.own, o, c)
      BY <1>3, <1>7 DEF Owner
    <3>2. QED
      BY <1>2, <3>1 DEF OwnedNext
  <2>3. ASSUME NEW x \in Objs \ orphaned', NEW k \in DOMAIN layers'[x]
        PROVE  OwnedNext(x, SubSeq(layers'[x], 1, k))
    <3>1. CASE x # o
      <4>1. layers'[x] = layers[x] /\ x \in Objs \ orphaned
        BY <1>7, <1>8, <2>3, <3>1
      <4>2. Owned(x, SubSeq(layers[x], 1, k))
        BY <2>3, <4>1 DEF IInv, OwnedInv
      <4>3. QED
        BY <2>1, <4>1, <4>2
    <3>2. CASE x = o /\ k = top
      <4>1. SubSeq(c, 1, k) = c
        BY <1>6, <3>2, SubSeqFull
      <4>2. QED
        BY <1>7, <2>2, <3>2, <4>1
    <3>3. CASE x = o /\ k # top
      <4>1. k \in DOMAIN orig /\ o \in Objs \ orphaned
        BY <1>6, <1>7, <1>8, <2>3, <3>3
      <4>2. layers[o] = orig
        BY <1>3, <4>1
      <4>3. Owned(o, SubSeq(orig, 1, k))
        BY <4>1, <4>2 DEF IInv, OwnedInv
      <4>4. k \in 1 .. Len(orig)
        BY <1>3, <4>1, LenProperties
      <4>5. SubSeq(orig, 1, k) = SubSeq(c, 1, k)
        BY <1>3, <1>6, <4>4, SamePrefix
      <4>6. QED
        BY <1>7, <2>1, <3>3, <4>3, <4>5
    <3>4. QED
      BY <3>1, <3>2, <3>3
  <2>4. QED
    BY <2>3, OwnedLater
<1>20. OnceInv'
  <2>1. ASSUME NEW i \in DOMAIN recs'
        PROVE  /\ \A j, k \in DOMAIN recs'[i].subs :
                    j # k => Apart(recs'[i].subs[j], recs'[i].subs[k])
               /\ \A k \in DOMAIN recs'[i].subs : Apart(recs'[i].subs[k], recs'[i].own)
    <3>1. CASE i = n
      BY <1>2, <1>3, <3>1
    <3>2. CASE i \in DOMAIN recs
      BY <1>2, <3>2 DEF IInv, OnceInv
    <3>3. QED
      BY <1>2, <3>1, <3>2
  <2>2. QED
    BY <2>1 DEF OnceInv
<1>21. NamedInv'
  <2>1. ASSUME NEW i \in RegIds', NEW p \in PayloadsOf(recs'[i]), p.wrapper # NoWrap
        PROVE  wraps'[p.wrapper] # NoExpr /\ IsPrefix(recs'[i].expr, wraps'[p.wrapper])
    <3>1. i # n
      BY <1>2, <1>3, <2>1
    <3>2. QED
      BY <1>2, <1>8, <2>1, <3>1 DEF IInv, NamedInv
  <2>2. QED
    BY <2>1 DEF NamedInv
<1>22. QED
  BY <1>12, <1>13, <1>14, <1>15, <1>16, <1>17, <1>18, <1>19, <1>20, <1>21

LEMMA SwapType ==
  ASSUME TypeOK, NEW o, NEW orig, NEW l, NEW r, SwapMade(o, orig, l, r),
         heap' \in [Objs -> [Attrs -> Values]], th' \in [Threads -> ThreadState], LockInv',
         UNCHANGED <<lock, installing>>
  PROVE  TypeOK'
<1>1. PICK n, m : NewWatch(n, m, r)
  BY SwapWatch
<1>2. PICK c : c = Append(orig, l)
  OBVIOUS
<1>3. c \in Seq(Layer)
  BY <1>2, Longer DEF SwapMade
<1>4. layers' \in [Objs -> Seq(Layer)]
  BY <1>2, <1>3, TypeParts DEF SwapMade
<1>5. clobbered' \subseteq Objs
  BY TypeParts DEF SwapMade
<1>6. /\ recs' \in Seq(Rec) /\ reg' \in Seq(DOMAIN recs')
      /\ wraps' = wraps /\ orphaned' = orphaned
  BY <1>1 DEF NewWatch, SwapMade
<1>7. \A j \in DOMAIN recs' : Len(recs'[j].subs) <= MaxSubs
  <2>1. r.subs = << >>
    BY DEF SwapMade
  <2>2. Len(r.subs) <= MaxSubs
    <3>1. r.subs \in Seq(Payload) /\ Len(r.subs) = 0
      BY <2>1, EmptySeq
    <3>2. QED
      BY <3>1, Numbers
  <2>3. QED
    BY <1>1, <2>2, TypeParts DEF NewWatch
<1>8. QED
  BY <1>4, <1>5, <1>6, <1>7, TypeParts, TypePartsPrime

\* A class is built on what was read, and its thread goes on as s.
Swapping(t, l, visited, s) ==
  /\ th[t].pc = "swap"
  /\ l \in Layer /\ l.root = th[t].expr /\ l.expr = th[t].expr
  /\ l.attr = AnyAttr => ~ Dotted(th[t].expr)
  /\ visited \in SUBSET Objs /\ (~ Dotted(th[t].expr) => th[t].obj \in visited)
  /\ Swap(t, l, visited)
  /\ s \in ThreadState /\ th' = [th EXCEPT ![t] = s]
  /\ s.todo = th[t].todo /\ s.orig = th[t].orig /\ s.pc \in {"wrap", "walk", "exit"}
  /\ s.op = th[t].op

\* The watch that is recorded for it.
LEMMA NewRecType ==
  ASSUME IInv, NEW t \in Threads, NEW l, NEW visited, NEW s, Swapping(t, l, visited, s)
  PROVE  LET r == NewRec(t, l, visited) IN
         /\ SwapMade(th[t].obj, th[t].orig, l, r) /\ r \in Rec /\ r.expr = th[t].expr
         /\ RecsKept /\ Len(recs) + 1 \in DOMAIN recs' /\ recs'[Len(recs) + 1] = r
         /\ th' \in [Threads -> ThreadState] /\ LockInv' /\ th'[t] = s
         /\ \A u \in Threads \ {t} : th'[u] = th[u]
         /\ UNCHANGED <<lock, installing>> /\ heap' \in [Objs -> [Attrs -> Values]]
         /\ Len(recs) + 1 \in Nat
<1> USE DEF Swapping
<1>1. /\ TypeOK /\ th[t] \in ThreadState /\ StateOK(th[t])
  BY TypeParts DEF IInv, ThreadsInv
<1>2. PICK o : o = th[t].obj
  OBVIOUS
<1>3. PICK e : e = th[t].expr
  OBVIOUS
<1>4. PICK orig : orig = th[t].orig
  OBVIOUS
<1>5. o \in Objs /\ e \in Exprs /\ orig \in Seq(Layer) /\ th[t].op = "watch"
  BY <1>1, <1>2, <1>3, <1>4 DEF StateOK, ThreadState
<1>6. PICK c : c = Append(orig, l)
  OBVIOUS
<1>7. c \in Seq(Layer)
  BY <1>5, <1>6, Longer
<1>8. PICK own : own = [NoPayload EXCEPT !.obj = o, !.orig = orig, !.cls = c]
  OBVIOUS
<1>9. /\ own \in Payload /\ own.obj = o /\ own.orig = orig /\ own.cls = c
      /\ own.wrapper = NoWrap
  BY <1>5, <1>7, <1>8, NoPayloadType DEF NoPayload, Payload
<1>10. PICK r : r = NewRec(t, l, visited)
  OBVIOUS
<1>11. r = [expr |-> e, own |-> own, subs |-> << >>, visited |-> visited, capped |-> FALSE]
  BY <1>2, <1>3, <1>4, <1>6, <1>8, <1>10 DEF NewRec
<1>12. /\ r \in Rec /\ r.expr = e /\ r.own = own /\ r.subs = << >> /\ r.visited = visited
  BY <1>5, <1>9, <1>11, EmptyOf DEF Rec
<1>13. /\ layers' = [layers EXCEPT ![o] = Append(orig, l)]
       /\ recs' = Append(recs, r) /\ reg' = Append(reg, Len(recs) + 1)
       /\ clobbered' = IF layers[o] = orig THEN clobbered ELSE clobbered \cup {o}
       /\ UNCHANGED <<heap, wraps, lock, installing, orphaned>>
  BY <1>2, <1>4, <1>10 DEF Swap
<1>14. /\ WellFormed(orig) /\ (layers[o] = orig \/ orig = << >>)
       /\ \A i \in RegIds : recs[i].expr # e
  BY <1>2, <1>3, <1>4 DEF IInv, LayersInv, SwapInv, TableInv
<1>15. /\ th' \in [Threads -> ThreadState] /\ th'[t] = s
       /\ \A u \in Threads \ {t} : th'[u] = th[u]
  BY <1>1, ThreadStep
<1>16. \A u \in Threads : /\ th[u].todo = << >> /\ th'[u].todo = << >>
                          /\ th'[u].pc \notin {"read", "swap"}
                          /\ WellFormed(th'[u].orig)
  BY <1>15, Alone DEF IInv, LayersInv
<1>17. SwapMade(o, orig, l, r)
  BY <1>2, <1>3, <1>5, <1>6, <1>9, <1>12, <1>13, <1>14, <1>16 DEF SwapMade
<1>18. PICK n : n = Len(recs) + 1
  OBVIOUS
<1>19. /\ n \in Nat /\ n \in DOMAIN recs' /\ recs'[n] = r
       /\ \A i \in DOMAIN recs : recs'[i] = recs[i] /\ i \in DOMAIN recs'
  <2>1. PICK q : q = Append(recs, r)
    OBVIOUS
  <2>2. recs \in Seq(Rec)
    BY <1>1, TypeParts
  <2>3. /\ n \in Nat /\ DOMAIN q = DOMAIN recs \cup {n} /\ q[n] = r
        /\ \A i \in DOMAIN recs : q[i] = recs[i]
    BY <1>12, <1>18, <2>1, <2>2, Longer
  <2>4. recs' = q
    BY <1>13, <2>1
  <2>5. QED
    BY <2>3, <2>4
<1>20. RecsKept
  BY <1>19 DEF RecsKept
<1>21. LockInv'
  BY <1>1, <1>5, <1>13, <1>15, LockKept DEF Holding
<1>22. heap' \in [Objs -> [Attrs -> Values]]
  BY <1>1, <1>13, TypeParts
<1>23. QED
  BY <1>2, <1>3, <1>4, <1>10, <1>12, <1>13, <1>15, <1>17, <1>18, <1>19, <1>20, <1>21, <1>22

LEMMA SwapInvariant ==
  ASSUME IInv, NEW o, NEW orig, NEW l, NEW r, SwapMade(o, orig, l, r),
         heap' \in [Objs -> [Attrs -> Values]], th' \in [Threads -> ThreadState], LockInv',
         UNCHANGED <<lock, installing>>, ThreadsInv'
  PROVE  IInv'
<1>1. TypeOK'
  BY SwapType DEF IInv
<1>2. /\ LayersInv' /\ TableInv' /\ PayloadInv' /\ SwapInv' /\ VisitedInv'
      /\ WrapsInv' /\ KeptInv' /\ OwnedInv' /\ OnceInv' /\ NamedInv'
  BY SwapParts
<1>3. QED
  BY <1>1, <1>2 DEF IInv

LEMMA SwapAttrInv ==
  ASSUME IInv, NEW t \in Threads, SwapAttr(t) PROVE IInv'
<1>1. /\ TypeOK /\ ThreadsInv /\ th[t] \in ThreadState /\ StateOK(th[t])
  BY TypeParts DEF IInv, ThreadsInv
<1>2. PICK pc \in {"wrap", "exit"} : pc = IF th[t].init = Plain THEN "wrap" ELSE "exit"
  OBVIOUS
<1>3. PICK n : n = Len(recs) + 1
  OBVIOUS
<1>4. PICK s : s = [th[t] EXCEPT !.pc = pc, !.rec = n]
  OBVIOUS
<1>5. PICK l : l = AttrLayer(th[t].expr)
  OBVIOUS
<1>6. /\ th[t].pc = "swap" /\ Dotted(th[t].expr) /\ Swap(t, l, {})
      /\ th' = [th EXCEPT ![t] = s]
  BY <1>2, <1>3, <1>4, <1>5 DEF SwapAttr
<1>7. th[t].op = "watch" /\ th[t].expr \in Exprs /\ th[t].obj \in Objs /\ th[t].todo = << >>
  BY <1>1, <1>6 DEF StateOK
<1>8. /\ l \in Layer /\ l.root = th[t].expr /\ l.expr = th[t].expr /\ l.attr # AnyAttr
  BY <1>5, <1>6, <1>7, LayerTypes, WellFormedLayers
<1>9. n \in Nat
  <2>1. recs \in Seq(Rec)
    BY <1>1, TypeParts
  <2>2. QED
    BY <1>3, <2>1, LenProperties
<1>10. /\ s \in ThreadState /\ s.pc = pc /\ s.todo = th[t].todo /\ s.orig = th[t].orig
       /\ s.op = th[t].op /\ s.rec = n /\ s.expr = th[t].expr /\ s.obj = th[t].obj
  BY <1>1, <1>4, <1>9 DEF ThreadState
<1>11. PICK r : r = NewRec(t, l, {})
  OBVIOUS
<1>12. /\ SwapMade(th[t].obj, th[t].orig, l, r) /\ r.expr = th[t].expr
       /\ RecsKept /\ n \in DOMAIN recs' /\ recs'[n] = r
       /\ th' \in [Threads -> ThreadState] /\ LockInv' /\ th'[t] = s
       /\ \A u \in Threads \ {t} : th'[u] = th[u]
       /\ UNCHANGED <<lock, installing>> /\ heap' \in [Objs -> [Attrs -> Values]]
  <2>1. Swapping(t, l, {}, s)
    BY <1>2, <1>6, <1>8, <1>10 DEF Swapping
  <2>2. QED
    BY <1>3, <1>11, <2>1, NewRecType
<1>13. StateOK(s)'
  BY <1>2, <1>6, <1>7, <1>10, <1>12 DEF StateOK
<1>14. ThreadsInv'
  BY <1>1, <1>12, <1>13, ThreadsKept
<1>15. QED
  BY <1>12, <1>14, SwapInvariant

LEMMA SwapAnyInv ==
  ASSUME IInv, NEW t \in Threads, NEW order \in Orders, SwapAny(t, order) PROVE IInv'
<1>1. /\ TypeOK /\ ThreadsInv /\ th[t] \in ThreadState /\ StateOK(th[t])
  BY TypeParts DEF IInv, ThreadsInv
<1>2. PICK work : work = Items(th[t].obj, th[t].expr, 1, order)
  OBVIOUS
<1>3. PICK n : n = Len(recs) + 1
  OBVIOUS
<1>4. PICK s : s = [th[t] EXCEPT !.pc = "walk", !.rec = n, !.work = work]
  OBVIOUS
<1>5. PICK l : l = AnyLayer(th[t].expr, th[t].expr)
  OBVIOUS
<1>6. /\ th[t].pc = "swap" /\ ~ Dotted(th[t].expr) /\ Swap(t, l, {th[t].obj})
      /\ th' = [th EXCEPT ![t] = s]
  BY <1>2, <1>3, <1>4, <1>5 DEF SwapAny
<1>7. th[t].op = "watch" /\ th[t].expr \in Exprs /\ th[t].obj \in Objs /\ th[t].todo = << >>
  BY <1>1, <1>6 DEF StateOK
<1>8. th[t].expr \in Seq(STRING)
  BY <1>7, Names
<1>9. /\ l \in Layer /\ l.root = th[t].expr /\ l.expr = th[t].expr
  BY <1>5, <1>7, <1>8, LayerTypes
<1>10. n \in Nat
  <2>1. recs \in Seq(Rec)
    BY <1>1, TypeParts
  <2>2. QED
    BY <1>3, <2>1, LenProperties
<1>11. /\ work \in Seq(Item) /\ work # << >> /\ \A k \in DOMAIN work : work[k].path = th[t].expr
  <2>1. 1 \in 1 .. Depth
    BY Numbers
  <2>2. QED
    BY <1>2, <1>7, <1>8, <2>1, ItemsType
<1>12. /\ s \in ThreadState /\ s.pc = "walk" /\ s.todo = th[t].todo /\ s.orig = th[t].orig
       /\ s.op = th[t].op /\ s.rec = n /\ s.expr = th[t].expr /\ s.obj = th[t].obj
       /\ s.work = work
  BY <1>1, <1>4, <1>10, <1>11 DEF ThreadState
<1>13. PICK visited \in SUBSET Objs : visited = {th[t].obj}
  BY <1>7
<1>14. PICK r : r = NewRec(t, l, visited)
  OBVIOUS
<1>15. /\ SwapMade(th[t].obj, th[t].orig, l, r) /\ r.expr = th[t].expr
       /\ RecsKept /\ n \in DOMAIN recs' /\ recs'[n] = r
       /\ th' \in [Threads -> ThreadState] /\ LockInv' /\ th'[t] = s
       /\ \A u \in Threads \ {t} : th'[u] = th[u]
       /\ UNCHANGED <<lock, installing>> /\ heap' \in [Objs -> [Attrs -> Values]]
  <2>1. Swapping(t, l, visited, s)
    BY <1>6, <1>9, <1>12, <1>13 DEF Swapping
  <2>2. QED
    BY <1>3, <1>14, <2>1, NewRecType
<1>16. StateOK(s)'
  <2>1. IsPrefix(th[t].expr, th[t].expr)
    BY <1>8, PrefixRefl
  <2>2. QED
    BY <1>6, <1>7, <1>11, <1>12, <1>15, <2>1 DEF StateOK
<1>17. ThreadsInv'
  BY <1>1, <1>15, <1>16, ThreadsKept
<1>18. QED
  BY <1>15, <1>17, SwapInvariant

-----------------------------------------------------------------------------
(* A watch leaves the table.                                               *)

\* Whoever is at work under the lock is alone there.
LEMMA Sole ==
  ASSUME IInv, NEW t \in Threads, th[t].pc \in {"pop", "undo"}
  PROVE  /\ lock = t /\ th[t].op # "write"
         /\ \A u \in Threads \ {t} :
              th[u].todo = << >> /\ th[u].pc \notin {"read", "swap", "undo"}
<1>1. LockInv /\ \A u \in Threads : StateOK(th[u])
  BY TypeParts DEF IInv, ThreadsInv
<1>2. \A u \in Threads : th[u].op = "write" => th[u].pc = "walk"
  BY <1>1 DEF StateOK
<1>3. lock = t
  BY <1>1, <1>2 DEF LockInv, Holding
<1>4. \A u \in Threads \ {t} : ~ Holding(th[u])
  BY <1>1, <1>3 DEF LockInv
<1>5. \A u \in Threads \ {t} : th[u].pc \notin {"read", "swap", "undo"}
  BY <1>2, <1>4 DEF Holding
<1>6. \A u \in Threads \ {t} : th[u].todo = << >>
  BY <1>1, <1>5 DEF StateOK
<1>7. QED
  BY <1>2, <1>3, <1>5, <1>6

\* What the removal has to undo, and in which order.
LEMMA TodoType ==
  ASSUME NEW r \in Rec
  PROVE  LET q == Append(Reverse(r.subs), r.own) IN
         /\ q \in Seq(Payload) /\ q # << >>
         /\ \A k \in DOMAIN q : q[k] \in PayloadsOf(r)
         /\ \A p \in PayloadsOf(r) : \E k \in DOMAIN q : q[k] = p
<1>1. r.subs \in Seq(Payload) /\ r.own \in Payload
  BY DEF Rec
<1>2. PICK b : b = Reverse(r.subs)
  OBVIOUS
<1>3. /\ b \in Seq(Payload)
      /\ \A k \in DOMAIN b : \E j \in DOMAIN r.subs : b[k] = r.subs[j]
      /\ \A j \in DOMAIN r.subs : \E k \in DOMAIN b : b[k] = r.subs[j]
  BY <1>1, <1>2, ReverseProperties
<1>4. PICK q : q = Append(b, r.own)
  OBVIOUS
<1>5. PICK n : n = Len(b) + 1
  OBVIOUS
<1>6. /\ q \in Seq(Payload) /\ DOMAIN q = DOMAIN b \cup {n} /\ q[n] = r.own
      /\ \A k \in DOMAIN b : q[k] = b[k]
  BY <1>1, <1>3, <1>4, <1>5, Longer
<1>7. q # << >>
  BY <1>6
<1>8. \A k \in DOMAIN q : q[k] \in PayloadsOf(r)
  BY <1>3, <1>6 DEF PayloadsOf
<1>9. \A p \in PayloadsOf(r) : \E k \in DOMAIN q : q[k] = p
  BY <1>3, <1>6 DEF PayloadsOf
<1>10. QED
  BY <1>2, <1>4, <1>6, <1>7, <1>8, <1>9

\* The table without its entry k.
LEMMA TableWithout ==
  ASSUME IInv, NEW k \in DOMAIN reg, reg' = RemoveAt(reg, k), recs' = recs
  PROVE  /\ reg' \in Seq(DOMAIN recs)
         /\ RegIds' \subseteq RegIds
         /\ \A i \in RegIds : i = reg[k] \/ i \in RegIds'
         /\ \A i \in RegIds' : recs[i].expr # recs[reg[k]].expr
         /\ \A j, m \in DOMAIN reg' : j # m => recs[reg'[j]].expr # recs[reg'[m]].expr
<1>1. reg \in Seq(DOMAIN recs)
  BY TypeParts DEF IInv
<1>2. \A j, m \in DOMAIN reg : j # m => recs[reg[j]].expr # recs[reg[m]].expr
  BY DEF IInv, TableInv
<1>3. PICK q : q = RemoveAt(reg, k)
  OBVIOUS
<1>4. PICK n \in Nat : n = Len(reg) /\ DOMAIN reg = 1 .. n
  BY <1>1, LenProperties
<1>5. /\ q \in Seq(DOMAIN recs) /\ DOMAIN q = 1 .. n - 1
      /\ \A j \in 1 .. n - 1 : q[j] = IF j < k THEN reg[j] ELSE reg[j + 1]
  BY <1>1, <1>3, <1>4, RemoveAtProperties
<1>6. \A j \in 1 .. n - 1 : \E m \in DOMAIN reg \ {k} : q[j] = reg[m]
  <2> TAKE j \in 1 .. n - 1
  <2>1. PICK m \in Nat : m = IF j < k THEN j ELSE j + 1
    OBVIOUS
  <2>2. m \in DOMAIN reg \ {k} /\ q[j] = reg[m]
    BY <1>4, <1>5, <2>1
  <2>3. QED
    BY <2>2
<1>7. ASSUME NEW j \in 1 .. n - 1, NEW m \in 1 .. n - 1, j # m
      PROVE  recs[q[j]].expr # recs[q[m]].expr
  <2>1. PICK x \in Nat : x = IF j < k THEN j ELSE j + 1
    OBVIOUS
  <2>2. PICK y \in Nat : y = IF m < k THEN m ELSE m + 1
    OBVIOUS
  <2>3. x \in DOMAIN reg /\ y \in DOMAIN reg /\ x # y
    BY <1>4, <1>7, <2>1, <2>2
  <2>4. q[j] = reg[x] /\ q[m] = reg[y]
    BY <1>5, <2>1, <2>2
  <2>5. QED
    BY <1>2, <2>3, <2>4
<1>8. ASSUME NEW m \in DOMAIN reg \ {k} PROVE \E j \in 1 .. n - 1 : q[j] = reg[m]
  <2>1. CASE m < k
    BY <1>4, <1>5, <2>1
  <2>2. CASE ~ m < k
    <3>1. PICK j \in 1 .. n - 1 : m = j + 1
      <4>1. m - 1 \in 1 .. n - 1 /\ m = (m - 1) + 1
        BY <1>4, <2>2
      <4>2. QED
        BY <4>1
    <3>2. ~ j < k
      BY <1>4, <2>2, <3>1
    <3>3. q[j] = reg[m]
      BY <1>5, <3>1, <3>2
    <3>4. QED
      BY <3>3
  <2>3. QED
    BY <2>1, <2>2
<1>9. RegIds' = {q[j] : j \in 1 .. n - 1}
  BY <1>3, <1>5 DEF RegIds
<1>10. RegIds' \subseteq RegIds /\ \A i \in RegIds' : recs[i].expr # recs[reg[k]].expr
  BY <1>2, <1>6, <1>9 DEF RegIds
<1>11. \A i \in RegIds : i = reg[k] \/ i \in RegIds'
  BY <1>8, <1>9 DEF RegIds
<1>12. QED
  BY <1>3, <1>5, <1>7, <1>10, <1>11

LEMMA PopInv ==
  ASSUME IInv, NEW t \in Threads, Pop(t) PROVE IInv'
<1>1. /\ TypeOK /\ ThreadsInv /\ th[t] \in ThreadState /\ StateOK(th[t])
      /\ th \in [Threads -> ThreadState]
  BY TypeParts DEF IInv, ThreadsInv
<1>2. PICK k \in First(Removable(t)) :
        /\ reg' = RemoveAt(reg, k)
        /\ th' = [th EXCEPT ![t].pc = "undo",
                            ![t].todo = Append(Reverse(recs[reg[k]].subs), recs[reg[k]].own)]
  BY DEF Pop
<1>3. /\ th[t].pc = "pop"
      /\ UNCHANGED <<heap, layers, wraps, recs, lock, installing, clobbered, orphaned>>
  BY DEF Pop
<1>4. k \in DOMAIN reg
  BY <1>2 DEF First, Removable
<1>5. PICK i : i = reg[k]
  OBVIOUS
<1>6. PICK r : r = recs[i]
  OBVIOUS
<1>7. i \in DOMAIN recs /\ i \in RegIds /\ r \in Rec
  BY <1>1, <1>4, <1>5, <1>6, StoredTypes DEF RegIds
<1>8. PICK todo : todo = Append(Reverse(r.subs), r.own)
  OBVIOUS
<1>9. /\ todo \in Seq(Payload) /\ todo # << >>
      /\ \A x \in DOMAIN todo : todo[x] \in PayloadsOf(r)
      /\ \A p \in PayloadsOf(r) : \E x \in DOMAIN todo : todo[x] = p
  BY <1>7, <1>8, TodoType
<1>10. PICK s : s = [th[t] EXCEPT !.pc = "undo", !.todo = todo]
  OBVIOUS
<1>11. /\ s \in ThreadState /\ s.pc = "undo" /\ s.todo = todo /\ s.op = th[t].op
       /\ s.orig = th[t].orig /\ s.obj = th[t].obj /\ s.expr = th[t].expr
  BY <1>1, <1>9, <1>10 DEF ThreadState
<1>12. th' = [th EXCEPT ![t] = s]
  BY <1>1, <1>2, <1>5, <1>6, <1>8, <1>10
<1>13. /\ th' \in [Threads -> ThreadState] /\ th'[t] = s
       /\ \A u \in Threads \ {t} : th'[u] = th[u]
  BY <1>1, <1>11, <1>12, ThreadStep
<1>14. /\ th[t].op # "write"
       /\ \A u \in Threads \ {t} :
            th[u].todo = << >> /\ th[u].pc \notin {"read", "swap", "undo"}
  BY <1>3, Sole
<1>15. RecsKept /\ ThreadsInv' /\ LockInv'
  <2>1. RecsKept
    BY <1>3 DEF RecsKept
  <2>2. StateOK(s)'
    BY <1>1, <1>9, <1>11, <1>14 DEF StateOK
  <2>3. ThreadsInv'
    BY <1>1, <1>13, <2>1, <2>2, ThreadsKept
  <2>4. LockInv'
    BY <1>1, <1>3, <1>11, <1>13, LockKept DEF Holding
  <2>5. QED
    BY <2>1, <2>3, <2>4
<1>16. /\ reg' \in Seq(DOMAIN recs) /\ RegIds' \subseteq RegIds
       /\ \A j \in RegIds : j = i \/ j \in RegIds'
       /\ \A j \in RegIds' : recs[j].expr # r.expr
       /\ \A j, m \in DOMAIN reg' : j # m => recs[reg'[j]].expr # recs[reg'[m]].expr
       /\ RegIds \subseteq DOMAIN recs
  BY <1>1, <1>2, <1>3, <1>4, <1>5, <1>6, TableWithout, StoredTypes
<1>17. TypeOK'
  BY <1>1, <1>3, <1>13, <1>15, <1>16, TypeParts, TypePartsPrime
<1>18. \A u \in Threads : \A x \in DOMAIN th'[u].todo :
         u = t /\ th'[u].todo[x] \in PayloadsOf(recs[i])
  BY <1>6, <1>9, <1>11, <1>13, <1>14
<1>19. \A u \in Threads : /\ th'[u].orig = th[u].orig
                          /\ th'[u].pc \notin {"read", "swap"}
  BY <1>11, <1>13, <1>14
<1>20. LayersInv'
  BY <1>3, <1>7, <1>18, <1>19 DEF IInv, LayersInv
<1>21. TableInv'
  BY <1>3, <1>16, <1>19 DEF TableInv
<1>22. PayloadInv'
  <2>1. ASSUME NEW u \in Threads, NEW x \in DOMAIN th'[u].todo
        PROVE  /\ Extends(th'[u].todo[x])
               /\ Classed(th'[u].todo[x]) =>
                    \A j \in RegIds' : Last(th'[u].todo[x].cls).root # recs[j].expr
    <3>1. PICK p : p = th'[u].todo[x]
      OBVIOUS
    <3>2. p \in PayloadsOf(recs[i])
      BY <1>18, <3>1
    <3>3. Extends(p) /\ (Classed(p) => Last(p.cls).root = recs[i].expr)
      BY <1>7, <3>2 DEF IInv, PayloadInv
    <3>4. QED
      BY <1>6, <1>16, <3>1, <3>3
  <2>2. QED
    BY <1>3, <2>1 DEF IInv, PayloadInv
<1>23. SwapInv'
  BY <1>19 DEF SwapInv
<1>24. VisitedInv' /\ OnceInv'
  BY <1>3 DEF IInv, VisitedInv, OnceInv
<1>25. WrapsInv'
  <2>1. \A u \in Threads : \A x \in DOMAIN th'[u].todo : th'[u].todo[x].wrapper <= Len(wraps)
    BY <1>7, <1>18 DEF IInv, WrapsInv
  <2>2. ASSUME NEW u \in Threads, NEW x \in DOMAIN th'[u].todo, NEW j \in RegIds',
               NEW p \in PayloadsOf(recs[j]), p.wrapper # NoWrap
        PROVE  p.wrapper # th'[u].todo[x].wrapper
    <3>1. j \in DOMAIN recs /\ j # i
      BY <1>6, <1>16
    <3>2. QED
      BY <1>7, <1>18, <2>2, <3>1 DEF IInv, WrapsInv
  <2>3. QED
    BY <1>3, <2>1, <2>2 DEF IInv, WrapsInv
<1>26. KeptInv' /\ NamedInv'
  BY <1>3, <1>16 DEF IInv, KeptInv, NamedInv
<1>27. OwnedInv'
  <2>1. ASSUME NEW o, NEW cls, Owned(o, cls) PROVE OwnedNext(o, cls)
    <3>1. PICK j \in RegIds : \E p \in PayloadsOf(recs[j]) : Owner(p, o, cls)
      <4>1. \A x \in DOMAIN th[t].todo : FALSE
        BY <1>1, <1>3 DEF StateOK
      <4>2. QED
        BY <1>14, <2>1, <4>1 DEF Owned
    <3>2. CASE j \in RegIds'
      BY <1>3, <3>1, <3>2 DEF OwnedNext
    <3>3. CASE j = i
      <4>1. PICK p \in PayloadsOf(r) : Owner(p, o, cls)
        BY <1>6, <3>1, <3>3
      <4>2. PICK x \in DOMAIN todo : todo[x] = p
        BY <1>9
      <4>3. x \in DOMAIN th'[t].todo /\ Owner(th'[t].todo[x], o, cls)
        BY <1>11, <1>13, <4>1, <4>2
      <4>4. QED
        BY <4>3 DEF OwnedNext
    <3>4. QED
      BY <1>16, <3>2, <3>3
  <2>2. ASSUME NEW o \in Objs \ orphaned', NEW n \in DOMAIN layers'[o]
        PROVE  OwnedNext(o, SubSeq(layers'[o], 1, n))
    <3>1. Owned(o, SubSeq(layers[o], 1, n))
      BY <1>3, <2>2 DEF IInv, OwnedInv
    <3>2. QED
      BY <1>3, <2>1, <3>1
  <2>3. QED
    BY <2>2, OwnedLater
<1>28. QED
  BY <1>15, <1>17, <1>20, <1>21, <1>22, <1>23, <1>24, <1>25, <1>26, <1>27 DEF IInv

-----------------------------------------------------------------------------
(* One thing a watch did is undone.                                        *)

LEMMA ShorterPrefix ==
  ASSUME NEW S, NEW s \in Seq(S), NEW n \in 1 .. Len(s)
  PROVE  SubSeq(s, 1, n) \in Seq(S) /\ Len(SubSeq(s, 1, n)) = n /\ SubSeq(s, 1, n) # << >>
<1>1. Len(s) \in Nat /\ n \in Nat /\ \A k \in 1 .. n : s[k] \in S
  BY LenProperties, ElementOfSeq
<1>2. PICK q : q = SubSeq(s, 1, n)
  OBVIOUS
<1>3. q \in Seq(S) /\ Len(q) = n
  BY <1>1, <1>2, SubSeqProperties
<1>4. q # << >>
  BY <1>1, <1>3, EmptySeq
<1>5. QED
  BY <1>2, <1>3, <1>4

LEMMA TailLength ==
  ASSUME NEW S, NEW s \in Seq(S), s # << >>
  PROVE  Len(s) = 1 <=> Tail(s) = << >>
<1>1. PICK q : q = Tail(s)
  OBVIOUS
<1>2. q \in Seq(S) /\ Len(q) = Len(s) - 1
  BY <1>1, HeadTailProperties
<1>3. Len(s) \in Nat /\ (q = << >> <=> Len(q) = 0)
  BY <1>2, LenProperties, EmptySeq
<1>4. QED
  BY <1>1, <1>2, <1>3

\* What Undo does to the class, the wrapper and the heap.
UndoMade(t, p, s) ==
  /\ th[t].pc = "undo" /\ th[t].todo # << >> /\ p = Head(th[t].todo)
  /\ heap' \in [Objs -> [Attrs -> Values]]
  /\ wraps' = wraps \/ (p.wrapper # NoWrap /\ wraps' = [wraps EXCEPT ![p.wrapper] = NoExpr])
  /\ layers' = IF OnTop(p) THEN [layers EXCEPT ![p.obj] = p.orig] ELSE layers
  /\ orphaned' = IF Buried(p) THEN orphaned \cup {p.obj} ELSE orphaned
  /\ UNCHANGED <<recs, reg, lock, installing, clobbered>>
  /\ s \in ThreadState /\ s.todo = Tail(th[t].todo) /\ s.orig = th[t].orig
  /\ s.op = th[t].op /\ s.obj = th[t].obj /\ s.expr = th[t].expr
  /\ s.pc = IF Len(th[t].todo) = 1 THEN "pop" ELSE "undo"
  /\ th' = [th EXCEPT ![t] = s]

LEMMA UndoEffect ==
  ASSUME IInv, NEW t \in Threads, Undo(t)
  PROVE  \E p, s : UndoMade(t, p, s)
<1>1. /\ TypeOK /\ th[t] \in ThreadState /\ StateOK(th[t])
      /\ th \in [Threads -> ThreadState]
  BY TypeParts DEF IInv, ThreadsInv
<1>2. PICK p : p = Head(th[t].todo)
  OBVIOUS
<1>3. PICK todo : todo = Tail(th[t].todo)
  OBVIOUS
<1>4. PICK pc \in {"pop", "undo"} : pc = IF Len(th[t].todo) = 1 THEN "pop" ELSE "undo"
  OBVIOUS
<1>5. PICK s : s = [th[t] EXCEPT !.todo = todo, !.pc = pc]
  OBVIOUS
<1>6. th[t].pc = "undo" /\ th[t].todo # << >> /\ th[t].todo \in Seq(Payload)
  BY <1>1 DEF Undo, StateOK, ThreadState
<1>7. p \in Payload /\ todo \in Seq(Payload)
  BY <1>2, <1>3, <1>6, TailType
<1>8. /\ s \in ThreadState /\ s.todo = todo /\ s.orig = th[t].orig /\ s.op = th[t].op
      /\ s.obj = th[t].obj /\ s.expr = th[t].expr /\ s.pc = pc
  BY <1>1, <1>4, <1>5, <1>7 DEF ThreadState
<1>9. th' = [th EXCEPT ![t].todo = todo, ![t].pc = pc]
  BY <1>3, <1>4 DEF Undo
<1>10. th' = [th EXCEPT ![t] = s]
  BY <1>1, <1>5, <1>9
<1>11. PICK wrapped \in BOOLEAN : wrapped = (p.wrapper # NoWrap /\ p.holder # NoObj)
  OBVIOUS
<1>12. /\ heap' = IF wrapped THEN Unwrapped(p) ELSE heap
       /\ wraps' = IF wrapped THEN Nulled(p) ELSE wraps
       /\ layers' = IF OnTop(p) THEN [layers EXCEPT ![p.obj] = p.orig] ELSE layers
       /\ orphaned' = IF Buried(p) THEN orphaned \cup {p.obj} ELSE orphaned
       /\ UNCHANGED <<recs, reg, lock, installing, clobbered>>
  BY <1>2, <1>11 DEF Undo
<1>13. heap' \in [Objs -> [Attrs -> Values]]
  <2>1. heap \in [Objs -> [Attrs -> Values]]
    BY <1>1, TypeParts
  <2>2. CASE heap' = heap
    BY <2>1, <2>2
  <2>3. CASE heap' # heap
    <3>1. wrapped /\ heap' = [heap EXCEPT ![p.holder][p.attr] = Plain]
      BY <1>12, <2>3 DEF Unwrapped
    <3>2. p.holder \in Objs
      BY <1>7, <1>11, <3>1 DEF Payload
    <3>3. PICK a : a = p.attr
      OBVIOUS
    <3>4. Plain \in Values
      BY DEF Values
    <3>5. QED
      BY <1>1, <3>1, <3>2, <3>3, <3>4, HeapWrite
  <2>4. QED
    BY <2>2, <2>3
<1>14. wraps' = wraps \/ (p.wrapper # NoWrap /\ wraps' = [wraps EXCEPT ![p.wrapper] = NoExpr])
  BY <1>11, <1>12 DEF Nulled
<1>15. UndoMade(t, p, s)
  BY <1>2, <1>3, <1>4, <1>6, <1>8, <1>10, <1>12, <1>13, <1>14 DEF UndoMade
<1>16. QED
  BY <1>15

LEMMA UndoInv ==
  ASSUME IInv, NEW t \in Threads, Undo(t) PROVE IInv'
<1>1. /\ TypeOK /\ ThreadsInv /\ th[t] \in ThreadState /\ StateOK(th[t])
      /\ th \in [Threads -> ThreadState]
  BY TypeParts DEF IInv, ThreadsInv
<1>2. PICK p, s : UndoMade(t, p, s)
  BY UndoEffect
<1>3. PICK todo : todo = th[t].todo
  OBVIOUS
<1>4. PICK rest : rest = Tail(todo)
  OBVIOUS
<1>5. /\ th[t].pc = "undo" /\ todo # << >> /\ p = Head(todo)
      /\ heap' \in [Objs -> [Attrs -> Values]]
      /\ (wraps' = wraps \/ (p.wrapper # NoWrap /\ wraps' = [wraps EXCEPT ![p.wrapper] = NoExpr]))
      /\ UNCHANGED <<recs, reg, lock, installing, clobbered>>
      /\ s \in ThreadState /\ s.todo = rest /\ s.orig = th[t].orig
      /\ s.op = th[t].op /\ s.obj = th[t].obj /\ s.expr = th[t].expr
      /\ s.pc = IF Len(todo) = 1 THEN "pop" ELSE "undo"
      /\ th' = [th EXCEPT ![t] = s]
  BY <1>2, <1>3, <1>4 DEF UndoMade
<1>6. /\ layers' = IF OnTop(p) THEN [layers EXCEPT ![p.obj] = p.orig] ELSE layers
      /\ orphaned' = IF Buried(p) THEN orphaned \cup {p.obj} ELSE orphaned
  BY <1>2 DEF UndoMade
<1>7. /\ todo \in Seq(Payload) /\ rest \in Seq(Payload) /\ From(rest, todo)
      /\ p \in Payload /\ p = todo[1] /\ 1 \in DOMAIN todo
      /\ \A k \in DOMAIN todo : k = 1 \/ \E j \in DOMAIN rest : todo[k] = rest[j]
      /\ (Len(todo) = 1 <=> rest = << >>)
  <2>1. todo \in Seq(Payload)
    BY <1>1, <1>3 DEF ThreadState
  <2>2. QED
    BY <1>4, <1>5, <2>1, TailType, TailLength
<1>8. /\ th' \in [Threads -> ThreadState] /\ th'[t] = s
      /\ \A u \in Threads \ {t} : th'[u] = th[u]
  BY <1>1, <1>5, ThreadStep
<1>9. /\ th[t].op # "write"
      /\ \A u \in Threads \ {t} :
           th[u].todo = << >> /\ th[u].pc \notin {"read", "swap", "undo"}
  BY <1>5, Sole
<1>10. /\ p.orig \in Seq(Layer) /\ p.cls \in Seq(Layer) /\ p.wrapper \in Nat
       /\ WellFormed(p.orig) /\ Extends(p)
       /\ (Classed(p) => \A i \in RegIds : Last(p.cls).root # recs[i].expr)
       /\ p.wrapper <= Len(wraps)
  BY <1>3, <1>7, PayloadTypes DEF IInv, LayersInv, PayloadInv, WrapsInv
<1>11. /\ OnTop(p) => /\ p.obj \in Objs /\ Classed(p) /\ layers[p.obj] = p.cls
                      /\ p.cls = Append(p.orig, Last(p.cls))
       /\ Buried(p) => p.obj \in Objs /\ Classed(p)
  BY <1>7, <1>10 DEF OnTop, Buried, Classed, Extends, Payload
<1>12. /\ layers \in [Objs -> Seq(Layer)] /\ layers' \in [Objs -> Seq(Layer)]
       /\ OnTop(p) => layers'[p.obj] = p.orig
       /\ \A o \in Objs : o # p.obj \/ ~ OnTop(p) => layers'[o] = layers[o]
  <2>1. layers \in [Objs -> Seq(Layer)]
    BY <1>1, TypeParts
  <2>2. QED
    BY <1>6, <1>10, <1>11, <2>1
<1>13. /\ wraps' \in Seq(Seq(STRING)) /\ Len(wraps') = Len(wraps) /\ Len(wraps) \in Nat
       /\ \A w \in DOMAIN wraps : w # p.wrapper => wraps'[w] = wraps[w]
       /\ p.wrapper = NoWrap => wraps' = wraps
       /\ Len(wraps) <= MaxWraps
  <2>1. wraps \in Seq(Seq(STRING)) /\ Len(wraps) <= MaxWraps
    BY <1>1, TypeParts
  <2>2. PICK n \in Nat : n = Len(wraps) /\ DOMAIN wraps = 1 .. n
    BY <2>1, LenProperties
  <2>3. wraps \in [1 .. n -> Seq(STRING)]
    BY <2>1, <2>2, LenProperties
  <2>4. NoExpr \in Seq(STRING)
    BY EmptyOf DEF NoExpr
  <2>5. CASE wraps' = wraps
    BY <2>1, <2>2, <2>5
  <2>6. CASE p.wrapper # NoWrap /\ wraps' = [wraps EXCEPT ![p.wrapper] = NoExpr]
    <3>1. PICK q : q = [wraps EXCEPT ![p.wrapper] = NoExpr]
      OBVIOUS
    <3>2. q \in [1 .. n -> Seq(STRING)]
      BY <2>3, <2>4, <3>1
    <3>3. q \in Seq(Seq(STRING)) /\ Len(q) = n
      BY <3>2, SeqDef, LenProperties
    <3>4. \A w \in DOMAIN wraps : w # p.wrapper => q[w] = wraps[w]
      BY <2>3, <3>1
    <3>5. wraps' = q
      BY <2>6, <3>1
    <3>6. QED
      BY <2>1, <2>2, <2>6, <3>3, <3>4, <3>5
  <2>7. QED
    BY <1>5, <2>5, <2>6
<1>14. RecsKept /\ ThreadsInv' /\ LockInv'
  <2>1. RecsKept
    BY <1>5 DEF RecsKept
  <2>2. StateOK(s)'
    BY <1>1, <1>5, <1>7, <1>9 DEF StateOK
  <2>3. ThreadsInv'
    BY <1>1, <1>8, <2>1, <2>2, ThreadsKept
  <2>4. LockInv'
    <3>1. Holding(s) <=> Holding(th[t])
      BY <1>5 DEF Holding
    <3>2. QED
      BY <1>1, <1>5, <1>8, <3>1, LockKept
  <2>5. QED
    BY <2>1, <2>3, <2>4
<1>15. orphaned \subseteq orphaned' /\ orphaned' \subseteq Objs
       /\ (Buried(p) => p.obj \in orphaned')
  BY <1>1, <1>6, <1>11, TypeParts
<1>16. TypeOK'
  BY <1>1, <1>5, <1>8, <1>12, <1>13, <1>14, <1>15, TypeParts, TypePartsPrime
<1>17. \A u \in Threads : \A x \in DOMAIN th'[u].todo :
         u = t /\ \E y \in DOMAIN th[t].todo : th'[u].todo[x] = th[t].todo[y]
  BY <1>3, <1>5, <1>7, <1>8, <1>9 DEF From
<1>18. \A u \in Threads : /\ th'[u].orig = th[u].orig
                          /\ th'[u].pc \notin {"read", "swap"}
  BY <1>5, <1>8, <1>9
<1>19. LayersInv'
  <2>1. \A o \in Objs : WellFormed(layers'[o])
    BY <1>10, <1>12 DEF IInv, LayersInv
  <2>2. QED
    BY <1>5, <1>17, <1>18, <2>1 DEF IInv, LayersInv
<1>20. TableInv' /\ SwapInv'
  BY <1>5, <1>18 DEF IInv, TableInv, SwapInv, RegIds
<1>21. PayloadInv'
  <2>1. RegIds' = RegIds
    BY <1>5 DEF RegIds
  <2>2. QED
    BY <1>5, <1>17, <2>1 DEF IInv, PayloadInv
<1>22. VisitedInv' /\ OnceInv'
  BY <1>5 DEF IInv, VisitedInv, OnceInv
<1>23. WrapsInv'
  <2>1. RegIds' = RegIds
    BY <1>5 DEF RegIds
  <2>2. QED
    BY <1>5, <1>13, <1>17, <2>1 DEF IInv, WrapsInv
<1>24. KeptInv'
  <2>1. ASSUME NEW i \in RegIds, NEW q \in PayloadsOf(recs[i]), q.obj # NoObj,
               q.obj \notin clobbered
        PROVE  IsPrefix(q.cls, layers'[q.obj])
    <3>1. /\ q.obj \in Objs /\ q.cls \in Seq(Layer) /\ i \in DOMAIN recs
          /\ IsPrefix(q.cls, layers[q.obj])
          /\ (Classed(q) => Last(q.cls).root = recs[i].expr)
      BY <1>1, <2>1, StoredTypes, PayloadTypes DEF IInv, KeptInv, PayloadInv, Payload
    <3>2. CASE q.obj # p.obj \/ ~ OnTop(p)
      BY <1>12, <3>1, <3>2
    <3>3. CASE q.obj = p.obj /\ OnTop(p) /\ q.cls = << >>
      BY <1>10, <1>12, <3>3, EmptyIsPrefix
    <3>4. CASE q.obj = p.obj /\ OnTop(p) /\ q.cls # << >>
      <4>1. Last(q.cls).root # Last(p.cls).root
        BY <1>10, <1>11, <2>1, <3>1, <3>4 DEF Classed
      <4>2. PICK l : l = Last(p.cls)
        OBVIOUS
      <4>3. p.cls = Append(p.orig, l) /\ IsPrefix(q.cls, p.cls) /\ q.cls # p.cls
        BY <1>11, <3>1, <3>4, <4>1, <4>2
      <4>4. l \in Layer
        <5>1. Len(p.cls) \in DOMAIN p.cls
          <6>1. Len(p.cls) \in Nat /\ Len(p.cls) # 0 /\ DOMAIN p.cls = 1 .. Len(p.cls)
            BY <1>10, <1>11, <3>4, LenProperties, EmptySeq DEF Classed
          <6>2. QED
            BY <6>1
        <5>2. QED
          BY <1>10, <4>2, <5>1, LenProperties, ElementOfSeq DEF Last
      <4>5. IsPrefix(q.cls, p.orig)
        BY <1>10, <3>1, <4>3, <4>4, PrefixOfAppend
      <4>6. QED
        BY <1>12, <3>4, <4>5
    <3>5. QED
      BY <3>2, <3>3, <3>4
  <2>2. RegIds' = RegIds
    BY <1>5 DEF RegIds
  <2>3. QED
    BY <1>5, <2>1, <2>2 DEF KeptInv
<1>25. OwnedInv'
  <2>1. ASSUME NEW o, NEW cls, Owned(o, cls), ~ Owner(p, o, cls) PROVE OwnedNext(o, cls)
    <3>1. CASE \E j \in RegIds : \E q \in PayloadsOf(recs[j]) : Owner(q, o, cls)
      BY <1>5, <3>1 DEF OwnedNext, RegIds
    <3>2. CASE \E u \in Threads : \E k \in DOMAIN th[u].todo : Owner(th[u].todo[k], o, cls)
      <4>1. PICK k \in DOMAIN todo : Owner(todo[k], o, cls)
        BY <1>3, <1>9, <3>2
      <4>2. PICK j \in DOMAIN rest : todo[k] = rest[j]
        BY <1>7, <2>1, <4>1
      <4>3. j \in DOMAIN th'[t].todo /\ Owner(th'[t].todo[j], o, cls)
        BY <1>5, <1>8, <4>1, <4>2
      <4>4. QED
        BY <4>3 DEF OwnedNext
    <3>3. QED
      BY <2>1, <3>1, <3>2 DEF Owned
  <2>2. ASSUME NEW o \in Objs \ orphaned', NEW n \in DOMAIN layers'[o]
        PROVE  OwnedNext(o, SubSeq(layers'[o], 1, n))
    <3>1. o \in Objs \ orphaned /\ (o = p.obj => ~ Buried(p))
      BY <1>15, <2>2
    <3>2. CASE o = p.obj /\ OnTop(p)
      <4>1. PICK c : c = p.cls
        OBVIOUS
      <4>2. PICK orig : orig = p.orig
        OBVIOUS
      <4>3. PICK l : l = Last(p.cls)
        OBVIOUS
      <4>4. l \in Layer
        <5>1. Len(p.cls) \in DOMAIN p.cls
          <6>1. Len(p.cls) \in Nat /\ Len(p.cls) # 0 /\ DOMAIN p.cls = 1 .. Len(p.cls)
            BY <1>10, <1>11, <3>2, LenProperties, EmptySeq DEF Classed
          <6>2. QED
            BY <6>1
        <5>2. QED
          BY <1>10, <4>3, <5>1, LenProperties, ElementOfSeq DEF Last
      <4>5. /\ c \in Seq(Layer) /\ orig \in Seq(Layer) /\ c = Append(orig, l)
            /\ layers[o] = c /\ layers'[o] = orig
        BY <1>10, <1>11, <1>12, <3>2, <4>1, <4>2, <4>3
      <4>6. /\ Len(orig) \in Nat /\ n \in 1 .. Len(orig) /\ IsPrefix(orig, c)
            /\ Len(c) = Len(orig) + 1 /\ DOMAIN c = 1 .. Len(c)
        <5>1. Len(orig) \in Nat /\ n \in 1 .. Len(orig) /\ DOMAIN c = 1 .. Len(c)
          BY <2>2, <4>5, LenProperties
        <5>2. IsPrefix(orig, c) /\ Len(c) = Len(orig) + 1
          BY <4>4, <4>5, PrefixAppend, Longer
        <5>3. QED
          BY <5>1, <5>2
      <4>7. SubSeq(orig, 1, n) = SubSeq(c, 1, n)
        BY <4>5, <4>6, SamePrefix
      <4>8. n \in DOMAIN c /\ SubSeq(orig, 1, n) # c
        <5>1. n \in DOMAIN c /\ Len(c) # n
          BY <4>6
        <5>2. Len(SubSeq(orig, 1, n)) = n
          BY <4>5, <4>6, ShorterPrefix
        <5>3. QED
          BY <5>1, <5>2
      <4>9. Owned(o, SubSeq(c, 1, n))
        BY <3>1, <4>5, <4>8 DEF IInv, OwnedInv
      <4>10. ~ Owner(p, o, SubSeq(c, 1, n))
        BY <4>1, <4>7, <4>8 DEF Owner
      <4>11. QED
        BY <2>1, <4>5, <4>7, <4>9, <4>10
    <3>3. CASE o # p.obj \/ ~ OnTop(p)
      <4>1. layers'[o] = layers[o]
        BY <1>12, <3>3
      <4>2. Owned(o, SubSeq(layers[o], 1, n))
        BY <2>2, <3>1, <4>1 DEF IInv, OwnedInv
      <4>3. ~ Owner(p, o, SubSeq(layers[o], 1, n))
        <5>1. SubSeq(layers[o], 1, n) # << >>
          <6>1. layers[o] \in Seq(Layer) /\ n \in DOMAIN layers[o]
            BY <1>12, <2>2, <4>1
          <6>2. n \in 1 .. Len(layers[o])
            BY <6>1, LenProperties
          <6>3. QED
            BY <6>1, <6>2, ShorterPrefix
        <5>2. ASSUME p.obj = o, p.cls # << >> PROVE FALSE
          <6>1. OnTop(p) \/ Buried(p)
            BY <5>2, Numbers DEF OnTop, Buried
          <6>2. QED
            BY <3>1, <3>3, <5>2, <6>1
        <5>3. QED
          BY <5>1, <5>2 DEF Owner
      <4>4. QED
        BY <2>1, <4>1, <4>2, <4>3
    <3>4. QED
      BY <3>2, <3>3
  <2>3. QED
    BY <2>2, OwnedLater
<1>26. NamedInv'
  <2>1. RegIds' = RegIds
    BY <1>5 DEF RegIds
  <2>2. ASSUME NEW i \in RegIds, NEW q \in PayloadsOf(recs[i]), q.wrapper # NoWrap
        PROVE  wraps'[q.wrapper] # NoExpr /\ IsPrefix(recs[i].expr, wraps'[q.wrapper])
    <3>1. wraps[q.wrapper] # NoExpr /\ IsPrefix(recs[i].expr, wraps[q.wrapper])
      BY <2>2 DEF IInv, NamedInv
    <3>2. q.wrapper # p.wrapper
      BY <1>3, <1>7, <2>2 DEF IInv, WrapsInv
    <3>3. q.wrapper \in DOMAIN wraps
      <4>1. i \in DOMAIN recs /\ q.wrapper \in Nat
        BY <1>1, <2>2, StoredTypes, PayloadTypes
      <4>2. q.wrapper <= Len(wraps)
        BY <2>2, <4>1 DEF IInv, WrapsInv
      <4>3. DOMAIN wraps = 1 .. Len(wraps)
        BY <1>1, TypeParts, LenProperties
      <4>4. QED
        BY <1>13, <2>2, <4>1, <4>2, <4>3 DEF NoWrap
    <3>4. QED
      BY <1>13, <3>1, <3>2, <3>3
  <2>3. QED
    BY <1>5, <2>1, <2>2 DEF NamedInv
<1>27. QED
  BY <1>14, <1>16, <1>19, <1>20, <1>21, <1>22, <1>23, <1>24, <1>25, <1>26 DEF IInv

-----------------------------------------------------------------------------
(* An object dies.                                                         *)

LEMMA ForgottenType ==
  ASSUME NEW p \in Payload, NEW o
  PROVE  LET q == Forgotten(p, o) IN
         /\ q \in Payload /\ q.orig = p.orig /\ q.cls = p.cls /\ q.wrapper = p.wrapper
         /\ q.obj = IF p.obj = o THEN NoObj ELSE p.obj
BY DEF Forgotten, Payload

\* What is left of what was recorded.
ForgottenAll(s, o) == [k \in DOMAIN s |-> Forgotten(s[k], o)]

LEMMA ForgottenAllType ==
  ASSUME NEW s \in Seq(Payload), NEW o
  PROVE  LET q == ForgottenAll(s, o) IN
         /\ q \in Seq(Payload) /\ DOMAIN q = DOMAIN s /\ Len(q) = Len(s)
         /\ \A k \in DOMAIN s : q[k] = Forgotten(s[k], o)
         /\ q = << >> <=> s = << >>
<1>1. PICK n \in Nat : n = Len(s) /\ DOMAIN s = 1 .. n
  BY LenProperties
<1>2. PICK q : q = ForgottenAll(s, o)
  OBVIOUS
<1>3. DOMAIN q = 1 .. n /\ \A k \in 1 .. n : q[k] = Forgotten(s[k], o)
  BY <1>1, <1>2 DEF ForgottenAll
<1>4. \A k \in 1 .. n : Forgotten(s[k], o) \in Payload
  BY <1>1, ElementOfSeq, ForgottenType
<1>5. q \in [1 .. n -> Payload]
  BY <1>1, <1>2, <1>3, <1>4 DEF ForgottenAll
<1>6. q \in Seq(Payload) /\ Len(q) = n
  BY <1>5, SeqDef, LenProperties
<1>7. q = << >> <=> s = << >>
  BY <1>1, <1>6, EmptySeq
<1>8. QED
  BY <1>1, <1>2, <1>3, <1>6, <1>7

\* The record of a watch, without the object that died.
ForgottenRec(r, o) ==
  [r EXCEPT !.own = Forgotten(@, o), !.subs = [k \in DOMAIN @ |-> Forgotten(@[k], o)]]

LEMMA ForgottenRecType ==
  ASSUME NEW r \in Rec, NEW o
  PROVE  LET q == ForgottenRec(r, o) IN
         /\ q \in Rec /\ q.expr = r.expr /\ q.visited = r.visited
         /\ q.own = Forgotten(r.own, o) /\ Len(q.subs) = Len(r.subs)
         /\ DOMAIN q.subs = DOMAIN r.subs
         /\ \A k \in DOMAIN r.subs : q.subs[k] = Forgotten(r.subs[k], o)
         /\ \A p \in PayloadsOf(q) : \E x \in PayloadsOf(r) : p = Forgotten(x, o)
         /\ \A x \in PayloadsOf(r) : Forgotten(x, o) \in PayloadsOf(q)
<1>1. r.subs \in Seq(Payload) /\ r.own \in Payload
  BY DEF Rec
<1>2. PICK subs : subs = ForgottenAll(r.subs, o)
  OBVIOUS
<1>3. PICK own : own = Forgotten(r.own, o)
  OBVIOUS
<1>4. /\ subs \in Seq(Payload) /\ DOMAIN subs = DOMAIN r.subs /\ Len(subs) = Len(r.subs)
      /\ \A k \in DOMAIN r.subs : subs[k] = Forgotten(r.subs[k], o)
  BY <1>1, <1>2, ForgottenAllType
<1>5. own \in Payload
  BY <1>1, <1>3, ForgottenType
<1>6. PICK q : q = ForgottenRec(r, o)
  OBVIOUS
<1>7. q = [r EXCEPT !.own = own, !.subs = subs]
  BY <1>2, <1>3, <1>6 DEF ForgottenRec, ForgottenAll
<1>8. q \in Rec /\ q.expr = r.expr /\ q.visited = r.visited /\ q.own = own /\ q.subs = subs
  BY <1>4, <1>5, <1>7 DEF Rec
<1>9. /\ \A p \in PayloadsOf(q) : \E x \in PayloadsOf(r) : p = Forgotten(x, o)
      /\ \A x \in PayloadsOf(r) : Forgotten(x, o) \in PayloadsOf(q)
  BY <1>3, <1>4, <1>8 DEF PayloadsOf
<1>10. QED
  BY <1>3, <1>4, <1>6, <1>8, <1>9

LEMMA DieInv ==
  ASSUME IInv, NEW o \in Objs, Die(o) PROVE IInv'
<1>1. /\ TypeOK /\ ThreadsInv
      /\ recs \in Seq(Rec) /\ th \in [Threads -> ThreadState]
      /\ layers \in [Objs -> Seq(Layer)] /\ heap \in [Objs -> [Attrs -> Values]]
  BY TypeParts DEF IInv
<1>2. /\ \A t \in Threads : th[t].obj # o
      /\ heap' = [heap EXCEPT ![o] = [a \in Attrs |-> Nil]]
      /\ layers' = [layers EXCEPT ![o] = << >>]
      /\ clobbered' = clobbered \ {o} /\ orphaned' = orphaned \ {o}
      /\ UNCHANGED <<wraps, reg, lock, installing>>
  BY DEF Die
<1>3. recs' = [i \in DOMAIN recs |-> ForgottenRec(recs[i], o)]
  BY DEF Die, ForgottenRec
<1>4. th' = [t \in Threads |-> [th[t] EXCEPT !.todo = ForgottenAll(th[t].todo, o)]]
  BY DEF Die, ForgottenAll
<1>5. /\ \A i \in DOMAIN recs : recs[i] \in Rec
      /\ \A i \in DOMAIN recs : \A p \in PayloadsOf(recs[i]) : p \in Payload
      /\ \A t \in Threads : \A k \in DOMAIN th[t].todo : th[t].todo[k] \in Payload
      /\ RegIds \subseteq DOMAIN recs /\ RegIds' = RegIds
      /\ \A k \in DOMAIN reg : reg[k] \in DOMAIN recs
  BY <1>1, <1>2, StoredTypes DEF RegIds
<1>6. ASSUME NEW i \in DOMAIN recs
      PROVE  /\ recs'[i] \in Rec /\ recs'[i].expr = recs[i].expr
             /\ recs'[i].visited = recs[i].visited
             /\ recs'[i].own = Forgotten(recs[i].own, o)
             /\ Len(recs'[i].subs) = Len(recs[i].subs)
             /\ DOMAIN recs'[i].subs = DOMAIN recs[i].subs
             /\ \A k \in DOMAIN recs[i].subs : recs'[i].subs[k] = Forgotten(recs[i].subs[k], o)
             /\ \A p \in PayloadsOf(recs'[i]) : \E x \in PayloadsOf(recs[i]) : p = Forgotten(x, o)
             /\ \A x \in PayloadsOf(recs[i]) : Forgotten(x, o) \in PayloadsOf(recs'[i])
  <2>1. PICK r : r = recs[i]
    OBVIOUS
  <2>2. r \in Rec
    BY <1>5, <2>1
  <2>3. recs'[i] = ForgottenRec(r, o)
    BY <1>3, <2>1
  <2>4. QED
    BY <2>1, <2>2, <2>3, ForgottenRecType
<1>7. recs' \in Seq(Rec) /\ DOMAIN recs' = DOMAIN recs
  <2>1. PICK n \in Nat : n = Len(recs) /\ DOMAIN recs = 1 .. n
    BY <1>1, LenProperties
  <2>2. DOMAIN recs' = 1 .. n
    BY <1>3, <2>1
  <2>3. recs' \in [1 .. n -> Rec]
    BY <1>3, <1>6, <2>1, <2>2
  <2>4. QED
    BY <2>1, <2>2, <2>3, SeqDef
<1>8. ASSUME NEW t \in Threads
      PROVE  /\ th'[t] \in ThreadState
             /\ th'[t].pc = th[t].pc /\ th'[t].op = th[t].op /\ th'[t].expr = th[t].expr
             /\ th'[t].obj = th[t].obj /\ th'[t].rec = th[t].rec
             /\ th'[t].orig = th[t].orig /\ th'[t].work = th[t].work
             /\ DOMAIN th'[t].todo = DOMAIN th[t].todo
             /\ (th'[t].todo = << >> <=> th[t].todo = << >>)
             /\ \A k \in DOMAIN th[t].todo : th'[t].todo[k] = Forgotten(th[t].todo[k], o)
  <2>1. PICK s : s = th[t]
    OBVIOUS
  <2>2. PICK todo : todo = ForgottenAll(s.todo, o)
    OBVIOUS
  <2>3. s \in ThreadState /\ s.todo \in Seq(Payload)
    BY <1>1, <2>1 DEF ThreadState
  <2>4. /\ todo \in Seq(Payload) /\ DOMAIN todo = DOMAIN s.todo
        /\ \A k \in DOMAIN s.todo : todo[k] = Forgotten(s.todo[k], o)
        /\ (todo = << >> <=> s.todo = << >>)
    BY <2>2, <2>3, ForgottenAllType
  <2>5. PICK q : q = [s EXCEPT !.todo = todo]
    OBVIOUS
  <2>6. /\ q \in ThreadState /\ q.pc = s.pc /\ q.op = s.op /\ q.expr = s.expr
        /\ q.obj = s.obj /\ q.rec = s.rec /\ q.orig = s.orig /\ q.work = s.work
        /\ q.todo = todo
    BY <2>3, <2>4, <2>5 DEF ThreadState
  <2>7. th'[t] = q
    BY <1>4, <2>1, <2>2, <2>5
  <2>8. QED
    BY <2>1, <2>4, <2>6, <2>7
<1>9. th' \in [Threads -> ThreadState]
  BY <1>4, <1>8
<1>10. RecsKept
  BY <1>6, <1>7 DEF RecsKept
<1>11. ThreadsInv'
  <2>1. ASSUME NEW t \in Threads PROVE StateOK(th[t])'
    <3>1. PICK s : s = th[t]
      OBVIOUS
    <3>2. StateOK(s)'
      BY <1>1, <1>10, <3>1, StateKept DEF ThreadsInv
    <3>3. PICK q : q = th'[t]
      OBVIOUS
    <3>4. StateOK(q)'
      BY <1>8, <3>1, <3>2, <3>3 DEF StateOK
    <3>5. QED
      BY <3>3, <3>4, StateNow
  <2>2. QED
    BY <2>1 DEF ThreadsInv
<1>12. LockInv'
  BY <1>1, <1>2, <1>8, TypeParts DEF LockInv, Holding
<1>13. /\ heap' \in [Objs -> [Attrs -> Values]] /\ layers' \in [Objs -> Seq(Layer)]
       /\ layers'[o] = << >> /\ \A x \in Objs \ {o} : layers'[x] = layers[x]
  <2>1. [a \in Attrs |-> Nil] \in [Attrs -> Values]
    BY DEF Values
  <2>2. PICK row : row = [a \in Attrs |-> Nil]
    OBVIOUS
  <2>3. heap' \in [Objs -> [Attrs -> Values]]
    BY <1>1, <1>2, <2>1, <2>2
  <2>4. PICK e \in Seq(Layer) : e = << >>
    BY EmptyOf
  <2>5. layers' = [layers EXCEPT ![o] = e]
    BY <1>2, <2>4
  <2>6. QED
    BY <1>1, <2>3, <2>4, <2>5
<1>14. \A i \in DOMAIN recs' : Len(recs'[i].subs) <= MaxSubs
  BY <1>1, <1>6, <1>7, TypeParts
<1>15. TypeOK'
  <2>1. reg' \in Seq(DOMAIN recs')
    BY <1>1, <1>2, <1>7, TypeParts
  <2>2. clobbered' \subseteq Objs /\ orphaned' \subseteq Objs
    BY <1>1, <1>2, TypeParts
  <2>3. QED
    BY <1>1, <1>2, <1>7, <1>9, <1>12, <1>13, <1>14, <2>1, <2>2, TypeParts, TypePartsPrime
<1>16. ASSUME NEW p \in Payload
       PROVE  /\ Forgotten(p, o).orig = p.orig /\ Forgotten(p, o).cls = p.cls
              /\ Forgotten(p, o).wrapper = p.wrapper
              /\ (p.obj = o => Forgotten(p, o).obj = NoObj)
              /\ (p.obj # o => Forgotten(p, o).obj = p.obj)
              /\ (Forgotten(p, o).obj # NoObj => Forgotten(p, o).obj = p.obj /\ p.obj # o)
  BY ForgottenType
<1>17. ASSUME NEW i \in DOMAIN recs, NEW p \in PayloadsOf(recs'[i])
       PROVE  \E x \in PayloadsOf(recs[i]) :
                /\ x.orig = p.orig /\ x.cls = p.cls /\ x.wrapper = p.wrapper
                /\ (p.obj # NoObj => p.obj = x.obj /\ x.obj # o)
  <2>1. PICK x \in PayloadsOf(recs[i]) : p = Forgotten(x, o)
    BY <1>6
  <2>2. x \in Payload
    BY <1>5
  <2>3. QED
    BY <1>16, <2>1, <2>2
<1>18. ASSUME NEW t \in Threads, NEW k \in DOMAIN th'[t].todo
       PROVE  /\ k \in DOMAIN th[t].todo
              /\ th'[t].todo[k].orig = th[t].todo[k].orig
              /\ th'[t].todo[k].cls = th[t].todo[k].cls
              /\ th'[t].todo[k].wrapper = th[t].todo[k].wrapper
  BY <1>5, <1>8, <1>16
<1>19. LayersInv'
  <2>1. WellFormed(<< >>)
    BY DEF WellFormed
  <2>2. \A x \in Objs : WellFormed(layers'[x])
    BY <1>13, <2>1 DEF IInv, LayersInv
  <2>3. \A i \in DOMAIN recs' : \A p \in PayloadsOf(recs'[i]) : WellFormed(p.orig)
    BY <1>7, <1>17 DEF IInv, LayersInv
  <2>4. \A t \in Threads : WellFormed(th'[t].orig)
    BY <1>8 DEF IInv, LayersInv
  <2>5. \A t \in Threads : \A k \in DOMAIN th'[t].todo : WellFormed(th'[t].todo[k].orig)
    BY <1>18 DEF IInv, LayersInv
  <2>6. QED
    BY <2>2, <2>3, <2>4, <2>5 DEF LayersInv
<1>20. TableInv'
  <2>1. \A j, k \in DOMAIN reg' : j # k => recs'[reg'[j]].expr # recs'[reg'[k]].expr
    BY <1>2, <1>5, <1>6 DEF IInv, TableInv
  <2>2. \A t \in Threads : th'[t].pc \in {"read", "swap"} =>
          \A i \in RegIds : recs'[i].expr # th'[t].expr
    BY <1>5, <1>6, <1>8 DEF IInv, TableInv
  <2>3. QED
    BY <1>5, <2>1, <2>2 DEF TableInv
<1>21. SwapInv'
  <2>1. ASSUME NEW t \in Threads, th'[t].pc = "swap"
        PROVE  layers'[th'[t].obj] = th'[t].orig \/ th'[t].orig = << >>
    <3>1. /\ th[t].pc = "swap" /\ th'[t].obj = th[t].obj /\ th'[t].orig = th[t].orig
          /\ th[t].obj # o
      BY <1>2, <1>8, <2>1
    <3>2. th[t].obj \in Objs
      BY <1>1, <3>1 DEF ThreadsInv, StateOK
    <3>3. QED
      BY <1>13, <3>1, <3>2 DEF IInv, SwapInv
  <2>2. QED
    BY <2>1 DEF SwapInv
<1>22. PayloadInv'
  <2>1. ASSUME NEW i \in DOMAIN recs, NEW p \in PayloadsOf(recs'[i])
        PROVE  Extends(p) /\ (Classed(p) => Last(p.cls).root = recs'[i].expr)
    BY <1>6, <1>17 DEF IInv, PayloadInv, Extends, Classed
  <2>2. ASSUME NEW t \in Threads, NEW k \in DOMAIN th'[t].todo
        PROVE  /\ Extends(th'[t].todo[k])
               /\ Classed(th'[t].todo[k]) =>
                    \A i \in RegIds : Last(th'[t].todo[k].cls).root # recs'[i].expr
    <3>1. /\ k \in DOMAIN th[t].todo
          /\ th'[t].todo[k].orig = th[t].todo[k].orig
          /\ th'[t].todo[k].cls = th[t].todo[k].cls
      BY <1>18, <2>2
    <3>2. /\ Extends(th[t].todo[k])
          /\ Classed(th[t].todo[k]) =>
               \A i \in RegIds : Last(th[t].todo[k].cls).root # recs[i].expr
      BY <3>1 DEF IInv, PayloadInv
    <3>3. \A i \in RegIds : recs'[i].expr = recs[i].expr
      BY <1>5, <1>6
    <3>4. QED
      BY <3>1, <3>2, <3>3 DEF Extends, Classed
  <2>3. QED
    BY <1>5, <1>7, <2>1, <2>2 DEF PayloadInv
<1>23. VisitedInv'
  <2>1. ASSUME NEW i \in DOMAIN recs, ~ Dotted(recs'[i].expr), NEW p \in PayloadsOf(recs'[i]),
               Classed(p), p.obj # NoObj
        PROVE  p.obj \in recs'[i].visited
    BY <1>6, <1>17, <2>1 DEF IInv, VisitedInv, Classed
  <2>2. ASSUME NEW i \in DOMAIN recs, Dotted(recs'[i].expr), NEW k \in DOMAIN recs'[i].subs
        PROVE  ~ Classed(recs'[i].subs[k])
    <3>1. k \in DOMAIN recs[i].subs /\ recs'[i].subs[k] = Forgotten(recs[i].subs[k], o)
      BY <1>6, <2>2
    <3>2. recs[i].subs[k] \in Payload
      BY <1>5, <3>1 DEF PayloadsOf
    <3>3. ~ Classed(recs[i].subs[k])
      BY <1>6, <2>2, <3>1 DEF IInv, VisitedInv
    <3>4. QED
      BY <1>16, <3>1, <3>2, <3>3 DEF Classed
  <2>3. QED
    BY <1>7, <2>1, <2>2 DEF VisitedInv
<1>24. WrapsInv'
  <2>1. \A i \in DOMAIN recs : \A p \in PayloadsOf(recs'[i]) : p.wrapper <= Len(wraps)
    BY <1>17 DEF IInv, WrapsInv
  <2>2. \A t \in Threads : \A k \in DOMAIN th'[t].todo : th'[t].todo[k].wrapper <= Len(wraps)
    BY <1>18 DEF IInv, WrapsInv
  <2>3. ASSUME NEW i \in DOMAIN recs, NEW j \in DOMAIN recs, i # j,
               NEW p \in PayloadsOf(recs'[i]), NEW q \in PayloadsOf(recs'[j]),
               p.wrapper # NoWrap
        PROVE  p.wrapper # q.wrapper
    <3>1. PICK x \in PayloadsOf(recs[i]) : x.wrapper = p.wrapper
      BY <1>17
    <3>2. PICK y \in PayloadsOf(recs[j]) : y.wrapper = q.wrapper
      BY <1>17
    <3>3. QED
      BY <2>3, <3>1, <3>2 DEF IInv, WrapsInv
  <2>4. ASSUME NEW t \in Threads, NEW k \in DOMAIN th'[t].todo, NEW i \in RegIds,
               NEW p \in PayloadsOf(recs'[i]), p.wrapper # NoWrap
        PROVE  p.wrapper # th'[t].todo[k].wrapper
    <3>1. PICK x \in PayloadsOf(recs[i]) : x.wrapper = p.wrapper
      BY <1>5, <1>17
    <3>2. QED
      BY <1>18, <2>4, <3>1 DEF IInv, WrapsInv
  <2>5. QED
    BY <1>2, <1>5, <1>7, <2>1, <2>2, <2>3, <2>4 DEF WrapsInv
<1>25. KeptInv'
  <2>1. ASSUME NEW i \in RegIds, NEW p \in PayloadsOf(recs'[i]), p.obj # NoObj,
               p.obj \notin clobbered'
        PROVE  IsPrefix(p.cls, layers'[p.obj])
    <3>1. i \in DOMAIN recs
      BY <1>5
    <3>2. PICK x \in PayloadsOf(recs[i]) : x.cls = p.cls /\ p.obj = x.obj /\ x.obj # o
      BY <1>17, <2>1, <3>1
    <3>3. x.obj \in Objs
      BY <1>5, <2>1, <3>1, <3>2 DEF Payload
    <3>4. IsPrefix(x.cls, layers[x.obj])
      BY <1>2, <2>1, <3>2 DEF IInv, KeptInv
    <3>5. QED
      BY <1>13, <3>2, <3>3, <3>4
  <2>2. QED
    BY <1>5, <2>1 DEF KeptInv
<1>26. OwnedInv'
  <2>1. ASSUME NEW x, x # o, NEW cls, Owned(x, cls) PROVE OwnedNext(x, cls)
    <3>1. \A p \in Payload : Owner(p, x, cls) => Owner(Forgotten(p, o), x, cls)
      BY <1>16, <2>1 DEF Owner
    <3>2. CASE \E j \in RegIds : \E q \in PayloadsOf(recs[j]) : Owner(q, x, cls)
      <4>1. PICK j \in RegIds : \E q \in PayloadsOf(recs[j]) : Owner(q, x, cls)
        BY <3>2
      <4>2. PICK q \in PayloadsOf(recs[j]) : Owner(q, x, cls)
        BY <4>1
      <4>3. j \in DOMAIN recs /\ q \in Payload /\ j \in RegIds'
        BY <1>5
      <4>4. Forgotten(q, o) \in PayloadsOf(recs'[j])
        BY <1>6, <4>3
      <4>5. QED
        BY <3>1, <4>2, <4>3, <4>4 DEF OwnedNext
    <3>3. CASE \E u \in Threads : \E k \in DOMAIN th[u].todo : Owner(th[u].todo[k], x, cls)
      <4>1. PICK u \in Threads : \E k \in DOMAIN th[u].todo : Owner(th[u].todo[k], x, cls)
        BY <3>3
      <4>2. PICK k \in DOMAIN th[u].todo : Owner(th[u].todo[k], x, cls)
        BY <4>1
      <4>3. /\ k \in DOMAIN th'[u].todo /\ th'[u].todo[k] = Forgotten(th[u].todo[k], o)
            /\ th[u].todo[k] \in Payload
        BY <1>5, <1>8
      <4>4. QED
        BY <3>1, <4>2, <4>3 DEF OwnedNext
    <3>4. QED
      BY <2>1, <3>2, <3>3 DEF Owned
  <2>2. ASSUME NEW x \in Objs \ orphaned', NEW n \in DOMAIN layers'[x]
        PROVE  OwnedNext(x, SubSeq(layers'[x], 1, n))
    <3>1. x # o
      BY <1>13, <2>2
    <3>2. layers'[x] = layers[x] /\ x \in Objs \ orphaned
      BY <1>2, <1>13, <2>2, <3>1
    <3>3. Owned(x, SubSeq(layers[x], 1, n))
      BY <2>2, <3>2 DEF IInv, OwnedInv
    <3>4. QED
      BY <2>1, <3>1, <3>2, <3>3
  <2>3. QED
    BY <2>2, OwnedLater
<1>27. OnceInv'
  <2>1. \A p, q \in Payload : Apart(p, q) => Apart(Forgotten(p, o), Forgotten(q, o))
    <3>1. ASSUME NEW p \in Payload, NEW q \in Payload, Apart(p, q)
          PROVE  Apart(Forgotten(p, o), Forgotten(q, o))
      <4>1. PICK x : x = Forgotten(p, o)
        OBVIOUS
      <4>2. PICK y : y = Forgotten(q, o)
        OBVIOUS
      <4>3. /\ x.cls = p.cls /\ (x.obj # NoObj => x.obj = p.obj /\ p.obj # o)
            /\ y.cls = q.cls /\ (y.obj # NoObj => y.obj = q.obj)
        BY <1>16, <4>1, <4>2
      <4>4. Apart(x, y)
        BY <3>1, <4>3 DEF Apart, Classed
      <4>5. QED
        BY <4>1, <4>2, <4>4
    <3>2. QED
      BY <3>1
  <2>2. ASSUME NEW i \in DOMAIN recs
        PROVE  /\ \A j, k \in DOMAIN recs'[i].subs :
                    j # k => Apart(recs'[i].subs[j], recs'[i].subs[k])
               /\ \A k \in DOMAIN recs'[i].subs : Apart(recs'[i].subs[k], recs'[i].own)
    <3>1. /\ \A k \in DOMAIN recs[i].subs : recs[i].subs[k] \in Payload
          /\ recs[i].own \in Payload
      BY <1>5 DEF PayloadsOf
    <3>2. /\ \A j, k \in DOMAIN recs[i].subs :
               j # k => Apart(recs[i].subs[j], recs[i].subs[k])
          /\ \A k \in DOMAIN recs[i].subs : Apart(recs[i].subs[k], recs[i].own)
      BY DEF IInv, OnceInv
    <3>3. /\ DOMAIN recs'[i].subs = DOMAIN recs[i].subs
          /\ recs'[i].own = Forgotten(recs[i].own, o)
          /\ \A k \in DOMAIN recs[i].subs : recs'[i].subs[k] = Forgotten(recs[i].subs[k], o)
      BY <1>6
    <3>4. QED
      BY <2>1, <3>1, <3>2, <3>3
  <2>3. QED
    BY <1>7, <2>2 DEF OnceInv
<1>28. NamedInv'
  <2>1. ASSUME NEW i \in RegIds, NEW p \in PayloadsOf(recs'[i]), p.wrapper # NoWrap
        PROVE  wraps[p.wrapper] # NoExpr /\ IsPrefix(recs'[i].expr, wraps[p.wrapper])
    <3>1. i \in DOMAIN recs
      BY <1>5
    <3>2. PICK x \in PayloadsOf(recs[i]) : x.wrapper = p.wrapper
      BY <1>17, <3>1
    <3>3. recs'[i].expr = recs[i].expr
      BY <1>6, <3>1
    <3>4. QED
      BY <2>1, <3>2, <3>3 DEF IInv, NamedInv
  <2>2. QED
    BY <1>2, <1>5, <2>1 DEF NamedInv
<1>29. QED
  BY <1>11, <1>15, <1>19, <1>20, <1>21, <1>22, <1>23, <1>24, <1>25, <1>26, <1>27, <1>28
  DEF IInv

-----------------------------------------------------------------------------
(* The invariant.                                                          *)

LEMMA InitInv == Init => IInv
<1> SUFFICES ASSUME Init PROVE IInv
  OBVIOUS
<1>1. /\ DOMAIN recs = {} /\ DOMAIN reg = {} /\ RegIds = {} /\ DOMAIN wraps = {}
      /\ Len(wraps) = 0 /\ clobbered = {} /\ orphaned = {}
      /\ \A o \in Objs : layers[o] = << >> /\ DOMAIN layers[o] = {}
  BY DEF Init, RegIds
<1>2. \A t \in Threads : th[t] = Idle
  BY DEF Init
<1>3. /\ Idle.pc = "idle" /\ Idle.op = "none" /\ Idle.orig = << >> /\ Idle.todo = << >>
      /\ DOMAIN Idle.todo = {} /\ DOMAIN Idle.orig = {}
  BY IdleType
<1>4. LockInv
  BY <1>2, <1>3, AttrAssumption DEF LockInv, Holding, Init
<1>5. TypeOK
  <2>1. \A S : << >> \in Seq(S)
    BY EmptyOf
  <2>2. heap \in [Objs -> [Attrs -> Values]]
    BY DEF Init, Values
  <2>3. /\ layers \in [Objs -> Seq(Layer)] /\ wraps \in Seq(Seq(STRING))
        /\ recs \in Seq(Rec) /\ reg \in Seq(DOMAIN recs)
    <3>1. PICK e : e = << >>
      OBVIOUS
    <3>2. layers = [o \in Objs |-> e] /\ wraps = e /\ recs = e /\ reg = e
      BY <3>1 DEF Init
    <3>3. \A S : e \in Seq(S)
      BY <2>1, <3>1
    <3>4. QED
      BY <3>2, <3>3
  <2>4. th \in [Threads -> ThreadState]
    BY IdleType DEF Init
  <2>5. lock \in Threads \cup {NoThread} /\ installing \in Threads \cup {NoThread}
    BY DEF Init
  <2>6. Len(wraps) <= MaxWraps
    BY <1>1, Numbers
  <2>7. QED
    BY <1>1, <1>4, <2>2, <2>3, <2>4, <2>5, <2>6, TypeParts
<1>6. ThreadsInv
  BY <1>2, <1>3 DEF ThreadsInv, StateOK
<1>7. LayersInv
  BY <1>1, <1>2, <1>3 DEF LayersInv, WellFormed
<1>8. TableInv /\ SwapInv
  BY <1>1, <1>2, <1>3 DEF TableInv, SwapInv
<1>9. PayloadInv /\ WrapsInv
  BY <1>1, <1>2, <1>3 DEF PayloadInv, WrapsInv
<1>10. VisitedInv /\ KeptInv /\ OwnedInv /\ OnceInv /\ NamedInv
  BY <1>1 DEF VisitedInv, KeptInv, OwnedInv, OnceInv, NamedInv
<1>11. QED
  BY <1>5, <1>6, <1>7, <1>8, <1>9, <1>10 DEF IInv

LEMMA NextInv ==
  ASSUME IInv, [Next]_vars PROVE IInv'
<1>1. ASSUME NEW t \in Threads,
             \/ \E e \in Exprs, o \in Objs : EnterWatch(t, e, o)
             \/ \E e \in Exprs : EnterRemoval(t, "unwatch", e)
             \/ EnterRemoval(t, "clear", NoExpr)
      PROVE  IInv'
  BY <1>1, EnterInv
<1>2. ASSUME NEW t \in Threads, Acquire(t) \/ PopNothing(t) \/ Pop(t) \/ Undo(t)
      PROVE  IInv'
  BY <1>2, AcquireInv, PopNothingInv, PopInv, UndoInv
<1>3. ASSUME NEW t \in Threads, Read(t) \/ SwapAttr(t) \/ Wrap(t) \/ Exit(t)
      PROVE  IInv'
  BY <1>3, ReadInv, SwapAttrInv, WrapInv, ExitInv
<1>4. ASSUME NEW t \in Threads, NEW order \in Orders,
             SwapAny(t, order) \/ WalkInstall(t, order)
      PROVE  IInv'
  BY <1>4, SwapAnyInv, WalkInstallInv
<1>5. ASSUME NEW t \in Threads, WalkSkip(t) \/ WalkWrap(t) PROVE IInv'
  BY <1>5, WalkSkipInv, WalkWrapInv
<1>6. ASSUME NEW t \in Threads, NEW o \in Objs, NEW a \in Attrs,
             \/ \E v \in Scalars \cup {Nil, Plain} \cup Objs \cup DOMAIN wraps :
                  WriteValue(t, o, a, v)
             \/ WriteContainer(t, o, a)
             \/ \E v \in Objs, order \in Orders : WriteObject(t, o, a, v, order)
      PROVE  IInv'
  BY <1>6, WriteValueInv, WriteContainerInv, WriteObjectInv
<1>7. ASSUME NEW t \in Threads, NEW w \in Wraps, Mutate(t, w) PROVE IInv'
  BY <1>7, MutateInv
<1>8. ASSUME NEW o \in Objs, Die(o) PROVE IInv'
  BY <1>8, DieInv
<1>9. ASSUME UNCHANGED vars PROVE IInv'
  <2>1. heap' \in [Objs -> [Attrs -> Values]]
    BY <1>9, TypeParts DEF IInv, vars
  <2>2. UNCHANGED <<layers, wraps, recs, reg, lock, installing, th, clobbered, orphaned>>
    BY <1>9 DEF vars
  <2>3. QED
    BY <2>1, <2>2, HeapInv
<1>10. QED
  BY <1>1, <1>2, <1>3, <1>4, <1>5, <1>6, <1>7, <1>8, <1>9 DEF Next

\* The invariant holds of every state of every behaviour of the watches.
THEOREM Invariant == Spec => []IInv
<1>1. Init => IInv
  BY InitInv
<1>2. IInv /\ [Next]_vars => IInv'
  BY NextInv
<1>3. QED
  BY <1>1, <1>2, PTL DEF Spec

-----------------------------------------------------------------------------
(* The properties.                                                         *)

\* What a watch has recorded, as a sequence and as a set.
LEMMA PayloadPositions ==
  ASSUME TypeOK, NEW i \in RegIds
  PROVE  /\ i \in DOMAIN recs
         /\ \E n : /\ n \notin DOMAIN recs[i].subs
                   /\ DOMAIN Payloads(i) = DOMAIN recs[i].subs \cup {n}
                   /\ Payloads(i)[n] = recs[i].own
                   /\ \A k \in DOMAIN recs[i].subs : Payloads(i)[k] = recs[i].subs[k]
<1>1. i \in DOMAIN recs /\ recs[i].subs \in Seq(Payload) /\ recs[i].own \in Payload
  BY StoredTypes DEF Rec
<1>2. PICK q : q = Append(recs[i].subs, recs[i].own)
  OBVIOUS
<1>3. PICK n : n = Len(recs[i].subs) + 1
  OBVIOUS
<1>4. /\ n \notin DOMAIN recs[i].subs /\ DOMAIN q = DOMAIN recs[i].subs \cup {n}
      /\ q[n] = recs[i].own /\ \A k \in DOMAIN recs[i].subs : q[k] = recs[i].subs[k]
  BY <1>1, <1>2, <1>3, Longer
<1>5. Payloads(i) = q
  BY <1>2 DEF Payloads
<1>6. QED
  BY <1>1, <1>4, <1>5

LEMMA PayloadSet ==
  ASSUME TypeOK, NEW i \in RegIds
  PROVE  /\ \A k \in DOMAIN Payloads(i) : Payloads(i)[k] \in PayloadsOf(recs[i])
         /\ \A p \in PayloadsOf(recs[i]) : \E k \in DOMAIN Payloads(i) : Payloads(i)[k] = p
<1>1. PICK n : /\ n \notin DOMAIN recs[i].subs
               /\ DOMAIN Payloads(i) = DOMAIN recs[i].subs \cup {n}
               /\ Payloads(i)[n] = recs[i].own
               /\ \A k \in DOMAIN recs[i].subs : Payloads(i)[k] = recs[i].subs[k]
  BY PayloadPositions
<1>2. QED
  BY <1>1 DEF PayloadsOf

LEMMA KeptNow == IInv => LayerKept
<1> SUFFICES ASSUME IInv, NEW i \in RegIds, NEW k \in DOMAIN Payloads(i),
                    Payloads(i)[k].obj # NoObj, Payloads(i)[k].obj \notin clobbered
             PROVE  IsPrefix(Payloads(i)[k].cls, layers[Payloads(i)[k].obj])
  BY DEF LayerKept
<1>1. Payloads(i)[k] \in PayloadsOf(recs[i])
  BY PayloadSet DEF IInv
<1>2. QED
  BY <1>1 DEF IInv, KeptInv

Undone(o, cls) ==
  \/ \E i \in RegIds : \E k \in DOMAIN Payloads(i) :
       Payloads(i)[k].obj = o /\ Payloads(i)[k].cls = cls
  \/ \E t \in Threads : \E k \in DOMAIN th[t].todo :
       th[t].todo[k].obj = o /\ th[t].todo[k].cls = cls

LEMMA OwnedNow == IInv => LayersOwned
<1> SUFFICES ASSUME IInv PROVE LayersOwned
  OBVIOUS
<1>1. ASSUME NEW o, NEW cls, Owned(o, cls) PROVE Undone(o, cls)
  <2>1. CASE \E i \in RegIds : \E p \in PayloadsOf(recs[i]) : Owner(p, o, cls)
    <3>1. PICK i \in RegIds : \E p \in PayloadsOf(recs[i]) : Owner(p, o, cls)
      BY <2>1
    <3>2. PICK p \in PayloadsOf(recs[i]) : Owner(p, o, cls)
      BY <3>1
    <3>3. PICK k \in DOMAIN Payloads(i) : Payloads(i)[k] = p
      BY PayloadSet DEF IInv
    <3>4. QED
      BY <3>2, <3>3 DEF Owner, Undone
  <2>2. QED
    BY <1>1, <2>1 DEF Owned, Owner, Undone
<1>2. \A o \in Objs \ orphaned : \A n \in DOMAIN layers[o] :
        Undone(o, SubSeq(layers[o], 1, n))
  BY <1>1 DEF IInv, OwnedInv
<1>3. LayersOwned = \A o \in Objs \ orphaned : \A n \in DOMAIN layers[o] :
                      Undone(o, SubSeq(layers[o], 1, n))
  BY DEF LayersOwned, Undone
<1>4. QED
  BY <1>2, <1>3

LEMMA OnceNow == IInv => InstrumentedOnce
<1> SUFFICES ASSUME IInv, NEW i \in RegIds,
                    NEW j \in DOMAIN Payloads(i), NEW k \in DOMAIN Payloads(i), j # k,
                    Payloads(i)[j].cls # << >>, Payloads(i)[k].cls # << >>
             PROVE  Payloads(i)[j].obj # Payloads(i)[k].obj \/ Payloads(i)[j].obj = NoObj
  BY DEF InstrumentedOnce
<1>1. i \in DOMAIN recs
  BY PayloadPositions DEF IInv
<1>2. PICK n : /\ n \notin DOMAIN recs[i].subs
               /\ DOMAIN Payloads(i) = DOMAIN recs[i].subs \cup {n}
               /\ Payloads(i)[n] = recs[i].own
               /\ \A m \in DOMAIN recs[i].subs : Payloads(i)[m] = recs[i].subs[m]
  BY PayloadPositions DEF IInv
<1>3. /\ \A x, y \in DOMAIN recs[i].subs : x # y => Apart(recs[i].subs[x], recs[i].subs[y])
      /\ \A x \in DOMAIN recs[i].subs : Apart(recs[i].subs[x], recs[i].own)
  BY <1>1 DEF IInv, OnceInv
<1>4. CASE j # n /\ k # n
  <2>1. Apart(Payloads(i)[j], Payloads(i)[k])
    BY <1>2, <1>3, <1>4
  <2>2. QED
    BY <2>1 DEF Apart, Classed
<1>5. CASE k = n
  <2>1. Apart(Payloads(i)[j], Payloads(i)[k])
    BY <1>2, <1>3, <1>5
  <2>2. QED
    BY <2>1 DEF Apart, Classed
<1>6. CASE j = n
  <2>1. Apart(Payloads(i)[k], Payloads(i)[j])
    BY <1>2, <1>3, <1>6
  <2>2. QED
    BY <2>1 DEF Apart, Classed
<1>7. QED
  BY <1>4, <1>5, <1>6

LEMMA WrapperNow == IInv => WrapperKept
<1> SUFFICES ASSUME IInv, NEW i \in RegIds, NEW k \in DOMAIN Payloads(i),
                    Payloads(i)[k].wrapper # NoWrap
             PROVE  /\ wraps[Payloads(i)[k].wrapper] # NoExpr
                    /\ IsPrefix(recs[i].expr, wraps[Payloads(i)[k].wrapper])
  BY DEF WrapperKept
<1>1. Payloads(i)[k] \in PayloadsOf(recs[i])
  BY PayloadSet DEF IInv
<1>2. QED
  BY <1>1 DEF IInv, NamedInv

\* The variables keep their shape, whoever runs under the registry's lock holds
\* it, and no root records more sub-watches than its cap allows.
THEOREM TypeCorrect == Spec => []TypeOK
<1>1. IInv => TypeOK
  BY DEF IInv
<1>2. QED
  BY <1>1, Invariant, PTL

\* Removing one watch never takes away the class that another registered watch
\* gave to the same object (_undo_attr_watch_payload, _add_attr_watch).
THEOREM ClassesKept == Spec => []LayerKept
BY Invariant, KeptNow, PTL

\* A layer on an object is one that a registered watch or a removal in progress
\* will take off, but for those of buried, full or unregistered watches
\* (_undo_attr_watch_payload, _try_add_sub_watch).
THEOREM ClassesOwned == Spec => []LayersOwned
BY Invariant, OwnedNow, PTL

\* No watch records two classes for one live object, whatever cycles and shared
\* objects its graph has (_instrument_object_tree, _WatchedAnyAttrSubclass).
THEOREM ClassesOnce == Spec => []InstrumentedOnce
BY Invariant, OnceNow, PTL

\* No removal silences a wrapper that another registered watch has recorded
\* (_undo_attr_watch_payload, _wrap_container).
THEOREM WrappersKept == Spec => []WrapperKept
BY Invariant, WrapperNow, PTL

\* Every registered watch that gave the object a class which sees an attribute
\* has that layer among those a write of the attribute goes through.
Covered ==
  \A o \in Objs \ clobbered, a \in Attrs : \A i \in RegIds :
    \A p \in PayloadsOf(recs[i]) :
      Carries(p, o) /\ Sees(Last(p.cls), a) => NameFor(Last(p.cls), a) \in Hits(o, a)

LEMMA CoveredNow == IInv => Covered
<1> SUFFICES ASSUME IInv, NEW o \in Objs \ clobbered, NEW a \in Attrs, NEW i \in RegIds,
                    NEW p \in PayloadsOf(recs[i]), Carries(p, o), Sees(Last(p.cls), a)
             PROVE  NameFor(Last(p.cls), a) \in Hits(o, a)
  BY DEF Covered
<1>1. /\ p \in Payload /\ layers[o] \in Seq(Layer) /\ p.obj = o /\ p.cls # << >>
      /\ o # NoObj
  BY StoredTypes, Names, AttrAssumption DEF IInv, Carries
<1>2. IsPrefix(p.cls, layers[o])
  BY <1>1 DEF IInv, KeptInv
<1>3. PICK c : c = p.cls
  OBVIOUS
<1>4. PICK q : q = layers[o]
  OBVIOUS
<1>5. c \in Seq(Layer) /\ q \in Seq(Layer) /\ IsPrefix(c, q) /\ c # << >>
  BY <1>1, <1>2, <1>3, <1>4, PayloadTypes
<1>6. /\ Len(c) \in Nat /\ Len(q) \in Nat /\ DOMAIN q = 1 .. Len(q) /\ Len(c) # 0
  BY <1>5, LenProperties, EmptySeq
<1>7. Len(c) <= Len(q) /\ \A k \in 1 .. Len(c) : c[k] = q[k]
  BY <1>5, PrefixByPosition
<1>8. Len(c) \in DOMAIN q /\ q[Len(c)] = Last(c)
  BY <1>6, <1>7 DEF Last
<1>9. Len(c) \in Watching(o, a) /\ layers[o][Len(c)] = Last(p.cls)
  BY <1>3, <1>4, <1>8 DEF Watching
<1>10. QED
  BY <1>9 DEF Hits

LEMMA CoveredNext == IInv' => Covered'
BY CoveredNow, PTL

\* What a step reports: nothing, something else than a write, or every layer
\* that sees the attribute written.
Tells ==
  \/ out'.op # "write"
  \/ \E o \in Objs, a \in Attrs :
       /\ out' = [op |-> "write", obj |-> o, attr |-> a, hits |-> Hits(o, a)]
       /\ layers'[o] = layers[o]

LEMMA QuietTells ==
  /\ Quiet.op # "write"
  /\ \A t \in Threads : \A op \in {"undo", "swap", "mutate"} : \A hits :
       Reported(t, op, hits).op # "write"
BY DEF Quiet, Reported

LEMMA WriteTells ==
  ASSUME NEW o \in Objs, NEW a \in Attrs, NEW v, out' = WriteOut(o, a, v),
         layers'[o] = layers[o]
  PROVE  Tells
BY QuietTells DEF Tells, WriteOut

LEMMA StepTells ==
  ASSUME IInv, Next PROVE Tells
<1>1. ASSUME NEW t \in Threads,
             \/ \E e \in Exprs, o \in Objs : EnterWatch(t, e, o)
             \/ \E e \in Exprs : EnterRemoval(t, "unwatch", e)
             \/ EnterRemoval(t, "clear", NoExpr)
      PROVE  Tells
  BY <1>1, QuietTells DEF Tells, EnterWatch, EnterRemoval
<1>2. ASSUME NEW t \in Threads, Acquire(t) \/ PopNothing(t) \/ Pop(t)
      PROVE  Tells
  BY <1>2, QuietTells DEF Tells, Acquire, PopNothing, Pop
<1>3. ASSUME NEW t \in Threads, Undo(t) PROVE Tells
  BY <1>3, QuietTells DEF Tells, Undo
<1>4. ASSUME NEW t \in Threads, Read(t) \/ SwapAttr(t) \/ Wrap(t) \/ Exit(t)
      PROVE  Tells
  BY <1>4, QuietTells DEF Tells, Read, SwapAttr, Wrap, Exit
<1>5. ASSUME NEW t \in Threads, NEW order \in Orders,
             SwapAny(t, order) \/ WalkInstall(t, order)
      PROVE  Tells
  BY <1>5, QuietTells DEF Tells, SwapAny, WalkInstall
<1>6. ASSUME NEW t \in Threads, WalkSkip(t) \/ WalkWrap(t) PROVE Tells
  BY <1>6, QuietTells DEF Tells, WalkSkip, WalkWrap
<1>7. ASSUME NEW t \in Threads, NEW w \in Wraps, Mutate(t, w) PROVE Tells
  BY <1>7, QuietTells DEF Tells, Mutate
<1>8. ASSUME NEW o \in Objs, Die(o) PROVE Tells
  BY <1>8, QuietTells DEF Tells, Die
<1>9. ASSUME NEW t \in Threads, NEW o \in Objs, NEW a \in Attrs, NEW v,
             WriteValue(t, o, a, v)
      PROVE  Tells
  BY <1>9, WriteTells DEF WriteValue
<1>10. ASSUME NEW t \in Threads, NEW o \in Objs, NEW a \in Attrs, WriteContainer(t, o, a)
       PROVE  Tells
  BY <1>10, WriteTells DEF WriteContainer
<1>11. ASSUME NEW t \in Threads, NEW o \in Objs, NEW a \in Attrs, NEW v \in Objs,
              NEW order \in Orders, WriteObject(t, o, a, v, order)
       PROVE  Tells
  <2>1. PICK n \in First(Takers(o, a, v)) :
          Instrument(v, Append(layers[o][n].expr, a), RecOf(layers[o][n].root))
    BY <1>11 DEF WriteObject
  <2>2. n \in DOMAIN layers[o] /\ layers[v] = << >>
    BY <2>1 DEF First, Takers, Watching, Instrumentable
  <2>3. v # o
    BY <2>2
  <2>4. PICK c : layers' = [layers EXCEPT ![v] = c]
    BY <2>1 DEF Instrument
  <2>5. layers'[o] = layers[o]
    BY <2>3, <2>4, TypeParts DEF IInv
  <2>6. QED
    BY <1>11, <2>5, WriteTells DEF WriteObject
<1>12. QED
  BY <1>1, <1>2, <1>3, <1>4, <1>5, <1>6, <1>7, <1>8, <1>9, <1>10, <1>11 DEF Next

\* ChangeReported, over the set of what a watch has recorded.
ReportInv ==
  out.op = "write" =>
    \A i \in RegIds : \A p \in PayloadsOf(recs[i]) :
      Carries(p, out.obj) /\ Sees(Last(p.cls), out.attr) /\ out.obj \notin clobbered
        => NameFor(Last(p.cls), out.attr) \in out.hits

LEMMA ReportStep ==
  ASSUME IInv, IInv', ReportInv, [Next]_vars PROVE ReportInv'
<1>1. CASE Next
  <2>1. Tells
    BY <1>1, StepTells
  <2>2. CASE out'.op # "write"
    BY <2>2 DEF ReportInv
  <2>3. CASE \E o \in Objs, a \in Attrs :
               /\ out' = [op |-> "write", obj |-> o, attr |-> a, hits |-> Hits(o, a)]
               /\ layers'[o] = layers[o]
    <3>1. PICK o \in Objs, a \in Attrs :
            /\ out' = [op |-> "write", obj |-> o, attr |-> a, hits |-> Hits(o, a)]
            /\ layers'[o] = layers[o]
      BY <2>3
    <3>2. Hits(o, a)' = Hits(o, a)
      BY <3>1 DEF Hits, Watching
    <3>3. out'.obj = o /\ out'.attr = a /\ out'.hits = Hits(o, a)
      BY <3>1
    <3>4. o \notin clobbered' =>
            \A i \in RegIds' : \A p \in PayloadsOf(recs'[i]) :
              Carries(p, o) /\ Sees(Last(p.cls), a)
                => NameFor(Last(p.cls), a) \in Hits(o, a)'
      BY CoveredNext DEF Covered
    <3>5. QED
      BY <3>2, <3>3, <3>4 DEF ReportInv
  <2>4. QED
    BY <2>1, <2>2, <2>3 DEF Tells
<1>2. CASE UNCHANGED vars
  BY <1>2 DEF vars, ReportInv, RegIds
<1>3. QED
  BY <1>1, <1>2

LEMMA ReportNow == IInv /\ ReportInv => ChangeReported
<1> SUFFICES ASSUME IInv, ReportInv, out.op = "write", NEW i \in RegIds,
                    NEW k \in DOMAIN Payloads(i), Carries(Payloads(i)[k], out.obj),
                    Sees(Last(Payloads(i)[k].cls), out.attr), out.obj \notin clobbered
             PROVE  NameFor(Last(Payloads(i)[k].cls), out.attr) \in out.hits
  BY DEF ChangeReported
<1>1. Payloads(i)[k] \in PayloadsOf(recs[i])
  BY PayloadSet DEF IInv
<1>2. QED
  BY <1>1 DEF ReportInv

\* A write that changes an attribute is reported under the name of every
\* registered watch that covers it, however many layers lie above or below and
\* whatever was removed before (_WatchedSubclass.__setattr__).
THEOREM ChangesReported == Spec => []ChangeReported
<1>1. Init => ReportInv
  BY QuietTells DEF Init, ReportInv
<1>2. IInv /\ IInv' /\ ReportInv /\ [Next]_vars => ReportInv'
  BY ReportStep
<1>3. IInv /\ ReportInv => ChangeReported
  BY ReportNow
<1>4. QED
  BY <1>1, <1>2, <1>3, Invariant, PTL DEF Spec

=============================================================================
