-------------------------- MODULE LocalWatch_proofs --------------------------
(* Theorems about LocalWatch, for every value of its constants.            *)
EXTENDS LocalWatch, SequenceTheorems, TLAPS

-----------------------------------------------------------------------------
(* Facts about the helpers.                                                *)

\* Dropping watches leaves a table of local events.
LEMMA EventsAfterDropType ==
  ASSUME events \in [Codes -> Events], NEW ws, NEW kept
  PROVE  EventsAfterDrop(ws, kept) \in [Codes -> Events]
BY DEF EventsAfterDrop, Events

\* A code object that keeps a watch keeps its events.
LEMMA EventsAfterDropKeeps ==
  ASSUME NEW ws, NEW kept, NEW c \in Codes, NEW w \in kept, w.code = c
  PROVE  EventsAfterDrop(ws, kept)[c] = events[c]
BY DEF EventsAfterDrop

LEMMA NoStateType == NoState \in State
BY DEF NoState, State, NoVals

\* The values of some names become baselines.
LEMMA BaselineType ==
  ASSUME NEW st \in State, NEW ns, NEW vs \in [Names -> Vals]
  PROVE  /\ Baseline(st, ns, vs) \in State
         /\ Baseline(st, ns, vs).code = st.code
         /\ Baseline(st, ns, vs).prev = st.prev
         /\ \A n \in Names : Baseline(st, ns, vs).base[n]
                               = IF n \in ns THEN vs[n] ELSE st.base[n]
BY DEF Baseline, State

LEMMA StateForType ==
  ASSUME NEW st \in State, NEW c \in Codes, NEW f
  PROVE  StateFor(c, f, st) \in State /\ StateFor(c, f, st).code = c
BY NoStateType DEF StateFor, State, NoState

\* What is left of a stack of pushes is a stack of pushes, no longer.
LEMMA RemoveAtType ==
  ASSUME NEW S, NEW q \in Seq(S), NEW i \in 1 .. Len(q)
  PROVE  /\ RemoveAt(q, i) \in Seq(S)
         /\ Len(RemoveAt(q, i)) = Len(q) - 1
<1> DEFINE front == SubSeq(q, 1, i - 1)
           back  == SubSeq(q, i + 1, Len(q))
<1>0. Len(q) \in Nat /\ \A j \in 1 .. Len(q) : q[j] \in S
  BY LenProperties
<1>1. front \in Seq(S) /\ Len(front) = i - 1
  <2>1. 1 \in Int /\ i - 1 \in Int /\ \A j \in 1 .. i - 1 : q[j] \in S
    BY <1>0
  <2>2. QED
    BY <1>0, <2>1, SubSeqProperties
<1>2. back \in Seq(S) /\ Len(back) = Len(q) - i
  <2>1. i + 1 \in Int /\ Len(q) \in Int /\ \A j \in i + 1 .. Len(q) : q[j] \in S
    BY <1>0
  <2>2. QED
    BY <1>0, <2>1, SubSeqProperties
<1>3. RemoveAt(q, i) = front \o back
  BY DEF RemoveAt
<1> HIDE DEF front, back
<1>4. front \o back \in Seq(S) /\ Len(front \o back) = Len(front) + Len(back)
  BY <1>1, <1>2, ConcatProperties, Zenon
<1>5. QED
  BY <1>0, <1>1, <1>2, <1>3, <1>4

LEMMA CappedType ==
  ASSUME NEW S, NEW q \in Seq(S), Len(q) <= MaxPend, NEW e \in S
  PROVE  /\ Capped(Append(q, e)) \in Seq(S)
         /\ Len(Capped(Append(q, e))) <= MaxPend
<1>1. Append(q, e) \in Seq(S) /\ Len(Append(q, e)) = Len(q) + 1
  BY AppendProperties
<1>2. Len(q) \in Nat /\ MaxPend \in Nat
  BY ConstantsAssumption, LenProperties DEF ConstantsAssumption
<1>3. CASE Len(Append(q, e)) > MaxPend
  <2>1. Append(q, e) # << >>
    BY <1>1, <1>2, EmptySeq
  <2>2. Tail(Append(q, e)) \in Seq(S)
        /\ Len(Tail(Append(q, e))) = Len(Append(q, e)) - 1
    BY <1>1, <2>1, HeadTailProperties
  <2>3. QED
    BY <1>1, <1>2, <1>3, <2>2 DEF Capped
<1>4. CASE ~ (Len(Append(q, e)) > MaxPend)
  BY <1>1, <1>2, <1>4 DEF Capped
<1>5. QED
  BY <1>3, <1>4

-----------------------------------------------------------------------------
(* Type correctness.                                                       *)

\* The part of TypeOK that the watches make: one watch for each key.
OneWatchPerKey(ws) ==
  /\ ws \subseteq Watch
  /\ \A v, w \in ws : v.name = w.name /\ v.fid = w.fid => v = w

LEMMA InitType == Init => TypeOK
<1> SUFFICES ASSUME Init PROVE TypeOK
  OBVIOUS
<1>1. NoFrame \in Frame /\ NoState \in State
  BY NoStateType DEF NoFrame, Frame
<1>2. pend \in [Threads -> Seq(Push)] /\ \A t \in Threads : Len(pend[t]) <= MaxPend
  BY ConstantsAssumption DEF Init, ConstantsAssumption
<1>3. budget \in [frames : Nat, ops : Nat]
  BY ConstantsAssumption DEF Init, ConstantsAssumption
<1>4. \A f \in Fids : ~ Live(f)
  BY DEF Init, Live, NoFrame
<1>5. arming \in [Threads -> Arming] /\ torn \subseteq Codes
  BY DEF Init, Arming
<1>6. events \in [Codes -> Events]
  BY DEF Init, Events
<1>7. QED
  BY <1>1, <1>2, <1>3, <1>4, <1>5, <1>6 DEF Init, TypeOK, NoVals

\* Spending needs something to spend.
LEMMA SpendType ==
  ASSUME budget \in [frames : Nat, ops : Nat],
         NEW what \in {"frames", "ops"}, Spend(what)
  PROVE  /\ budget' \in [frames : Nat, ops : Nat]
         /\ budget[what] \in Nat \ {0} /\ budget'[what] = budget[what] - 1
         /\ \A other \in {"frames", "ops"} \ {what} :
              budget'[other] = budget[other]
BY DEF Spend

LEMMA EnterType ==
  ASSUME TypeOK, NEW t \in Threads, NEW f \in Fids, NEW c \in Codes,
         NEW g \in BOOLEAN, NEW vs \in [Names -> Vals], Enter(t, f, c, g, vs)
  PROVE  TypeOK'
<1> DEFINE inc == budget.frames
           fr  == [inc |-> inc, code |-> c, thread |-> t, line |-> 0,
                   guarded |-> g]
<1>1. inc \in Nat \ {0} /\ budget' \in [frames : Nat, ops : Nat]
  <2>1. budget \in [frames : Nat, ops : Nat] /\ Spend("frames")
    BY DEF Enter, TypeOK
  <2>2. QED
    BY <2>1, SpendType
<1>2. fr \in Frame /\ vs \in [Names -> Vals \cup {None}]
  BY <1>1 DEF Frame
<1>3. /\ frame' \in [Fids -> Frame]
      /\ vals' \in [Fids -> [Names -> Vals \cup {None}]]
      /\ start' \in [Fids -> [Names -> Vals \cup {None}]]
      /\ armed' \subseteq Codes \X Lines
      /\ UNCHANGED <<arming, torn>>
  <2>1. /\ frame' = [frame EXCEPT ![f] = fr] /\ vals' = [vals EXCEPT ![f] = vs]
        /\ start' = [start EXCEPT ![f] = vs] /\ armed' = armed
        /\ UNCHANGED <<arming, torn>>
    BY DEF Enter
  <2>2. /\ frame \in [Fids -> Frame]
        /\ vals \in [Fids -> [Names -> Vals \cup {None}]]
        /\ start \in [Fids -> [Names -> Vals \cup {None}]]
        /\ armed \subseteq Codes \X Lines
    BY DEF TypeOK
  <2> HIDE DEF fr
  <2>3. QED
    BY <1>2, <2>1, <2>2
<1>4. \A h \in Fids : Live(h)' => /\ frame'[h].code \in Codes
                                  /\ frame'[h].thread \in Threads
                                  /\ vals'[h] \in [Names -> Vals]
  <2>1. frame' = [frame EXCEPT ![f] = fr] /\ vals' = [vals EXCEPT ![f] = vs]
    BY DEF Enter
  <2>2. frame \in [Fids -> Frame] /\ vals \in [Fids -> [Names -> Vals \cup {None}]]
    BY DEF TypeOK
  <2>3. ASSUME NEW h \in Fids, h # f
        PROVE  frame'[h] = frame[h] /\ vals'[h] = vals[h]
    BY <2>1, <2>2, <2>3
  <2>4. frame'[f] = fr /\ vals'[f] = vs
    BY <2>1, <2>2
  <2>5. \A h \in Fids : Live(h) => /\ frame[h].code \in Codes
                                   /\ frame[h].thread \in Threads
                                   /\ vals[h] \in [Names -> Vals]
    BY DEF TypeOK
  <2>6. QED
    BY <2>3, <2>4, <2>5 DEF Live
<1>5. CASE EnterUnseen(t, f, c, g)
  BY <1>1, <1>3, <1>4, <1>5 DEF EnterUnseen, TypeOK
<1>6. CASE EnterSeen(t, f, c, g, vs)
  <2> DEFINE i    == MatchingPush(pend[t], c)
             by   == IF i = 0 THEN [v \in Vals |-> NoEntry] ELSE pend[t][i].by
             ps   == Propagated(c, by, vs)
             kept == watches \ Stale(c, f)
             left == {w \in kept : ~ (w.fid = f /\ w.name \in ps)}
             new  == {[name |-> p, fid |-> f, code |-> c,
                       shown |-> by[vs[p]].name, inc |-> inc,
                       root |-> by[vs[p]].root, seen |-> FALSE] : p \in ps}
  <2>1. i = 0 \/ i \in 1 .. Len(pend[t])
    BY DEF MatchingPush, TypeOK
  <2>2. by \in [Vals -> Entry]
    <3>1. pend[t] \in Seq(Push)
      BY DEF TypeOK
    <3>2. i # 0 => pend[t][i] \in Push
      BY <2>1, <3>1, LenProperties
    <3>3. i # 0 => pend[t][i].by \in [Vals -> Entry]
      BY <3>2 DEF Push
    <3>4. NoEntry \in Entry
      BY DEF Entry
    <3> HIDE DEF i
    <3>5. QED
      BY <3>3, <3>4
  <2>3. ps \subseteq Names /\ \A p \in ps : vs[p] \in Vals
                                          /\ by[vs[p]] # NoEntry
    BY ConstantsAssumption DEF Propagated, ConstantsAssumption
  <2>4. new \subseteq Watch
    <3>1. \A p \in ps : by[vs[p]].name \in Names /\ by[vs[p]].root \in Names
      BY <2>2, <2>3 DEF Entry
    <3> HIDE DEF ps, by, inc
    <3>2. ASSUME NEW p \in ps
          PROVE  [name |-> p, fid |-> f, code |-> c, shown |-> by[vs[p]].name,
                  inc |-> inc, root |-> by[vs[p]].root, seen |-> FALSE] \in Watch
      BY <1>1, <2>3, <3>1 DEF Watch
    <3>3. QED
      BY <3>2
  <2>5. OneWatchPerKey(left \cup new)
    <3>1. left \subseteq watches
      OBVIOUS
    <3> HIDE DEF ps, by, inc, kept
    <3>2. \A v \in left, w \in new : ~ (v.name = w.name /\ v.fid = w.fid)
      OBVIOUS
    <3>3. ASSUME NEW v \in new, NEW w \in new, v.name = w.name PROVE v = w
      <4>1. PICK p \in ps : v = [name |-> p, fid |-> f, code |-> c,
                 shown |-> by[vs[p]].name, inc |-> inc,
                 root |-> by[vs[p]].root, seen |-> FALSE]
        OBVIOUS
      <4>2. PICK q \in ps : w = [name |-> q, fid |-> f, code |-> c,
                 shown |-> by[vs[q]].name, inc |-> inc,
                 root |-> by[vs[q]].root, seen |-> FALSE]
        OBVIOUS
      <4>3. p = q
        BY <3>3, <4>1, <4>2
      <4>4. QED
        BY <4>1, <4>2, <4>3
    <3> HIDE DEF left, new
    <3>4. QED
      BY <2>4, <3>1, <3>2, <3>3 DEF TypeOK, OneWatchPerKey
  <2>6. fstate' \in [Fids -> State]
    <3>1. StateWiped(c, fstate[f]) \in State
      BY NoStateType DEF StateWiped, TypeOK
    <3>2. StateFor(c, f, StateWiped(c, fstate[f])) \in State
      BY <3>1, StateForType
    <3>3. Baseline(StateFor(c, f, StateWiped(c, fstate[f])), ps, vs) \in State
      BY <3>2, BaselineType
    <3> HIDE DEF ps
    <3>4. QED
      BY <1>6, <3>1, <3>3 DEF EnterSeen, TypeOK, ps
  <2>7. events' \in [Codes -> Events]
    <3>1. EventsAfterDrop(watches, left) \in [Codes -> Events]
      BY EventsAfterDropType DEF TypeOK
    <3>2. events' = [EventsAfterDrop(watches, left) EXCEPT
                       ![c] = IF ps = {} THEN @ ELSE "all"]
      BY <1>6 DEF EnterSeen
    <3> HIDE DEF left, ps
    <3>3. QED
      BY <3>1, <3>2 DEF Events
  <2>8. /\ pend' \in [Threads -> Seq(Push)]
        /\ \A u \in Threads : Len(pend'[u]) <= MaxPend
    <3>1. pend' = IF i = 0 THEN pend
                  ELSE [pend EXCEPT ![t] = RemoveAt(@, i)]
      BY <1>6 DEF EnterSeen
    <3>2. /\ pend \in [Threads -> Seq(Push)]
          /\ \A u \in Threads : Len(pend[u]) <= MaxPend
      BY DEF TypeOK
    <3> HIDE DEF i
    <3>3. CASE i # 0
      <4>1. RemoveAt(pend[t], i) \in Seq(Push)
            /\ Len(RemoveAt(pend[t], i)) = Len(pend[t]) - 1
        BY <2>1, <3>2, <3>3, RemoveAtType
      <4>2. Len(pend[t]) \in Nat /\ MaxPend \in Nat
        BY <3>2, ConstantsAssumption, LenProperties DEF ConstantsAssumption
      <4>3. pend'[t] = RemoveAt(pend[t], i)
            /\ \A u \in Threads \ {t} : pend'[u] = pend[u]
        BY <3>1, <3>2, <3>3
      <4>4. QED
        BY <3>1, <3>2, <3>3, <4>1, <4>2, <4>3
    <3>4. QED
      BY <3>1, <3>2, <3>3
  <2>9. watches' = left \cup new
    BY <1>6 DEF EnterSeen
  <2>10. OneWatchPerKey(watches')
    BY <2>5, <2>9
  <2>11. QED
    BY <1>1, <1>3, <1>4, <2>6, <2>7, <2>8, <2>10 DEF TypeOK, OneWatchPerKey
<1>7. QED
  BY <1>5, <1>6 DEF Enter

LEMMA AssignType ==
  ASSUME TypeOK, NEW f \in Fids, NEW n \in Names, NEW v \in Vals, Assign(f, n, v)
  PROVE  TypeOK'
<1>1. /\ vals' = [vals EXCEPT ![f][n] = v]
      /\ UNCHANGED <<frame, watches, fstate, events, pend, armed, arming, torn,
                     budget>>
      /\ start' = start \/ start' = [start EXCEPT ![f][n] = v]
  BY DEF Assign
<1>2. /\ vals \in [Fids -> [Names -> Vals \cup {None}]]
      /\ start \in [Fids -> [Names -> Vals \cup {None}]]
      /\ Live(f) /\ vals[f] \in [Names -> Vals]
  BY DEF TypeOK, Assign, Runs
<1>3. /\ vals' \in [Fids -> [Names -> Vals \cup {None}]]
      /\ start' \in [Fids -> [Names -> Vals \cup {None}]]
  <2>1. vals' \in [Fids -> [Names -> Vals \cup {None}]]
    BY <1>1, <1>2
  <2>2. start' = [start EXCEPT ![f][n] = v]
          => start' \in [Fids -> [Names -> Vals \cup {None}]]
    BY <1>2
  <2>3. QED
    BY <1>1, <1>2, <2>1, <2>2
<1>4. \A h \in Fids : vals'[h] = IF h = f THEN [vals[f] EXCEPT ![n] = v] ELSE vals[h]
  <2>1. vals' = [vals EXCEPT ![f] = [vals[f] EXCEPT ![n] = v]]
    BY <1>1
  <2>2. QED
    BY <1>2, <2>1
<1>5. [vals[f] EXCEPT ![n] = v] \in [Names -> Vals]
  BY <1>2
<1>6. \A h \in Fids : Live(h)' => /\ frame'[h].code \in Codes
                                  /\ frame'[h].thread \in Threads
                                  /\ vals'[h] \in [Names -> Vals]
  BY <1>1, <1>4, <1>5 DEF TypeOK, Live
<1>7. QED
  BY <1>1, <1>3, <1>6 DEF TypeOK

\* Marking watches as seen leaves one for each key.
LEMMA SeenType ==
  ASSUME OneWatchPerKey(watches), NEW act \in SUBSET watches
  PROVE  OneWatchPerKey((watches \ act) \cup {[w EXCEPT !.seen = TRUE] : w \in act})
<1> DEFINE marked == {[w EXCEPT !.seen = TRUE] : w \in act}
<1>1. ASSUME NEW m \in marked
      PROVE  m \in Watch /\ \E w \in act : /\ m = [w EXCEPT !.seen = TRUE]
                                          /\ m.name = w.name /\ m.fid = w.fid
  BY DEF OneWatchPerKey, Watch
<1>2. \A v, w \in watches : v.name = w.name /\ v.fid = w.fid => v = w
  BY DEF OneWatchPerKey
<1>3. watches \subseteq Watch
  BY DEF OneWatchPerKey
<1> SUFFICES OneWatchPerKey((watches \ act) \cup marked)
  OBVIOUS
<1> HIDE DEF marked
<1>4. (watches \ act) \cup marked \subseteq Watch
  BY <1>1, <1>3
<1>5. ASSUME NEW v \in marked, NEW w \in watches \ act
      PROVE  ~ (v.name = w.name /\ v.fid = w.fid)
  BY <1>1, <1>2
<1>6. ASSUME NEW v \in marked, NEW w \in marked, v.name = w.name, v.fid = w.fid
      PROVE  v = w
  <2>1. PICK a \in act : /\ v = [a EXCEPT !.seen = TRUE]
                         /\ v.name = a.name /\ v.fid = a.fid
    BY <1>1
  <2>2. PICK b \in act : /\ w = [b EXCEPT !.seen = TRUE]
                         /\ w.name = b.name /\ w.fid = b.fid
    BY <1>1
  <2>3. a = b
    BY <1>2, <1>6, <2>1, <2>2
  <2>4. QED
    BY <2>1, <2>2, <2>3
<1>7. QED
  BY <1>2, <1>4, <1>5, <1>6 DEF OneWatchPerKey

LEMMA StartLineType ==
  ASSUME TypeOK, NEW f \in Fids, NEW l \in Lines, StartLine(f, l)
  PROVE  TypeOK'
<1>1. /\ frame' = [frame EXCEPT ![f].line = l]
      /\ UNCHANGED <<vals, events, pend, arming, torn, budget>>
      /\ Live(f) /\ frame[f].code \in Codes /\ vals[f] \in [Names -> Vals]
  BY DEF StartLine, Runs, TypeOK
<1>2. frame \in [Fids -> Frame]
  BY DEF TypeOK
<1>3. frame' \in [Fids -> Frame]
  BY <1>1, <1>2 DEF Frame
<1>4. \A h \in Fids : /\ frame'[h].inc = frame[h].inc
                      /\ frame'[h].code = frame[h].code
                      /\ frame'[h].thread = frame[h].thread
  BY <1>1, <1>2 DEF Frame
<1>5. \A h \in Fids : Live(h)' => /\ frame'[h].code \in Codes
                                  /\ frame'[h].thread \in Threads
                                  /\ vals'[h] \in [Names -> Vals]
  BY <1>1, <1>4 DEF TypeOK, Live
<1>6. /\ OneWatchPerKey(watches') /\ fstate' \in [Fids -> State]
      /\ armed' \subseteq Codes \X Lines
      /\ start' \in [Fids -> [Names -> Vals \cup {None}]]
  <2>1. /\ OneWatchPerKey(watches) /\ fstate \in [Fids -> State]
        /\ armed \subseteq Codes \X Lines
        /\ start \in [Fids -> [Names -> Vals \cup {None}]]
    BY DEF TypeOK, OneWatchPerKey
  <2>2. CASE LineUnseen(f) \/ LinePauses(f, l)
    BY <2>1, <2>2 DEF LineUnseen, LinePauses
  <2>3. CASE LineDiffs(f, l)
    <3> DEFINE c   == frame[f].code
               act == Active(c, f)
               st  == [NoState EXCEPT !.code = c, !.prev = l]
               ns  == {w.name : w \in act}
    <3>1. armed' = armed
      BY <2>3 DEF LineDiffs
    <3>2. CASE act = {}
      BY <2>1, <2>3, <3>1, <3>2 DEF LineDiffs
    <3>3. CASE act # {}
      <4>1. /\ watches' = (watches \ act) \cup {[w EXCEPT !.seen = TRUE] : w \in act}
            /\ fstate' = [fstate EXCEPT ![f] = Baseline(st, ns, vals[f])]
            /\ start' = [start EXCEPT ![f] = vals[f]]
        BY <2>3, <3>3 DEF LineDiffs
      <4>2. OneWatchPerKey(watches')
        <5>1. act \subseteq watches
          BY DEF Active
        <5> HIDE DEF act
        <5>2. QED
          BY <2>1, <4>1, <5>1, SeenType
      <4>3. Baseline(st, ns, vals[f]) \in State
        <5>1. st \in State
          BY <1>1, NoStateType DEF State, NoState
        <5>2. QED
          BY <1>1, <5>1, BaselineType
      <4>4. vals[f] \in [Names -> Vals \cup {None}]
        BY <1>1
      <4> HIDE DEF st, ns, act
      <4>5. QED
        BY <2>1, <3>1, <4>1, <4>2, <4>3, <4>4
    <3>4. QED
      BY <3>2, <3>3
  <2>4. QED
    BY <2>2, <2>3 DEF StartLine
<1>7. QED
  BY <1>1, <1>3, <1>5, <1>6 DEF TypeOK, OneWatchPerKey

\* A frame leaves; only its own variables are reset.
LEMMA LeaveType ==
  ASSUME TypeOK, NEW f \in Fids, Leave(f)
  PROVE  /\ frame' \in [Fids -> Frame]
         /\ vals' \in [Fids -> [Names -> Vals \cup {None}]]
         /\ start' \in [Fids -> [Names -> Vals \cup {None}]]
         /\ ~ Live(f)'
         /\ \A h \in Fids \ {f} : /\ frame'[h] = frame[h] /\ vals'[h] = vals[h]
                                  /\ start'[h] = start[h]
         /\ \A h \in Fids : Live(h)' => /\ frame'[h].code \in Codes
                                        /\ frame'[h].thread \in Threads
                                        /\ vals'[h] \in [Names -> Vals]
         /\ UNCHANGED <<pend, armed, arming, torn, budget>>
<1>1. /\ frame' = [frame EXCEPT ![f] = NoFrame]
      /\ vals' = [vals EXCEPT ![f] = NoVals]
      /\ start' = [start EXCEPT ![f] = NoVals]
      /\ UNCHANGED <<pend, armed, arming, torn, budget>>
  BY DEF Leave
<1>2. /\ frame \in [Fids -> Frame]
      /\ vals \in [Fids -> [Names -> Vals \cup {None}]]
      /\ start \in [Fids -> [Names -> Vals \cup {None}]]
      /\ \A h \in Fids : Live(h) => /\ frame[h].code \in Codes
                                    /\ frame[h].thread \in Threads
                                    /\ vals[h] \in [Names -> Vals]
  BY DEF TypeOK
<1>3. /\ NoFrame \in Frame /\ NoFrame.inc = 0
      /\ NoVals \in [Names -> Vals \cup {None}]
  BY DEF NoFrame, Frame, NoVals
<1>4. /\ frame'[f] = NoFrame
      /\ \A h \in Fids \ {f} : /\ frame'[h] = frame[h] /\ vals'[h] = vals[h]
                               /\ start'[h] = start[h]
  BY <1>1, <1>2
<1>5. /\ frame' \in [Fids -> Frame]
      /\ vals' \in [Fids -> [Names -> Vals \cup {None}]]
      /\ start' \in [Fids -> [Names -> Vals \cup {None}]]
  BY <1>1, <1>2, <1>3
<1>6. QED
  BY <1>1, <1>2, <1>3, <1>4, <1>5 DEF Live

LEMMA PyReturnType ==
  ASSUME TypeOK, NEW f \in Fids, PyReturn(f)
  PROVE  TypeOK'
<1> DEFINE act == Active(frame[f].code, f)
<1>1. /\ fstate' = [fstate EXCEPT ![f] = NoState]
      /\ watches' = watches \ act
      /\ events' = EventsAfterDrop(watches, watches \ act)
      /\ Leave(f)
  BY DEF PyReturn
<1>2. fstate' \in [Fids -> State]
  BY <1>1, NoStateType DEF TypeOK
<1>3. events' \in [Codes -> Events]
  BY <1>1, EventsAfterDropType DEF TypeOK
<1> HIDE DEF act
<1>4. QED
  BY <1>1, <1>2, <1>3, LeaveType DEF TypeOK

LEMMA UnwindType ==
  ASSUME TypeOK, NEW f \in Fids, Unwind(f)
  PROVE  TypeOK'
<1>1. Leave(f) /\ UNCHANGED <<watches, fstate, events>>
  BY DEF Unwind
<1>2. QED
  BY <1>1, LeaveType DEF TypeOK

LEMMA CallType ==
  ASSUME TypeOK, NEW f \in Fids, NEW c \in Codes, Call(f, c)
  PROVE  TypeOK'
<1> DEFINE t == frame[f].thread
<1>1. PICK by \in WatchedById(f) :
        pend' = [pend EXCEPT ![t] = Capped(Append(@, [code |-> c, by |-> by]))]
  BY DEF Call
<1>2. t \in Threads
  BY DEF Call, Runs, TypeOK
<1>3. [code |-> c, by |-> by] \in Push
  <2>1. \A v \in Vals : EntriesAt(f, v) \subseteq Entry
    <3>1. \A w \in watches : w.name \in Names /\ w.root \in Names
      BY DEF TypeOK, Watch
    <3>2. QED
      BY <3>1 DEF EntriesAt, Entry
  <2>2. /\ DOMAIN by = Vals /\ by = [v \in Vals |-> by[v]]
        /\ \A v \in Vals : by[v] = NoEntry \/ by[v] \in EntriesAt(f, v)
    <3>1. DOMAIN by = Vals /\ by = [v \in Vals |-> by[v]]
      BY DEF WatchedById
    <3>2. \A v \in Vals : IF EntriesAt(f, v) = {} THEN by[v] = NoEntry
                          ELSE by[v] \in EntriesAt(f, v)
      BY Zenon DEF WatchedById
    <3>3. QED
      BY <3>1, <3>2
  <2>3. \A v \in Vals : by[v] \in Entry
    BY <2>1, <2>2 DEF Entry
  <2>4. by \in [Vals -> Entry]
    BY <2>2, <2>3
  <2>5. QED
    BY <2>4 DEF Push
<1> HIDE DEF t
<1>4. pend \in [Threads -> Seq(Push)] /\ \A u \in Threads : Len(pend[u]) <= MaxPend
  BY DEF TypeOK
<1>5. pend' \in [Threads -> Seq(Push)] /\ \A u \in Threads : Len(pend'[u]) <= MaxPend
  <2> DEFINE q == Capped(Append(pend[t], [code |-> c, by |-> by]))
  <2>1. q \in Seq(Push) /\ Len(q) <= MaxPend
    BY <1>2, <1>3, <1>4, CappedType
  <2>2. pend' = [pend EXCEPT ![t] = q]
    BY <1>1
  <2> HIDE DEF q
  <2>3. QED
    BY <1>2, <1>4, <2>1, <2>2
<1>6. /\ events' = [events EXCEPT ![c] = "all"]
      /\ UNCHANGED <<frame, vals, watches, fstate, armed, arming, torn, start,
                     budget>>
  BY DEF Call
<1>7. events' \in [Codes -> Events]
  BY <1>6 DEF TypeOK, Events
<1>8. QED
  BY <1>5, <1>6, <1>7 DEF TypeOK, Live

LEMMA AddWatchType ==
  ASSUME TypeOK, NEW f \in Fids, NEW n \in Names, AddWatch(f, n)
  PROVE  TypeOK'
<1> DEFINE c    == frame[f].code
           kept == {w \in watches : ~ (w.name = n /\ w.fid = f)}
           new  == [name |-> n, fid |-> f, code |-> c, shown |-> n,
                    inc |-> frame[f].inc, root |-> n, seen |-> FALSE]
           st   == Baseline(StateFor(c, f, fstate[f]), {n}, vals[f])
           evs  == EventsAfterDrop(watches, kept)
<1>1. /\ watches' = kept \cup {new} /\ fstate' = [fstate EXCEPT ![f] = st]
      /\ events' = [evs EXCEPT ![c] = "all"]
      /\ start' = [start EXCEPT ![f][n] = vals[f][n]]
      /\ UNCHANGED <<frame, vals, pend, armed, arming, torn, budget>>
  BY DEF AddWatch
<1>2. c \in Codes /\ vals[f] \in [Names -> Vals] /\ frame[f].inc \in Nat \ {0}
  BY DEF AddWatch, TypeOK, Live, Frame
<1>3. fstate' \in [Fids -> State]
  <2>1. fstate \in [Fids -> State]
    BY DEF TypeOK
  <2>2. StateFor(c, f, fstate[f]) \in State
    BY <1>2, <2>1, StateForType
  <2>3. st \in State
    BY <1>2, <2>2, BaselineType
  <2> HIDE DEF st
  <2>4. QED
    BY <1>1, <2>1, <2>3
<1>4. events' \in [Codes -> Events]
  <2>1. evs \in [Codes -> Events]
    BY EventsAfterDropType DEF TypeOK
  <2> HIDE DEF evs
  <2>2. QED
    BY <1>1, <2>1 DEF Events
<1>5. start' \in [Fids -> [Names -> Vals \cup {None}]]
  BY <1>1, <1>2 DEF TypeOK
<1>6. OneWatchPerKey(watches')
  <2>1. new \in Watch /\ new.name = n /\ new.fid = f
    BY <1>2 DEF Watch
  <2>2. kept \subseteq watches /\ \A w \in kept : ~ (w.name = n /\ w.fid = f)
    OBVIOUS
  <2>3. watches \subseteq Watch
        /\ \A v, w \in watches : v.name = w.name /\ v.fid = w.fid => v = w
    BY DEF TypeOK
  <2> HIDE DEF new, kept
  <2>4. QED
    BY <1>1, <2>1, <2>2, <2>3 DEF OneWatchPerKey
<1> HIDE DEF c, kept, new, st, evs
<1>7. QED
  BY <1>1, <1>3, <1>4, <1>5, <1>6 DEF TypeOK, OneWatchPerKey, Live

LEMMA RemoveWatchType ==
  ASSUME TypeOK, NEW n \in Names, RemoveWatch(n)
  PROVE  TypeOK'
<1> DEFINE kept == {w \in watches : w.name # n}
<1>1. /\ watches' = kept /\ events' = EventsAfterDrop(watches, kept)
      /\ Spend("ops")
      /\ UNCHANGED <<frame, vals, fstate, pend, armed, arming, torn, start>>
  BY DEF RemoveWatch
<1>2. events' \in [Codes -> Events]
  BY <1>1, EventsAfterDropType DEF TypeOK
<1>3. budget' \in [frames : Nat, ops : Nat]
  BY <1>1, SpendType DEF TypeOK
<1>4. kept \subseteq watches
  OBVIOUS
<1> HIDE DEF kept
<1>5. QED
  BY <1>1, <1>2, <1>3, <1>4 DEF TypeOK, Live

LEMMA ClearWatchesType ==
  ASSUME TypeOK, NEW t \in Threads, ClearWatches(t)
  PROVE  TypeOK'
<1>1. /\ watches' = {} /\ events' = EventsAfterDrop(watches, {})
      /\ fstate' = [f \in Fids |-> NoState]
      /\ pend' = [pend EXCEPT ![t] = << >>] /\ armed' = {}
      /\ Spend("ops")
      /\ UNCHANGED <<frame, vals, arming, torn, start>>
  BY DEF ClearWatches
<1>2. events' \in [Codes -> Events]
  BY <1>1, EventsAfterDropType DEF TypeOK
<1>3. budget' \in [frames : Nat, ops : Nat]
  BY <1>1, SpendType DEF TypeOK
<1>4. /\ pend' \in [Threads -> Seq(Push)]
      /\ \A u \in Threads : Len(pend'[u]) <= MaxPend
  <2>1. << >> \in Seq(Push) /\ Len(<< >>) <= MaxPend
    BY ConstantsAssumption DEF ConstantsAssumption
  <2>2. /\ pend \in [Threads -> Seq(Push)]
        /\ \A u \in Threads : Len(pend[u]) <= MaxPend
    BY DEF TypeOK
  <2>3. QED
    BY <1>1, <2>1, <2>2
<1>5. fstate' \in [Fids -> State]
  BY <1>1, NoStateType
<1>6. QED
  BY <1>1, <1>2, <1>3, <1>4, <1>5 DEF TypeOK, Live

LEMMA ArmReadType ==
  ASSUME TypeOK, NEW t \in Threads, NEW c \in Codes, NEW l \in Lines,
         ArmRead(t, c, l)
  PROVE  TypeOK'
<1> DEFINE a == [code |-> c, line |-> l, read |-> events[c]]
<1>1. /\ arming' = [arming EXCEPT ![t] = a] /\ Spend("ops")
      /\ UNCHANGED <<frame, vals, watches, fstate, events, pend, armed, torn,
                     start>>
  BY DEF ArmRead
<1>2. budget' \in [frames : Nat, ops : Nat]
  BY <1>1, SpendType DEF TypeOK
<1>3. a \in Arming
  BY DEF Arming, TypeOK
<1> HIDE DEF a
<1>4. arming' \in [Threads -> Arming]
  BY <1>1, <1>3 DEF TypeOK
<1>5. QED
  BY <1>1, <1>2, <1>4 DEF TypeOK, Live

LEMMA ArmWriteType ==
  ASSUME TypeOK, NEW t \in Threads, ArmWrite(t)
  PROVE  TypeOK'
<1> DEFINE a == arming[t]
<1>1. /\ events' = [events EXCEPT ![a.code] = WithLine(a.read)]
      /\ torn' = torn \/ torn' = torn \cup {a.code}
      /\ armed' = armed \cup {<<a.code, a.line>>}
      /\ arming' = [arming EXCEPT ![t] = NotArming]
      /\ UNCHANGED <<frame, vals, watches, fstate, pend, start, budget>>
  BY DEF ArmWrite
<1>2. a.code \in Codes /\ a.line \in Lines /\ a.read \in Events
  BY DEF ArmWrite, TypeOK, Arming
<1>3. WithLine(a.read) \in Events
  BY <1>2 DEF WithLine, Events
<1>4. NotArming \in Arming
  BY DEF Arming
<1> HIDE DEF a
<1>5. events' \in [Codes -> Events] /\ arming' \in [Threads -> Arming]
  BY <1>1, <1>3, <1>4 DEF TypeOK
<1>6. torn' \subseteq Codes /\ armed' \subseteq Codes \X Lines
  BY <1>1, <1>2 DEF TypeOK
<1>7. QED
  BY <1>1, <1>5, <1>6 DEF TypeOK, Live

LEMMA DisarmType ==
  ASSUME TypeOK, NEW c \in Codes, NEW l \in Lines, DisarmPause(c, l)
  PROVE  TypeOK'
<1>1. /\ armed' = armed \ {<<c, l>>}
      /\ UNCHANGED <<frame, vals, watches, fstate, events, pend, arming, torn,
                     start, budget>>
  BY DEF DisarmPause
<1>2. QED
  BY <1>1 DEF TypeOK, Live

\* Every step, and stuttering, preserves the types.
LEMMA NextType == TypeOK /\ [Next]_vars => TypeOK'
<1> SUFFICES ASSUME TypeOK, [Next]_vars PROVE TypeOK'
  OBVIOUS
<1>1. ASSUME NEW t \in Threads, NEW f \in Fids, NEW c \in Codes,
             NEW g \in BOOLEAN, NEW vs \in [Names -> Vals], Enter(t, f, c, g, vs)
      PROVE  TypeOK'
  BY <1>1, EnterType
<1>2. ASSUME NEW f \in Fids, NEW n \in Names, NEW v \in Vals, Assign(f, n, v)
      PROVE  TypeOK'
  BY <1>2, AssignType
<1>3. ASSUME NEW f \in Fids, NEW l \in Lines, StartLine(f, l)
      PROVE  TypeOK'
  BY <1>3, StartLineType
<1>4. ASSUME NEW f \in Fids, PyReturn(f) \/ Unwind(f)
      PROVE  TypeOK'
  BY <1>4, PyReturnType, UnwindType
<1>5. ASSUME NEW f \in Fids, NEW c \in Codes, Call(f, c)
      PROVE  TypeOK'
  BY <1>5, CallType
<1>6. ASSUME NEW f \in Fids, NEW n \in Names, AddWatch(f, n)
      PROVE  TypeOK'
  BY <1>6, AddWatchType
<1>7. ASSUME NEW n \in Names, RemoveWatch(n)
      PROVE  TypeOK'
  BY <1>7, RemoveWatchType
<1>8. ASSUME NEW t \in Threads, ClearWatches(t)
      PROVE  TypeOK'
  BY <1>8, ClearWatchesType
<1>9. ASSUME NEW t \in Threads, NEW c \in Codes, NEW l \in Lines,
             ArmRead(t, c, l)
      PROVE  TypeOK'
  BY <1>9, ArmReadType
<1>10. ASSUME NEW t \in Threads, ArmWrite(t)
       PROVE  TypeOK'
  BY <1>10, ArmWriteType
<1>11. ASSUME NEW c \in Codes, NEW l \in Lines, DisarmPause(c, l)
       PROVE  TypeOK'
  BY <1>11, DisarmType
<1>12. CASE UNCHANGED vars
  BY <1>12 DEF vars, TypeOK, Live
<1>13. QED
  BY <1>1, <1>2, <1>3, <1>4, <1>5, <1>6, <1>7, <1>8, <1>9, <1>10, <1>11, <1>12
     DEF Next

\* The registry's tables keep their shape: one watch for each key, at most
\* _MAX_PROPAGATION_QUEUE_SIZE pushes on a thread's stack, and a live frame
\* always has a code object and values.
THEOREM TypeCorrect == Spec => []TypeOK
<1>1. Init => TypeOK
  BY InitType
<1>2. TypeOK /\ [Next]_vars => TypeOK'
  BY NextType
<1>3. QED
  BY <1>1, <1>2, PTL DEF Spec

-----------------------------------------------------------------------------
(* The inductive invariant.  Its parts, apart from the types.               *)

Parts == /\ EventsCoverWatches
         /\ NoInheritedWatch
         /\ FreshNumbers
         /\ InSync
         /\ NoSpuriousFire

\* What is asked of one watch, so that a step can be examined watch by watch.
WatchOK(w) ==
  /\ Observed(w.code)
  /\ /\ Live(w.fid) /\ ~ frame[w.fid].guarded /\ frame[w.fid].code = w.code
     /\ w.code \notin torn
     => w.inc = frame[w.fid].inc
  /\ budget.frames < w.inc
  /\ Current(w) => /\ w.code = frame[w.fid].code
                   /\ fstate[w.fid].code = w.code
                   /\ fstate[w.fid].base[w.name] = start[w.fid][w.name]
                   /\ start[w.fid][w.name] # None
                   /\ w.seen => fstate[w.fid].prev # 0

FramesOK == \A f \in Fids : Live(f) => budget.frames < frame[f].inc

LEMMA PartsByWatch ==
  Parts <=> (\A w \in watches : WatchOK(w)) /\ FramesOK /\ NoSpuriousFire
BY DEF Parts, WatchOK, FramesOK, EventsCoverWatches, NoInheritedWatch,
       FreshNumbers, InSync

LEMMA PartsByWatchPrime ==
  Parts' <=> (\A w \in watches' : WatchOK(w)') /\ FramesOK' /\ NoSpuriousFire'
BY DEF Parts, WatchOK, FramesOK, EventsCoverWatches, NoInheritedWatch,
       FreshNumbers, InSync, Current, Live

LEMMA InitParts == Init => Parts
<1> SUFFICES ASSUME Init PROVE Parts
  OBVIOUS
<1>1. watches = {} /\ hit = NoHit /\ \A f \in Fids : ~ Live(f)
  BY DEF Init, Live, NoFrame
<1>2. QED
  BY <1>1, PartsByWatch DEF FramesOK, NoSpuriousFire

LEMMA EnterParts ==
  ASSUME TypeOK, Parts, NEW t \in Threads, NEW f \in Fids, NEW c \in Codes,
         NEW g \in BOOLEAN, NEW vs \in [Names -> Vals], Enter(t, f, c, g, vs)
  PROVE  Parts'
<1> DEFINE inc == budget.frames
           fr  == [inc |-> inc, code |-> c, thread |-> t, line |-> 0,
                   guarded |-> g]
<1>1. /\ inc \in Nat \ {0} /\ budget'.frames = inc - 1
      /\ ~ Live(f) /\ hit' = NoHit /\ torn' = torn
  BY SpendType DEF Enter, TypeOK
<1>2. /\ frame'[f] = fr /\ start'[f] = vs
      /\ \A h \in Fids \ {f} : frame'[h] = frame[h] /\ start'[h] = start[h]
  <2>1. frame' = [frame EXCEPT ![f] = fr] /\ start' = [start EXCEPT ![f] = vs]
    BY DEF Enter
  <2>2. DOMAIN frame = Fids /\ DOMAIN start = Fids
    BY DEF TypeOK
  <2> HIDE DEF fr
  <2>3. QED
    BY <2>1, <2>2
<1>3. /\ \A w \in watches : WatchOK(w) /\ w \in Watch /\ inc < w.inc
      /\ \A h \in Fids : Live(h) => inc < frame[h].inc
      /\ frame \in [Fids -> Frame]
  BY PartsByWatch DEF FramesOK, WatchOK, TypeOK
<1>4. FramesOK' /\ NoSpuriousFire'
  <2>1. FramesOK'
    <3>1. SUFFICES ASSUME NEW h \in Fids, Live(h)' PROVE budget'.frames < frame'[h].inc
      BY DEF FramesOK
    <3>2. CASE h = f
      BY <1>1, <1>2, <3>2
    <3>3. CASE h # f
      BY <1>1, <1>2, <1>3, <3>1, <3>3 DEF Live, Frame
    <3>4. QED
      BY <3>2, <3>3
  <2>2. NoSpuriousFire'
    BY <1>1 DEF NoSpuriousFire
  <2>3. QED
    BY <2>1, <2>2
\* A watch that is there before and after the step, at another id.
<1>5. ASSUME NEW w \in watches, w.fid # f, fstate'[w.fid] = fstate[w.fid],
             Observed(w.code)'
      PROVE  WatchOK(w)'
  <2>1. w.fid \in Fids /\ w.inc \in Nat /\ WatchOK(w)
    BY <1>3 DEF Watch
  <2>2. frame'[w.fid] = frame[w.fid] /\ start'[w.fid] = start[w.fid]
    BY <1>2, <1>5, <2>1
  <2>3. budget'.frames < w.inc
    BY <1>1, <1>3, <2>1
  <2>4. QED
    BY <1>1, <1>5, <2>1, <2>2, <2>3 DEF WatchOK, Current, Live
\* One that is there before and after the step, at f, for an earlier frame.
<1>6. ASSUME NEW w \in watches, w.fid = f, w.code # c \/ g \/ c \in torn,
             Observed(w.code)'
      PROVE  WatchOK(w)'
  <2>1. w.inc \in Nat /\ inc < w.inc
    BY <1>3 DEF Watch
  <2>2. budget'.frames < w.inc
    BY <1>1, <2>1
  <2>3. w.inc # frame'[w.fid].inc
    BY <1>1, <1>2, <1>6, <2>1
  <2>4. QED
    BY <1>1, <1>2, <1>6, <2>2, <2>3 DEF WatchOK, Current
<1>7. CASE EnterUnseen(t, f, c, g)
  <2>1. UNCHANGED <<watches, fstate, events>> /\ (g \/ events[c] # "all")
    BY <1>7 DEF EnterUnseen
  <2>2. SUFFICES ASSUME NEW w \in watches PROVE WatchOK(w)'
    BY <1>4, <2>1, PartsByWatchPrime
  <2>3. Observed(w.code) /\ Observed(w.code)'
    BY <1>1, <1>3, <2>1 DEF WatchOK, Observed
  <2>4. w.code # c \/ g \/ c \in torn
    BY <2>1, <2>3 DEF Observed
  <2>5. QED
    BY <1>5, <1>6, <2>1, <2>3, <2>4
<1>8. CASE EnterSeen(t, f, c, g, vs)
  <2> DEFINE i    == MatchingPush(pend[t], c)
             by   == IF i = 0 THEN [v \in Vals |-> NoEntry] ELSE pend[t][i].by
             ps   == Propagated(c, by, vs)
             kept == watches \ Stale(c, f)
             left == {w \in kept : ~ (w.fid = f /\ w.name \in ps)}
             new  == {[name |-> p, fid |-> f, code |-> c,
                       shown |-> by[vs[p]].name, inc |-> inc,
                       root |-> by[vs[p]].root, seen |-> FALSE] : p \in ps}
             wiped == StateWiped(c, fstate[f])
             evs   == EventsAfterDrop(watches, left)
  <2>1. /\ watches' = left \cup new
        /\ fstate' = [fstate EXCEPT ![f] = IF ps = {} THEN wiped
                        ELSE Baseline(StateFor(c, f, wiped), ps, vs)]
        /\ events' = [evs EXCEPT ![c] = IF ps = {} THEN @ ELSE "all"]
    BY <1>8 DEF EnterSeen
  <2>2. /\ DOMAIN fstate = Fids
        /\ evs \in [Codes -> Events]
    BY EventsAfterDropType DEF TypeOK
  <2>3. /\ \A w \in left : /\ w \in watches /\ w.code \in Codes
                            /\ Observed(w.code) /\ evs[w.code] = events[w.code]
        /\ \A w \in left : w.fid = f => w.code # c
    <3>1. \A w \in left : w \in watches /\ w.code \in Codes /\ Observed(w.code)
      BY <1>3 DEF WatchOK, Watch
    <3>2. \A w \in left : evs[w.code] = events[w.code]
      BY <3>1, EventsAfterDropKeeps
    <3>3. \A w \in left : w.fid = f => w.code # c
      BY DEF Stale, Active
    <3>4. QED
      BY <3>1, <3>2, <3>3
  <2>4. ps \subseteq Names
    BY ConstantsAssumption DEF Propagated, ConstantsAssumption
  <2>5. ps # {} => /\ fstate'[f] = Baseline(StateFor(c, f, wiped), ps, vs)
                   /\ fstate'[f].code = c
                   /\ \A p \in ps : fstate'[f].base[p] = vs[p]
    <3>1. wiped \in State
      BY NoStateType DEF StateWiped, TypeOK
    <3>2. StateFor(c, f, wiped) \in State /\ StateFor(c, f, wiped).code = c
      BY <3>1, StateForType
    <3> HIDE DEF wiped, ps
    <3>3. /\ Baseline(StateFor(c, f, wiped), ps, vs).code = c
          /\ \A p \in ps : Baseline(StateFor(c, f, wiped), ps, vs).base[p] = vs[p]
      BY <2>4, <3>2, BaselineType
    <3>4. QED
      BY <2>1, <2>2, <3>3
  <2>6. \A w \in new : /\ w.fid = f /\ w.code = c /\ w.inc = inc /\ ~ w.seen
                       /\ w.name \in ps
    OBVIOUS
  <2> HIDE DEF i, by, ps, kept, left, new, wiped, evs
  <2>7. ASSUME NEW w \in left PROVE WatchOK(w)'
    <3>1. Observed(w.code)'
      BY <1>1, <2>1, <2>2, <2>3 DEF Observed
    <3>2. CASE w.fid = f
      BY <1>6, <2>3, <3>1, <3>2
    <3>3. CASE w.fid # f
      BY <1>5, <2>1, <2>2, <2>3, <3>1, <3>3
    <3>4. QED
      BY <3>2, <3>3
  <2>8. ASSUME NEW w \in new PROVE WatchOK(w)'
    <3>1. ps # {} /\ w.name \in Names /\ w.fid = f /\ w.code = c /\ w.inc = inc
          /\ ~ w.seen
      BY <2>4, <2>6
    <3>2. Observed(w.code)'
      BY <2>1, <2>2, <3>1 DEF Observed
    <3>3. fstate'[f].base[w.name] = vs[w.name] /\ vs[w.name] # None
          /\ fstate'[f].code = c
      BY <2>5, <2>6, <3>1, ConstantsAssumption DEF ConstantsAssumption
    <3>4. QED
      BY <1>1, <1>2, <3>1, <3>2, <3>3 DEF WatchOK
  <2>9. QED
    BY <1>4, <2>1, <2>7, <2>8, PartsByWatchPrime
<1>9. QED
  BY <1>7, <1>8 DEF Enter

LEMMA AssignParts ==
  ASSUME TypeOK, Parts, NEW f \in Fids, NEW n \in Names, NEW v \in Vals,
         Assign(f, n, v)
  PROVE  Parts'
<1>1. hit' = NoHit
      /\ UNCHANGED <<frame, watches, fstate, events, torn, budget>>
  BY DEF Assign
<1>2. ASSUME NEW w \in watches
      PROVE  start'[w.fid][w.name] = start[w.fid][w.name]
  <2>1. w.fid \in Fids /\ w.name \in Names
    BY DEF TypeOK, Watch
  <2>2. CASE Watched(f, n)
    BY <2>2 DEF Assign
  <2>3. CASE ~ Watched(f, n)
    <3>1. w.name # n \/ w.fid # f
      BY <2>3 DEF Watched
    <3>2. start' = [start EXCEPT ![f][n] = v]
      BY <2>3 DEF Assign
    <3>3. start \in [Fids -> [Names -> Vals \cup {None}]]
      BY DEF TypeOK
    <3>4. QED
      BY <2>1, <3>1, <3>2, <3>3
  <2>4. QED
    BY <2>2, <2>3
<1>3. QED
  BY <1>1, <1>2, PartsByWatch, PartsByWatchPrime
     DEF WatchOK, Observed, FramesOK, Current, Live, NoSpuriousFire

\* A watch that the handlers of frame f look at is one of that very frame.
LEMMA ActiveIsCurrent ==
  ASSUME TypeOK, Parts, NEW f \in Fids, Live(f), ~ frame[f].guarded,
         NEW w \in Active(frame[f].code, f)
  PROVE  /\ w \in watches /\ w.fid = f /\ w.code = frame[f].code /\ w.name \in Names
         /\ w.code \notin torn => Current(w)
         /\ Current(w) => fstate[f].base[w.name] = start[f][w.name]
<1>1. w \in watches /\ w.fid = f /\ w.code = frame[f].code /\ w.name \in Names
  BY DEF Active, TypeOK, Watch
<1>2. WatchOK(w)
  BY <1>1, PartsByWatch
<1>3. QED
  BY <1>1, <1>2 DEF WatchOK, Current

\* What the diff of a handler reports was changed by its own frame.
LEMMA FireReportsAChange ==
  ASSUME TypeOK, Parts, NEW f \in Fids, Live(f), ~ frame[f].guarded,
         FireIfChanged(Active(frame[f].code, f), fstate[f], f), torn' = torn
  PROVE  NoSpuriousFire'
<1> DEFINE act == Active(frame[f].code, f)
<1>1. CASE Changed(act, fstate[f], f) = {}
  BY <1>1 DEF FireIfChanged, NoSpuriousFire
<1>2. CASE Changed(act, fstate[f], f) # {}
  <2>1. PICK w \in Changed(act, fstate[f], f) : hit' = HitOf(w, fstate[f], f)
    BY <1>2 DEF FireIfChanged
  <2>2. w \in act /\ fstate[f].base[w.name] # vals[f][w.name]
    BY DEF Changed
  <2>3. CASE w.code \in torn
    BY <2>1, <2>3 DEF HitOf, NoSpuriousFire
  <2>4. CASE w.code \notin torn
    <3>1. fstate[f].base[w.name] = start[f][w.name]
      BY <2>2, <2>4, ActiveIsCurrent
    <3>2. hit'.wrote
      BY <2>1, <2>2, <3>1 DEF HitOf
    <3>3. QED
      BY <3>2 DEF NoSpuriousFire
  <2>5. QED
    BY <2>3, <2>4
<1>3. QED
  BY <1>1, <1>2

LEMMA StartLineParts ==
  ASSUME TypeOK, Parts, NEW f \in Fids, NEW l \in Lines, StartLine(f, l)
  PROVE  Parts'
<1>1. /\ Live(f) /\ vals[f] \in [Names -> Vals]
      /\ frame' = [frame EXCEPT ![f].line = l]
      /\ UNCHANGED <<vals, events, pend, arming, torn, budget>>
  BY DEF StartLine, Runs, TypeOK
<1>2. \A h \in Fids : /\ frame'[h].inc = frame[h].inc
                      /\ frame'[h].code = frame[h].code
                      /\ frame'[h].guarded = frame[h].guarded
                      /\ Live(h)' <=> Live(h)
  <2>1. frame \in [Fids -> Frame]
    BY DEF TypeOK
  <2>2. QED
    BY <1>1, <2>1 DEF Frame, Live
<1>3. FramesOK'
  BY <1>1, <1>2, PartsByWatch DEF FramesOK
<1>4. \A w \in watches : w \in Watch /\ w.fid \in Fids /\ w.name \in Names /\ WatchOK(w)
  BY PartsByWatch DEF TypeOK, Watch
<1>5. CASE UNCHANGED <<watches, fstate, start>> /\ hit' = NoHit
  <2>1. \A w \in watches : WatchOK(w)'
    BY <1>1, <1>2, <1>4, <1>5 DEF WatchOK, Observed, Current
  <2>2. QED
    BY <1>3, <1>5, <2>1, PartsByWatchPrime DEF NoSpuriousFire
<1>6. CASE LineDiffs(f, l) /\ Active(frame[f].code, f) # {}
  <2> DEFINE c   == frame[f].code
             act == Active(c, f)
             st  == [NoState EXCEPT !.code = c, !.prev = l]
             ns  == {w.name : w \in act}
             new == Baseline(st, ns, vals[f])
  <2>1. /\ watches' = (watches \ act) \cup {[w EXCEPT !.seen = TRUE] : w \in act}
        /\ fstate' = [fstate EXCEPT ![f] = new]
        /\ start' = [start EXCEPT ![f] = vals[f]]
        /\ ~ frame[f].guarded
        /\ FireIfChanged(act, fstate[f], f) \/ hit' = NoHit
    BY <1>6 DEF LineDiffs, Traced
  <2>2. NoSpuriousFire'
    BY <1>1, <2>1, FireReportsAChange DEF NoSpuriousFire
  <2>3. /\ fstate'[f] = new /\ start'[f] = vals[f]
        /\ \A h \in Fids \ {f} : fstate'[h] = fstate[h] /\ start'[h] = start[h]
    <3> HIDE DEF new
    <3>1. QED
      BY <2>1 DEF TypeOK
  <2>4. /\ new.code = c /\ new.prev = l
        /\ \A n \in Names : n \in ns => new.base[n] = vals[f][n]
    <3>1. c \in Codes
      BY <1>1 DEF TypeOK
    <3>2. st \in State /\ st.code = c /\ st.prev = l
      BY <3>1, NoStateType DEF State, NoState
    <3> HIDE DEF st, ns
    <3>3. QED
      BY <1>1, <3>2, BaselineType
  <2>5. act \subseteq watches
    BY DEF Active
  <2> HIDE DEF new, st
  <2>6. ASSUME NEW w \in watches \ act PROVE WatchOK(w)'
    <3>1. CASE w.fid = f
      <4>1. w.code # c
        BY <2>6, <3>1 DEF Active
      <4>2. ~ Current(w)
        BY <1>4, <3>1, <4>1 DEF WatchOK
      <4>3. ~ Current(w)'
        BY <1>1, <1>2, <3>1, <4>2 DEF Current
      <4>4. QED
        BY <1>1, <1>2, <1>4, <4>3 DEF WatchOK, Observed
    <3>2. CASE w.fid # f
      BY <1>1, <1>2, <1>4, <2>3, <3>2 DEF WatchOK, Observed, Current
    <3>3. QED
      BY <3>1, <3>2
  <2>7. ASSUME NEW w \in act PROVE WatchOK([w EXCEPT !.seen = TRUE])'
    <3> DEFINE m == [w EXCEPT !.seen = TRUE]
    <3>1. /\ w.fid = f /\ w.code = c /\ w.name \in Names /\ w \in Watch
          /\ WatchOK(w) /\ (c \notin torn => Current(w))
      BY <1>1, <1>4, <2>1, <2>5, ActiveIsCurrent
    <3>2. /\ m.fid = f /\ m.code = c /\ m.name = w.name /\ m.inc = w.inc
      BY <3>1 DEF Watch
    <3>3. l # 0 /\ vals[f][w.name] # None /\ new.base[w.name] = vals[f][w.name]
      BY <1>1, <2>4, <3>1, ConstantsAssumption DEF ConstantsAssumption
    <3> HIDE DEF m
    <3>4. Observed(m.code)' /\ budget'.frames < m.inc /\ m.code = frame'[m.fid].code
      BY <1>1, <1>2, <3>1, <3>2 DEF WatchOK, Observed
    <3>5. c \notin torn => m.inc = frame'[m.fid].inc
      BY <1>2, <3>1, <3>2 DEF Current
    <3>6. /\ fstate'[m.fid].code = m.code
          /\ fstate'[m.fid].base[m.name] = start'[m.fid][m.name]
          /\ start'[m.fid][m.name] # None
          /\ fstate'[m.fid].prev # 0
      BY <2>3, <2>4, <3>2, <3>3
    <3>7. WatchOK(m)'
      BY <1>1, <3>2, <3>4, <3>5, <3>6 DEF WatchOK
    <3>8. QED
      BY <3>7 DEF m
  <2> HIDE DEF act
  <2>8. QED
    BY <1>3, <2>1, <2>2, <2>6, <2>7, PartsByWatchPrime
<1>7. QED
  BY <1>5, <1>6 DEF StartLine, LineUnseen, LinePauses, LineDiffs

\* A frame leaves with no watch of its own changed.
LEMMA LeaveParts ==
  ASSUME TypeOK, Parts, NEW f \in Fids, Leave(f), watches' \subseteq watches,
         \A w \in watches' : Observed(w.code)',
         \A h \in Fids \ {f} : fstate'[h] = fstate[h],
         NoSpuriousFire'
  PROVE  Parts'
<1>1. /\ ~ Live(f)' /\ budget' = budget /\ torn' = torn
      /\ \A h \in Fids \ {f} : frame'[h] = frame[h] /\ start'[h] = start[h]
  BY LeaveType
<1>2. FramesOK'
  BY <1>1, PartsByWatch DEF FramesOK, Live
<1>3. ASSUME NEW w \in watches' PROVE WatchOK(w)'
  <2>1. w \in watches /\ w.fid \in Fids /\ WatchOK(w)
    BY PartsByWatch DEF TypeOK, Watch
  <2>2. CASE w.fid = f
    BY <1>1, <2>1, <2>2 DEF WatchOK, Current
  <2>3. CASE w.fid # f
    BY <1>1, <2>1, <2>3 DEF WatchOK, Current, Live
  <2>4. QED
    BY <2>2, <2>3
<1>4. QED
  BY <1>2, <1>3, PartsByWatchPrime

LEMMA PyReturnParts ==
  ASSUME TypeOK, Parts, NEW f \in Fids, PyReturn(f)
  PROVE  Parts'
<1> DEFINE act  == Active(frame[f].code, f)
           kept == watches \ act
<1>1. /\ watches' = kept /\ events' = EventsAfterDrop(watches, kept)
      /\ fstate' = [fstate EXCEPT ![f] = NoState] /\ Leave(f)
      /\ Live(f) /\ ~ frame[f].guarded /\ torn' = torn
      /\ FireIfChanged(act, fstate[f], f) \/ hit' = NoHit
  BY DEF PyReturn, Runs, Leave
<1>2. NoSpuriousFire'
  BY <1>1, FireReportsAChange DEF NoSpuriousFire
<1>3. \A w \in watches' : Observed(w.code)'
  <2>1. \A w \in kept : w.code \in Codes /\ Observed(w.code)
    BY PartsByWatch DEF WatchOK, TypeOK, Watch
  <2> HIDE DEF kept
  <2>2. \A w \in kept : events'[w.code] = events[w.code]
    BY <1>1, <2>1, EventsAfterDropKeeps
  <2>3. QED
    BY <1>1, <2>1, <2>2 DEF Observed
<1>4. \A h \in Fids \ {f} : fstate'[h] = fstate[h]
  BY <1>1 DEF TypeOK
<1>5. watches' \subseteq watches
  BY <1>1
<1> HIDE DEF act, kept
<1>6. QED
  BY <1>1, <1>2, <1>3, <1>4, <1>5, LeaveParts

LEMMA UnwindParts ==
  ASSUME TypeOK, Parts, NEW f \in Fids, Unwind(f)
  PROVE  Parts'
<1>1. Leave(f) /\ UNCHANGED <<watches, fstate, events, torn>> /\ hit' = NoHit
  BY DEF Unwind, Leave
<1>2. \A w \in watches' : Observed(w.code)'
  BY <1>1, PartsByWatch DEF WatchOK, Observed
<1>3. QED
  BY <1>1, <1>2, LeaveParts DEF NoSpuriousFire

LEMMA CallParts ==
  ASSUME TypeOK, Parts, NEW f \in Fids, NEW c \in Codes, Call(f, c)
  PROVE  Parts'
<1>1. /\ events' = [events EXCEPT ![c] = "all"] /\ hit' = NoHit
      /\ UNCHANGED <<frame, watches, fstate, torn, start, budget>>
  BY DEF Call
<1>2. \A w \in watches : w.code \in Codes /\ WatchOK(w)
  BY PartsByWatch DEF TypeOK, Watch
<1>3. \A w \in watches : Observed(w.code)'
  BY <1>1, <1>2 DEF WatchOK, Observed, TypeOK
<1>4. QED
  BY <1>1, <1>2, <1>3, PartsByWatch, PartsByWatchPrime
     DEF WatchOK, FramesOK, Current, Live, NoSpuriousFire

LEMMA AddWatchParts ==
  ASSUME TypeOK, Parts, NEW f \in Fids, NEW n \in Names, AddWatch(f, n)
  PROVE  Parts'
<1> DEFINE c    == frame[f].code
           kept == {w \in watches : ~ (w.name = n /\ w.fid = f)}
           new  == [name |-> n, fid |-> f, code |-> c, shown |-> n,
                    inc |-> frame[f].inc, root |-> n, seen |-> FALSE]
           old  == StateFor(c, f, fstate[f])
           st   == Baseline(old, {n}, vals[f])
           evs  == EventsAfterDrop(watches, kept)
<1>1. /\ watches' = kept \cup {new} /\ fstate' = [fstate EXCEPT ![f] = st]
      /\ events' = [evs EXCEPT ![c] = "all"]
      /\ start' = [start EXCEPT ![f][n] = vals[f][n]] /\ hit' = NoHit
      /\ UNCHANGED <<frame, vals, pend, armed, arming, torn, budget>>
  BY DEF AddWatch
<1>2. /\ c \in Codes /\ vals[f] \in [Names -> Vals] /\ Live(f)
      /\ budget.frames < frame[f].inc
  BY PartsByWatch DEF AddWatch, TypeOK, Live, Frame, FramesOK
<1>3. \A w \in watches : w.fid \in Fids /\ w.name \in Names /\ w.code \in Codes /\ WatchOK(w)
  BY PartsByWatch DEF TypeOK, Watch
<1>4. /\ fstate'[f] = st
      /\ \A h \in Fids \ {f} : fstate'[h] = fstate[h] /\ start'[h] = start[h]
      /\ start'[f][n] = vals[f][n]
      /\ \A m \in Names \ {n} : start'[f][m] = start[f][m]
  <2>1. fstate \in [Fids -> State] /\ start \in [Fids -> [Names -> Vals \cup {None}]]
    BY DEF TypeOK
  <2> DEFINE row == [start[f] EXCEPT ![n] = vals[f][n]]
  <2>2. row[n] = vals[f][n] /\ \A m \in Names \ {n} : row[m] = start[f][m]
    BY <2>1
  <2>3. start' = [start EXCEPT ![f] = row]
    BY <1>1
  <2> HIDE DEF st, row
  <2>4. QED
    BY <1>1, <2>1, <2>2, <2>3
<1>5. /\ st.code = c /\ st.prev = old.prev /\ st.base[n] = vals[f][n]
      /\ \A m \in Names \ {n} : st.base[m] = old.base[m]
  <2>1. old \in State /\ old.code = c
    BY <1>2, StateForType DEF TypeOK
  <2> HIDE DEF old
  <2>2. QED
    BY <1>2, <2>1, BaselineType
<1>6. \A w \in kept \cup {new} : Observed(w.code)'
  <2>1. evs \in [Codes -> Events]
    BY EventsAfterDropType DEF TypeOK
  <2>2. \A w \in kept : w.code \in Codes /\ Observed(w.code)
    BY <1>3 DEF WatchOK
  <2>3. \A w \in kept : evs[w.code] = events[w.code]
    BY <2>2, EventsAfterDropKeeps
  <2>4. new.code = c
    OBVIOUS
  <2> HIDE DEF evs, kept, c, new
  <2>5. QED
    BY <1>1, <1>2, <2>1, <2>2, <2>3, <2>4 DEF Observed
<1>7. fstate[f].code = c => old = fstate[f]
  BY DEF StateFor
<1>8. vals[f][n] # None
  BY <1>2, ConstantsAssumption DEF ConstantsAssumption
<1>9. ASSUME NEW w, w = new PROVE WatchOK(w)'
  <2>1. /\ w.fid = f /\ w.name = n /\ w.code = c /\ w.inc = frame[f].inc
        /\ ~ w.seen
    BY <1>9
  <2>2. Observed(w.code)'
    BY <1>6, <1>9
  <2> HIDE DEF st, old, new, kept, evs
  <2>3. QED
    BY <1>1, <1>2, <1>4, <1>5, <1>8, <2>1, <2>2 DEF WatchOK
<1>10. ASSUME NEW w \in kept PROVE WatchOK(w)'
  <2>1. w \in watches /\ ~ (w.name = n /\ w.fid = f)
    OBVIOUS
  <2>2. Observed(w.code)'
    BY <1>6
  <2> HIDE DEF st, old, new, kept, evs
  <2>3. CASE w.fid = f
    <3>1. w.name \in Names \ {n}
      BY <1>3, <2>1, <2>3
    <3>2. Current(w) => old = fstate[f] /\ w.code = c
      BY <1>3, <1>7, <2>1, <2>3 DEF WatchOK
    <3>3. QED
      BY <1>1, <1>3, <1>4, <1>5, <2>1, <2>2, <2>3, <3>1, <3>2
         DEF WatchOK, Current, Live
  <2>4. CASE w.fid # f
    BY <1>1, <1>3, <1>4, <2>1, <2>2, <2>4 DEF WatchOK, Current, Live
  <2>5. QED
    BY <2>3, <2>4
<1>11. FramesOK' /\ NoSpuriousFire'
  BY <1>1, PartsByWatch DEF FramesOK, Live, NoSpuriousFire
<1> HIDE DEF c, kept, new, st, old, evs
<1>12. \A w \in watches' : WatchOK(w)'
  BY <1>1, <1>9, <1>10
<1>13. QED
  BY <1>11, <1>12, PartsByWatchPrime

LEMMA RemoveWatchParts ==
  ASSUME TypeOK, Parts, NEW n \in Names, RemoveWatch(n)
  PROVE  Parts'
<1> DEFINE kept == {w \in watches : w.name # n}
<1>1. /\ watches' = kept /\ events' = EventsAfterDrop(watches, kept)
      /\ Spend("ops") /\ hit' = NoHit
      /\ UNCHANGED <<frame, fstate, torn, start>>
  BY DEF RemoveWatch
<1>2. budget'.frames = budget.frames
  BY <1>1, SpendType DEF TypeOK
<1>3. \A w \in kept : w \in watches /\ w.code \in Codes /\ WatchOK(w)
  BY PartsByWatch DEF TypeOK, Watch
<1>4. \A w \in kept : Observed(w.code)'
  <2>1. \A w \in kept : events'[w.code] = events[w.code]
    BY <1>1, <1>3, EventsAfterDropKeeps
  <2>2. QED
    BY <1>1, <1>3, <2>1 DEF WatchOK, Observed
<1> HIDE DEF kept
<1>5. QED
  BY <1>1, <1>2, <1>3, <1>4, PartsByWatch, PartsByWatchPrime
     DEF WatchOK, FramesOK, Current, Live, NoSpuriousFire

LEMMA ClearWatchesParts ==
  ASSUME TypeOK, Parts, NEW t \in Threads, ClearWatches(t)
  PROVE  Parts'
<1>1. watches' = {} /\ Spend("ops") /\ hit' = NoHit /\ UNCHANGED frame
  BY DEF ClearWatches
<1>2. budget'.frames = budget.frames
  BY <1>1, SpendType DEF TypeOK
<1>3. QED
  BY <1>1, <1>2, PartsByWatch, PartsByWatchPrime DEF FramesOK, Live, NoSpuriousFire

LEMMA ArmReadParts ==
  ASSUME TypeOK, Parts, NEW t \in Threads, NEW c \in Codes, NEW l \in Lines,
         ArmRead(t, c, l)
  PROVE  Parts'
<1>1. /\ hit' = NoHit /\ Spend("ops")
      /\ UNCHANGED <<frame, watches, fstate, events, torn, start>>
  BY DEF ArmRead
<1>2. budget'.frames = budget.frames
  BY <1>1, SpendType DEF TypeOK
<1>3. QED
  BY <1>1, <1>2, PartsByWatch, PartsByWatchPrime
     DEF WatchOK, Observed, FramesOK, Current, Live, NoSpuriousFire

\* The write gives LINE to its code, and what it takes away is recorded.
LEMMA ArmWriteParts ==
  ASSUME TypeOK, Parts, NEW t \in Threads, ArmWrite(t)
  PROVE  Parts'
<1> DEFINE a == arming[t]
<1>1. /\ hit' = NoHit /\ UNCHANGED <<frame, watches, fstate, start, budget>>
      /\ events' = [events EXCEPT ![a.code] = WithLine(a.read)]
      /\ torn' = IF a.read # "all" /\ events[a.code] = "all"
                 THEN torn \cup {a.code} ELSE torn
  BY DEF ArmWrite
<1>2. \A w \in watches : w.code \in Codes /\ WatchOK(w)
  BY PartsByWatch DEF TypeOK, Watch
<1>3. torn \subseteq torn'
  BY <1>1
<1>4. events \in [Codes -> Events] /\ a.read \in Events
  BY DEF ArmWrite, TypeOK, Arming
<1>5. \A w \in watches : Observed(w.code)'
  <2> HIDE DEF a
  <2>1. SUFFICES ASSUME NEW w \in watches PROVE Observed(w.code)'
    OBVIOUS
  <2>2. Observed(w.code) /\ w.code \in Codes
    BY <1>2 DEF WatchOK
  <2>3. CASE w.code = a.code
    <3>1. events'[w.code] = WithLine(a.read)
      BY <1>1, <1>4, <2>2, <2>3
    <3>2. WithLine(a.read) # "off" /\ (a.read = "all" => WithLine(a.read) = "all")
      BY DEF WithLine
    <3>3. QED
      BY <1>1, <2>2, <2>3, <3>1, <3>2 DEF Observed
  <2>4. CASE w.code # a.code
    BY <1>1, <1>3, <1>4, <2>2, <2>4 DEF Observed
  <2>5. QED
    BY <2>3, <2>4
<1>6. \A w \in watches : WatchOK(w)'
  <2> HIDE DEF a
  <2>1. QED
    BY <1>1, <1>2, <1>3, <1>5 DEF WatchOK, Current, Live
<1>7. FramesOK' /\ NoSpuriousFire'
  BY <1>1, PartsByWatch DEF FramesOK, Live, NoSpuriousFire
<1>8. QED
  BY <1>1, <1>6, <1>7, PartsByWatchPrime

LEMMA DisarmParts ==
  ASSUME TypeOK, Parts, NEW c \in Codes, NEW l \in Lines, DisarmPause(c, l)
  PROVE  Parts'
<1>1. /\ hit' = NoHit
      /\ UNCHANGED <<frame, watches, fstate, events, torn, start, budget>>
  BY DEF DisarmPause
<1>2. QED
  BY <1>1, PartsByWatch, PartsByWatchPrime
     DEF WatchOK, Observed, FramesOK, Current, Live, NoSpuriousFire

-----------------------------------------------------------------------------
(* The theorems.                                                           *)

LEMMA IInvByParts == IInv <=> TypeOK /\ Parts
BY DEF IInv, Parts

\* IInv holds at the start and every step of the specification preserves it:
\* the callbacks, the user's calls and the pause targets of the pipeline.
THEOREM Inductive == (Init => IInv) /\ (IInv /\ [Next]_vars => IInv')
<1>1. Init => IInv
  BY InitType, InitParts, IInvByParts
<1>2. ASSUME IInv, [Next]_vars PROVE IInv'
  <2>1. TypeOK /\ Parts /\ TypeOK'
    BY <1>2, NextType, IInvByParts
  <2>2. ASSUME NEW t \in Threads, NEW f \in Fids, NEW c \in Codes,
               NEW g \in BOOLEAN, NEW vs \in [Names -> Vals], Enter(t, f, c, g, vs)
        PROVE  Parts'
    BY <2>1, <2>2, EnterParts
  <2>3. ASSUME NEW f \in Fids, NEW n \in Names, NEW v \in Vals, Assign(f, n, v)
        PROVE  Parts'
    BY <2>1, <2>3, AssignParts
  <2>4. ASSUME NEW f \in Fids, NEW l \in Lines, StartLine(f, l)
        PROVE  Parts'
    BY <2>1, <2>4, StartLineParts
  <2>5. ASSUME NEW f \in Fids, PyReturn(f) \/ Unwind(f)
        PROVE  Parts'
    BY <2>1, <2>5, PyReturnParts, UnwindParts
  <2>6. ASSUME NEW f \in Fids, NEW c \in Codes, Call(f, c)
        PROVE  Parts'
    BY <2>1, <2>6, CallParts
  <2>7. ASSUME NEW f \in Fids, NEW n \in Names, AddWatch(f, n)
        PROVE  Parts'
    BY <2>1, <2>7, AddWatchParts
  <2>8. ASSUME NEW n \in Names, RemoveWatch(n)
        PROVE  Parts'
    BY <2>1, <2>8, RemoveWatchParts
  <2>9. ASSUME NEW t \in Threads, ClearWatches(t)
        PROVE  Parts'
    BY <2>1, <2>9, ClearWatchesParts
  <2>10. ASSUME NEW t \in Threads, NEW c \in Codes, NEW l \in Lines,
                ArmRead(t, c, l)
         PROVE  Parts'
    BY <2>1, <2>10, ArmReadParts
  <2>11. ASSUME NEW t \in Threads, ArmWrite(t)
         PROVE  Parts'
    BY <2>1, <2>11, ArmWriteParts
  <2>12. ASSUME NEW c \in Codes, NEW l \in Lines, DisarmPause(c, l)
         PROVE  Parts'
    BY <2>1, <2>12, DisarmParts
  <2>13. ASSUME UNCHANGED vars PROVE Parts'
    <3>1. UNCHANGED <<frame, watches, fstate, events, torn, start, hit, budget>>
      BY <2>13 DEF vars
    <3>2. QED
      BY <2>1, <3>1, PartsByWatch, PartsByWatchPrime
         DEF WatchOK, Observed, FramesOK, Current, Live, NoSpuriousFire
  <2>14. Parts'
    BY <1>2, <2>2, <2>3, <2>4, <2>5, <2>6, <2>7, <2>8, <2>9, <2>10, <2>11,
       <2>12, <2>13 DEF Next
  <2>15. QED
    BY <2>1, <2>14 DEF IInv, Parts
<1>3. QED
  BY <1>1, <1>2

LEMMA Invariance == Spec => []IInv
<1>1. (Init => IInv) /\ (IInv /\ [Next]_vars => IInv')
  BY Inductive
<1>2. QED
  BY <1>1, PTL DEF Spec

\* No watched frame runs unobserved: whatever other watches are removed, a
\* code object with a watch keeps its LINE event, and all four events of our
\* tool unless arming a pause wrote older ones back.
THEOREM EventsCovered == Spec => []EventsCoverWatches
<1>1. IInv => EventsCoverWatches
  BY DEF IInv
<1>2. QED
  BY <1>1, Invariance, PTL

\* A frame never inherits the watches of a dead frame whose id and code it
\* shares, however many frames were unwound before, where no such write hit.
THEOREM NothingInherited == Spec => []NoInheritedWatch
<1>1. IInv => NoInheritedWatch
  BY DEF IInv
<1>2. QED
  BY <1>1, Invariance, PTL

\* A watch of a live frame always has a baseline of that frame.
THEOREM BaselinesExist == Spec => []WatchHasBaseline
<1>1. IInv => WatchHasBaseline
  BY DEF IInv, InSync, WatchHasBaseline, Current
<1>2. QED
  BY <1>1, Invariance, PTL

\* Every hit is a change its own frame made since it was watched or last
\* looked at.
THEOREM NothingSpurious == Spec => []NoSpuriousFire
<1>1. IInv => NoSpuriousFire
  BY DEF IInv
<1>2. QED
  BY <1>1, Invariance, PTL

LEMMA OwedIsReported ==
  ASSUME IInv, NEW f \in Fids, NEW l \in Lines
  PROVE  Reports(f, l)
<1> SUFFICES ASSUME Owed(f), ~ frame[f].guarded,
                    \/ StartLine(f, l) /\ <<frame[f].code, l>> \notin armed
                    \/ PyReturn(f)
             PROVE  hit'.fid = f
  BY DEF Reports
<1> DEFINE c   == frame[f].code
           act == Active(c, f)
           st  == fstate[f]
<1>1. PICK w \in watches : /\ w.fid = f /\ w.inc = frame[f].inc /\ w.seen
                           /\ start[f][w.name] # vals[f][w.name]
  BY DEF Owed
<1>2. Live(f)
  BY DEF StartLine, PyReturn, Runs
<1>3. WatchOK(w)
  BY IInvByParts, PartsByWatch
<1>4. /\ w.code = c /\ events[c] # "off" /\ st.code = c /\ st.prev # 0
      /\ st.base[w.name] = start[f][w.name] /\ start[f][w.name] # None
  BY <1>1, <1>2, <1>3 DEF WatchOK, Observed, Current
<1>5. w \in act
  BY <1>1, <1>4 DEF Active
<1>6. w \in Changed(act, st, f)
  BY <1>1, <1>4, <1>5 DEF Changed
<1>7. FireIfChanged(act, st, f)
  <2>1. act # {} /\ Traced(f)
    BY <1>4, <1>5 DEF Traced
  <2>2. CASE StartLine(f, l) /\ <<c, l>> \notin armed
    BY <1>4, <2>1, <2>2 DEF StartLine, LineUnseen, LinePauses, LineDiffs
  <2>3. CASE PyReturn(f)
    BY <1>4, <2>1, <2>3 DEF PyReturn
  <2>4. QED
    BY <2>2, <2>3
<1>8. PICK u \in Changed(act, st, f) : hit' = HitOf(u, st, f)
  BY <1>6, <1>7 DEF FireIfChanged
<1>9. QED
  BY <1>8 DEF HitOf

\* No change is lost: once a line event has seen the watch, a change of the
\* local is reported at the frame's next line event, or when it returns.
THEOREM NoChangeLost == Spec => ChangeReported
<1>1. IInv /\ [Next]_vars => [\A f \in Fids, l \in Lines : Reports(f, l)]_vars
  BY OwedIsReported
<1>2. QED
  BY <1>1, Invariance, PTL DEF Spec, ChangeReported

-----------------------------------------------------------------------------
(* The line that a hit names, as long as nothing has been unwatched.         *)

\* A state is that of a watch at its id.
Owned(f) == fstate[f].code # None =>
              \E w \in watches : w.fid = f /\ w.code = fstate[f].code

\* Where the frame at id f has been since its state remembers a line.
Visited(f) == {fstate[f].prev} \cup passed[f]

\* The frame at id f has looked at its watched locals, and looks at every line.
Looking(f) ==
  /\ Live(f) /\ ~ frame[f].guarded /\ fstate[f].code = frame[f].code
  /\ fstate[f].prev # 0 /\ frame[f].code \notin torn

\* It is on the line its state remembers, or on an armed one it has passed since.
LineKept(f) == Looking(f) => frame[f].line \in Visited(f)

\* A watched local of it that has changed was changed by one of these lines.
Wrote(w) ==
  Current(w) /\ Looking(w.fid) /\ start[w.fid][w.name] # vals[w.fid][w.name]
    => writer[w.fid][w.name] \in Visited(w.fid)

HitLine ==
  hit # NoHit /\ hit.code \notin torn => hit.line = hit.writer \/ hit.writer \in hit.passed

Tidy ==
  /\ passed \in [Fids -> SUBSET Lines]
  /\ writer \in [Fids -> [Names -> Lines \cup {0}]]
  /\ \A f \in Fids : Owned(f) /\ LineKept(f)
  /\ \A w \in watches : Wrote(w)
  /\ HitLine

LineInv == ~ removed => Tidy

\* A code object with a watch has all its events.
LEMMA WatchedTraced ==
  ASSUME Parts, NEW w \in watches, w.code \notin torn PROVE events[w.code] = "all"
BY DEF Parts, EventsCoverWatches, Observed

\* A frame with a state of its code object has its line events.
LEMMA OwnedTraced ==
  ASSUME TypeOK, Parts, Tidy, NEW f \in Fids, NEW c \in Codes,
         fstate[f].code = c, c \notin torn
  PROVE  events[c] = "all" /\ \E w \in watches : w.fid = f /\ w.code = c
<1>1. fstate[f].code # None
  BY ConstantsAssumption DEF ConstantsAssumption
<1>2. PICK w \in watches : w.fid = f /\ w.code = c
  BY <1>1 DEF Tidy, Owned
<1>3. QED
  BY <1>2, WatchedTraced

\* What the diff of a handler reports was written by the line it remembers.
LEMMA FireNamesTheLine ==
  ASSUME TypeOK, Parts, Tidy, NEW f \in Fids, Live(f), ~ frame[f].guarded,
         fstate[f].code = frame[f].code, fstate[f].prev # 0, torn' = torn,
         FireIfChanged(Active(frame[f].code, f), fstate[f], f)
  PROVE  HitLine'
<1> DEFINE act == Active(frame[f].code, f)
<1>1. CASE Changed(act, fstate[f], f) = {}
  BY <1>1 DEF FireIfChanged, HitLine
<1>2. CASE Changed(act, fstate[f], f) # {}
  <2>1. PICK w \in Changed(act, fstate[f], f) : hit' = HitOf(w, fstate[f], f)
    BY <1>2 DEF FireIfChanged
  <2>2. w \in act /\ fstate[f].base[w.name] # vals[f][w.name]
    BY DEF Changed
  <2>3. /\ w \in watches /\ w.fid = f
        /\ w.code \notin torn => Current(w) /\ fstate[f].base[w.name] = start[f][w.name]
    BY <2>2, ActiveIsCurrent DEF Active
  <2>4. /\ hit'.line = fstate[f].prev /\ hit'.writer = writer[f][w.name]
        /\ hit'.passed = passed[f] /\ hit'.code = frame[f].code
    BY <2>1, <2>2 DEF HitOf, Active
  <2>5. frame[f].code \notin torn => writer[f][w.name] \in Visited(f)
    <3>1. Wrote(w) /\ w.code = frame[f].code
      BY <2>2, <2>3 DEF Tidy, Active
    <3>2. QED
      BY <2>2, <2>3, <3>1 DEF Wrote, Looking
  <2>6. QED
    BY <2>4, <2>5 DEF HitLine, Visited
<1>3. QED
  BY <1>1, <1>2

\* An id at which a step changes nothing, except that watches come.
LEMMA OtherId ==
  ASSUME Tidy, NEW h \in Fids,
         frame'[h] = frame[h], fstate'[h] = fstate[h], passed'[h] = passed[h],
         torn \subseteq torn',
         \A w \in watches : w.fid = h =>
           \E v \in watches' : v.fid = h /\ v.code = w.code
  PROVE  Owned(h)' /\ LineKept(h)'
<1>1. Owned(h) /\ LineKept(h)
  BY DEF Tidy
<1>2. Owned(h)'
  BY <1>1 DEF Owned
<1>3. LineKept(h)'
  BY <1>1 DEF LineKept, Looking, Visited, Live
<1>4. QED
  BY <1>2, <1>3

LEMMA OtherWatch ==
  ASSUME Tidy, NEW w \in watches,
         frame'[w.fid] = frame[w.fid], fstate'[w.fid] = fstate[w.fid],
         passed'[w.fid] = passed[w.fid], torn \subseteq torn',
         start'[w.fid][w.name] = start[w.fid][w.name],
         vals'[w.fid][w.name] = vals[w.fid][w.name],
         writer'[w.fid][w.name] = writer[w.fid][w.name]
  PROVE  Wrote(w)'
<1>1. Wrote(w)
  BY DEF Tidy
<1>2. QED
  BY <1>1 DEF Wrote, Looking, Visited, Current, Live

LEMMA AssignTidy ==
  ASSUME TypeOK, Parts, Tidy, NEW f \in Fids, NEW n \in Names, NEW v \in Vals,
         Assign(f, n, v)
  PROVE  Tidy'
<1>1. /\ hit' = NoHit /\ vals' = [vals EXCEPT ![f][n] = v]
      /\ UNCHANGED <<frame, watches, fstate, torn, passed>>
  BY DEF Assign
<1>2. /\ vals \in [Fids -> [Names -> Vals \cup {None}]]
      /\ start \in [Fids -> [Names -> Vals \cup {None}]]
      /\ writer \in [Fids -> [Names -> Lines \cup {0}]]
      /\ frame[f].line \in Lines \cup {0}
  BY DEF TypeOK, Tidy, Frame
<1>3. \A h \in Fids, m \in Names : h # f \/ m # n => vals'[h][m] = vals[h][m]
  BY <1>1, <1>2
<1>4. ASSUME NEW w \in watches PROVE Wrote(w)' /\ w.fid \in Fids /\ w.name \in Names
  <2>1. w.fid \in Fids /\ w.name \in Names
    BY DEF TypeOK, Watch
  <2>2. CASE Watched(f, n)
    <3>1. writer' = [writer EXCEPT ![f][n] = frame[f].line] /\ start' = start
      BY <2>2 DEF Assign
    <3>2. CASE w.fid = f /\ w.name = n
      <4>1. writer'[f][n] = frame[f].line /\ LineKept(f)
        BY <1>2, <2>1, <3>1, <3>2 DEF Tidy
      <4>2. QED
        BY <1>1, <3>2, <4>1 DEF Wrote, LineKept, Looking, Visited, Live
    <3>3. CASE ~ (w.fid = f /\ w.name = n)
      <4>1. writer'[w.fid][w.name] = writer[w.fid][w.name]
        BY <1>2, <2>1, <3>1, <3>3
      <4>2. QED
        BY <1>1, <1>3, <2>1, <3>1, <3>3, <4>1, OtherWatch
    <3>4. QED
      BY <2>1, <3>2, <3>3
  <2>3. CASE ~ Watched(f, n)
    <3>1. start' = [start EXCEPT ![f][n] = v] /\ writer' = writer
      BY <2>3 DEF Assign
    <3>2. ~ (w.fid = f /\ w.name = n)
      BY <2>3 DEF Watched
    <3>3. start'[w.fid][w.name] = start[w.fid][w.name]
      BY <1>2, <2>1, <3>1, <3>2
    <3>4. QED
      BY <1>1, <1>3, <2>1, <3>1, <3>2, <3>3, OtherWatch
  <2>4. QED
    BY <2>2, <2>3
<1>5. writer' \in [Fids -> [Names -> Lines \cup {0}]]
  <2>1. \/ writer' = writer
        \/ writer' = [writer EXCEPT ![f][n] = frame[f].line]
    BY DEF Assign
  <2>2. [writer EXCEPT ![f][n] = frame[f].line] \in [Fids -> [Names -> Lines \cup {0}]]
    BY <1>2
  <2>3. QED
    BY <1>2, <2>1, <2>2
<1>6. \A h \in Fids : Owned(h)' /\ LineKept(h)'
  BY <1>1, OtherId
<1>7. passed' \in [Fids -> SUBSET Lines] /\ HitLine'
  BY <1>1 DEF Tidy, HitLine
<1>8. QED
  BY <1>1, <1>4, <1>5, <1>6, <1>7 DEF Tidy


\* A callee's first event: what it keeps of the watches and states at its id.
LEMMA EnterSeenOwned ==
  ASSUME TypeOK, Tidy, NEW t \in Threads, NEW f \in Fids, NEW c \in Codes,
         NEW g \in BOOLEAN, NEW vs \in [Names -> Vals], EnterSeen(t, f, c, g, vs)
  PROVE  /\ \A h \in Fids \ {f} : fstate'[h] = fstate[h]
         /\ \A w \in watches : w.fid # f => w \in watches'
         /\ \A w \in watches' : w.fid = f \/ w \in watches
         /\ Owned(f)'
         /\ fstate'[f].code = c => fstate'[f].prev = 0
<1> DEFINE i    == MatchingPush(pend[t], c)
           by   == IF i = 0 THEN [v \in Vals |-> NoEntry] ELSE pend[t][i].by
           ps   == Propagated(c, by, vs)
           kept == watches \ Stale(c, f)
           left == {w \in kept : ~ (w.fid = f /\ w.name \in ps)}
           new  == {[name |-> p, fid |-> f, code |-> c,
                     shown |-> by[vs[p]].name, inc |-> budget.frames,
                     root |-> by[vs[p]].root, seen |-> FALSE] : p \in ps}
           wiped == StateWiped(c, fstate[f])
<1>1. /\ watches' = left \cup new
      /\ fstate' = [fstate EXCEPT ![f] = IF ps = {} THEN wiped
                      ELSE Baseline(StateFor(c, f, wiped), ps, vs)]
  BY DEF EnterSeen
<1>2. DOMAIN fstate = Fids /\ fstate[f] \in State /\ c # None
  BY ConstantsAssumption DEF TypeOK, ConstantsAssumption
<1>3. /\ wiped \in State /\ wiped.code # c
      /\ wiped = NoState \/ wiped = fstate[f]
      /\ wiped.code # None => wiped = fstate[f]
  BY <1>2, NoStateType DEF StateWiped, NoState
<1>4. /\ \A w \in new : w.fid = f /\ w.code = c
      /\ \A w \in watches : w.fid # f => w \in left
      /\ left \subseteq watches
      /\ ps = {} => \A w \in watches : w.fid = f /\ w.code # c => w \in left
      /\ ps # {} => \E w \in new : TRUE
  <2>1. \A w \in new : w.fid = f /\ w.code = c
    OBVIOUS
  <2>2. /\ left \subseteq watches
        /\ \A w \in watches : w.fid # f => w \in left
        /\ ps = {} => \A w \in watches : w.fid = f /\ w.code # c => w \in left
    <3> HIDE DEF ps
    <3>1. QED
      BY DEF Stale, Active
  <2>3. ASSUME ps # {} PROVE \E w \in new : TRUE
    <3> HIDE DEF ps
    <3>1. PICK p \in ps : TRUE
      BY <2>3
    <3>2. [name |-> p, fid |-> f, code |-> c, shown |-> by[vs[p]].name,
           inc |-> budget.frames, root |-> by[vs[p]].root, seen |-> FALSE] \in new
      OBVIOUS
    <3>3. QED
      BY <3>2
  <2>4. QED
    BY <2>1, <2>2, <2>3
<1> HIDE DEF left, new, kept, i, by, ps
<1>5. ps # {} => /\ fstate'[f].code = c /\ fstate'[f].prev = 0
  <2>1. ASSUME ps # {} PROVE fstate'[f] = Baseline(StateFor(c, f, wiped), ps, vs)
    <3> HIDE DEF wiped
    <3>1. QED
      BY <1>1, <1>2, <2>1
  <2>2. StateFor(c, f, wiped) \in State /\ StateFor(c, f, wiped).code = c
        /\ StateFor(c, f, wiped).prev = 0
    <3> HIDE DEF wiped
    <3>1. StateFor(c, f, wiped) = [NoState EXCEPT !.code = c]
      BY <1>3 DEF StateFor
    <3>2. QED
      BY <1>3, <3>1, StateForType DEF NoState
  <2>3. \A st \in State : /\ Baseline(st, ps, vs).code = st.code
                          /\ Baseline(st, ps, vs).prev = st.prev
    BY DEF Baseline, State
  <2> HIDE DEF wiped
  <2>4. QED
    BY <2>1, <2>2, <2>3
<1>6. ps = {} => fstate'[f] = wiped
  <2> HIDE DEF wiped
  <2>1. QED
    BY <1>1, <1>2
<1> HIDE DEF wiped
<1>7. \A h \in Fids \ {f} : fstate'[h] = fstate[h]
  BY <1>1, <1>2
<1>8. fstate'[f].code = c => fstate'[f].prev = 0
  BY <1>3, <1>5, <1>6
<1>9. Owned(f)'
  <2>1. CASE ps = {}
    <3>1. SUFFICES ASSUME wiped.code # None
                   PROVE  \E w \in watches' : w.fid = f /\ w.code = wiped.code
      BY <1>6, <2>1 DEF Owned
    <3>2. PICK w \in watches : w.fid = f /\ w.code = fstate[f].code
      BY <1>3, <3>1 DEF Tidy, Owned
    <3>3. w.code = wiped.code /\ w.code # c
      BY <1>3, <3>1, <3>2
    <3>4. w \in watches'
      BY <1>1, <1>4, <2>1, <3>2, <3>3
    <3>5. QED
      BY <3>2, <3>3, <3>4
  <2>2. CASE ps # {}
    BY <1>1, <1>4, <1>5, <2>2 DEF Owned
  <2>3. QED
    BY <2>1, <2>2
<1>10. QED
  BY <1>1, <1>4, <1>7, <1>8, <1>9

LEMMA EnterTidy ==
  ASSUME TypeOK, Parts, Tidy, NEW t \in Threads, NEW f \in Fids, NEW c \in Codes,
         NEW g \in BOOLEAN, NEW vs \in [Names -> Vals], Enter(t, f, c, g, vs)
  PROVE  Tidy'
<1> DEFINE fr == [inc |-> budget.frames, code |-> c, thread |-> t, line |-> 0,
                  guarded |-> g]
<1>1. /\ hit' = NoHit /\ UNCHANGED <<torn, passed>>
      /\ frame' = [frame EXCEPT ![f] = fr]
      /\ vals' = [vals EXCEPT ![f] = vs] /\ start' = [start EXCEPT ![f] = vs]
      /\ writer' = [writer EXCEPT ![f] = NoWriter]
  BY DEF Enter
<1>2. DOMAIN frame = Fids /\ DOMAIN vals = Fids /\ DOMAIN start = Fids /\ DOMAIN writer = Fids
  BY DEF TypeOK, Tidy
<1>3. /\ frame'[f].code = c /\ frame'[f].guarded = g
      /\ vals'[f] = vs /\ start'[f] = vs
      /\ \A h \in Fids \ {f} : /\ frame'[h] = frame[h] /\ vals'[h] = vals[h]
                               /\ start'[h] = start[h] /\ writer'[h] = writer[h]
  <2>1. frame'[f] = fr /\ \A h \in Fids \ {f} : frame'[h] = frame[h]
    <3> HIDE DEF fr
    <3>1. QED
      BY <1>1, <1>2
  <2>2. QED
    BY <1>1, <1>2, <2>1
<1>4. writer' \in [Fids -> [Names -> Lines \cup {0}]]
  <2>1. NoWriter \in [Names -> Lines \cup {0}]
    BY DEF NoWriter
  <2>2. QED
    BY <1>1, <2>1 DEF Tidy
<1>5. /\ \A h \in Fids \ {f} : fstate'[h] = fstate[h]
      /\ \A w \in watches : w.fid # f => w \in watches'
      /\ \A w \in watches' : w.fid = f \/ w \in watches
      /\ Owned(f)'
      /\ ~ g /\ c \notin torn /\ fstate'[f].code = c => fstate'[f].prev = 0
  <2>1. CASE EnterSeen(t, f, c, g, vs)
    BY <2>1, EnterSeenOwned
  <2>2. CASE EnterUnseen(t, f, c, g)
    <3>1. UNCHANGED <<watches, fstate>> /\ (g \/ events[c] # "all")
      BY <2>2 DEF EnterUnseen
    <3>2. Owned(f)'
      BY <3>1 DEF Tidy, Owned
    <3>3. ASSUME ~ g, c \notin torn, fstate[f].code = c PROVE FALSE
      <4>1. fstate[f].code # None
        BY <3>3, ConstantsAssumption DEF ConstantsAssumption
      <4>2. PICK w \in watches : w.code = c
        BY <3>3, <4>1 DEF Tidy, Owned
      <4>3. QED
        BY <3>1, <3>3, <4>2, WatchedTraced
    <3>4. QED
      BY <3>1, <3>2, <3>3
  <2>3. QED
    BY <2>1, <2>2 DEF Enter
<1>6. LineKept(f)'
  BY <1>1, <1>3, <1>5 DEF LineKept, Looking
<1>7. ASSUME NEW h \in Fids \ {f} PROVE Owned(h)' /\ LineKept(h)'
  BY <1>1, <1>3, <1>5, OtherId
<1>8. ASSUME NEW w \in watches' PROVE Wrote(w)'
  <2>1. w.fid = f \/ (w.fid \in Fids /\ w.name \in Names)
    BY <1>5 DEF TypeOK, Watch
  <2>2. CASE w.fid = f
    BY <1>3, <2>2 DEF Wrote
  <2>3. CASE w.fid # f
    BY <1>1, <1>3, <1>5, <2>1, <2>3, OtherWatch
  <2>4. QED
    BY <2>2, <2>3
<1>9. passed' \in [Fids -> SUBSET Lines] /\ HitLine'
  BY <1>1 DEF Tidy, HitLine
<1>10. QED
  BY <1>4, <1>5, <1>6, <1>7, <1>8, <1>9 DEF Tidy


LEMMA StartLineTidy ==
  ASSUME TypeOK, Parts, Tidy, NEW f \in Fids, NEW l \in Lines, StartLine(f, l)
  PROVE  Tidy'
<1>1. /\ Live(f) /\ vals[f] \in [Names -> Vals] /\ frame[f].code \in Codes
      /\ frame' = [frame EXCEPT ![f].line = l]
      /\ UNCHANGED <<vals, torn>>
  BY DEF StartLine, Runs, TypeOK
<1>2. /\ frame \in [Fids -> Frame]
      /\ start \in [Fids -> [Names -> Vals \cup {None}]]
      /\ writer \in [Fids -> [Names -> Lines \cup {0}]]
      /\ fstate \in [Fids -> State] /\ passed \in [Fids -> SUBSET Lines]
  BY DEF TypeOK, Tidy
<1>3. /\ frame'[f].inc = frame[f].inc /\ frame'[f].code = frame[f].code
      /\ frame'[f].guarded = frame[f].guarded /\ frame'[f].line = l
      /\ \A h \in Fids \ {f} : frame'[h] = frame[h]
  BY <1>1, <1>2 DEF Frame
<1>4. \A w \in watches : w.fid \in Fids /\ w.name \in Names /\ w \in Watch /\ WatchOK(w)
  BY PartsByWatch DEF TypeOK, Watch
<1>5. frame[f].code # None
  BY <1>1, ConstantsAssumption DEF ConstantsAssumption
\* The handler does not look: the line is an armed target, or no watch or state of
\* this very frame is there that looks at its lines.
<1>6. ASSUME UNCHANGED <<watches, fstate, start, writer>>, hit' = NoHit,
             \/ passed' = [passed EXCEPT ![f] = @ \cup {l}]
             \/ passed' = passed /\ ~ Looking(f)
      PROVE  Tidy'
  <2>1. \A h \in Fids : Owned(h)'
    BY <1>6 DEF Tidy, Owned
  <2>2. /\ passed' \in [Fids -> SUBSET Lines]
        /\ \A h \in Fids \ {f} : passed'[h] = passed[h]
        /\ passed[f] \subseteq passed'[f]
        /\ Looking(f) => l \in passed'[f]
    BY <1>2, <1>6
  <2>3. \A h \in Fids \ {f} : LineKept(h)'
    BY <1>1, <1>3, <1>6, <2>2, OtherId
  <2>4. Looking(f)' => Looking(f)
    BY <1>1, <1>3, <1>6 DEF Looking, Live
  <2>5. LineKept(f)'
    BY <1>3, <2>2, <2>4 DEF LineKept, Visited
  <2>6. ASSUME NEW w \in watches PROVE Wrote(w)'
    <3>1. CASE w.fid = f
      <4>1. Current(w)' => Current(w)
        BY <1>3, <3>1 DEF Current, Live
      <4>2. Wrote(w) /\ Visited(f) \subseteq Visited(f)'
        BY <1>6, <2>2 DEF Tidy, Visited
      <4>3. QED
        BY <1>1, <1>6, <2>4, <3>1, <4>1, <4>2 DEF Wrote
    <3>2. CASE w.fid # f
      BY <1>1, <1>3, <1>4, <1>6, <2>2, <3>2, OtherWatch
    <3>3. QED
      BY <3>1, <3>2
  <2>7. HitLine'
    BY <1>6 DEF HitLine
  <2>8. QED
    BY <1>2, <1>6, <2>1, <2>2, <2>3, <2>5, <2>6, <2>7 DEF Tidy
<1>7. CASE LineUnseen(f)
  <2>1. frame[f].guarded \/ events[frame[f].code] = "off"
    BY <1>7 DEF LineUnseen, Traced
  <2>2. ~ Looking(f)
    BY <1>1, <2>1, OwnedTraced DEF Looking
  <2>3. QED
    BY <1>6, <1>7, <2>2 DEF LineUnseen
<1>8. CASE LinePauses(f, l)
  BY <1>6, <1>8 DEF LinePauses
<1>9. CASE LineDiffs(f, l) /\ Active(frame[f].code, f) = {}
  <2>1. UNCHANGED <<watches, fstate, start, writer, passed>> /\ hit' = NoHit
    BY <1>9 DEF LineDiffs
  <2>2. ASSUME fstate[f].code = frame[f].code PROVE FALSE
    <3>1. PICK w \in watches : w.fid = f /\ w.code = frame[f].code
      BY <1>5, <2>2 DEF Tidy, Owned
    <3>2. w \in Active(frame[f].code, f)
      BY <3>1 DEF Active
    <3>3. QED
      BY <1>9, <3>2
  <2>3. QED
    BY <1>6, <2>1, <2>2 DEF Looking
<1>10. CASE LineDiffs(f, l) /\ Active(frame[f].code, f) # {}
  <2> DEFINE c   == frame[f].code
             act == Active(c, f)
             st  == [NoState EXCEPT !.code = c, !.prev = l]
             ns  == {w.name : w \in act}
             new == Baseline(st, ns, vals[f])
  <2>1. /\ watches' = (watches \ act) \cup {[w EXCEPT !.seen = TRUE] : w \in act}
        /\ fstate' = [fstate EXCEPT ![f] = new]
        /\ start' = [start EXCEPT ![f] = vals[f]]
        /\ writer' = [writer EXCEPT ![f] = NoWriter]
        /\ passed' = [passed EXCEPT ![f] = {}]
        /\ ~ frame[f].guarded
        /\ \/ /\ fstate[f].code = c /\ fstate[f].prev # 0
              /\ FireIfChanged(act, fstate[f], f)
           \/ hit' = NoHit
    BY <1>10 DEF LineDiffs, Traced
  <2>2. HitLine'
    <3>1. CASE hit' = NoHit
      BY <3>1 DEF HitLine
    <3>2. CASE hit' # NoHit
      BY <1>1, <2>1, <3>2, FireNamesTheLine
    <3>3. QED
      BY <3>1, <3>2
  <2>3. /\ new.code = c /\ new.prev = l
    BY DEF Baseline, NoState
  <2>4. /\ fstate'[f] = new /\ start'[f] = vals[f]
        /\ \A h \in Fids \ {f} : /\ fstate'[h] = fstate[h] /\ start'[h] = start[h]
                                 /\ writer'[h] = writer[h] /\ passed'[h] = passed[h]
        /\ passed' \in [Fids -> SUBSET Lines]
    <3> HIDE DEF new
    <3>1. QED
      BY <1>2, <2>1
  <2>5. writer' \in [Fids -> [Names -> Lines \cup {0}]]
    <3>1. NoWriter \in [Names -> Lines \cup {0}]
      BY DEF NoWriter
    <3>2. QED
      BY <1>2, <2>1, <3>1
  <2>6. ASSUME NEW w \in watches
        PROVE  \E v \in watches' : v.fid = w.fid /\ v.code = w.code
    <3>1. CASE w \in act
      <4>1. [w EXCEPT !.seen = TRUE] \in watches'
        BY <2>1, <3>1
      <4>2. [w EXCEPT !.seen = TRUE].fid = w.fid /\ [w EXCEPT !.seen = TRUE].code = w.code
        BY <1>4 DEF Watch
      <4>3. QED
        BY <4>1, <4>2
    <3>2. CASE w \notin act
      BY <2>1, <3>2
    <3>3. QED
      BY <3>1, <3>2
  <2>7. \A w \in watches' : w.fid = f \/ w \in watches
    <3>1. \A w \in act : [w EXCEPT !.seen = TRUE].fid = f
      BY <1>4 DEF Active, Watch
    <3> HIDE DEF act
    <3>2. QED
      BY <2>1, <3>1
  <2>8. \E w \in watches : w.fid = f /\ w.code = c
    BY <1>10 DEF Active
  <2> HIDE DEF act, new, st, ns
  <2>9. Owned(f)' /\ LineKept(f)'
    BY <1>3, <2>3, <2>4, <2>6, <2>8 DEF Owned, LineKept, Visited
  <2>10. ASSUME NEW h \in Fids \ {f} PROVE Owned(h)' /\ LineKept(h)'
    BY <1>1, <1>3, <2>4, <2>6, OtherId
  <2>11. ASSUME NEW w \in watches' PROVE Wrote(w)'
    <3>1. CASE w.fid = f
      BY <1>1, <2>4, <3>1 DEF Wrote
    <3>2. CASE w.fid # f
      <4>1. w \in watches /\ w.fid \in Fids
        BY <1>4, <2>7, <3>2
      <4>2. QED
        BY <1>1, <1>3, <2>4, <3>2, <4>1, OtherWatch
    <3>3. QED
      BY <3>1, <3>2
  <2>12. QED
    BY <2>2, <2>4, <2>5, <2>9, <2>10, <2>11 DEF Tidy
<1>11. QED
  BY <1>7, <1>8, <1>9, <1>10 DEF StartLine

\* A frame leaves, and its id keeps no state without a watch.
LEMMA LeaveTidy ==
  ASSUME TypeOK, Tidy, NEW f \in Fids, Leave(f), HitLine',
         watches' \subseteq watches,
         \A w \in watches : w.fid # f => w \in watches',
         \A h \in Fids \ {f} : fstate'[h] = fstate[h],
         Owned(f)'
  PROVE  Tidy'
<1>1. /\ frame' = [frame EXCEPT ![f] = NoFrame]
      /\ vals' = [vals EXCEPT ![f] = NoVals]
      /\ start' = [start EXCEPT ![f] = NoVals]
      /\ writer' = [writer EXCEPT ![f] = NoWriter]
      /\ passed' = [passed EXCEPT ![f] = {}] /\ torn' = torn
  BY DEF Leave
<1>2. DOMAIN frame = Fids /\ DOMAIN vals = Fids /\ DOMAIN start = Fids /\ DOMAIN writer = Fids
  BY DEF TypeOK, Tidy
<1>3. /\ ~ Live(f)'
      /\ \A h \in Fids \ {f} : /\ frame'[h] = frame[h] /\ vals'[h] = vals[h]
                               /\ start'[h] = start[h] /\ writer'[h] = writer[h]
                               /\ passed'[h] = passed[h]
      /\ passed' \in [Fids -> SUBSET Lines]
  BY <1>1, <1>2 DEF Live, NoFrame, Tidy
<1>4. writer' \in [Fids -> [Names -> Lines \cup {0}]]
  <2>1. NoWriter \in [Names -> Lines \cup {0}]
    BY DEF NoWriter
  <2>2. QED
    BY <1>1, <2>1 DEF Tidy
<1>5. LineKept(f)'
  BY <1>3 DEF LineKept, Looking
<1>6. ASSUME NEW h \in Fids \ {f} PROVE Owned(h)' /\ LineKept(h)'
  BY <1>1, <1>3, OtherId
<1>7. ASSUME NEW w \in watches' PROVE Wrote(w)'
  <2>1. w \in watches /\ w.fid \in Fids
    BY DEF TypeOK, Watch
  <2>2. CASE w.fid = f
    BY <1>3, <2>2 DEF Wrote, Current
  <2>3. CASE w.fid # f
    BY <1>1, <1>3, <2>1, <2>3, OtherWatch
  <2>4. QED
    BY <2>2, <2>3
<1>8. QED
  BY <1>3, <1>4, <1>5, <1>6, <1>7 DEF Tidy

LEMMA PyReturnTidy ==
  ASSUME TypeOK, Parts, Tidy, NEW f \in Fids, PyReturn(f)
  PROVE  Tidy'
<1> DEFINE act  == Active(frame[f].code, f)
<1>1. /\ watches' = watches \ act
      /\ fstate' = [fstate EXCEPT ![f] = NoState] /\ Leave(f)
      /\ Live(f) /\ ~ frame[f].guarded /\ torn' = torn
      /\ \/ /\ fstate[f].code = frame[f].code /\ fstate[f].prev # 0
            /\ FireIfChanged(act, fstate[f], f)
         \/ hit' = NoHit
  BY DEF PyReturn, Runs, Leave
<1>2. HitLine'
  <2>1. CASE hit' = NoHit
    BY <2>1 DEF HitLine
  <2>2. CASE hit' # NoHit
    BY <1>1, <2>2, FireNamesTheLine
  <2>3. QED
    BY <2>1, <2>2
<1>3. /\ \A h \in Fids \ {f} : fstate'[h] = fstate[h]
      /\ fstate'[f].code = None
  BY <1>1 DEF TypeOK, NoState
<1>4. \A w \in watches : w.fid # f => w \in watches'
  BY <1>1 DEF Active
<1>5. Owned(f)' /\ watches' \subseteq watches
  BY <1>1, <1>3 DEF Owned
<1> HIDE DEF act
<1>6. QED
  BY <1>1, <1>2, <1>3, <1>4, <1>5, LeaveTidy

LEMMA UnwindTidy ==
  ASSUME TypeOK, Parts, Tidy, NEW f \in Fids, Unwind(f)
  PROVE  Tidy'
<1>1. Leave(f) /\ UNCHANGED <<watches, fstate>> /\ hit' = NoHit
  BY DEF Unwind
<1>2. Owned(f)' /\ HitLine'
  BY <1>1 DEF Tidy, Owned, HitLine
<1>3. QED
  BY <1>1, <1>2, LeaveTidy

LEMMA AddWatchTidy ==
  ASSUME TypeOK, Parts, Tidy, NEW f \in Fids, NEW n \in Names, AddWatch(f, n)
  PROVE  Tidy'
<1> DEFINE c    == frame[f].code
           kept == {w \in watches : ~ (w.name = n /\ w.fid = f)}
           new  == [name |-> n, fid |-> f, code |-> c, shown |-> n,
                    inc |-> frame[f].inc, root |-> n, seen |-> FALSE]
           old  == StateFor(c, f, fstate[f])
           st   == Baseline(old, {n}, vals[f])
<1>1. /\ watches' = kept \cup {new} /\ fstate' = [fstate EXCEPT ![f] = st]
      /\ start' = [start EXCEPT ![f][n] = vals[f][n]] /\ hit' = NoHit
      /\ writer' = [writer EXCEPT ![f][n] = 0]
      /\ UNCHANGED <<frame, vals, torn, passed>>
  BY DEF AddWatch
<1>2. /\ start \in [Fids -> [Names -> Vals \cup {None}]]
      /\ writer \in [Fids -> [Names -> Lines \cup {0}]]
      /\ DOMAIN fstate = Fids
      /\ \A w \in watches : w.fid \in Fids /\ w.name \in Names
  BY DEF TypeOK, Tidy, Watch
<1>3. /\ writer' \in [Fids -> [Names -> Lines \cup {0}]]
      /\ start'[f][n] = vals[f][n]
      /\ \A h \in Fids, m \in Names : h # f \/ m # n =>
           start'[h][m] = start[h][m] /\ writer'[h][m] = writer[h][m]
  <2> HIDE DEF new, kept, st
  <2>1. QED
    BY <1>1, <1>2
<1>4. /\ new.fid = f /\ new.code = c /\ new.name = n
      /\ \A w \in watches : w.fid # f => w \in kept
      /\ \A w \in kept : w \in watches /\ ~ (w.name = n /\ w.fid = f)
  OBVIOUS
<1>5. /\ st.code = c
      /\ st.prev # 0 => fstate[f].code = c /\ st.prev = fstate[f].prev
  BY DEF Baseline, StateFor, NoState
<1> HIDE DEF new, kept, st, old
<1>6. fstate'[f] = st /\ \A h \in Fids \ {f} : fstate'[h] = fstate[h]
  BY <1>1, <1>2
<1>7. Owned(f)'
  BY <1>1, <1>4, <1>5, <1>6 DEF Owned
<1>8. LineKept(f)'
  <2>1. LineKept(f)
    BY DEF Tidy
  <2>2. QED
    BY <1>1, <1>5, <1>6, <2>1 DEF LineKept, Looking, Visited, Live
<1>9. ASSUME NEW h \in Fids \ {f} PROVE Owned(h)' /\ LineKept(h)'
  BY <1>1, <1>4, <1>6, OtherId
<1>10. ASSUME NEW w \in watches' PROVE Wrote(w)'
  <2>1. CASE w = new
    BY <1>1, <1>3, <1>4, <2>1 DEF Wrote
  <2>2. CASE w \in kept /\ w.fid # f
    BY <1>1, <1>2, <1>3, <1>4, <1>6, <2>2, OtherWatch
  <2>3. CASE w \in kept /\ w.fid = f
    <3>1. Wrote(w) /\ w.name # n /\ w.name \in Names
      BY <1>2, <1>4, <2>3 DEF Tidy
    <3>2. Looking(f)' => Looking(f) /\ Visited(f)' = Visited(f)
      BY <1>1, <1>5, <1>6 DEF Looking, Visited, Live
    <3>3. /\ start'[f][w.name] = start[f][w.name] /\ vals' = vals
          /\ writer'[f][w.name] = writer[f][w.name]
          /\ Current(w)' <=> Current(w)
      BY <1>1, <1>3, <3>1 DEF Current, Live
    <3>4. QED
      BY <2>3, <3>1, <3>2, <3>3 DEF Wrote
  <2>4. QED
    BY <1>1, <2>1, <2>2, <2>3
<1>11. passed' \in [Fids -> SUBSET Lines] /\ HitLine'
  BY <1>1 DEF Tidy, HitLine
<1>12. QED
  BY <1>3, <1>7, <1>8, <1>9, <1>10, <1>11 DEF Tidy

\* Calls, and the steps of the hit pipeline.
LEMMA QuietTidy ==
  ASSUME Tidy, torn \subseteq torn', hit' = NoHit,
         UNCHANGED <<frame, vals, watches, fstate, start, writer, passed>>
  PROVE  Tidy'
<1>1. \A f \in Fids : Owned(f)' /\ LineKept(f)'
  BY OtherId
<1>2. \A w \in watches : Wrote(w)'
  BY OtherWatch
<1>3. HitLine'
  BY DEF HitLine
<1>4. QED
  BY <1>1, <1>2, <1>3 DEF Tidy

LEMMA InitLine == Init => LineInv
<1> SUFFICES ASSUME Init PROVE LineInv
  OBVIOUS
<1>1. /\ watches = {} /\ hit = NoHit
      /\ \A f \in Fids : fstate[f].code = None /\ frame[f].inc = 0
  BY DEF Init, NoState, NoFrame
<1>2. /\ writer \in [Fids -> [Names -> Lines \cup {0}]]
      /\ passed \in [Fids -> SUBSET Lines]
  BY DEF Init, NoWriter
<1>3. QED
  BY <1>1, <1>2 DEF LineInv, Tidy, Owned, LineKept, Looking, HitLine, Live

LEMMA NextLine == IInv /\ LineInv /\ [Next]_vars => LineInv'
<1> SUFFICES ASSUME IInv, LineInv, [Next]_vars, ~ removed' PROVE Tidy'
  BY DEF LineInv
<1>1. TypeOK /\ Parts
  BY IInvByParts
<1>2. ASSUME ~ removed PROVE Tidy
  BY <1>2 DEF LineInv
<1>3. ASSUME NEW t \in Threads, NEW f \in Fids, NEW c \in Codes,
             NEW g \in BOOLEAN, NEW vs \in [Names -> Vals], Enter(t, f, c, g, vs)
      PROVE  Tidy'
  BY <1>1, <1>2, <1>3, EnterTidy DEF Enter
<1>4. ASSUME NEW f \in Fids, NEW n \in Names, NEW v \in Vals, Assign(f, n, v)
      PROVE  Tidy'
  BY <1>1, <1>2, <1>4, AssignTidy DEF Assign
<1>5. ASSUME NEW f \in Fids, NEW l \in Lines, StartLine(f, l)
      PROVE  Tidy'
  BY <1>1, <1>2, <1>5, StartLineTidy DEF StartLine
<1>6. ASSUME NEW f \in Fids, PyReturn(f) PROVE Tidy'
  BY <1>1, <1>2, <1>6, PyReturnTidy DEF PyReturn, Leave
<1>7. ASSUME NEW f \in Fids, Unwind(f) PROVE Tidy'
  BY <1>1, <1>2, <1>7, UnwindTidy DEF Unwind, Leave
<1>8. ASSUME NEW f \in Fids, NEW n \in Names, AddWatch(f, n) PROVE Tidy'
  BY <1>1, <1>2, <1>8, AddWatchTidy DEF AddWatch
<1>9. /\ \A n \in Names : ~ RemoveWatch(n)
      /\ \A t \in Threads : ~ ClearWatches(t)
  BY DEF RemoveWatch, ClearWatches
<1>10. ASSUME NEW f \in Fids, NEW c \in Codes, Call(f, c) PROVE Tidy'
  BY <1>2, <1>10, QuietTidy DEF Call
<1>11. ASSUME NEW t \in Threads, NEW c \in Codes, NEW l \in Lines, ArmRead(t, c, l)
       PROVE  Tidy'
  BY <1>2, <1>11, QuietTidy DEF ArmRead
<1>12. ASSUME NEW t \in Threads, ArmWrite(t) PROVE Tidy'
  <2>1. torn \subseteq torn'
    BY <1>12 DEF ArmWrite
  <2>2. QED
    BY <1>2, <1>12, <2>1, QuietTidy DEF ArmWrite
<1>13. ASSUME NEW c \in Codes, NEW l \in Lines, DisarmPause(c, l) PROVE Tidy'
  BY <1>2, <1>13, QuietTidy DEF DisarmPause
<1>14. CASE UNCHANGED vars
  <2>1. Tidy
    BY <1>2, <1>14 DEF vars
  <2>2. QED
    BY <1>14, <2>1 DEF vars, Tidy, Owned, LineKept, Looking, Visited, Wrote, Current,
                       Live, HitLine
<1>15. QED
  BY <1>3, <1>4, <1>5, <1>6, <1>7, <1>8, <1>9, <1>10, <1>11, <1>12, <1>13,
     <1>14 DEF Next

\* A hit names the line that made the change, or the change was made on an armed line
\* the frame has passed since it was last looked at, for any program and any watches,
\* until something is unwatched, in code no torn write has touched.  The invariant:
\* no state at a frame id is without a watch of its code, a frame with a state is on
\* the line the state remembers or on such an armed line, and a change of a watched
\* local that has not been looked at was made by one of these (registry.py:943-1010,
\* 1197-1235, 1467-1500).
THEOREM LineNamed == Spec => []LineAttribution
<1>1. IInv /\ LineInv => LineAttribution
  BY DEF LineInv, Tidy, HitLine, LineAttribution
<1>2. QED
  BY <1>1, InitLine, NextLine, Invariance, PTL DEF Spec

=============================================================================
