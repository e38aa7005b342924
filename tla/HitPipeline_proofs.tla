-------------------------- MODULE HitPipeline_proofs --------------------------
(* Theorems about HitPipeline, for every value of its constants.            *)
EXTENDS HitPipeline, SequenceTheorems, FiniteSetTheorems, WellFoundedInduction, TLAPS

-----------------------------------------------------------------------------
(* The shape of the state.                                                  *)

Working == {"target", "safety", "noslot", "bare", "enqueue", "install", "record",
            "release", "suspend"}
Arming == {"install", "record", "release"}
Claiming == {"safety", "enqueue"} \cup Arming
Places == {"run", "disarm", "undo", "pause", "paused", "shown", "ours"} \cup Working

Job == [watch : Watches \cup {0}, stack : Stacks \cup {<< >>},
        mode : {"at", "before", "other"}, frame : Nat, cand : Lines \cup {0},
        targets : Seq(Slots), hit : Nat, got : BOOLEAN]

Bps == [path : {Real[c] : c \in Codes}, line : Lines, watch : Watches]

Used == 1 .. MaxHits - left.hits

Distinct(q) == \A i, j \in DOMAIN q : q[i] = q[j] => i = j

\* What the job of a thread holds, by where the thread is.
Fits(p, j, used) ==
  /\ p \in Working => j.watch \in Watches /\ j.stack \in Stacks
  /\ p = "target" => j.targets = << >> /\ j.frame \in DOMAIN j.stack
  /\ p \in {"enqueue"} \cup Arming => j.targets # << >>
  /\ p \in Claiming => Distinct(j.targets)
  /\ p \in Arming => j.hit \in used

Threading ==
  /\ pc \in [Threads -> Places]
  /\ job \in [Threads -> Job]
  /\ back \in [Threads -> {"run", "pause", "shown"}]
  /\ resume \in [Threads -> {"run", "ours"}]
  /\ undo \in [Threads -> SUBSET Bps]
  /\ \A t \in Threads : pc[t] # "undo" => undo[t] = {}

Tables ==
  /\ left \in [hits : 0 .. MaxHits, faults : Nat]
  /\ hitQueue \subseteq Used
  /\ locs \in [Hits -> SUBSET Slots]
  /\ \A h \in Hits \ Used : locs[h] = {}
  /\ pending \subseteq Slots
  /\ reserved \subseteq Slots
  /\ tempBps \subseteq Bps
  /\ pydevd \subseteq Bps

Jobs == \A t \in Threads : Fits(pc[t], job[t], Used)

Shape == Threading /\ Tables /\ Jobs

-----------------------------------------------------------------------------
(* Facts about the helpers.                                                 *)

\* A frame of a stack runs some code at some line.
LEMMA FrameType ==
  ASSUME NEW s \in Stacks, NEW i \in DOMAIN s
  PROVE  s[i].code \in Codes /\ s[i].line \in Lines
<1>1. s \in Seq([code : Codes, line : Lines])
  BY PipelineAssumption DEF PipelineAssumption
<1>2. s[i] \in [code : Codes, line : Lines]
  BY <1>1, LenProperties, ElementOfSeq
<1>3. QED
  BY <1>2

\* A stack has a first frame.
LEMMA FirstFrame == ASSUME NEW s \in Stacks PROVE 1 \in DOMAIN s
<1>1. s \in Seq([code : Codes, line : Lines]) /\ \E i \in DOMAIN s : TRUE
  BY PipelineAssumption DEF PipelineAssumption
<1>2. DOMAIN s = 1 .. Len(s) /\ Len(s) \in Nat
  BY <1>1, LenProperties
<1>3. QED
  BY <1>1, <1>2

LEMMA NextLineType ==
  ASSUME NEW c \in Codes, NEW l \in Lines \cup {0}
  PROVE  /\ NextLine[c][l] \in Lines \cup {0}
         /\ NextLine[c][l] # 0 => l < NextLine[c][l]
BY PipelineAssumption DEF PipelineAssumption

LEMMA ByteNextType ==
  ASSUME NEW c \in Codes, NEW l \in Lines PROVE ByteNext[c][l] \in Lines \cup {0}
BY PipelineAssumption DEF PipelineAssumption

\* A slot's breakpoint.
LEMMA BpType ==
  ASSUME NEW slot \in Slots, NEW w \in Watches PROVE Bp(slot, w) \in Bps
BY DEF Bp, Bps, Slots

\* What is left of a list of targets when its head is done.
LEMMA TailTargets ==
  ASSUME NEW q \in Seq(Slots), q # << >>, Distinct(q)
  PROVE  /\ Head(q) \in Slots /\ Tail(q) \in Seq(Slots) /\ Distinct(Tail(q))
         /\ Head(q) \in {q[i] : i \in DOMAIN q}
         /\ {Tail(q)[i] : i \in DOMAIN Tail(q)}
              = {q[i] : i \in DOMAIN q} \ {Head(q)}
<1>1. /\ Head(q) \in Slots /\ Tail(q) \in Seq(Slots)
      /\ Len(Tail(q)) = Len(q) - 1
      /\ \A i \in 1 .. Len(Tail(q)) : Tail(q)[i] = q[i + 1]
  BY HeadTailProperties
<1>2. /\ Len(q) \in Nat \ {0} /\ DOMAIN q = 1 .. Len(q)
      /\ DOMAIN Tail(q) = 1 .. Len(Tail(q))
  BY <1>1, LenProperties, EmptySeq
<1>3. Head(q) = q[1]
  OBVIOUS
<1>4. Distinct(Tail(q))
  BY <1>1, <1>2 DEF Distinct
<1>5. \A i \in DOMAIN Tail(q) : i + 1 \in DOMAIN q /\ Tail(q)[i] = q[i + 1]
                                /\ q[i + 1] # Head(q)
  BY <1>1, <1>2, <1>3 DEF Distinct
<1>6. \A i \in DOMAIN q : q[i] # Head(q) => i - 1 \in DOMAIN Tail(q)
                                            /\ Tail(q)[i - 1] = q[i]
  BY <1>1, <1>2, <1>3
<1>7. Head(q) \in {q[i] : i \in DOMAIN q}
  BY <1>2, <1>3
<1>8. {Tail(q)[i] : i \in DOMAIN Tail(q)} = {q[i] : i \in DOMAIN q} \ {Head(q)}
  <2> DEFINE A == {Tail(q)[i] : i \in DOMAIN Tail(q)}
             B == {q[i] : i \in DOMAIN q} \ {Head(q)}
  <2>1. ASSUME NEW x \in A PROVE x \in B
    BY <1>5
  <2>2. ASSUME NEW x \in B PROVE x \in A
    BY <1>6
  <2>3. QED
    BY <2>1, <2>2
<1>9. QED
  BY <1>1, <1>4, <1>7, <1>8

\* What a list of targets holds when one more is chosen.
LEMMA AppendTargets ==
  ASSUME NEW q \in Seq(Slots), NEW slot \in Slots
  PROVE  /\ Append(q, slot) \in Seq(Slots) /\ Append(q, slot) # << >>
         /\ {Append(q, slot)[i] : i \in DOMAIN Append(q, slot)}
              = {q[i] : i \in DOMAIN q} \cup {slot}
         /\ Distinct(q) /\ (\A i \in DOMAIN q : q[i] # slot)
              => Distinct(Append(q, slot))
<1> DEFINE a == Append(q, slot)
<1>1. /\ a \in Seq(Slots) /\ Len(a) = Len(q) + 1
      /\ \A i \in 1 .. Len(q) : a[i] = q[i]
      /\ a[Len(q) + 1] = slot
  BY AppendProperties
<1>2. /\ Len(q) \in Nat /\ DOMAIN q = 1 .. Len(q) /\ DOMAIN a = 1 .. Len(a)
  BY <1>1, LenProperties
<1> HIDE DEF a
<1>3. a # << >>
  BY <1>1, <1>2, EmptySeq
<1>4. {a[i] : i \in DOMAIN a} = {q[i] : i \in DOMAIN q} \cup {slot}
  BY <1>1, <1>2
<1>5. Distinct(q) /\ (\A i \in DOMAIN q : q[i] # slot) => Distinct(a)
  BY <1>1, <1>2 DEF Distinct
<1>6. QED
  BY <1>1, <1>3, <1>4, <1>5 DEF a

-----------------------------------------------------------------------------
(* The shape is invariant.                                                  *)

\* One thread moves on with its job; what is used grows.
LEMMA MoveShape ==
  ASSUME Shape, NEW t \in Threads, NEW p \in Places, NEW j \in Job,
         pc' = [pc EXCEPT ![t] = p], job' = [job EXCEPT ![t] = j],
         Tables', left'.hits <= left.hits, Fits(p, j, Used'),
         back' \in [Threads -> {"run", "pause", "shown"}],
         resume' \in [Threads -> {"run", "ours"}],
         NEW u \in SUBSET Bps, undo' = [undo EXCEPT ![t] = u], p # "undo" => u = {}
  PROVE  Shape'
<1> USE DEF Shape
<1>1. /\ pc' \in [Threads -> Places] /\ job' \in [Threads -> Job]
      /\ undo' \in [Threads -> SUBSET Bps]
  BY DEF Threading
<1>2. \A v \in Threads : pc'[v] # "undo" => undo'[v] = {}
  BY DEF Threading
<1>3. Used \subseteq Used'
  <2>1. /\ MaxHits \in Nat /\ left.hits \in 0 .. MaxHits /\ left'.hits \in 0 .. MaxHits
    BY PipelineAssumption DEF PipelineAssumption, Tables
  <2>2. QED
    BY <2>1 DEF Used
<1>4. ASSUME NEW v \in Threads PROVE Fits(pc'[v], job'[v], Used')
  <2>1. CASE v = t
    BY <2>1 DEF Threading
  <2>2. CASE v # t
    <3>1. pc'[v] = pc[v] /\ job'[v] = job[v]
      BY <2>2 DEF Threading
    <3>2. Fits(pc[v], job[v], Used)
      BY DEF Jobs
    <3>3. QED
      BY <3>1, <3>2, <1>3 DEF Fits
  <2>3. QED
    BY <2>1, <2>2
<1>5. QED
  BY <1>1, <1>2, <1>4 DEF Threading, Jobs

\* A step that leaves the tables alone.
LEMMA QuietShape ==
  ASSUME Shape, NEW t \in Threads, NEW p \in Places, NEW j \in Job,
         pc' = [pc EXCEPT ![t] = p], job' = [job EXCEPT ![t] = j],
         UNCHANGED <<undo, back, hitQueue, locs, tempBps, pending, reserved, pydevd>>,
         left' \in [hits : 0 .. MaxHits, faults : Nat], left'.hits = left.hits,
         Fits(p, j, Used), pc[t] # "undo", p # "undo",
         resume' \in [Threads -> {"run", "ours"}]
  PROVE  Shape'
<1>1. Used' = Used
  BY DEF Used
<1>2. Tables'
  BY <1>1 DEF Shape, Tables
<1>3. left'.hits <= left.hits
  BY DEF Shape, Tables
<1>4. undo[t] = {} /\ undo' = [undo EXCEPT ![t] = {}]
  BY DEF Shape, Threading
<1>5. back' \in [Threads -> {"run", "pause", "shown"}]
  BY DEF Shape, Threading
<1>6. Fits(p, j, Used')
  BY <1>1
<1>7. QED
  BY <1>2, <1>3, <1>4, <1>5, <1>6, MoveShape

\* A thread outside _handle_hit may have any job.
LEMMA IdleFits ==
  ASSUME NEW p, p \notin Working, NEW j, NEW used PROVE Fits(p, j, used)
BY DEF Fits, Claiming, Working, Arming

LEMMA NoJobType == NoJob \in Job
<1>1. << >> \in Seq(Slots)
  BY EmptySeq
<1>2. QED
  BY <1>1 DEF NoJob, Job

LEMMA MutateShape ==
  ASSUME Shape, NEW t \in Threads, NEW w \in Watches, NEW s \in Stacks,
         NEW mode \in {"at", "before", "other"}, Mutate(t, w, s, mode)
  PROVE  Shape'
<1> DEFINE cand == IF mode = "at" THEN ByteNext[s[1].code][s[1].line] ELSE 0
           j == [NoJob EXCEPT !.watch = w, !.stack = s, !.mode = mode, !.frame = 1,
                              !.cand = cand]
<1>1. 1 \in DOMAIN s /\ s[1].code \in Codes /\ s[1].line \in Lines
  BY FirstFrame, FrameType
<1>2. cand \in Lines \cup {0}
  BY <1>1, ByteNextType
<1>3. job' = [job EXCEPT ![t] = j] /\ pc' = [pc EXCEPT ![t] = "target"]
  BY DEF Mutate
<1> HIDE DEF cand
<1>4. j \in Job
  BY <1>2, NoJobType DEF NoJob, Job
<1>5. Fits("target", j, Used)
  BY <1>1 DEF Fits, Claiming, Arming, NoJob
<1> HIDE DEF j
<1>6. /\ UNCHANGED <<undo, back, hitQueue, locs, tempBps, pending, reserved, pydevd,
                     left, resume>>
      /\ pc[t] # "undo"
  BY DEF Mutate
<1>7. /\ left' \in [hits : 0 .. MaxHits, faults : Nat] /\ left'.hits = left.hits
      /\ resume' \in [Threads -> {"run", "ours"}]
  BY <1>6 DEF Shape, Tables, Threading
<1>8. "target" \in Places
  BY DEF Places, Working
<1>9. QED
  BY <1>3, <1>4, <1>5, <1>6, <1>7, <1>8, QuietShape

\* A step that takes a thread out of _handle_hit, or between two places outside.
LEMMA IdleShape ==
  ASSUME Shape, NEW t \in Threads, NEW p \in {"run", "paused", "ours"},
         pc' = [pc EXCEPT ![t] = p],
         job' = job \/ job' = [job EXCEPT ![t] = NoJob],
         UNCHANGED <<undo, back, hitQueue, locs, tempBps, pending, reserved, pydevd>>,
         left' \in [hits : 0 .. MaxHits, faults : Nat], left'.hits = left.hits,
         pc[t] # "undo", resume' \in [Threads -> {"run", "ours"}]
  PROVE  Shape'
<1>1. p \in Places /\ p \notin Working /\ p # "undo"
  BY DEF Places, Working
<1>2. \A j \in Job : Fits(p, j, Used)
  BY <1>1, IdleFits
<1>3. CASE job' = job
  <2>1. job[t] \in Job /\ job' = [job EXCEPT ![t] = job[t]]
    BY <1>3 DEF Shape, Threading
  <2>2. QED
    BY <1>1, <1>2, <2>1, QuietShape
<1>4. CASE job' = [job EXCEPT ![t] = NoJob]
  BY <1>1, <1>2, <1>4, NoJobType, QuietShape
<1>5. QED
  BY <1>3, <1>4

LEMMA PausingShape ==
  ASSUME Shape, NEW t \in Threads, NEW slot,
         Suspend(t) \/ PydevdPause(t, slot) \/ PassBy(t) \/ DirectPause(t)
  PROVE  Shape'
<1>1. /\ UNCHANGED <<undo, back, hitQueue, locs, tempBps, pending, reserved, pydevd,
                     left>>
      /\ pc[t] # "undo"
      /\ job' = job \/ job' = [job EXCEPT ![t] = NoJob]
      /\ \E p \in {"run", "paused"} : pc' = [pc EXCEPT ![t] = p]
  BY DEF Suspend, PydevdPause, PassBy, DirectPause
<1>2. resume' \in [Threads -> {"run", "ours"}]
  BY DEF Suspend, PydevdPause, PassBy, DirectPause, Shape, Threading
<1>3. left' \in [hits : 0 .. MaxHits, faults : Nat] /\ left'.hits = left.hits
  BY <1>1 DEF Shape, Tables
<1>4. QED
  BY <1>1, <1>2, <1>3, IdleShape

LEMMA ResumeShape ==
  ASSUME Shape, NEW t \in Threads, Resume(t) PROVE Shape'
<1>1. /\ UNCHANGED <<undo, back, hitQueue, locs, tempBps, pending, reserved, pydevd,
                     left, job>>
      /\ pc[t] # "undo"
      /\ pc' = [pc EXCEPT ![t] = resume[t]]
  BY DEF Resume
<1>2. resume[t] \in {"run", "ours"} /\ resume' \in [Threads -> {"run", "ours"}]
  BY DEF Resume, Shape, Threading
<1>3. left' \in [hits : 0 .. MaxHits, faults : Nat] /\ left'.hits = left.hits
  BY <1>1 DEF Shape, Tables
<1>4. QED
  BY <1>1, <1>2, <1>3, IdleShape

\* A fault is spent.
LEMMA FaultType ==
  ASSUME Tables, left.faults > 0, left' = [left EXCEPT !.faults = @ - 1]
  PROVE  left' \in [hits : 0 .. MaxHits, faults : Nat] /\ left'.hits = left.hits
BY DEF Tables

LEMMA SuspendFailsShape ==
  ASSUME Shape, NEW t \in Threads, SuspendFails(t) PROVE Shape'
<1>1. /\ UNCHANGED <<undo, back, hitQueue, locs, tempBps, pending, reserved, pydevd,
                     resume>>
      /\ pc[t] # "undo"
      /\ pc' = [pc EXCEPT ![t] = "run"]
      /\ job' = [job EXCEPT ![t] = NoJob]
      /\ left.faults > 0 /\ left' = [left EXCEPT !.faults = @ - 1]
  BY DEF SuspendFails, Return
<1>2. left' \in [hits : 0 .. MaxHits, faults : Nat] /\ left'.hits = left.hits
  BY <1>1, FaultType DEF Shape
<1>3. resume' \in [Threads -> {"run", "ours"}]
  BY <1>1 DEF Shape, Threading
<1>4. QED
  BY <1>1, <1>2, <1>3, IdleShape

LEMMA NoSlotShape ==
  ASSUME Shape, NEW t \in Threads, NoSlot(t) PROVE Shape'
<1>1. /\ UNCHANGED <<undo, back, hitQueue, locs, tempBps, pending, reserved, pydevd,
                     resume, left>>
      /\ pc[t] = "noslot"
  BY DEF NoSlot
<1>2. /\ left' \in [hits : 0 .. MaxHits, faults : Nat] /\ left'.hits = left.hits
      /\ resume' \in [Threads -> {"run", "ours"}]
  BY <1>1 DEF Shape, Tables, Threading
<1>3. CASE hitQueue = {}
  <2>1. pc' = [pc EXCEPT ![t] = "bare"] /\ job' = job
    BY <1>3 DEF NoSlot
  <2>2. job[t] \in Job /\ job' = [job EXCEPT ![t] = job[t]]
    BY <2>1 DEF Shape, Threading
  <2>3. Fits("noslot", job[t], Used)
    BY <1>1 DEF Shape, Jobs
  <2>4. "bare" \in Places /\ Fits("bare", job[t], Used)
    BY <2>3 DEF Fits, Places, Working, Claiming, Arming
  <2>5. QED
    BY <1>1, <1>2, <2>1, <2>2, <2>4, QuietShape
<1>4. CASE hitQueue # {}
  <2>1. pc' = [pc EXCEPT ![t] = "run"] /\ job' = [job EXCEPT ![t] = NoJob]
    BY <1>4 DEF NoSlot, Return
  <2>2. QED
    BY <1>1, <1>2, <2>1, IdleShape
<1>5. QED
  BY <1>3, <1>4

-----------------------------------------------------------------------------
(* Choosing a line.                                                         *)

LEMMA UsedType == ASSUME Tables PROVE UsedSlots \subseteq Slots
<1>1. /\ MaxHits \in Nat /\ left.hits \in 0 .. MaxHits
  BY PipelineAssumption DEF PipelineAssumption, Tables
<1>2. hitQueue \subseteq Hits
  BY <1>1 DEF Tables, Used, Hits
<1>3. QED
  BY <1>2 DEF UsedSlots, Tables

\* The line chosen after all lines in use is free.
LEMMA ChosenLine ==
  ASSUME Tables, NEW c \in Codes, NEW a \in Lines \cup {0},
         NEW m \in Latest(UsedLines(c) \cup {a})
  PROVE  /\ m \in Lines \cup {0}
         /\ NextLine[c][m] # 0 => <<c, NextLine[c][m]>> \in Slots \ UsedSlots
<1> DEFINE l == NextLine[c][m]
<1>1. UsedLines(c) \subseteq Lines
  BY UsedType DEF UsedLines, Slots
<1>2. m \in Lines \cup {0} /\ \A n \in UsedLines(c) : n <= m
  BY <1>1 DEF Latest
<1>3. l \in Lines \cup {0} /\ (l # 0 => m < l)
  BY <1>2, NextLineType
<1>4. Lines \subseteq Nat
  BY PipelineAssumption DEF PipelineAssumption
<1> HIDE DEF l
<1>5. ASSUME l # 0 PROVE l \notin UsedLines(c)
  <2>1. l \in Nat /\ m \in Nat /\ m < l
    BY <1>2, <1>3, <1>4, <1>5
  <2>2. ~ (l <= m)
    BY <2>1
  <2>3. QED
    BY <1>2, <2>2
<1>6. ASSUME l # 0 PROVE <<c, l>> \in Slots \ UsedSlots
  BY <1>3, <1>5, <1>6 DEF UsedLines, Slots
<1>7. QED
  BY <1>2, <1>6 DEF l

LEMMA SearchAfterType ==
  ASSUME NEW j \in Job, j.stack \in Stacks, NEW i \in DOMAIN j.stack
  PROVE  SearchAfter(j, i) \in Lines \cup {0}
<1>1. 1 \in DOMAIN j.stack /\ j.stack[1].line \in Lines /\ j.stack[i].line \in Lines
  BY FirstFrame, FrameType
<1>2. j.stack[1].line - 1 \in Lines \cup {0}
  BY <1>1, PipelineAssumption DEF PipelineAssumption
<1>3. QED
  BY <1>1, <1>2 DEF SearchAfter

LEMMA ChoosingShape ==
  ASSUME Shape, NEW t \in Threads, NEW p \in Places, NEW j \in Job,
         pc' = [pc EXCEPT ![t] = p], job' = [job EXCEPT ![t] = j],
         UNCHANGED <<undo, back, resume, hitQueue, locs, tempBps, pending, pydevd,
                     left>>,
         reserved' \subseteq Slots,
         Fits(p, j, Used), pc[t] # "undo", p # "undo"
  PROVE  Shape'
<1>1. Used' = Used
  BY DEF Used
<1>2. Tables'
  BY <1>1 DEF Shape, Tables
<1>3. left'.hits <= left.hits
  BY DEF Shape, Tables
<1>4. undo[t] = {} /\ undo' = [undo EXCEPT ![t] = {}]
  BY DEF Shape, Threading
<1>5. /\ back' \in [Threads -> {"run", "pause", "shown"}]
      /\ resume' \in [Threads -> {"run", "ours"}]
  BY DEF Shape, Threading
<1>6. Fits(p, j, Used')
  BY <1>1
<1>7. QED
  BY <1>2, <1>3, <1>4, <1>5, <1>6, MoveShape

\* What a thread that looks for a target has for a job.
LEMMA TargetJob ==
  ASSUME Shape, NEW t \in Threads, pc[t] = "target"
  PROVE  /\ job[t] \in Job /\ job[t].stack \in Stacks /\ job[t].watch \in Watches
         /\ job[t].targets = << >> /\ job[t].frame \in DOMAIN job[t].stack
         /\ job[t].frame \in Nat /\ job[t].cand \in Lines \cup {0}
         /\ DOMAIN job[t].stack = 1 .. Len(job[t].stack)
         /\ Len(job[t].stack) \in Nat
<1>1. job[t] \in Job /\ Fits("target", job[t], Used)
  BY DEF Shape, Threading, Jobs
<1>2. /\ job[t].stack \in Stacks /\ job[t].watch \in Watches
      /\ job[t].targets = << >> /\ job[t].frame \in DOMAIN job[t].stack
  BY <1>1 DEF Fits, Working
<1>3. job[t].stack \in Seq([code : Codes, line : Lines])
  BY <1>2, PipelineAssumption DEF PipelineAssumption
<1>4. QED
  BY <1>1, <1>2, <1>3, LenProperties DEF Job

\* One target is chosen.
LEMMA FirstTarget ==
  ASSUME NEW j \in Job, j.stack \in Stacks, j.watch \in Watches, j.targets = << >>,
         NEW slot \in Slots
  PROVE  LET k == [j EXCEPT !.targets = Append(@, slot)]
         IN k \in Job /\ Fits("safety", k, Used) /\ k.targets = << slot >>
<1> DEFINE q == Append(<< >>, slot)
           k == [j EXCEPT !.targets = q]
<1>1. q = << slot >> /\ q \in Seq(Slots)
  OBVIOUS
<1>2. k \in Job /\ k.stack \in Stacks /\ k.watch \in Watches /\ k.targets = q
  BY <1>1 DEF Job
<1>3. Distinct(q)
  BY <1>1 DEF Distinct
<1> HIDE DEF q, k
<1>4. Fits("safety", k, Used)
  BY <1>2, <1>3 DEF Fits, Arming
<1>5. QED
  BY <1>1, <1>2, <1>4 DEF k, q

LEMMA ByBytecodeShape ==
  ASSUME Shape, NEW t \in Threads, TargetByBytecode(t) PROVE Shape'
<1> DEFINE c == job[t].stack[1].code
           slot == <<c, job[t].cand>>
<1>1. /\ UNCHANGED <<at, undo, back, resume, hitQueue, locs, tempBps, pending,
                     pydevd, left>>
      /\ pc[t] = "target" /\ job[t].cand # 0
  BY DEF TargetByBytecode
<1>2. /\ job[t] \in Job /\ job[t].stack \in Stacks /\ job[t].watch \in Watches
      /\ job[t].targets = << >> /\ job[t].cand \in Lines \cup {0}
  BY <1>1, TargetJob
<1>3. c \in Codes
  BY <1>2, FirstFrame, FrameType
<1>4. slot \in Slots
  BY <1>1, <1>2, <1>3 DEF Slots
<1>5. pc \in [Threads -> Places] /\ reserved \subseteq Slots
  BY DEF Shape, Threading, Tables
<1> HIDE DEF slot, c
<1>6. CASE slot \in UsedSlots
  <2> DEFINE j == [job[t] EXCEPT !.cand = NextLine[c][@]]
  <2>1. job' = [job EXCEPT ![t] = j] /\ UNCHANGED <<pc, reserved>>
    BY <1>6 DEF TargetByBytecode, slot, c
  <2>2. NextLine[c][job[t].cand] \in Lines \cup {0}
    BY <1>2, <1>3, NextLineType
  <2>3. j \in Job
    BY <1>2, <2>2 DEF Job
  <2>4. Fits("target", job[t], Used)
    BY <1>1 DEF Shape, Jobs
  <2>5. Fits("target", j, Used)
    BY <1>2, <2>4 DEF Fits, Job, Claiming, Arming
  <2> HIDE DEF j
  <2>6. "target" \in Places /\ pc' = [pc EXCEPT ![t] = "target"]
    BY <1>1, <1>5, <2>1 DEF Places, Working
  <2>7. reserved' \subseteq Slots
    BY <1>5, <2>1
  <2>8. QED
    BY <1>1, <2>1, <2>3, <2>5, <2>6, <2>7, ChoosingShape
<1>7. CASE slot \notin UsedSlots
  <2> DEFINE j == [job[t] EXCEPT !.targets = Append(@, slot)]
  <2>1. /\ job' = [job EXCEPT ![t] = j] /\ reserved' = reserved \cup {slot}
        /\ pc' = [pc EXCEPT ![t] = "safety"]
    BY <1>7 DEF TargetByBytecode, Reserve, slot, c
  <2>2. j \in Job /\ Fits("safety", j, Used)
    BY <1>2, <1>4, FirstTarget
  <2> HIDE DEF j
  <2>3. reserved' \subseteq Slots /\ "safety" \in Places
    BY <1>4, <1>5, <2>1 DEF Places, Working
  <2>4. QED
    BY <1>1, <2>1, <2>2, <2>3, ChoosingShape
<1>8. QED
  BY <1>6, <1>7

LEMMA ByLineShape ==
  ASSUME Shape, NEW t \in Threads, TargetByLine(t) PROVE Shape'
<1> DEFINE i == job[t].frame
           c == job[t].stack[i].code
           a == SearchAfter(job[t], i)
<1>1. /\ UNCHANGED <<at, undo, back, resume, hitQueue, locs, tempBps, pending,
                     pydevd, left>>
      /\ pc[t] = "target"
  BY DEF TargetByLine
<1>2. /\ job[t] \in Job /\ job[t].stack \in Stacks /\ job[t].watch \in Watches
      /\ job[t].targets = << >> /\ i \in DOMAIN job[t].stack /\ i \in Nat
      /\ DOMAIN job[t].stack = 1 .. Len(job[t].stack)
      /\ Len(job[t].stack) \in Nat
  BY <1>1, TargetJob
<1>3. c \in Codes /\ a \in Lines \cup {0}
  BY <1>2, FrameType, SearchAfterType
<1>4. pc \in [Threads -> Places] /\ reserved \subseteq Slots /\ Tables
  BY DEF Shape, Threading, Tables
<1>5. Fits("target", job[t], Used)
  BY <1>1 DEF Shape, Jobs
<1>6. Fits("safety", job[t], Used)
  <2>1. Distinct(<< >>)
    BY DEF Distinct
  <2>2. QED
    BY <1>2, <2>1 DEF Fits, Arming
<1>7. PICK m \in Latest(UsedLines(c) \cup {a}) :
        IF NextLine[c][m] # 0
        THEN /\ Reserve(t, <<c, NextLine[c][m]>>)
             /\ pc' = [pc EXCEPT ![t] = "safety"]
        ELSE /\ IF i < Len(job[t].stack)
                THEN /\ job' = [job EXCEPT ![t].frame = i + 1]
                     /\ UNCHANGED pc
                ELSE /\ pc' = [pc EXCEPT ![t] = "safety"]
                     /\ UNCHANGED job
             /\ UNCHANGED reserved
  BY DEF TargetByLine
<1> DEFINE slot == <<c, NextLine[c][m]>>
<1>8. NextLine[c][m] # 0 => slot \in Slots
  BY <1>3, <1>4, ChosenLine
<1> HIDE DEF c, a
<1>9. CASE NextLine[c][m] # 0
  <2> DEFINE j == [job[t] EXCEPT !.targets = Append(@, slot)]
  <2>1. /\ job' = [job EXCEPT ![t] = j] /\ reserved' = reserved \cup {slot}
        /\ pc' = [pc EXCEPT ![t] = "safety"]
    BY <1>7, <1>9 DEF Reserve
  <2>2. slot \in Slots
    BY <1>8, <1>9
  <2> HIDE DEF slot
  <2>3. j \in Job /\ Fits("safety", j, Used)
    BY <1>2, <2>2, FirstTarget
  <2> HIDE DEF j
  <2>4. reserved' \subseteq Slots /\ "safety" \in Places
    BY <1>4, <2>1, <2>2 DEF Places, Working
  <2>5. QED
    BY <1>1, <2>1, <2>3, <2>4, ChoosingShape
<1>10. CASE NextLine[c][m] = 0 /\ i < Len(job[t].stack)
  <2> DEFINE j == [job[t] EXCEPT !.frame = i + 1]
  <2>1. job' = [job EXCEPT ![t] = j] /\ UNCHANGED <<pc, reserved>>
    BY <1>7, <1>10
  <2>2. i + 1 \in DOMAIN job[t].stack /\ i + 1 \in Nat
    BY <1>2, <1>10
  <2> HIDE DEF i
  <2>3. j \in Job
    BY <1>2, <2>2 DEF Job
  <2>4. Fits("target", j, Used)
    BY <1>2, <1>5, <2>2 DEF Fits, Job, Claiming, Arming
  <2> HIDE DEF j
  <2>5. "target" \in Places /\ pc' = [pc EXCEPT ![t] = "target"]
    BY <1>1, <1>4, <2>1 DEF Places, Working
  <2>6. reserved' \subseteq Slots
    BY <1>4, <2>1
  <2>7. QED
    BY <1>1, <2>1, <2>3, <2>4, <2>5, <2>6, ChoosingShape
<1>11. CASE NextLine[c][m] = 0 /\ ~ (i < Len(job[t].stack))
  <2>1. /\ pc' = [pc EXCEPT ![t] = "safety"] /\ UNCHANGED <<job, reserved>>
    BY <1>7, <1>11
  <2>2. job' = [job EXCEPT ![t] = job[t]] /\ "safety" \in Places
    BY <2>1 DEF Shape, Threading, Places, Working
  <2>3. reserved' \subseteq Slots
    BY <1>4, <2>1
  <2>4. QED
    BY <1>1, <1>2, <1>6, <2>1, <2>2, <2>3, ChoosingShape
<1>12. QED
  BY <1>9, <1>10, <1>11

\* A thread that has claimed its targets.
LEMMA ClaimingJob ==
  ASSUME Shape, NEW t \in Threads, pc[t] \in Claiming
  PROVE  /\ job[t] \in Job /\ job[t].targets \in Seq(Slots)
         /\ job[t].stack \in Stacks /\ job[t].watch \in Watches
         /\ Distinct(job[t].targets)
         /\ pc[t] # "safety" => job[t].targets # << >>
         /\ pc[t] \in Arming => job[t].hit \in Used
<1>1. job[t] \in Job /\ Fits(pc[t], job[t], Used)
  BY DEF Shape, Threading, Jobs
<1>2. QED
  BY <1>1 DEF Fits, Job, Claiming, Arming, Working

\* The safety net either adds a free slot to the targets, or leaves them.
LEMMA SafetyStep ==
  ASSUME Shape, NEW t \in Threads, TargetSafety(t)
  PROVE  \/ /\ UNCHANGED <<job, reserved>>
            /\ pc' = [pc EXCEPT ![t] = IF job[t].targets = << >> THEN "noslot"
                                       ELSE "enqueue"]
         \/ \E slot \in Slots \ UsedSlots :
              /\ \A i \in DOMAIN job[t].targets : job[t].targets[i] # slot
              /\ reserved' = reserved \cup {slot}
              /\ job' = [job EXCEPT ![t].targets = Append(@, slot)]
              /\ pc' = [pc EXCEPT ![t] = "enqueue"]
<1>1. pc[t] = "safety"
  BY DEF TargetSafety
<1>2. job[t].targets \in Seq(Slots) /\ job[t].stack \in Stacks
  BY <1>1, ClaimingJob DEF Claiming
<1> DEFINE Taken(f, l) == \E i \in DOMAIN job[t].targets :
                            /\ File[job[t].targets[i][1]] = f
                            /\ job[t].targets[i][2] = l
           Goes(targets) == pc' = [pc EXCEPT ![t] =
                              IF targets = << >> THEN "noslot" ELSE "enqueue"]
           Step(sf, m) ==
             LET c == sf.code
                 l == NextLine[c][m]
             IN IF c # job[t].stack[1].code /\ l # 0 /\ ~ Taken(File[c], l)
                THEN /\ Reserve(t, <<c, l>>)
                     /\ Goes(Append(job[t].targets, <<c, l>>))
                ELSE /\ Goes(job[t].targets)
                     /\ UNCHANGED <<job, reserved>>
<1>3. PICK sf \in SafetyFrames(job[t].stack) :
        \E m \in Latest(UsedLines(sf.code) \cup {sf.line}) : Step(sf, m)
  BY DEF TargetSafety
<1>4. PICK m \in Latest(UsedLines(sf.code) \cup {sf.line}) : Step(sf, m)
  BY <1>3
<1> DEFINE c == sf.code
           l == NextLine[c][m]
           slot == <<c, l>>
<1>5. c \in Codes /\ sf.line \in Lines
  BY <1>2, FrameType DEF SafetyFrames
<1>6. l # 0 => slot \in Slots \ UsedSlots
  BY <1>5, ChosenLine DEF Shape
<1>7. CASE c # job[t].stack[1].code /\ l # 0 /\ ~ Taken(File[c], l)
  <2>1. /\ reserved' = reserved \cup {slot}
        /\ job' = [job EXCEPT ![t].targets = Append(@, slot)]
        /\ pc' = [pc EXCEPT ![t] = IF Append(job[t].targets, slot) = << >>
                                   THEN "noslot" ELSE "enqueue"]
    BY <1>4, <1>7 DEF Reserve
  <2>2. \A i \in DOMAIN job[t].targets : job[t].targets[i] # slot
    BY <1>7
  <2>3. slot \in Slots \ UsedSlots
    BY <1>6, <1>7
  <2> HIDE DEF slot
  <2>4. Append(job[t].targets, slot) # << >>
    BY <1>2, <2>3, AppendTargets
  <2>5. QED
    BY <2>1, <2>2, <2>3, <2>4
<1>8. CASE ~ (c # job[t].stack[1].code /\ l # 0 /\ ~ Taken(File[c], l))
  BY <1>4, <1>8
<1>9. QED
  BY <1>7, <1>8

LEMMA SafetyShape ==
  ASSUME Shape, NEW t \in Threads, TargetSafety(t) PROVE Shape'
<1>1. /\ UNCHANGED <<at, undo, back, resume, hitQueue, locs, tempBps, pending,
                     pydevd, left>>
      /\ pc[t] = "safety"
  BY DEF TargetSafety
<1>2. /\ job[t] \in Job /\ job[t].targets \in Seq(Slots)
      /\ job[t].stack \in Stacks /\ job[t].watch \in Watches
      /\ Distinct(job[t].targets)
  BY <1>1, ClaimingJob DEF Claiming
<1>3. reserved \subseteq Slots
  BY DEF Shape, Tables
<1>4. CASE /\ UNCHANGED <<job, reserved>>
           /\ pc' = [pc EXCEPT ![t] = IF job[t].targets = << >> THEN "noslot"
                                      ELSE "enqueue"]
  <2> DEFINE p == IF job[t].targets = << >> THEN "noslot" ELSE "enqueue"
  <2>1. Fits(p, job[t], Used)
    BY <1>2 DEF Fits, Claiming, Arming
  <2>2. p \in Places /\ p # "undo"
    BY DEF Places, Working
  <2>3. job' = [job EXCEPT ![t] = job[t]] /\ reserved' \subseteq Slots
    BY <1>3, <1>4 DEF Shape, Threading
  <2>4. pc' = [pc EXCEPT ![t] = p]
    BY <1>4
  <2> HIDE DEF p
  <2>5. QED
    BY <1>1, <1>2, <2>1, <2>2, <2>3, <2>4, ChoosingShape
<1>5. ASSUME NEW slot \in Slots \ UsedSlots,
             \A i \in DOMAIN job[t].targets : job[t].targets[i] # slot,
             reserved' = reserved \cup {slot},
             job' = [job EXCEPT ![t].targets = Append(@, slot)],
             pc' = [pc EXCEPT ![t] = "enqueue"]
      PROVE  Shape'
  <2> DEFINE q == Append(job[t].targets, slot)
             j == [job[t] EXCEPT !.targets = q]
  <2>1. q \in Seq(Slots) /\ q # << >> /\ Distinct(q)
    BY <1>2, <1>5, AppendTargets
  <2>2. job' = [job EXCEPT ![t] = j]
    BY <1>5
  <2> HIDE DEF q
  <2>3. j \in Job /\ j.stack \in Stacks /\ j.watch \in Watches /\ j.targets = q
    BY <1>2, <2>1 DEF Job
  <2> HIDE DEF j
  <2>4. Fits("enqueue", j, Used)
    BY <2>1, <2>3 DEF Fits, Arming
  <2>5. "enqueue" \in Places /\ reserved' \subseteq Slots
    BY <1>3, <1>5 DEF Places, Working
  <2>6. QED
    BY <1>1, <1>5, <2>2, <2>3, <2>4, <2>5, ChoosingShape
<1>6. QED
  BY <1>4, <1>5, SafetyStep

\* The number of a new hit.
LEMMA NewHitFacts ==
  ASSUME Tables, left.hits > 0, left' = [left EXCEPT !.hits = @ - 1]
  PROVE  /\ Used' = Used \cup {NewHit} /\ NewHit \notin Used /\ NewHit \in Hits
         /\ \A h \in Used : h < NewHit
         /\ locs[NewHit] = {} /\ Hits \ Used' \subseteq Hits \ Used
         /\ left' \in [hits : 0 .. MaxHits, faults : Nat] /\ left'.hits <= left.hits
<1>1. MaxHits \in Nat /\ left.hits \in 1 .. MaxHits
  BY PipelineAssumption DEF PipelineAssumption, Tables
<1>2. left' \in [hits : 0 .. MaxHits, faults : Nat] /\ left'.hits = left.hits - 1
  BY <1>1 DEF Tables
<1>3. /\ Used' = Used \cup {NewHit} /\ NewHit \notin Used /\ NewHit \in Hits
      /\ \A h \in Used : h < NewHit
  BY <1>1, <1>2 DEF Used, NewHit, Hits
<1>4. locs[NewHit] = {}
  BY <1>3 DEF Tables
<1>5. QED
  BY <1>1, <1>2, <1>3, <1>4

LEMMA PushShape ==
  ASSUME Shape, NEW t \in Threads, NEW q, q \subseteq hitQueue \cup {NewHit},
         Push(t, q), NEW p \in Places, pc' = [pc EXCEPT ![t] = p],
         Fits(p, [job[t] EXCEPT !.hit = NewHit], Used \cup {NewHit}),
         UNCHANGED <<undo, back, resume, locs, tempBps, pending, reserved, pydevd>>,
         pc[t] # "undo", p # "undo"
  PROVE  Shape'
<1> DEFINE j == [job[t] EXCEPT !.hit = NewHit]
<1>1. Tables /\ left.hits > 0 /\ left' = [left EXCEPT !.hits = @ - 1]
  BY DEF Push, Shape
<1>2. /\ Used' = Used \cup {NewHit} /\ NewHit \in Hits
      /\ Hits \ Used' \subseteq Hits \ Used
      /\ left' \in [hits : 0 .. MaxHits, faults : Nat] /\ left'.hits <= left.hits
  BY <1>1, NewHitFacts
<1>3. hitQueue' \subseteq Used'
  BY <1>2 DEF Push, Shape, Tables
<1>4. Tables'
  BY <1>2, <1>3 DEF Shape, Tables
<1>5. NewHit \in Nat
  BY <1>2 DEF Hits
<1>6. j \in Job /\ job' = [job EXCEPT ![t] = j]
  BY <1>5 DEF Push, Shape, Threading, Job
<1>7. Fits(p, j, Used')
  BY <1>2
<1> HIDE DEF j
<1>8. /\ undo[t] = {} /\ undo' = [undo EXCEPT ![t] = {}]
      /\ back' \in [Threads -> {"run", "pause", "shown"}]
      /\ resume' \in [Threads -> {"run", "ours"}]
  BY DEF Shape, Threading
<1>9. QED
  BY <1>2, <1>4, <1>6, <1>7, <1>8, MoveShape

LEMMA EnqueueBareShape ==
  ASSUME Shape, NEW t \in Threads, EnqueueBare(t) PROVE Shape'
<1>1. /\ Push(t, hitQueue \cup {NewHit})
      /\ pc[t] = "bare" /\ pc' = [pc EXCEPT ![t] = "suspend"]
      /\ UNCHANGED <<undo, back, resume, locs, tempBps, pending, reserved, pydevd>>
  BY DEF EnqueueBare
<1>2. job[t] \in Job /\ Fits("bare", job[t], Used)
  BY <1>1 DEF Shape, Threading, Jobs
<1>3. Fits("suspend", [job[t] EXCEPT !.hit = NewHit], Used \cup {NewHit})
  BY <1>2 DEF Fits, Job, Working, Claiming, Arming
<1>4. "suspend" \in Places
  BY DEF Places, Working
<1>5. QED
  BY <1>1, <1>3, <1>4, PushShape

LEMMA EnqueueShape ==
  ASSUME Shape, NEW t \in Threads, Enqueue(t) PROVE Shape'
<1> DEFINE q == Trimmed(hitQueue \cup {NewHit})
           j == [job[t] EXCEPT !.hit = NewHit]
<1>1. /\ Push(t, q)
      /\ pc[t] = "enqueue" /\ pc' = [pc EXCEPT ![t] = "install"]
      /\ UNCHANGED <<undo, back, resume, locs, tempBps, pending, reserved, pydevd>>
  BY DEF Enqueue
<1>2. q \subseteq hitQueue \cup {NewHit}
  BY DEF Trimmed
<1>3. job[t] \in Job /\ Fits("enqueue", job[t], Used)
  BY <1>1 DEF Shape, Threading, Jobs
<1>4. /\ j.targets = job[t].targets /\ j.stack = job[t].stack
      /\ j.watch = job[t].watch /\ j.hit = NewHit
  BY <1>3 DEF Job
<1> HIDE DEF j
<1>5. Fits("install", j, Used \cup {NewHit})
  BY <1>3, <1>4 DEF Fits, Working, Claiming, Arming
<1>6. "install" \in Places
  BY DEF Places, Working
<1> HIDE DEF q
<1>7. QED
  BY <1>1, <1>2, <1>5, <1>6, PushShape DEF j

\* Installing and recording: the job stays, but for its targets.
LEMMA InstallShape ==
  ASSUME Shape, NEW t \in Threads, Install(t) \/ InstallFails(t) PROVE Shape'
<1> DEFINE bp == Bp(Head(job[t].targets), job[t].watch)
<1>1. /\ UNCHANGED <<job, at, undo, back, resume, hitQueue, locs, tempBps, reserved>>
      /\ pc[t] = "install"
      /\ pydevd' \subseteq pydevd \cup {bp}
      /\ pending' \subseteq pending \cup {Head(job[t].targets)}
  BY DEF Install, InstallFails
<1>2. /\ job[t] \in Job /\ job[t].targets \in Seq(Slots) /\ job[t].targets # << >>
      /\ job[t].watch \in Watches /\ Distinct(job[t].targets)
  BY <1>1, ClaimingJob DEF Claiming, Arming
<1>3. Head(job[t].targets) \in Slots /\ bp \in Bps
  BY <1>2, TailTargets, BpType
<1> HIDE DEF bp
<1>4. /\ left' \in [hits : 0 .. MaxHits, faults : Nat] /\ left'.hits = left.hits
  <2>1. CASE Install(t)
    BY <2>1 DEF Install, Shape, Tables
  <2>2. CASE InstallFails(t)
    BY <2>2, FaultType DEF InstallFails, Shape
  <2>3. QED
    BY <2>1, <2>2
<1>5. Used' = Used
  BY <1>4 DEF Used
<1>6. Tables'
  BY <1>1, <1>3, <1>4, <1>5 DEF Shape, Tables
<1>7. PICK p \in {"record", "release"} : pc' = [pc EXCEPT ![t] = p]
  BY DEF Install, InstallFails
<1>8. Fits("install", job[t], Used)
  BY <1>1 DEF Shape, Jobs
<1>9. Fits(p, job[t], Used')
  BY <1>5, <1>8 DEF Fits, Working, Claiming, Arming
<1>10. p \in Places /\ p # "undo"
  BY DEF Places, Working
<1>11. /\ job' = [job EXCEPT ![t] = job[t]]
       /\ undo[t] = {} /\ undo' = [undo EXCEPT ![t] = {}]
       /\ back' \in [Threads -> {"run", "pause", "shown"}]
       /\ resume' \in [Threads -> {"run", "ours"}]
  BY <1>1 DEF Shape, Threading
<1>12. left'.hits <= left.hits
  BY <1>4 DEF Shape, Tables
<1>13. QED
  BY <1>2, <1>6, <1>7, <1>9, <1>10, <1>11, <1>12, MoveShape

LEMMA NextTargetStep ==
  ASSUME Shape, NEW t \in Threads, pc[t] \in {"record", "release"},
         NEW got \in BOOLEAN, NextTarget(t, got)
  PROVE  \E p \in {"run", "suspend", "install"}, j \in Job :
           /\ pc' = [pc EXCEPT ![t] = p] /\ job' = [job EXCEPT ![t] = j]
           /\ Fits(p, j, Used)
           /\ p = "install" => j.targets = Tail(job[t].targets) /\ j.hit = job[t].hit
           /\ p # "install" => Tail(job[t].targets) = << >>
<1> DEFINE rest == Tail(job[t].targets)
           j == [job[t] EXCEPT !.targets = rest, !.got = got]
<1>1. /\ job[t] \in Job /\ job[t].targets \in Seq(Slots) /\ job[t].targets # << >>
      /\ Distinct(job[t].targets) /\ Fits(pc[t], job[t], Used)
  BY ClaimingJob DEF Claiming, Arming, Shape, Jobs
<1>2. rest \in Seq(Slots) /\ Distinct(rest)
  BY <1>1, TailTargets
<1> HIDE DEF rest
<1>3. /\ j \in Job /\ j.targets = rest /\ j.stack = job[t].stack
      /\ j.watch = job[t].watch /\ j.hit = job[t].hit
  BY <1>1, <1>2 DEF Job
<1>4. CASE rest = << >> /\ got
  <2>1. pc' = [pc EXCEPT ![t] = "run"] /\ job' = [job EXCEPT ![t] = NoJob]
    BY <1>4 DEF NextTarget, Return, rest
  <2>2. Fits("run", NoJob, Used)
    BY IdleFits DEF Working
  <2>3. QED
    BY <1>4, <2>1, <2>2, NoJobType DEF rest
<1>5. CASE ~ (rest = << >> /\ got)
  <2> DEFINE p == IF rest = << >> THEN "suspend" ELSE "install"
  <2>1. pc' = [pc EXCEPT ![t] = p] /\ job' = [job EXCEPT ![t] = j]
    BY <1>5 DEF NextTarget, rest
  <2> HIDE DEF j
  <2>2. Fits(p, j, Used)
    BY <1>1, <1>2, <1>3 DEF Fits, Working, Claiming, Arming
  <2>3. QED
    BY <1>3, <2>1, <2>2 DEF rest
<1>6. QED
  BY <1>4, <1>5

LEMMA RecordShape ==
  ASSUME Shape, NEW t \in Threads, Record(t) \/ Release(t) PROVE Shape'
<1> DEFINE slot == Head(job[t].targets)
           bp == Bp(slot, job[t].watch)
           h == job[t].hit
<1>1. /\ UNCHANGED <<undo, back, resume, hitQueue, pending, pydevd, left>>
      /\ pc[t] \in {"record", "release"}
      /\ reserved' \subseteq reserved
      /\ \/ tempBps' = tempBps \cup {bp} /\ locs' = [locs EXCEPT ![h] = @ \cup {slot}]
         \/ UNCHANGED <<tempBps, locs>>
      /\ \E got \in BOOLEAN : NextTarget(t, got)
  <2>1. CASE Record(t)
    BY <2>1 DEF Record
  <2>2. CASE Release(t)
    <3>1. job[t].got \in BOOLEAN
      BY DEF Shape, Threading, Job
    <3>2. QED
      BY <2>2, <3>1 DEF Release
  <2>3. QED
    BY <2>1, <2>2
<1>2. /\ job[t].targets \in Seq(Slots) /\ job[t].targets # << >>
      /\ job[t].watch \in Watches /\ Distinct(job[t].targets) /\ h \in Used
  BY <1>1, ClaimingJob DEF Claiming, Arming
<1>3. slot \in Slots /\ bp \in Bps
  BY <1>2, TailTargets, BpType
<1>4. Used' = Used
  BY <1>1 DEF Used
<1> HIDE DEF slot, bp, h
<1>5. locs' \in [Hits -> SUBSET Slots] /\ \A g \in Hits \ Used' : locs'[g] = {}
  <2>1. locs \in [Hits -> SUBSET Slots] /\ \A g \in Hits \ Used : locs[g] = {}
    BY DEF Shape, Tables
  <2>2. CASE locs' = [locs EXCEPT ![h] = @ \cup {slot}]
    BY <1>2, <1>3, <1>4, <2>1, <2>2
  <2>3. QED
    BY <1>1, <1>4, <2>1, <2>2
<1>6. Tables'
  BY <1>1, <1>3, <1>4, <1>5 DEF Shape, Tables
<1>7. PICK p \in {"run", "suspend", "install"}, j \in Job :
        /\ pc' = [pc EXCEPT ![t] = p] /\ job' = [job EXCEPT ![t] = j]
        /\ Fits(p, j, Used)
  BY <1>1, NextTargetStep
<1>8. p \in Places /\ p # "undo" /\ Fits(p, j, Used')
  BY <1>4, <1>7 DEF Places, Working
<1>9. /\ undo[t] = {} /\ undo' = [undo EXCEPT ![t] = {}]
      /\ back' \in [Threads -> {"run", "pause", "shown"}]
      /\ resume' \in [Threads -> {"run", "ours"}]
      /\ left'.hits <= left.hits
  BY <1>1 DEF Shape, Threading, Tables
<1>10. QED
  BY <1>6, <1>7, <1>8, <1>9, MoveShape

\* Steps outside _handle_hit that take things out of the tables.
LEMMA TakingShape ==
  ASSUME Shape, NEW t \in Threads, NEW p \in Places \ Working,
         pc' = [pc EXCEPT ![t] = p], NEW u \in SUBSET Bps,
         undo' = [undo EXCEPT ![t] = u], p # "undo" => u = {},
         NEW b \in {"run", "pause", "shown"}, back' = [back EXCEPT ![t] = b],
         UNCHANGED <<job, resume, locs>>,
         hitQueue' \subseteq hitQueue, pending' \subseteq pending,
         tempBps' \subseteq tempBps, reserved' \subseteq reserved,
         pydevd' \subseteq pydevd,
         left' = left \/ (left.faults > 0 /\ left' = [left EXCEPT !.faults = @ - 1])
  PROVE  Shape'
<1>1. left' \in [hits : 0 .. MaxHits, faults : Nat] /\ left'.hits = left.hits
  BY FaultType DEF Shape, Tables
<1>2. Used' = Used
  BY <1>1 DEF Used
<1>3. Tables'
  BY <1>1, <1>2 DEF Shape, Tables
<1>4. job[t] \in Job /\ job' = [job EXCEPT ![t] = job[t]]
  BY DEF Shape, Threading
<1>5. Fits(p, job[t], Used')
  BY IdleFits
<1>6. /\ back' \in [Threads -> {"run", "pause", "shown"}]
      /\ resume' \in [Threads -> {"run", "ours"}]
      /\ left'.hits <= left.hits
  BY <1>1 DEF Shape, Threading, Tables
<1>7. QED
  BY <1>3, <1>4, <1>5, <1>6, MoveShape

LEMMA FireShape ==
  ASSUME Shape, NEW t \in Threads, NEW slot \in Slots, Fire(t, slot) PROVE Shape'
<1>1. /\ pc' = [pc EXCEPT ![t] = "disarm"] /\ pc[t] # "undo"
      /\ UNCHANGED <<job, undo, back, resume, hitQueue, locs, tempBps, reserved,
                     pydevd, left>>
      /\ pending' \subseteq pending
  BY DEF Fire
<1>2. /\ undo' = [undo EXCEPT ![t] = {}] /\ back[t] \in {"run", "pause", "shown"}
      /\ back' = [back EXCEPT ![t] = back[t]]
  BY <1>1 DEF Shape, Threading
<1>3. "disarm" \in Places \ Working
  BY DEF Places, Working
<1>4. QED
  BY <1>1, <1>2, <1>3, TakingShape

LEMMA UndoShape ==
  ASSUME Shape, NEW t \in Threads, Undo(t) PROVE Shape'
<1>1. /\ pc' = [pc EXCEPT ![t] = back[t]]
      /\ undo' = [undo EXCEPT ![t] = {}] /\ back' = [back EXCEPT ![t] = "run"]
      /\ UNCHANGED <<job, resume, hitQueue, locs, tempBps, pending, reserved, left>>
      /\ pydevd' \subseteq pydevd
  BY DEF Undo
<1>2. back[t] \in {"run", "pause", "shown"}
  BY DEF Shape, Threading
<1>3. /\ back[t] \in Places \ Working
      /\ {} \in SUBSET Bps /\ "run" \in {"run", "pause", "shown"}
  BY <1>2 DEF Places, Working
<1>4. /\ hitQueue' \subseteq hitQueue /\ pending' \subseteq pending
      /\ tempBps' \subseteq tempBps /\ reserved' \subseteq reserved
      /\ left' = left /\ UNCHANGED <<job, resume, locs>>
  BY <1>1
<1>5. QED
  BY <1>1, <1>3, <1>4, TakingShape

\* Steps that leave the tables' breakpoints to a later undo.
LEMMA DrainingShape ==
  ASSUME Shape, NEW t \in Threads,
         Disarm(t) \/ Consume(t) \/ ConsumeAll(t) \/ Clear(t)
  PROVE  Shape'
<1>1. PICK u \in SUBSET tempBps, b \in {"run", "pause", "shown"} :
        /\ undo' = [undo EXCEPT ![t] = u] /\ back' = [back EXCEPT ![t] = b]
        /\ tempBps' \subseteq tempBps
  BY DEF Disarm, Consume, ConsumeAll, Clear, HitBps, BpsAt
<1>2. /\ pc' = [pc EXCEPT ![t] = "undo"]
      /\ UNCHANGED <<job, resume, locs, pydevd>>
      /\ hitQueue' \subseteq hitQueue /\ pending' \subseteq pending
      /\ reserved' \subseteq reserved
      /\ left' = left \/ (left.faults > 0 /\ left' = [left EXCEPT !.faults = @ - 1])
  BY DEF Disarm, Consume, ConsumeAll, Clear
<1>3. u \in SUBSET Bps /\ "undo" \in Places \ Working
  BY DEF Shape, Tables, Places, Working
<1>4. QED
  BY <1>1, <1>2, <1>3, TakingShape

LEMMA InitShape == ASSUME Init PROVE Shape
<1>1. MaxHits \in Nat /\ MaxFaults \in Nat
  BY PipelineAssumption DEF PipelineAssumption
<1>2. Threading
  BY NoJobType DEF Init, Threading, Places, Bps
<1>3. Tables
  BY <1>1 DEF Init, Tables, Used, Slots
<1>4. Jobs
  BY IdleFits DEF Init, Jobs, Working
<1>5. QED
  BY <1>2, <1>3, <1>4 DEF Shape

LEMMA NextShape == ASSUME Shape, [Next]_vars PROVE Shape'
<1>1. CASE UNCHANGED vars
  BY <1>1 DEF vars, Shape, Threading, Tables, Jobs, Used
<1>2. ASSUME NEW t \in Threads, NEW w \in Watches, NEW s \in Stacks,
             NEW mode \in {"at", "before", "other"}, Mutate(t, w, s, mode)
      PROVE  Shape'
  BY <1>2, MutateShape
<1>3. ASSUME NEW t \in Threads, NEW slot \in Slots,
             PydevdPause(t, slot) \/ Fire(t, slot)
      PROVE  Shape'
  BY <1>3, PausingShape, FireShape
<1>4. ASSUME NEW t \in Threads,
             \/ TargetByBytecode(t) \/ TargetByLine(t) \/ TargetSafety(t)
             \/ NoSlot(t) \/ EnqueueBare(t) \/ Enqueue(t) \/ Install(t)
             \/ InstallFails(t) \/ Record(t) \/ Release(t)
      PROVE  Shape'
  BY <1>4, ByBytecodeShape, ByLineShape, SafetyShape, NoSlotShape, EnqueueBareShape,
     EnqueueShape, InstallShape, RecordShape
<1>5. ASSUME NEW t \in Threads,
             \/ Suspend(t) \/ SuspendFails(t) \/ PassBy(t) \/ DirectPause(t)
             \/ Disarm(t) \/ Undo(t) \/ Consume(t) \/ ConsumeAll(t) \/ Clear(t)
             \/ Resume(t)
      PROVE  Shape'
  <2>1. CASE Suspend(t) \/ PassBy(t) \/ DirectPause(t)
    BY <2>1, PausingShape
  <2>2. QED
    BY <1>5, <2>1, SuspendFailsShape, DrainingShape, UndoShape, ResumeShape
<1>6. QED
  BY <1>1, <1>2, <1>3, <1>4, <1>5 DEF Next

-----------------------------------------------------------------------------
(* What a step does to claims and to the slots of queued hits.              *)

\* Claims stay; hits leave the queue, or one comes that owns nothing.
Keeps ==
  /\ \A t \in Threads : Claims(t)' = Claims(t)
  /\ UNCHANGED <<reserved, locs, raced>>
  /\ \A h \in hitQueue' : h \in hitQueue \/ locs[h] = {}

\* A thread claims a slot that nobody uses.
Takes ==
  \E t \in Threads, slot \in Slots \ UsedSlots :
    /\ Claims(t)' = Claims(t) \cup {slot}
    /\ \A u \in Threads \ {t} : Claims(u)' = Claims(u)
    /\ reserved' = reserved \cup {slot}
    /\ UNCHANGED <<locs, raced, hitQueue>>

\* A thread gives a slot up, to its hit or to nobody.
Gives ==
  \E t \in Threads : \E slot \in Claims(t), h \in Hits :
    /\ Claims(t)' = Claims(t) \ {slot}
    /\ \A u \in Threads \ {t} : Claims(u)' = Claims(u)
    /\ reserved' = reserved \ {slot}
    /\ locs' = locs \/ locs' = [locs EXCEPT ![h] = @ \cup {slot}]
    /\ UNCHANGED <<raced, hitQueue>>

\* The reservations are dropped, and the queue with them.
Drops ==
  /\ \A t \in Threads : Claims(t)' = Claims(t)
  /\ reserved' = {} /\ hitQueue' = {} /\ locs' = locs
  /\ raced' = (raced \/ reserved # {})

LEMMA ClaimsDef ==
  ASSUME NEW t \in Threads
  PROVE  Claims(t) = IF pc[t] \in Claiming
                     THEN {job[t].targets[i] : i \in DOMAIN job[t].targets} ELSE {}
BY DEF Claims, Claiming, Arming

LEMMA ClaimsDefNext ==
  ASSUME NEW t \in Threads
  PROVE  Claims(t)' = IF pc'[t] \in Claiming
                      THEN {job'[t].targets[i] : i \in DOMAIN job'[t].targets} ELSE {}
BY DEF Claims, Claiming, Arming

\* The claims of the threads that do not move.
LEMMA OthersClaims ==
  ASSUME Shape, NEW t \in Threads, NEW u \in Threads \ {t},
         NEW p, pc' = [pc EXCEPT ![t] = p],
         job' = job \/ \E j : job' = [job EXCEPT ![t] = j]
  PROVE  Claims(u)' = Claims(u)
<1>1. pc'[u] = pc[u] /\ job'[u] = job[u]
  BY DEF Shape, Threading
<1>2. QED
  BY <1>1, ClaimsDef, ClaimsDefNext

\* A thread that claims nothing, before and after.
LEMMA IdleClaims ==
  ASSUME Shape, NEW t \in Threads, pc[t] \notin Claiming,
         NEW p, p \notin Claiming, pc' = [pc EXCEPT ![t] = p],
         job' = job \/ \E j : job' = [job EXCEPT ![t] = j]
  PROVE  \A u \in Threads : Claims(u)' = Claims(u)
<1>1. pc'[t] = p
  BY DEF Shape, Threading
<1>2. Claims(t)' = Claims(t)
  BY <1>1, ClaimsDef, ClaimsDefNext
<1>3. QED
  BY <1>2, OthersClaims

LEMMA NoTargetsClaims ==
  ASSUME NEW q, q = << >> PROVE {q[i] : i \in DOMAIN q} = {}
BY EmptySeq

LEMMA PausingKeeps ==
  ASSUME Shape, NEW t \in Threads, NEW slot,
         \/ Suspend(t) \/ SuspendFails(t) \/ PydevdPause(t, slot) \/ Fire(t, slot)
         \/ PassBy(t) \/ Disarm(t) \/ DirectPause(t) \/ Consume(t) \/ ConsumeAll(t)
  PROVE  Keeps
<1>1. /\ UNCHANGED <<reserved, locs, raced>>
      /\ hitQueue' \subseteq hitQueue
  BY DEF Suspend, SuspendFails, PydevdPause, Fire, PassBy, Disarm, DirectPause,
         Consume, ConsumeAll
<1>2. \E p \in {"run", "paused", "disarm", "undo"} : pc' = [pc EXCEPT ![t] = p]
  BY DEF Suspend, SuspendFails, Return, PydevdPause, Fire, PassBy, Disarm,
         DirectPause, Consume, ConsumeAll
<1>3. pc[t] \notin Claiming
  BY DEF Suspend, SuspendFails, PydevdPause, Fire, PassBy, Disarm, DirectPause,
         Consume, ConsumeAll, Claiming, Arming
<1>4. job' = job \/ \E j : job' = [job EXCEPT ![t] = j]
  BY DEF Suspend, SuspendFails, Return, PydevdPause, Fire, PassBy, Disarm,
         DirectPause, Consume, ConsumeAll
<1>5. \A p \in {"run", "paused", "disarm", "undo"} : p \notin Claiming
  BY DEF Claiming, Arming
<1>6. QED
  BY <1>1, <1>2, <1>3, <1>4, <1>5, IdleClaims DEF Keeps

LEMMA ReturningKeeps ==
  ASSUME Shape, NEW t \in Threads, Undo(t) \/ Resume(t) PROVE Keeps
<1>1. /\ UNCHANGED <<reserved, locs, raced, hitQueue, job>>
      /\ pc[t] \in {"undo", "paused", "shown"}
      /\ pc' = [pc EXCEPT ![t] = back[t]] \/ pc' = [pc EXCEPT ![t] = resume[t]]
  BY DEF Undo, Resume
<1>2. back[t] \notin Claiming /\ resume[t] \notin Claiming /\ pc[t] \notin Claiming
  BY <1>1 DEF Shape, Threading, Claiming, Arming
<1>3. QED
  BY <1>1, <1>2, IdleClaims DEF Keeps

LEMMA EnteringKeeps ==
  ASSUME Shape, NEW t \in Threads, NEW w, NEW s, NEW mode,
         Mutate(t, w, s, mode) \/ NoSlot(t) \/ EnqueueBare(t)
  PROVE  Keeps
<1>1. UNCHANGED <<reserved, locs, raced>>
  BY DEF Mutate, NoSlot, EnqueueBare, Return
<1>2. /\ pc[t] \notin Claiming
      /\ \E p \in {"target", "bare", "run", "suspend"} : pc' = [pc EXCEPT ![t] = p]
  BY DEF Mutate, NoSlot, EnqueueBare, Return, Claiming, Arming
<1>3. job' = job \/ \E j : job' = [job EXCEPT ![t] = j]
  <2>1. CASE EnqueueBare(t)
    <3>1. job' = [job EXCEPT ![t] = [job[t] EXCEPT !.hit = NewHit]]
      BY <2>1 DEF EnqueueBare, Push
    <3>2. QED
      BY <3>1
  <2>2. CASE Mutate(t, w, s, mode) \/ NoSlot(t)
    BY <2>2 DEF Mutate, NoSlot, Return
  <2>3. QED
    BY <2>1, <2>2
<1>4. \A h \in hitQueue' : h \in hitQueue \/ locs[h] = {}
  <2>1. CASE EnqueueBare(t)
    <3>1. hitQueue' = hitQueue \cup {NewHit} /\ locs[NewHit] = {}
      BY <2>1, NewHitFacts DEF EnqueueBare, Push, Shape
    <3>2. QED
      BY <3>1
  <2>2. CASE Mutate(t, w, s, mode) \/ NoSlot(t)
    BY <2>2 DEF Mutate, NoSlot
  <2>3. QED
    BY <2>1, <2>2
<1>5. \A p \in {"target", "bare", "run", "suspend"} : p \notin Claiming
  BY DEF Claiming, Arming
<1>6. QED
  BY <1>1, <1>2, <1>3, <1>4, <1>5, IdleClaims DEF Keeps

\* A thread whose targets are there before and after a step.
LEMMA SameTargets ==
  ASSUME Shape, NEW t \in Threads, NEW p, p \in Claiming <=> pc[t] \in Claiming,
         pc' = [pc EXCEPT ![t] = p],
         NEW j, job' = [job EXCEPT ![t] = j], j.targets = job[t].targets
  PROVE  \A u \in Threads : Claims(u)' = Claims(u)
<1>1. pc'[t] = p /\ job'[t] = j
  BY DEF Shape, Threading
<1>2. Claims(t)' = Claims(t)
  BY <1>1, ClaimsDef, ClaimsDefNext
<1>3. QED
  BY <1>2, OthersClaims

LEMMA ByBytecodeEffect ==
  ASSUME Shape, NEW t \in Threads, TargetByBytecode(t) PROVE Keeps \/ Takes
<1> DEFINE c == job[t].stack[1].code
           slot == <<c, job[t].cand>>
<1>1. UNCHANGED <<locs, raced, hitQueue>> /\ pc[t] = "target" /\ job[t].cand # 0
  BY DEF TargetByBytecode
<1>2. /\ job[t] \in Job /\ job[t].stack \in Stacks /\ job[t].targets = << >>
      /\ job[t].cand \in Lines \cup {0}
  BY <1>1, TargetJob
<1>3. slot \in Slots
  BY <1>1, <1>2, FirstFrame, FrameType DEF Slots
<1>4. Claims(t) = {}
  BY <1>1, ClaimsDef DEF Claiming, Arming
<1> HIDE DEF slot, c
<1>5. CASE slot \in UsedSlots
  <2> DEFINE j == [job[t] EXCEPT !.cand = NextLine[c][@]]
  <2>1. job' = [job EXCEPT ![t] = j] /\ UNCHANGED <<pc, reserved>>
    BY <1>5 DEF TargetByBytecode, slot, c
  <2>2. j.targets = job[t].targets /\ pc' = [pc EXCEPT ![t] = pc[t]]
    BY <1>2, <2>1 DEF Job, Shape, Threading
  <2> HIDE DEF j
  <2>3. \A u \in Threads : Claims(u)' = Claims(u)
    BY <2>1, <2>2, SameTargets
  <2>4. QED
    BY <1>1, <2>1, <2>3 DEF Keeps
<1>6. CASE slot \notin UsedSlots
  <2> DEFINE q == Append(<< >>, slot)
             j == [job[t] EXCEPT !.targets = q]
  <2>1. /\ job' = [job EXCEPT ![t] = j] /\ reserved' = reserved \cup {slot}
        /\ pc' = [pc EXCEPT ![t] = "safety"]
    BY <1>2, <1>6 DEF TargetByBytecode, Reserve, slot, c
  <2>2. /\ {q[i] : i \in DOMAIN q} = {slot}
        /\ j.targets = q /\ pc'[t] = "safety" /\ job'[t] = j
    BY <1>2, <2>1 DEF Job, Shape, Threading
  <2> HIDE DEF j, q
  <2>3. Claims(t)' = {slot}
    BY <2>2, ClaimsDefNext DEF Claiming
  <2>4. \A u \in Threads \ {t} : Claims(u)' = Claims(u)
    BY <2>1, OthersClaims
  <2>5. slot \in Slots \ UsedSlots /\ Claims(t)' = Claims(t) \cup {slot}
    BY <1>3, <1>4, <1>6, <2>3
  <2>6. QED
    BY <1>1, <2>1, <2>4, <2>5 DEF Takes
<1>7. QED
  BY <1>5, <1>6

LEMMA ByLineEffect ==
  ASSUME Shape, NEW t \in Threads, TargetByLine(t) PROVE Keeps \/ Takes
<1> DEFINE i == job[t].frame
           c == job[t].stack[i].code
           a == SearchAfter(job[t], i)
<1>1. UNCHANGED <<locs, raced, hitQueue>> /\ pc[t] = "target"
  BY DEF TargetByLine
<1>2. /\ job[t] \in Job /\ job[t].stack \in Stacks /\ job[t].targets = << >>
      /\ i \in DOMAIN job[t].stack
  BY <1>1, TargetJob
<1>3. c \in Codes /\ a \in Lines \cup {0}
  BY <1>2, FrameType, SearchAfterType
<1>4. Claims(t) = {}
  BY <1>1, ClaimsDef DEF Claiming, Arming
<1>5. PICK m \in Latest(UsedLines(c) \cup {a}) :
        IF NextLine[c][m] # 0
        THEN /\ Reserve(t, <<c, NextLine[c][m]>>)
             /\ pc' = [pc EXCEPT ![t] = "safety"]
        ELSE /\ IF i < Len(job[t].stack)
                THEN /\ job' = [job EXCEPT ![t].frame = i + 1]
                     /\ UNCHANGED pc
                ELSE /\ pc' = [pc EXCEPT ![t] = "safety"]
                     /\ UNCHANGED job
             /\ UNCHANGED reserved
  BY DEF TargetByLine
<1> DEFINE slot == <<c, NextLine[c][m]>>
<1>6. NextLine[c][m] # 0 => slot \in Slots \ UsedSlots
  BY <1>3, ChosenLine DEF Shape
<1> HIDE DEF c, a
<1>7. CASE NextLine[c][m] # 0
  <2> DEFINE q == Append(<< >>, slot)
             j == [job[t] EXCEPT !.targets = q]
  <2>1. /\ job' = [job EXCEPT ![t] = j] /\ reserved' = reserved \cup {slot}
        /\ pc' = [pc EXCEPT ![t] = "safety"]
    BY <1>2, <1>5, <1>7 DEF Reserve
  <2> HIDE DEF slot
  <2>2. /\ {q[k] : k \in DOMAIN q} = {slot}
        /\ j.targets = q /\ pc'[t] = "safety" /\ job'[t] = j
    BY <1>2, <2>1 DEF Job, Shape, Threading
  <2> HIDE DEF j, q
  <2>3. Claims(t)' = {slot}
    BY <2>2, ClaimsDefNext DEF Claiming
  <2>4. \A u \in Threads \ {t} : Claims(u)' = Claims(u)
    BY <2>1, OthersClaims
  <2>5. slot \in Slots \ UsedSlots /\ Claims(t)' = Claims(t) \cup {slot}
    BY <1>4, <1>6, <1>7, <2>3
  <2>6. QED
    BY <1>1, <2>1, <2>4, <2>5 DEF Takes
<1>8. CASE NextLine[c][m] = 0
  <2>1. UNCHANGED reserved
    BY <1>5, <1>8
  <2>2. \E p \in {"target", "safety"} : \E j :
          /\ pc' = [pc EXCEPT ![t] = p] /\ job' = [job EXCEPT ![t] = j]
          /\ j.targets = << >>
    <3>1. CASE i < Len(job[t].stack)
      <4> DEFINE j == [job[t] EXCEPT !.frame = i + 1]
      <4>1. job' = [job EXCEPT ![t] = j] /\ UNCHANGED pc
        BY <1>5, <1>8, <3>1
      <4>2. j.targets = << >>
        BY <1>2 DEF Job
      <4>3. pc' = [pc EXCEPT ![t] = "target"]
        BY <1>1, <4>1 DEF Shape, Threading
      <4>4. QED
        BY <4>1, <4>2, <4>3
    <3>2. CASE ~ (i < Len(job[t].stack))
      <4>1. pc' = [pc EXCEPT ![t] = "safety"] /\ UNCHANGED job
        BY <1>5, <1>8, <3>2
      <4>2. job' = [job EXCEPT ![t] = job[t]]
        BY <4>1 DEF Shape, Threading
      <4>3. QED
        BY <1>2, <4>1, <4>2
    <3>3. QED
      BY <3>1, <3>2
  <2>3. PICK p \in {"target", "safety"} : \E j :
          /\ pc' = [pc EXCEPT ![t] = p] /\ job' = [job EXCEPT ![t] = j]
          /\ j.targets = << >>
    BY <2>2
  <2> PICK j : /\ pc' = [pc EXCEPT ![t] = p] /\ job' = [job EXCEPT ![t] = j]
               /\ j.targets = << >>
    BY <2>3
  <2>4. job'[t].targets = << >>
    BY DEF Shape, Threading
  <2>5. Claims(t)' = {}
    BY <2>4, ClaimsDefNext, NoTargetsClaims
  <2>6. \A u \in Threads : Claims(u)' = Claims(u)
    BY <1>4, <2>3, <2>5, OthersClaims
  <2>7. QED
    BY <1>1, <2>1, <2>6 DEF Keeps
<1>9. QED
  BY <1>7, <1>8

LEMMA SafetyEffect ==
  ASSUME Shape, NEW t \in Threads, TargetSafety(t) PROVE Keeps \/ Takes
<1>1. UNCHANGED <<locs, raced, hitQueue>> /\ pc[t] = "safety"
  BY DEF TargetSafety
<1>2. job[t] \in Job /\ job[t].targets \in Seq(Slots)
  BY <1>1, ClaimingJob DEF Claiming
<1> DEFINE Held == {job[t].targets[i] : i \in DOMAIN job[t].targets}
<1>3. Claims(t) = Held
  BY <1>1, ClaimsDef DEF Claiming
<1>4. CASE /\ UNCHANGED <<job, reserved>>
           /\ pc' = [pc EXCEPT ![t] = IF job[t].targets = << >> THEN "noslot"
                                      ELSE "enqueue"]
  <2>1. Claims(t)' = Held
    <3>1. CASE job[t].targets = << >>
      <4>1. job'[t].targets = << >>
        BY <1>4, <3>1
      <4>2. QED
        BY <3>1, <4>1, ClaimsDefNext, NoTargetsClaims
    <3>2. CASE job[t].targets # << >>
      <4>1. pc'[t] = "enqueue" /\ job'[t] = job[t]
        BY <1>4, <3>2 DEF Shape, Threading
      <4>2. QED
        BY <4>1, ClaimsDefNext DEF Claiming
    <3>3. QED
      BY <3>1, <3>2
  <2>2. \A u \in Threads : Claims(u)' = Claims(u)
    BY <1>3, <1>4, <2>1, OthersClaims
  <2>3. QED
    BY <1>1, <1>4, <2>2 DEF Keeps
<1>5. ASSUME NEW slot \in Slots \ UsedSlots,
             reserved' = reserved \cup {slot},
             job' = [job EXCEPT ![t].targets = Append(@, slot)],
             pc' = [pc EXCEPT ![t] = "enqueue"]
      PROVE  Takes
  <2> DEFINE q == Append(job[t].targets, slot)
             j == [job[t] EXCEPT !.targets = q]
  <2>1. {q[i] : i \in DOMAIN q} = Held \cup {slot}
    BY <1>2, AppendTargets
  <2>2. job' = [job EXCEPT ![t] = j]
    BY <1>5
  <2> HIDE DEF q
  <2>3. j.targets = q /\ pc'[t] = "enqueue" /\ job'[t] = j
    BY <1>2, <1>5, <2>2 DEF Job, Shape, Threading
  <2> HIDE DEF j
  <2>4. Claims(t)' = Claims(t) \cup {slot}
    BY <1>3, <2>1, <2>3, ClaimsDefNext DEF Claiming
  <2>5. \A u \in Threads \ {t} : Claims(u)' = Claims(u)
    BY <1>5, <2>2, OthersClaims
  <2>6. QED
    BY <1>1, <1>5, <2>4, <2>5 DEF Takes
<1>6. QED
  BY <1>4, <1>5, SafetyStep

LEMMA ArmingKeeps ==
  ASSUME Shape, NEW t \in Threads, Enqueue(t) \/ Install(t) \/ InstallFails(t)
  PROVE  Keeps
<1>1. /\ UNCHANGED <<reserved, locs, raced>>
      /\ pc[t] \in {"enqueue", "install"}
      /\ \E p \in {"install", "record", "release"} : pc' = [pc EXCEPT ![t] = p]
  BY DEF Enqueue, Install, InstallFails
<1>2. job[t] \in Job
  BY DEF Shape, Threading
<1>3. \E j : job' = [job EXCEPT ![t] = j] /\ j.targets = job[t].targets
  <2>1. CASE Enqueue(t)
    <3> DEFINE j == [job[t] EXCEPT !.hit = NewHit]
    <3>1. job' = [job EXCEPT ![t] = j] /\ j.targets = job[t].targets
      BY <1>2, <2>1 DEF Enqueue, Push, Job
    <3>2. QED
      BY <3>1
  <2>2. CASE Install(t) \/ InstallFails(t)
    <3>1. job' = [job EXCEPT ![t] = job[t]]
      BY <2>2 DEF Install, InstallFails, Shape, Threading
    <3>2. QED
      BY <3>1
  <2>3. QED
    BY <2>1, <2>2
<1>4. \A u \in Threads : Claims(u)' = Claims(u)
  <2>1. \A p \in {"enqueue", "install", "record", "release"} : p \in Claiming
    BY DEF Claiming, Arming
  <2>2. QED
    BY <1>1, <1>3, <2>1, SameTargets
<1>5. \A h \in hitQueue' : h \in hitQueue \/ locs[h] = {}
  <2>1. CASE Enqueue(t)
    <3>1. hitQueue' \subseteq hitQueue \cup {NewHit}
      BY <2>1 DEF Enqueue, Push, Trimmed
    <3>2. locs[NewHit] = {}
      BY <2>1, NewHitFacts DEF Enqueue, Push, Shape
    <3>3. QED
      BY <3>1, <3>2
  <2>2. CASE Install(t) \/ InstallFails(t)
    BY <2>2 DEF Install, InstallFails
  <2>3. QED
    BY <2>1, <2>2
<1>6. QED
  BY <1>1, <1>4, <1>5 DEF Keeps

LEMMA RecordGives ==
  ASSUME Shape, NEW t \in Threads, Record(t) \/ Release(t) PROVE Gives
<1> DEFINE slot == Head(job[t].targets)
           h == job[t].hit
<1>1. /\ UNCHANGED <<raced, hitQueue>>
      /\ pc[t] \in {"record", "release"}
      /\ reserved' = reserved \ {slot}
      /\ locs' = locs \/ locs' = [locs EXCEPT ![h] = @ \cup {slot}]
      /\ \E got \in BOOLEAN : NextTarget(t, got)
  <2>1. CASE Record(t)
    BY <2>1 DEF Record
  <2>2. CASE Release(t)
    <3>1. job[t].got \in BOOLEAN
      BY DEF Shape, Threading, Job
    <3>2. QED
      BY <2>2, <3>1 DEF Release
  <2>3. QED
    BY <2>1, <2>2
<1>2. /\ job[t].targets \in Seq(Slots) /\ job[t].targets # << >>
      /\ Distinct(job[t].targets) /\ h \in Used
  BY <1>1, ClaimingJob DEF Claiming, Arming
<1>3. h \in Hits
  BY <1>2, PipelineAssumption DEF PipelineAssumption, Shape, Tables, Used, Hits
<1> DEFINE Held == {job[t].targets[i] : i \in DOMAIN job[t].targets}
           rest == Tail(job[t].targets)
<1>4. Claims(t) = Held
  BY <1>1, ClaimsDef DEF Claiming, Arming
<1>5. {rest[i] : i \in DOMAIN rest} = Held \ {slot} /\ slot \in Held
  BY <1>2, TailTargets
<1> HIDE DEF slot, h, Held
<1>6. PICK p \in {"run", "suspend", "install"}, j \in Job :
        /\ pc' = [pc EXCEPT ![t] = p] /\ job' = [job EXCEPT ![t] = j]
        /\ p = "install" => j.targets = rest
        /\ p # "install" => rest = << >>
  BY <1>1, NextTargetStep
<1>7. pc'[t] = p /\ job'[t] = j
  BY <1>6 DEF Shape, Threading
<1>8. Claims(t)' = {rest[i] : i \in DOMAIN rest}
  <2>1. CASE p = "install"
    <3>1. pc'[t] \in Claiming /\ job'[t].targets = rest
      BY <1>6, <1>7, <2>1 DEF Claiming, Arming
    <3> HIDE DEF rest
    <3>2. QED
      BY <3>1, ClaimsDefNext
  <2>2. CASE p # "install"
    BY <1>6, <1>7, <2>2, ClaimsDefNext, NoTargetsClaims DEF Claiming, Arming
  <2>3. QED
    BY <2>1, <2>2
<1>9. \A u \in Threads \ {t} : Claims(u)' = Claims(u)
  BY <1>6, OthersClaims
<1>10. Claims(t)' = Claims(t) \ {slot} /\ slot \in Claims(t)
  BY <1>4, <1>5, <1>8
<1>11. QED
  BY <1>1, <1>3, <1>9, <1>10 DEF Gives

LEMMA ClearDrops ==
  ASSUME Shape, NEW t \in Threads, Clear(t) PROVE Drops
<1>1. /\ pc[t] \notin Claiming /\ "undo" \notin Claiming
      /\ pc' = [pc EXCEPT ![t] = "undo"]
      /\ reserved' = {} /\ hitQueue' = {} /\ locs' = locs /\ job' = job
      /\ raced' = (raced \/ reserved # {})
  BY DEF Clear, Claiming, Arming
<1>2. QED
  BY <1>1, IdleClaims DEF Drops

\* Every step has one of the four effects.
LEMMA Effects ==
  ASSUME Shape, [Next]_vars PROVE Keeps \/ Takes \/ Gives \/ Drops
<1>1. CASE UNCHANGED vars
  <2>1. UNCHANGED <<pc, job, hitQueue, locs, reserved, raced>>
    BY <1>1 DEF vars
  <2>2. \A u \in Threads : Claims(u)' = Claims(u)
    BY <2>1, ClaimsDef, ClaimsDefNext
  <2>3. QED
    BY <2>1, <2>2 DEF Keeps
<1>2. ASSUME NEW t \in Threads, NEW w \in Watches, NEW s \in Stacks,
             NEW mode \in {"at", "before", "other"}, Mutate(t, w, s, mode)
      PROVE  Keeps
  BY <1>2, EnteringKeeps
<1>3. ASSUME NEW t \in Threads, NEW slot \in Slots,
             PydevdPause(t, slot) \/ Fire(t, slot)
      PROVE  Keeps
  BY <1>3, PausingKeeps
<1>4. ASSUME NEW t \in Threads,
             \/ TargetByBytecode(t) \/ TargetByLine(t) \/ TargetSafety(t)
             \/ NoSlot(t) \/ EnqueueBare(t) \/ Enqueue(t) \/ Install(t)
             \/ InstallFails(t) \/ Record(t) \/ Release(t)
      PROVE  Keeps \/ Takes \/ Gives
  BY <1>4, ByBytecodeEffect, ByLineEffect, SafetyEffect, EnteringKeeps,
     ArmingKeeps, RecordGives
<1>5. ASSUME NEW t \in Threads,
             \/ Suspend(t) \/ SuspendFails(t) \/ PassBy(t) \/ DirectPause(t)
             \/ Disarm(t) \/ Undo(t) \/ Consume(t) \/ ConsumeAll(t) \/ Clear(t)
             \/ Resume(t)
      PROVE  Keeps \/ Drops
  BY <1>5, PausingKeeps, ReturningKeeps, ClearDrops
<1>6. QED
  BY <1>1, <1>2, <1>3, <1>4, <1>5 DEF Next

-----------------------------------------------------------------------------
(* Slots have one owner.                                                    *)

\* Until clear_watches() interferes, what is claimed is reserved: the choice of
\* another thread sees it.
ClaimsReserved == ~ raced => \A t \in Threads : Claims(t) \subseteq reserved

Leased ==
  raced \in BOOLEAN /\ ReservationsReleased /\ ClaimsReserved /\ SlotExclusive

LEMMA KeepsLeased == ASSUME Leased, Keeps PROVE Leased'
<1>1. ReservationsReleased'
  BY DEF Leased, Keeps, ReservationsReleased
<1>2. ClaimsReserved'
  BY DEF Leased, Keeps, ClaimsReserved
<1>3. SlotExclusive'
  <2> SUFFICES ASSUME ~ raced'
               PROVE  /\ \A g, h \in hitQueue' : g # h => locs'[g] \cap locs'[h] = {}
                      /\ \A t \in Threads, h \in hitQueue' :
                           Claims(t)' \cap locs'[h] = {}
                      /\ \A t, u \in Threads : t # u => Claims(t)' \cap Claims(u)' = {}
    BY DEF SlotExclusive
  <2>1. /\ \A g, h \in hitQueue : g # h => locs[g] \cap locs[h] = {}
        /\ \A t \in Threads, h \in hitQueue : Claims(t) \cap locs[h] = {}
        /\ \A t, u \in Threads : t # u => Claims(t) \cap Claims(u) = {}
    BY DEF Leased, SlotExclusive, Keeps
  <2>2. QED
    BY <2>1 DEF Keeps
<1>4. raced' \in BOOLEAN
  BY DEF Leased, Keeps
<1>5. QED
  BY <1>1, <1>2, <1>3, <1>4 DEF Leased

LEMMA TakesLeased == ASSUME Leased, Takes PROVE Leased'
<1>1. PICK t \in Threads, slot \in Slots \ UsedSlots :
        /\ Claims(t)' = Claims(t) \cup {slot}
        /\ \A u \in Threads \ {t} : Claims(u)' = Claims(u)
        /\ reserved' = reserved \cup {slot}
        /\ UNCHANGED <<locs, raced, hitQueue>>
  BY DEF Takes
<1>2. slot \notin reserved /\ \A h \in hitQueue : slot \notin locs[h]
  BY DEF UsedSlots
<1>3. ReservationsReleased'
  BY <1>1 DEF Leased, ReservationsReleased
<1>4. ClaimsReserved'
  BY <1>1 DEF Leased, ClaimsReserved
<1>5. SlotExclusive'
  <2> SUFFICES ASSUME ~ raced'
               PROVE  /\ \A g, h \in hitQueue' : g # h => locs'[g] \cap locs'[h] = {}
                      /\ \A u \in Threads, h \in hitQueue' :
                           Claims(u)' \cap locs'[h] = {}
                      /\ \A u, v \in Threads : u # v => Claims(u)' \cap Claims(v)' = {}
    BY DEF SlotExclusive
  <2>1. /\ \A g, h \in hitQueue : g # h => locs[g] \cap locs[h] = {}
        /\ \A u \in Threads, h \in hitQueue : Claims(u) \cap locs[h] = {}
        /\ \A u, v \in Threads : u # v => Claims(u) \cap Claims(v) = {}
        /\ \A u \in Threads : slot \notin Claims(u)
    BY <1>1, <1>2 DEF Leased, SlotExclusive, ClaimsReserved
  <2>2. \A u \in Threads, h \in hitQueue : Claims(u)' \cap locs[h] = {}
    BY <1>1, <1>2, <2>1
  <2>3. \A u, v \in Threads : u # v => Claims(u)' \cap Claims(v)' = {}
    BY <1>1, <2>1
  <2>4. QED
    BY <1>1, <2>1, <2>2, <2>3
<1>6. raced' \in BOOLEAN
  BY DEF Leased, Takes
<1>7. QED
  BY <1>3, <1>4, <1>5, <1>6 DEF Leased

LEMMA GivesLeased == ASSUME Leased, Shape, Gives PROVE Leased'
<1>1. PICK t \in Threads : \E slot \in Claims(t), h \in Hits :
        /\ Claims(t)' = Claims(t) \ {slot}
        /\ \A u \in Threads \ {t} : Claims(u)' = Claims(u)
        /\ reserved' = reserved \ {slot}
        /\ locs' = locs \/ locs' = [locs EXCEPT ![h] = @ \cup {slot}]
        /\ UNCHANGED <<raced, hitQueue>>
  BY DEF Gives
<1>2. PICK slot \in Claims(t), h \in Hits :
        /\ Claims(t)' = Claims(t) \ {slot}
        /\ \A u \in Threads \ {t} : Claims(u)' = Claims(u)
        /\ reserved' = reserved \ {slot}
        /\ locs' = locs \/ locs' = [locs EXCEPT ![h] = @ \cup {slot}]
        /\ UNCHANGED <<raced, hitQueue>>
  BY <1>1
<1>3. ReservationsReleased'
  BY <1>2 DEF Leased, ReservationsReleased
<1>4. ASSUME ~ raced'
      PROVE  /\ \A u \in Threads : Claims(u) \subseteq reserved
             /\ \A g, k \in hitQueue : g # k => locs[g] \cap locs[k] = {}
             /\ \A u \in Threads, k \in hitQueue : Claims(u) \cap locs[k] = {}
             /\ \A u, v \in Threads : u # v => Claims(u) \cap Claims(v) = {}
  BY <1>2, <1>4 DEF Leased, SlotExclusive, ClaimsReserved
<1>5. ClaimsReserved'
  BY <1>2, <1>4 DEF ClaimsReserved
<1>6. \A k \in hitQueue : locs'[k] = locs[k] \/ (k = h /\ locs'[k] = locs[k] \cup {slot})
  <2>1. \A k \in hitQueue : k \in Hits
    BY PipelineAssumption DEF Shape, Tables, Used, Hits, PipelineAssumption
  <2>2. locs \in [Hits -> SUBSET Slots]
    BY DEF Shape, Tables
  <2>3. QED
    BY <1>2, <2>1, <2>2
<1>7. SlotExclusive'
  <2> SUFFICES ASSUME ~ raced'
               PROVE  /\ \A g, k \in hitQueue' : g # k => locs'[g] \cap locs'[k] = {}
                      /\ \A u \in Threads, k \in hitQueue' :
                           Claims(u)' \cap locs'[k] = {}
                      /\ \A u, v \in Threads : u # v => Claims(u)' \cap Claims(v)' = {}
    BY DEF SlotExclusive
  <2>1. \A k \in hitQueue : slot \notin locs[k]
    BY <1>2, <1>4
  <2>2. \A g, k \in hitQueue : g # k => locs'[g] \cap locs'[k] = {}
    BY <1>4, <1>6, <2>1
  <2>3. \A u \in Threads : slot \notin Claims(u)' /\ Claims(u)' \subseteq Claims(u)
    BY <1>2, <1>4
  <2>4. \A u \in Threads, k \in hitQueue : Claims(u)' \cap locs'[k] = {}
    BY <1>4, <1>6, <2>3
  <2>5. \A u, v \in Threads : u # v => Claims(u)' \cap Claims(v)' = {}
    BY <1>4, <2>3
  <2>6. QED
    BY <1>2, <2>2, <2>4, <2>5
<1>8. raced' \in BOOLEAN
  BY DEF Leased, Gives
<1>9. QED
  BY <1>3, <1>5, <1>7, <1>8 DEF Leased

LEMMA DropsLeased == ASSUME Leased, Drops PROVE Leased'
<1>1. ReservationsReleased'
  BY DEF Drops, ReservationsReleased
<1>2. ASSUME ~ raced' PROVE \A t \in Threads : Claims(t)' = {}
  BY <1>2 DEF Leased, Drops, ClaimsReserved
<1>3. ClaimsReserved' /\ SlotExclusive'
  BY <1>2 DEF Drops, ClaimsReserved, SlotExclusive
<1>4. raced' \in BOOLEAN
  BY DEF Leased, Drops
<1>5. QED
  BY <1>1, <1>3, <1>4 DEF Leased

LEMMA NextLeased == ASSUME Shape, Leased, [Next]_vars PROVE Leased'
BY Effects, KeepsLeased, TakesLeased, GivesLeased, DropsLeased

LEMMA InitLeased == ASSUME Init PROVE Leased
<1>1. \A t \in Threads : Claims(t) = {}
  BY ClaimsDef DEF Init, Claiming, Arming
<1>2. QED
  BY <1>1 DEF Init, Leased, ReservationsReleased, ClaimsReserved, SlotExclusive

-----------------------------------------------------------------------------
(* HitPipeline implements SlotLease.                                        *)

LEMMA InitLease == ASSUME Init PROVE Lease!Init
<1>1. \A t \in Threads : Claimed(t) = {}
  BY ClaimsDef DEF Claimed, Init, Claiming, Arming
<1>2. \A h \in Hits : Owned(h) = {}
  BY DEF Owned, Init
<1>3. QED
  BY <1>1, <1>2 DEF Init, Lease!Init

\* What queued hits own when the queue changes.
LEMMA KeepsLease ==
  ASSUME Shape, Keeps PROVE [Lease!Next]_(Lease!vars)
<1> DEFINE gone == Hits \ hitQueue'
<1>1. \A t \in Threads : Claimed(t)' = Claimed(t)
  BY DEF Keeps, Claimed
<1>2. \A h \in Hits : Owned(h)' = IF h \in gone THEN {} ELSE Owned(h)
  BY DEF Keeps, Owned
<1> HIDE DEF gone
<1>3. gone \in SUBSET Hits /\ raced' = raced
  BY DEF gone, Keeps
<1>4. Lease!Drop(gone)
  BY <1>1, <1>2, <1>3 DEF Lease!Drop
<1>5. QED
  BY <1>3, <1>4 DEF Lease!Next

LEMMA TakesLease ==
  ASSUME Shape, Leased, Takes PROVE [Lease!Next]_(Lease!vars)
<1>1. PICK t \in Threads, slot \in Slots \ UsedSlots :
        /\ Claims(t)' = Claims(t) \cup {slot}
        /\ \A u \in Threads \ {t} : Claims(u)' = Claims(u)
        /\ UNCHANGED <<locs, raced, hitQueue>>
  BY DEF Takes
<1>2. \A h \in Hits : Owned(h)' = Owned(h)
  BY <1>1 DEF Owned
<1>3. CASE raced
  <2>1. \A u \in Threads : Claimed(u)' = Claimed(u)
    BY <1>1, <1>3 DEF Claimed
  <2>2. QED
    BY <1>1, <1>2, <2>1 DEF Lease!vars
<1>4. CASE ~ raced
  <2>1. slot \notin reserved /\ \A h \in hitQueue : slot \notin locs[h]
    BY <1>1 DEF UsedSlots
  <2>2. /\ \A u \in Threads : slot \notin Claimed(u)
        /\ \A h \in Hits : slot \notin Owned(h)
    BY <1>4, <2>1 DEF Leased, ClaimsReserved, Claimed, Owned
  <2>3. /\ Claimed(t)' = Claimed(t) \cup {slot}
        /\ \A u \in Threads \ {t} : Claimed(u)' = Claimed(u)
    BY <1>1, <1>4 DEF Claimed
  <2>4. Lease!Claim(t, slot)
    BY <1>1, <1>2, <1>4, <2>2, <2>3 DEF Lease!Claim, Lease!Taken
  <2>5. QED
    BY <2>4 DEF Lease!Next
<1>5. QED
  BY <1>3, <1>4

LEMMA GivesLease ==
  ASSUME Shape, Leased, Gives PROVE [Lease!Next]_(Lease!vars)
<1>1. PICK t \in Threads : \E slot \in Claims(t), h \in Hits :
        /\ Claims(t)' = Claims(t) \ {slot}
        /\ \A u \in Threads \ {t} : Claims(u)' = Claims(u)
        /\ locs' = locs \/ locs' = [locs EXCEPT ![h] = @ \cup {slot}]
        /\ UNCHANGED <<raced, hitQueue>>
  BY DEF Gives
<1>2. PICK slot \in Claims(t), h \in Hits :
        /\ Claims(t)' = Claims(t) \ {slot}
        /\ \A u \in Threads \ {t} : Claims(u)' = Claims(u)
        /\ locs' = locs \/ locs' = [locs EXCEPT ![h] = @ \cup {slot}]
        /\ UNCHANGED <<raced, hitQueue>>
  BY <1>1
<1>3. CASE raced
  <2>1. \A u \in Threads : Claimed(u)' = Claimed(u)
    BY <1>2, <1>3 DEF Claimed
  <2>2. \A k \in Hits : Owned(k)' = Owned(k)
    BY <1>2, <1>3 DEF Owned
  <2>3. QED
    BY <1>2, <2>1, <2>2 DEF Lease!vars
<1>4. CASE ~ raced
  <2>1. slot \in Claimed(t) /\ slot \in Slots
    <3>1. Claims(t) \subseteq reserved /\ reserved \subseteq Slots
      BY <1>4 DEF Leased, ClaimsReserved, Shape, Tables
    <3>2. QED
      BY <1>4, <3>1 DEF Claimed
  <2>2. /\ Claimed(t)' = Claimed(t) \ {slot}
        /\ \A u \in Threads \ {t} : Claimed(u)' = Claimed(u)
    BY <1>2, <1>4 DEF Claimed
  <2>3. locs \in [Hits -> SUBSET Slots]
    BY DEF Shape, Tables
  <2>4. CASE locs' = [locs EXCEPT ![h] = @ \cup {slot}] /\ h \in hitQueue
    <3>1. /\ Owned(h)' = Owned(h) \cup {slot}
          /\ \A k \in Hits \ {h} : Owned(k)' = Owned(k)
      BY <1>2, <1>4, <2>3, <2>4 DEF Owned
    <3>2. Lease!Settle(t, slot, h)
      BY <1>2, <2>1, <2>2, <3>1 DEF Lease!Settle
    <3>3. QED
      BY <2>1, <3>2 DEF Lease!Next
  <2>5. CASE ~ (locs' = [locs EXCEPT ![h] = @ \cup {slot}] /\ h \in hitQueue)
    <3>1. \A k \in Hits : Owned(k)' = Owned(k)
      BY <1>2, <2>3, <2>5 DEF Owned
    <3>2. Lease!Release(t, slot)
      BY <1>2, <2>1, <2>2, <3>1 DEF Lease!Release
    <3>3. QED
      BY <2>1, <3>2 DEF Lease!Next
  <2>6. QED
    BY <2>4, <2>5
<1>5. QED
  BY <1>3, <1>4

LEMMA DropsLease ==
  ASSUME Shape, Leased, Drops PROVE [Lease!Next]_(Lease!vars)
<1>1. \A h \in Hits : Owned(h)' = {}
  BY DEF Drops, Owned
<1>2. CASE raced'
  <2>1. \A t \in Threads : Claimed(t)' = {}
    BY <1>2 DEF Claimed
  <2>2. Lease!Revoke
    BY <1>1, <1>2, <2>1 DEF Lease!Revoke
  <2>3. QED
    BY <2>2 DEF Lease!Next
<1>3. CASE ~ raced'
  <2>1. ~ raced /\ raced' = raced /\ \A t \in Threads : Claimed(t)' = Claimed(t)
    BY <1>3 DEF Drops, Claimed, Leased
  <2>2. Lease!Drop(Hits)
    BY <1>1, <1>3, <2>1 DEF Lease!Drop
  <2>3. QED
    BY <2>2 DEF Lease!Next
<1>4. QED
  BY <1>2, <1>3

LEMMA NextLease ==
  ASSUME Shape, Leased, [Next]_vars PROVE [Lease!Next]_(Lease!vars)
BY Effects, KeepsLease, TakesLease, GivesLease, DropsLease

-----------------------------------------------------------------------------
(* A step is one thread's.                                                  *)

\* Only this thread moves.
Alone(t) ==
  \A u \in Threads \ {t} : /\ pc'[u] = pc[u] /\ job'[u] = job[u]
                           /\ undo'[u] = undo[u]

LEMMA ArmingAlone ==
  ASSUME Shape, NEW t \in Threads,
         \/ TargetByBytecode(t) \/ TargetByLine(t) \/ TargetSafety(t)
         \/ NoSlot(t) \/ EnqueueBare(t) \/ Enqueue(t) \/ Install(t)
         \/ InstallFails(t) \/ Record(t) \/ Release(t)
  PROVE  Alone(t)
<1>1. /\ pc \in [Threads -> Places] /\ job \in [Threads -> Job]
  BY DEF Shape, Threading
<1>2. CASE TargetByBytecode(t)
  BY <1>1, <1>2 DEF TargetByBytecode, Reserve, Alone
<1>3. CASE TargetByLine(t)
  BY <1>1, <1>3 DEF TargetByLine, Reserve, Alone
<1>4. CASE TargetSafety(t)
  BY <1>1, <1>4 DEF TargetSafety, Reserve, Alone
<1>5. CASE NoSlot(t) \/ EnqueueBare(t) \/ Enqueue(t)
  BY <1>1, <1>5 DEF NoSlot, EnqueueBare, Enqueue, Push, Return, Alone
<1>6. CASE Install(t) \/ InstallFails(t)
  BY <1>1, <1>6 DEF Install, InstallFails, Alone
<1>7. CASE Record(t) \/ Release(t)
  BY <1>1, <1>7 DEF Record, Release, NextTarget, Return, Alone
<1>8. QED
  BY <1>2, <1>3, <1>4, <1>5, <1>6, <1>7

LEMMA PausingAlone ==
  ASSUME Shape, NEW t \in Threads, NEW slot,
         \/ Suspend(t) \/ SuspendFails(t) \/ PassBy(t) \/ DirectPause(t)
         \/ Disarm(t) \/ Undo(t) \/ Consume(t) \/ ConsumeAll(t) \/ Clear(t)
         \/ Resume(t) \/ PydevdPause(t, slot) \/ Fire(t, slot)
  PROVE  Alone(t)
<1>1. /\ pc \in [Threads -> Places] /\ job \in [Threads -> Job]
      /\ undo \in [Threads -> SUBSET Bps]
  BY DEF Shape, Threading
<1>2. CASE Suspend(t) \/ SuspendFails(t) \/ PassBy(t) \/ DirectPause(t)
  BY <1>1, <1>2 DEF Suspend, SuspendFails, PassBy, DirectPause, Return, Alone
<1>3. CASE Resume(t) \/ PydevdPause(t, slot) \/ Fire(t, slot)
  BY <1>1, <1>3 DEF Resume, PydevdPause, Fire, Alone
<1>4. CASE Disarm(t) \/ Consume(t)
  BY <1>1, <1>4 DEF Disarm, Consume, Alone
<1>5. CASE Undo(t) \/ ConsumeAll(t) \/ Clear(t)
  BY <1>1, <1>5 DEF Undo, ConsumeAll, Clear, Alone
<1>6. QED
  BY <1>2, <1>3, <1>4, <1>5

LEMMA MutateAlone ==
  ASSUME Shape, NEW t \in Threads, NEW w, NEW s, NEW mode, Mutate(t, w, s, mode)
  PROVE  Alone(t)
BY DEF Shape, Threading, Mutate, Alone

-----------------------------------------------------------------------------
(* Breakpoints are tracked.                                                 *)

LEMMA MoveTracked ==
  ASSUME Shape, NoUntrackedBreakpoint, NEW t \in Threads, Alone(t),
         \A b \in pydevd' \ stray' :
           \/ b \in pydevd \ stray
           \/ /\ pc'[t] = "record"
              /\ b = Bp(Head(job'[t].targets), job'[t].watch),
         \A b \in pydevd' : b \in tempBps \cup undo[t] => b \in tempBps' \cup undo'[t],
         pc[t] = "record" => Bp(Head(job[t].targets), job[t].watch) \in tempBps'
  PROVE  NoUntrackedBreakpoint'
<1> SUFFICES ASSUME NEW b \in pydevd' \ stray'
             PROVE  \/ b \in tempBps'
                    \/ \E u \in Threads : b \in undo'[u]
                    \/ \E u \in Threads : /\ pc'[u] = "record"
                                          /\ b = Bp(Head(job'[u].targets), job'[u].watch)
  BY DEF NoUntrackedBreakpoint, Bp
<1>1. CASE /\ pc'[t] = "record"
           /\ b = Bp(Head(job'[t].targets), job'[t].watch)
  BY <1>1
<1>2. CASE b \in pydevd \ stray
  <2>1. CASE b \in tempBps
    BY <2>1
  <2>2. ASSUME NEW u \in Threads, b \in undo[u]
        PROVE  b \in tempBps' \/ \E v \in Threads : b \in undo'[v]
    <3>1. CASE u = t
      BY <2>2, <3>1
    <3>2. CASE u # t
      BY <2>2, <3>2 DEF Alone
    <3>3. QED
      BY <3>1, <3>2
  <2>3. ASSUME NEW u \in Threads, pc[u] = "record",
               b = Bp(Head(job[u].targets), job[u].watch)
        PROVE  \/ b \in tempBps'
               \/ \E v \in Threads : /\ pc'[v] = "record"
                                     /\ b = Bp(Head(job'[v].targets), job'[v].watch)
    BY <2>3 DEF Alone
  <2>4. QED
    BY <1>2, <2>1, <2>2, <2>3 DEF NoUntrackedBreakpoint
<1>3. QED
  BY <1>1, <1>2

\* A step that leaves the breakpoints alone.
LEMMA QuietTracked ==
  ASSUME Shape, NoUntrackedBreakpoint, NEW t \in Threads, Alone(t),
         pc[t] # "record", UNCHANGED <<pydevd, stray, tempBps, undo>>
  PROVE  NoUntrackedBreakpoint'
BY MoveTracked

LEMMA ArmingTracked ==
  ASSUME Shape, NoUntrackedBreakpoint, NEW t \in Threads,
         \/ TargetByBytecode(t) \/ TargetByLine(t) \/ TargetSafety(t)
         \/ NoSlot(t) \/ EnqueueBare(t) \/ Enqueue(t) \/ Install(t)
         \/ InstallFails(t) \/ Record(t) \/ Release(t)
  PROVE  NoUntrackedBreakpoint'
<1>1. Alone(t)
  BY ArmingAlone
<1>2. pc \in [Threads -> Places] /\ job \in [Threads -> Job]
  BY DEF Shape, Threading
<1>3. CASE \/ TargetByBytecode(t) \/ TargetByLine(t) \/ TargetSafety(t)
           \/ NoSlot(t) \/ EnqueueBare(t) \/ Enqueue(t) \/ Release(t)
  <2>1. pc[t] # "record" /\ UNCHANGED <<pydevd, stray, tempBps, undo>>
    BY <1>3 DEF TargetByBytecode, TargetByLine, TargetSafety, NoSlot, EnqueueBare,
       Enqueue, Release
  <2>2. QED
    BY <1>1, <2>1, QuietTracked
<1>4. CASE Install(t)
  <2>1. /\ pc'[t] = "record" /\ pc[t] # "record" /\ job' = job
        /\ pydevd' = pydevd \cup {Bp(Head(job[t].targets), job[t].watch)}
        /\ UNCHANGED <<stray, tempBps, undo>>
    BY <1>2, <1>4 DEF Install
  <2>2. QED
    BY <1>1, <2>1, MoveTracked
<1>5. CASE InstallFails(t)
  <2>1. pc[t] # "record" /\ UNCHANGED <<tempBps, undo>>
    BY <1>5 DEF InstallFails
  <2>2. pydevd' \ stray' \subseteq pydevd \ stray
    BY <1>5 DEF InstallFails
  <2>3. QED
    BY <1>1, <2>1, <2>2, MoveTracked
<1>6. CASE Record(t)
  <2>1. /\ tempBps' = tempBps \cup {Bp(Head(job[t].targets), job[t].watch)}
        /\ UNCHANGED <<pydevd, stray, undo>>
    BY <1>6 DEF Record
  <2>2. QED
    BY <1>1, <2>1, MoveTracked
<1>7. QED
  BY <1>3, <1>4, <1>5, <1>6

LEMMA PausingTracked ==
  ASSUME Shape, NoUntrackedBreakpoint, NEW t \in Threads, NEW slot,
         \/ Suspend(t) \/ SuspendFails(t) \/ PassBy(t) \/ DirectPause(t)
         \/ Disarm(t) \/ Undo(t) \/ Consume(t) \/ ConsumeAll(t) \/ Clear(t)
         \/ Resume(t) \/ PydevdPause(t, slot) \/ Fire(t, slot)
  PROVE  NoUntrackedBreakpoint'
<1>1. Alone(t)
  BY PausingAlone
<1>2. /\ pc \in [Threads -> Places] /\ undo \in [Threads -> SUBSET Bps]
      /\ pc[t] # "undo" => undo[t] = {}
  BY DEF Shape, Threading
<1>3. CASE \/ Suspend(t) \/ SuspendFails(t) \/ PassBy(t) \/ DirectPause(t)
           \/ Resume(t) \/ PydevdPause(t, slot) \/ Fire(t, slot)
  <2>1. pc[t] # "record" /\ UNCHANGED <<pydevd, stray, tempBps, undo>>
    BY <1>3 DEF Suspend, SuspendFails, PassBy, DirectPause, Resume, PydevdPause, Fire
  <2>2. QED
    BY <1>1, <2>1, QuietTracked
<1>4. CASE Disarm(t) \/ Consume(t) \/ ConsumeAll(t) \/ Clear(t)
  <2>1. /\ pc[t] \notin {"record", "undo"} /\ UNCHANGED <<pydevd, stray>>
        /\ \E gone : tempBps' = tempBps \ gone /\ tempBps \cap gone \subseteq undo'[t]
    <3>1. CASE Disarm(t)
      BY <1>2, <3>1 DEF Disarm, HitBps
    <3>2. CASE Consume(t)
      BY <1>2, <3>2 DEF Consume
    <3>3. CASE ConsumeAll(t) \/ Clear(t)
      <4>1. /\ pc[t] \notin {"record", "undo"} /\ UNCHANGED <<pydevd, stray>>
            /\ tempBps' = tempBps \ tempBps /\ undo'[t] = tempBps
        BY <1>2, <3>3 DEF ConsumeAll, Clear
      <4>2. QED
        BY <4>1
    <3>4. QED
      BY <1>4, <3>1, <3>2, <3>3
  <2>2. undo[t] = {}
    BY <1>2, <2>1
  <2>3. \A b \in pydevd' : b \in tempBps \cup undo[t] => b \in tempBps' \cup undo'[t]
    BY <2>1, <2>2
  <2>4. QED
    BY <1>1, <2>1, <2>3, MoveTracked
<1>5. CASE Undo(t)
  <2>1. /\ pc[t] = "undo" /\ pydevd' = pydevd \ undo[t]
        /\ UNCHANGED <<stray, tempBps>>
    BY <1>5 DEF Undo
  <2>2. QED
    BY <1>1, <2>1, MoveTracked
<1>6. QED
  BY <1>3, <1>4, <1>5

LEMMA NextTracked ==
  ASSUME Shape, NoUntrackedBreakpoint, [Next]_vars PROVE NoUntrackedBreakpoint'
<1>1. CASE UNCHANGED vars
  BY <1>1 DEF vars, NoUntrackedBreakpoint, Bp
<1>2. ASSUME NEW t \in Threads, NEW w \in Watches, NEW s \in Stacks,
             NEW mode \in {"at", "before", "other"}, Mutate(t, w, s, mode)
      PROVE  NoUntrackedBreakpoint'
  <2>1. pc[t] # "record" /\ UNCHANGED <<pydevd, stray, tempBps, undo>>
    BY <1>2 DEF Mutate
  <2>2. QED
    BY <1>2, <2>1, MutateAlone, QuietTracked
<1>3. ASSUME NEW t \in Threads, NEW slot \in Slots,
             PydevdPause(t, slot) \/ Fire(t, slot)
      PROVE  NoUntrackedBreakpoint'
  BY <1>3, PausingTracked
<1>4. ASSUME NEW t \in Threads,
             \/ TargetByBytecode(t) \/ TargetByLine(t) \/ TargetSafety(t)
             \/ NoSlot(t) \/ EnqueueBare(t) \/ Enqueue(t) \/ Install(t)
             \/ InstallFails(t) \/ Record(t) \/ Release(t)
      PROVE  NoUntrackedBreakpoint'
  BY <1>4, ArmingTracked
<1>5. ASSUME NEW t \in Threads,
             \/ Suspend(t) \/ SuspendFails(t) \/ PassBy(t) \/ DirectPause(t)
             \/ Disarm(t) \/ Undo(t) \/ Consume(t) \/ ConsumeAll(t) \/ Clear(t)
             \/ Resume(t)
      PROVE  NoUntrackedBreakpoint'
  BY <1>5, PausingTracked
<1>6. QED
  BY <1>1, <1>2, <1>3, <1>4, <1>5 DEF Next

-----------------------------------------------------------------------------
(* Armed pause targets have a hit.                                          *)

\* A hit that is being armed is queued, or has left the queue early.
ArmingOwned ==
  /\ early \subseteq Used
  /\ \A t \in Threads : pc[t] \in Arming => job[t].hit \in hitQueue \cup early

Targeted == PendingOwned /\ ArmingOwned

LEMMA UsedHits == ASSUME Shape PROVE Used \subseteq Hits
BY PipelineAssumption DEF PipelineAssumption, Shape, Tables, Used, Hits

LEMMA MoveTargeted ==
  ASSUME Shape, Targeted, NEW t \in Threads, Alone(t), early' \subseteq Used',
         \A h \in hitQueue \cup early :
           \/ h \in hitQueue' \cup early'
           \/ h \notin InFlight /\ locs[h] \cap pending' = {},
         \A h \in Hits : locs[h] \subseteq locs'[h],
         pc'[t] \in Arming =>
           \/ pc[t] \in Arming /\ job'[t].hit = job[t].hit
           \/ job'[t].hit \in hitQueue' \cup early',
         \A s \in pending' :
           \/ s \in pending
           \/ pc'[t] = "record" /\ s = Head(job'[t].targets),
         pc[t] = "record" =>
           \E h \in hitQueue' \cup early' : Head(job[t].targets) \in locs'[h]
  PROVE  Targeted'
<1>1. ArmingOwned'
  <2> SUFFICES ASSUME NEW u \in Threads, pc'[u] \in Arming
               PROVE  job'[u].hit \in hitQueue' \cup early'
    BY DEF ArmingOwned, Used
  <2>1. \/ pc[u] \in Arming /\ job'[u].hit = job[u].hit
        \/ job'[u].hit \in hitQueue' \cup early'
    BY DEF Alone
  <2>2. ASSUME pc[u] \in Arming
        PROVE  job[u].hit \in hitQueue' \cup early'
    <3>1. job[u].hit \in hitQueue \cup early
      BY <2>2 DEF Targeted, ArmingOwned
    <3>2. job[u].hit \in InFlight
      BY <2>2 DEF InFlight, Arming
    <3>3. QED
      BY <3>1, <3>2
  <2>3. QED
    BY <2>1, <2>2
<1>2. PendingOwned'
  <2> SUFFICES ASSUME NEW s \in pending'
               PROVE  \/ \E h \in hitQueue' \cup early' : s \in locs'[h]
                      \/ \E u \in Threads : pc'[u] = "record" /\ s = Head(job'[u].targets)
    BY DEF PendingOwned
  <2>1. ASSUME NEW h \in hitQueue \cup early, s \in locs[h]
        PROVE  \E g \in hitQueue' \cup early' : s \in locs'[g]
    <3>1. h \in Hits
      BY UsedHits DEF Targeted, ArmingOwned, Shape, Tables
    <3>2. QED
      BY <2>1, <3>1
  <2>2. ASSUME NEW u \in Threads, pc[u] = "record", s = Head(job[u].targets)
        PROVE  \/ \E h \in hitQueue' \cup early' : s \in locs'[h]
               \/ \E v \in Threads : pc'[v] = "record" /\ s = Head(job'[v].targets)
    BY <2>2 DEF Alone
  <2>3. QED
    BY <2>1, <2>2 DEF Targeted, PendingOwned
<1>3. QED
  BY <1>1, <1>2 DEF Targeted

\* A step that leaves the queue and its hits alone and arms nothing.
LEMMA QuietTargeted ==
  ASSUME Shape, Targeted, NEW t \in Threads, Alone(t), pc[t] # "record",
         UNCHANGED <<hitQueue, early, locs>>, left'.hits = left.hits,
         pending' \subseteq pending,
         pc'[t] \in Arming => pc[t] \in Arming /\ job'[t].hit = job[t].hit
  PROVE  Targeted'
<1>1. early' \subseteq Used'
  BY DEF Targeted, ArmingOwned, Used
<1>2. QED
  BY <1>1, MoveTargeted

\* Choosing targets and queueing nothing.
LEMMA ChoosingTargeted ==
  ASSUME Shape, Targeted, NEW t \in Threads,
         TargetByBytecode(t) \/ TargetByLine(t) \/ TargetSafety(t) \/ NoSlot(t)
  PROVE  Targeted'
<1>1. Alone(t)
  BY ArmingAlone
<1>2. /\ pc[t] # "record"
      /\ UNCHANGED <<hitQueue, early, locs, left, pending>>
  BY DEF TargetByBytecode, TargetByLine, TargetSafety, NoSlot
<1>3. pc'[t] \notin Arming
  BY DEF TargetByBytecode, TargetByLine, TargetSafety, NoSlot, Return, Shape,
     Threading, Arming
<1>4. QED
  BY <1>1, <1>2, <1>3, QuietTargeted

LEMMA EnqueueTargeted ==
  ASSUME Shape, Targeted, NEW t \in Threads, EnqueueBare(t) \/ Enqueue(t)
  PROVE  Targeted'
<1>1. Alone(t)
  BY ArmingAlone
<1>2. /\ left.hits > 0 /\ left' = [left EXCEPT !.hits = @ - 1]
      /\ job' = [job EXCEPT ![t].hit = NewHit]
      /\ pc[t] # "record" /\ UNCHANGED <<locs, pending>>
  BY DEF EnqueueBare, Enqueue, Push
<1>3. /\ Used' = Used \cup {NewHit} /\ NewHit \notin Used
      /\ \A h \in Used : h < NewHit
  BY <1>2, NewHitFacts DEF Shape
<1>4. job'[t].hit = NewHit
  BY <1>2 DEF Shape, Threading, Job
<1>5. hitQueue \subseteq Used /\ early \subseteq Used
  BY DEF Shape, Tables, Targeted, ArmingOwned
<1>6. early' \subseteq Used' /\ hitQueue \cup early \subseteq hitQueue' \cup early'
  BY <1>3, <1>5 DEF EnqueueBare, Enqueue, Push
<1>7. NewHit \in hitQueue'
  <2>1. CASE EnqueueBare(t)
    BY <2>1 DEF EnqueueBare, Push
  <2>2. CASE Enqueue(t)
    <3>1. Later(hitQueue \cup {NewHit}, NewHit) = {}
      <4>1. NewHit \in Nat /\ Used \subseteq Nat
        BY <1>2, NewHitFacts, PipelineAssumption DEF Used, Hits, Shape
      <4>2. \A h \in hitQueue \cup {NewHit} : ~ (h > NewHit)
        BY <1>3, <1>5, <4>1
      <4>3. QED
        BY <4>2 DEF Later
    <3>2. 0 < MaxQueue
      BY PipelineAssumption DEF PipelineAssumption
    <3>3. NewHit \in Trimmed(hitQueue \cup {NewHit})
      BY <3>1, <3>2, FS_EmptySet DEF Trimmed
    <3>4. QED
      BY <2>2, <3>3 DEF Enqueue, Push
  <2>3. QED
    BY <2>1, <2>2
<1>8. \A h \in Hits : locs[h] \subseteq locs'[h]
  BY <1>2
<1>9. QED
  BY <1>1, <1>2, <1>4, <1>6, <1>7, <1>8, MoveTargeted

LEMMA InstallTargeted ==
  ASSUME Shape, Targeted, NEW t \in Threads, Install(t) \/ InstallFails(t)
  PROVE  Targeted'
<1>1. Alone(t)
  BY ArmingAlone
<1>2. /\ pc[t] \in Arming /\ pc[t] # "record" /\ job' = job
      /\ UNCHANGED <<hitQueue, early, locs>> /\ left'.hits = left.hits
  BY FaultType DEF Install, InstallFails, Arming, Shape
<1>3. \A s \in pending' :
        \/ s \in pending
        \/ pc'[t] = "record" /\ s = Head(job'[t].targets)
  BY <1>2 DEF Install, InstallFails, Shape, Threading
<1>4. early' \subseteq Used'
  BY <1>2 DEF Targeted, ArmingOwned, Used
<1>5. QED
  BY <1>1, <1>2, <1>3, <1>4, MoveTargeted

LEMMA RecordTargeted ==
  ASSUME Shape, Targeted, NEW t \in Threads, Record(t) \/ Release(t)
  PROVE  Targeted'
<1>1. Alone(t)
  BY ArmingAlone
<1>2. /\ pc[t] \in Arming
      /\ UNCHANGED <<hitQueue, early, left, pending>>
      /\ \E got : NextTarget(t, got)
  BY DEF Record, Release, Arming
<1>3. pc'[t] \in Arming => job'[t].hit = job[t].hit
  <2>1. PICK got : NextTarget(t, got)
    BY <1>2
  <2>2. CASE Tail(job[t].targets) = << >> /\ got
    BY <2>1, <2>2 DEF NextTarget, Return, Shape, Threading, Arming
  <2>3. CASE ~ (Tail(job[t].targets) = << >> /\ got)
    BY <2>1, <2>3 DEF NextTarget, Shape, Threading, Job
  <2>4. QED
    BY <2>2, <2>3
<1>4. job[t].hit \in hitQueue \cup early /\ job[t].hit \in Hits
  BY <1>2, UsedHits DEF Targeted, ArmingOwned, Shape, Tables
<1>5. /\ \A h \in Hits : locs[h] \subseteq locs'[h]
      /\ pc[t] = "record" => Head(job[t].targets) \in locs'[job[t].hit]
  BY <1>4 DEF Record, Release, Shape, Tables
<1>6. early' \subseteq Used'
  BY <1>2 DEF Targeted, ArmingOwned, Used
<1>7. QED
  BY <1>1, <1>2, <1>3, <1>4, <1>5, <1>6, MoveTargeted

LEMMA PausingTargeted ==
  ASSUME Shape, Targeted, NEW t \in Threads, NEW slot,
         \/ Suspend(t) \/ SuspendFails(t) \/ PassBy(t) \/ DirectPause(t)
         \/ Disarm(t) \/ Undo(t) \/ Resume(t) \/ PydevdPause(t, slot) \/ Fire(t, slot)
  PROVE  Targeted'
<1>1. Alone(t)
  BY PausingAlone
<1>2. /\ pc[t] # "record" /\ pending' \subseteq pending
      /\ UNCHANGED <<hitQueue, early, locs>> /\ left'.hits = left.hits
  BY FaultType DEF Suspend, SuspendFails, PassBy, DirectPause, Disarm, Undo, Resume,
     PydevdPause, Fire, Shape
<1>3. /\ pc \in [Threads -> Places] /\ resume[t] \in {"run", "ours"}
      /\ back[t] \in {"run", "pause", "shown"}
  BY DEF Shape, Threading
<1>4. pc'[t] \notin Arming
  <2>1. CASE Suspend(t) \/ SuspendFails(t) \/ PassBy(t) \/ DirectPause(t) \/ Disarm(t)
    BY <1>3, <2>1 DEF Suspend, SuspendFails, PassBy, DirectPause, Disarm, Return, Arming
  <2>2. CASE Undo(t) \/ Resume(t)
    BY <1>3, <2>2 DEF Undo, Resume, Arming
  <2>3. CASE PydevdPause(t, slot) \/ Fire(t, slot)
    BY <1>3, <2>3 DEF PydevdPause, Fire, Arming
  <2>4. QED
    BY <2>1, <2>2, <2>3
<1>5. QED
  BY <1>1, <1>2, <1>4, QuietTargeted

LEMMA DrainingTargeted ==
  ASSUME Shape, Targeted, NEW t \in Threads, Consume(t) \/ ConsumeAll(t) \/ Clear(t)
  PROVE  Targeted'
<1>1. Alone(t)
  BY PausingAlone
<1>2. /\ pc[t] # "record" /\ pc'[t] \notin Arming /\ pending' \subseteq pending
      /\ locs' = locs /\ left'.hits = left.hits
  BY FaultType DEF Consume, ConsumeAll, Clear, Arming, Shape, Threading
<1>3. early \subseteq Used /\ hitQueue \subseteq Used /\ Used' = Used
  BY <1>2 DEF Targeted, ArmingOwned, Shape, Tables, Used
<1>4. early' \subseteq Used'
  <2>1. early' \subseteq early \cup hitQueue
    BY DEF Consume, ConsumeAll, Clear
  <2>2. QED
    BY <1>3, <2>1
<1>5. \A h \in hitQueue \cup early :
        \/ h \in hitQueue' \cup early'
        \/ h \notin InFlight /\ locs[h] \cap pending' = {}
  <2>1. CASE Consume(t)
    <3> DEFINE drained == {h \in hitQueue : Here(h, t)}
               slots == UNION {locs[h] : h \in drained}
    <3>1. /\ hitQueue' = hitQueue \ drained /\ pending' = pending \ slots
          /\ early' = early \cup (drained \cap InFlight)
      BY <2>1 DEF Consume, DrainedSlots
    <3> HIDE DEF drained
    <3>2. \A h \in drained : locs[h] \cap pending' = {}
      BY <3>1
    <3>3. QED
      BY <3>1, <3>2
  <2>2. CASE ConsumeAll(t) \/ Clear(t)
    <3>1. pending' = {} /\ early' = early \cup (hitQueue \cap InFlight)
      BY <2>2 DEF ConsumeAll, Clear
    <3>2. QED
      BY <3>1
  <2>3. QED
    BY <2>1, <2>2
<1>6. QED
  BY <1>1, <1>2, <1>4, <1>5, MoveTargeted

LEMMA NextTargeted ==
  ASSUME Shape, Targeted, [Next]_vars PROVE Targeted'
<1>1. CASE UNCHANGED vars
  BY <1>1 DEF vars, Targeted, PendingOwned, ArmingOwned, Used
<1>2. ASSUME NEW t \in Threads, NEW w \in Watches, NEW s \in Stacks,
             NEW mode \in {"at", "before", "other"}, Mutate(t, w, s, mode)
      PROVE  Targeted'
  <2>1. /\ pc[t] # "record" /\ UNCHANGED <<hitQueue, early, locs, left, pending>>
        /\ pc'[t] \notin Arming
    BY <1>2 DEF Mutate, Shape, Threading, Arming
  <2>2. QED
    BY <1>2, <2>1, MutateAlone, QuietTargeted
<1>3. ASSUME NEW t \in Threads, NEW slot \in Slots,
             PydevdPause(t, slot) \/ Fire(t, slot)
      PROVE  Targeted'
  BY <1>3, PausingTargeted
<1>4. ASSUME NEW t \in Threads,
             \/ TargetByBytecode(t) \/ TargetByLine(t) \/ TargetSafety(t)
             \/ NoSlot(t) \/ EnqueueBare(t) \/ Enqueue(t) \/ Install(t)
             \/ InstallFails(t) \/ Record(t) \/ Release(t)
      PROVE  Targeted'
  BY <1>4, ChoosingTargeted, EnqueueTargeted, InstallTargeted, RecordTargeted
<1>5. ASSUME NEW t \in Threads,
             \/ Suspend(t) \/ SuspendFails(t) \/ PassBy(t) \/ DirectPause(t)
             \/ Disarm(t) \/ Undo(t) \/ Consume(t) \/ ConsumeAll(t) \/ Clear(t)
             \/ Resume(t)
      PROVE  Targeted'
  BY <1>5, PausingTargeted, DrainingTargeted
<1>6. QED
  BY <1>1, <1>2, <1>3, <1>4, <1>5 DEF Next

-----------------------------------------------------------------------------
(* The queue is bounded.                                                    *)

\* A set of numbers has a least member, if it has any.
LEMMA LeastMember ==
  ASSUME NEW S \in SUBSET Nat, S # {} PROVE \E m \in S : \A n \in S : m <= n
<1> DEFINE Less == {p \in Nat \X Nat : p[1] < p[2]}
<1>1. IsWellFoundedOn(Less, Nat)
  BY NatLessThanWellFounded DEF OpToRel
<1>2. \A T : T \subseteq Nat /\ T # {} => \E x \in T : \A y \in T : ~ (<<y, x>> \in Less)
  BY <1>1, WFMin
<1>3. PICK m \in S : \A n \in S : ~ (<<n, m>> \in Less)
  BY <1>2
<1>4. \A a, b \in Nat : a < b => <<a, b>> \in Less
  OBVIOUS
<1> HIDE DEF Less
<1>5. ASSUME NEW n \in S PROVE m <= n
  <2>1. n \in Nat /\ m \in Nat /\ ~ (<<n, m>> \in Less)
    BY <1>3
  <2>2. ~ (n < m)
    BY <1>4, <2>1
  <2>3. QED
    BY <2>1, <2>2
<1>6. QED
  BY <1>5

\* All that is left after the cut, but the oldest hit, is later than that hit.
LEMMA TrimmedBound ==
  ASSUME NEW q \in SUBSET Nat, IsFiniteSet(q)
  PROVE  Cardinality(Trimmed(q)) <= MaxQueue
<1>1. MaxQueue \in Nat
  BY PipelineAssumption DEF PipelineAssumption
<1>2. Trimmed(q) \subseteq q /\ IsFiniteSet(Trimmed(q))
  BY FS_Subset DEF Trimmed
<1>3. CASE Trimmed(q) = {}
  BY <1>1, <1>3, FS_EmptySet
<1>4. CASE Trimmed(q) # {}
  <2>1. PICK m \in Trimmed(q) : \A n \in Trimmed(q) : m <= n
    BY <1>2, <1>4, LeastMember
  <2>2. Trimmed(q) \ {m} \subseteq Later(q, m)
    <3>1. ASSUME NEW n \in Trimmed(q) \ {m} PROVE n \in q /\ n > m
      <4>1. n \in Nat /\ m \in Nat /\ m <= n /\ n # m /\ n \in q
        BY <1>2, <2>1
      <4>2. QED
        BY <4>1
    <3>2. QED
      BY <3>1 DEF Later
  <2>3. IsFiniteSet(Later(q, m)) /\ Cardinality(Later(q, m)) < MaxQueue
    BY FS_Subset DEF Later, Trimmed
  <2>4. Cardinality(Trimmed(q) \ {m}) <= Cardinality(Later(q, m))
    BY <2>2, <2>3, FS_Subset
  <2>5. Cardinality(Trimmed(q) \ {m}) = Cardinality(Trimmed(q)) - 1
    BY <1>2, FS_RemoveElement
  <2>6. Cardinality(Trimmed(q)) \in Nat /\ Cardinality(Later(q, m)) \in Nat
    BY <1>2, <2>3, FS_CardinalityType
  <2>7. QED
    BY <1>1, <2>3, <2>4, <2>5, <2>6
<1>5. QED
  BY <1>3, <1>4

Bare == {t \in Threads : pc[t] = "bare"}

LEMMA Sizes ==
  ASSUME Shape
  PROVE  /\ hitQueue \in SUBSET Nat /\ IsFiniteSet(hitQueue)
         /\ Cardinality(hitQueue) \in Nat
         /\ IsFiniteSet(Bare) /\ Cardinality(Bare) \in Nat
         /\ Cardinality(Threads) \in Nat /\ Cardinality(Bare) <= Cardinality(Threads)
<1>1. IsFiniteSet(Threads) /\ MaxHits \in Nat /\ left.hits \in 0 .. MaxHits
  BY PipelineAssumption DEF PipelineAssumption, Shape, Tables
<1>2. IsFiniteSet(Used) /\ Used \in SUBSET Nat
  <2>1. 1 \in Int /\ MaxHits - left.hits \in Int
    BY <1>1
  <2>2. IsFiniteSet(1 .. MaxHits - left.hits)
    BY <2>1, FS_Interval
  <2>3. QED
    BY <2>1, <2>2 DEF Used
<1>3. hitQueue \in SUBSET Nat /\ IsFiniteSet(hitQueue)
  BY <1>2, FS_Subset DEF Shape, Tables
<1>4. IsFiniteSet(Bare) /\ Cardinality(Bare) <= Cardinality(Threads)
  BY <1>1, FS_Subset DEF Bare
<1>5. QED
  BY <1>1, <1>3, <1>4, FS_CardinalityType

\* A step that queues nothing.
LEMMA QuietBound ==
  ASSUME Shape, Shape', QueueBound, hitQueue' \subseteq hitQueue, Bare' \subseteq Bare
  PROVE  QueueBound'
<1>1. Cardinality(hitQueue') <= Cardinality(hitQueue)
  BY Sizes, FS_Subset
<1>2. Cardinality(Bare') <= Cardinality(Bare)
  BY Sizes, FS_Subset
<1>3. Cardinality(hitQueue') \in Nat /\ Cardinality(Bare') \in Nat
  <2>1. IsFiniteSet(hitQueue') /\ IsFiniteSet(Bare')
    BY Sizes, FS_Subset
  <2>2. QED
    BY <2>1, FS_CardinalityType
<1>4. MaxQueue \in Nat
  BY PipelineAssumption DEF PipelineAssumption
<1>5. Cardinality(hitQueue) + Cardinality(Bare) <= MaxQueue + Cardinality(Threads) - 1
  BY DEF QueueBound, Bare
<1>6. Cardinality(hitQueue') + Cardinality(Bare') <= MaxQueue + Cardinality(Threads) - 1
  BY <1>1, <1>2, <1>3, <1>4, <1>5, Sizes
<1>7. QED
  BY <1>6 DEF QueueBound, Bare

LEMMA EnqueueBound ==
  ASSUME Shape, Shape', QueueBound, NEW t \in Threads, EnqueueBare(t) \/ Enqueue(t)
  PROVE  QueueBound'
<1>1. MaxQueue \in Nat
  BY PipelineAssumption DEF PipelineAssumption
<1>2. Cardinality(hitQueue) + Cardinality(Bare) <= MaxQueue + Cardinality(Threads) - 1
  BY DEF QueueBound, Bare
<1>3. CASE EnqueueBare(t)
  <2>1. hitQueue' = hitQueue \cup {NewHit}
    BY <1>3 DEF EnqueueBare, Push
  <2>2. t \in Bare /\ Bare' = Bare \ {t}
    BY <1>3 DEF EnqueueBare, Bare, Shape, Threading
  <2>3. Cardinality(hitQueue') <= Cardinality(hitQueue) + 1
    <3>1. IsFiniteSet(hitQueue) /\ Cardinality(hitQueue) \in Nat
      BY Sizes
    <3>2. Cardinality(hitQueue \cup {NewHit})
            = IF NewHit \in hitQueue THEN Cardinality(hitQueue)
              ELSE Cardinality(hitQueue) + 1
      BY <3>1, FS_AddElement
    <3> HIDE DEF NewHit
    <3>3. QED
      BY <2>1, <3>1, <3>2
  <2>4. Cardinality(Bare') = Cardinality(Bare) - 1
    BY <2>2, Sizes, FS_RemoveElement
  <2>5. Cardinality(hitQueue') \in Nat
    <3>1. IsFiniteSet(hitQueue')
      BY <2>1, Sizes, FS_AddElement
    <3>2. QED
      BY <3>1, FS_CardinalityType
  <2>6. Cardinality(hitQueue') + Cardinality(Bare')
          <= MaxQueue + Cardinality(Threads) - 1
    BY <1>1, <1>2, <2>3, <2>4, <2>5, Sizes
  <2>7. QED
    BY <2>6 DEF QueueBound, Bare
<1>4. CASE Enqueue(t)
  <2>1. hitQueue' = Trimmed(hitQueue \cup {NewHit})
    BY <1>4 DEF Enqueue, Push
  <2>2. NewHit \in Nat
    BY <1>4, NewHitFacts DEF Enqueue, Push, Shape, Hits
  <2>3. /\ hitQueue \cup {NewHit} \in SUBSET Nat
        /\ IsFiniteSet(hitQueue \cup {NewHit})
    BY <2>2, Sizes, FS_AddElement
  <2>4. Cardinality(hitQueue') <= MaxQueue
    BY <2>1, <2>3, TrimmedBound
  <2>5. Bare' \subseteq Threads \ {t}
    BY <1>4 DEF Enqueue, Bare, Shape, Threading
  <2>6. /\ IsFiniteSet(Threads \ {t})
        /\ Cardinality(Threads \ {t}) = Cardinality(Threads) - 1
    BY PipelineAssumption, FS_RemoveElement DEF PipelineAssumption
  <2>7. IsFiniteSet(Bare') /\ Cardinality(Bare') <= Cardinality(Threads) - 1
    BY <2>5, <2>6, FS_Subset
  <2>8. IsFiniteSet(hitQueue')
    BY <2>1, <2>3, FS_Subset DEF Trimmed
  <2>9. Cardinality(hitQueue') \in Nat /\ Cardinality(Bare') \in Nat
    BY <2>7, <2>8, FS_CardinalityType
  <2>10. Cardinality(hitQueue') + Cardinality(Bare')
          <= MaxQueue + Cardinality(Threads) - 1
    BY <1>1, <2>4, <2>7, <2>9, Sizes
  <2>11. QED
    BY <2>10 DEF QueueBound, Bare
<1>5. QED
  BY <1>3, <1>4

LEMMA NoSlotBound ==
  ASSUME Shape, Shape', QueueBound, NEW t \in Threads, NoSlot(t)
  PROVE  QueueBound'
<1>1. CASE hitQueue = {}
  <2>1. hitQueue' = {}
    BY <1>1 DEF NoSlot
  <2>2. Bare' \subseteq Threads
    BY DEF Bare
  <2>3. IsFiniteSet(Bare') /\ Cardinality(Bare') <= Cardinality(Threads)
    BY <2>2, PipelineAssumption, FS_Subset DEF PipelineAssumption
  <2>4. Cardinality(Bare') \in Nat
    BY <2>3, FS_CardinalityType
  <2>5. Cardinality(hitQueue') = 0
    BY <2>1, FS_EmptySet
  <2>6. MaxQueue \in Nat \ {0}
    BY PipelineAssumption DEF PipelineAssumption
  <2>7. Cardinality(hitQueue') + Cardinality(Bare')
          <= MaxQueue + Cardinality(Threads) - 1
    BY <2>3, <2>4, <2>5, <2>6, Sizes
  <2>8. QED
    BY <2>7 DEF QueueBound, Bare
<1>2. CASE hitQueue # {}
  <2>1. hitQueue' = hitQueue /\ Bare' \subseteq Bare
    BY <1>2 DEF NoSlot, Return, Bare, Shape, Threading
  <2>2. QED
    BY <2>1, QuietBound
<1>3. QED
  BY <1>1, <1>2

\* The steps after which no more threads are about to queue a hit unlimited.
LEMMA StepBound ==
  ASSUME Shape, Shape', QueueBound, NEW t \in Threads, Alone(t),
         hitQueue' \subseteq hitQueue, pc'[t] # "bare"
  PROVE  QueueBound'
<1>1. Bare' \subseteq Bare
  BY DEF Bare, Alone
<1>2. QED
  BY <1>1, QuietBound

LEMMA NextBound ==
  ASSUME Shape, Shape', QueueBound, [Next]_vars PROVE QueueBound'
<1>1. CASE UNCHANGED vars
  BY <1>1 DEF vars, QueueBound
<1>2. ASSUME NEW t \in Threads, NEW w \in Watches, NEW s \in Stacks,
             NEW mode \in {"at", "before", "other"}, Mutate(t, w, s, mode)
      PROVE  QueueBound'
  <2>1. hitQueue' = hitQueue /\ pc'[t] # "bare"
    BY <1>2 DEF Mutate, Shape, Threading
  <2>2. QED
    BY <1>2, <2>1, MutateAlone, StepBound
<1>3. ASSUME NEW t \in Threads, NEW slot,
             \/ Suspend(t) \/ SuspendFails(t) \/ PassBy(t) \/ DirectPause(t)
             \/ Disarm(t) \/ Undo(t) \/ Consume(t) \/ ConsumeAll(t) \/ Clear(t)
             \/ Resume(t) \/ PydevdPause(t, slot) \/ Fire(t, slot)
      PROVE  QueueBound'
  <2>1. hitQueue' \subseteq hitQueue
    BY <1>3 DEF Suspend, SuspendFails, PassBy, DirectPause, Disarm, Undo, Consume,
       ConsumeAll, Clear, Resume, PydevdPause, Fire
  <2>2. /\ pc \in [Threads -> Places] /\ resume[t] \in {"run", "ours"}
        /\ back[t] \in {"run", "pause", "shown"}
    BY DEF Shape, Threading
  <2>3. pc'[t] # "bare"
    <3>1. CASE Suspend(t) \/ SuspendFails(t) \/ PassBy(t) \/ DirectPause(t) \/ Disarm(t)
      BY <2>2, <3>1 DEF Suspend, SuspendFails, PassBy, DirectPause, Disarm, Return
    <3>2. CASE Undo(t) \/ Resume(t)
      BY <2>2, <3>2 DEF Undo, Resume
    <3>3. CASE PydevdPause(t, slot) \/ Fire(t, slot)
      BY <2>2, <3>3 DEF PydevdPause, Fire
    <3>4. CASE Consume(t) \/ ConsumeAll(t) \/ Clear(t)
      BY <2>2, <3>4 DEF Consume, ConsumeAll, Clear
    <3>5. QED
      BY <1>3, <3>1, <3>2, <3>3, <3>4
  <2>4. QED
    BY <1>3, <2>1, <2>3, PausingAlone, StepBound
<1>4. ASSUME NEW t \in Threads,
             \/ TargetByBytecode(t) \/ TargetByLine(t) \/ TargetSafety(t)
             \/ Install(t) \/ InstallFails(t) \/ Record(t) \/ Release(t)
      PROVE  QueueBound'
  <2>1. hitQueue' = hitQueue
    BY <1>4 DEF TargetByBytecode, TargetByLine, TargetSafety, Install, InstallFails,
       Record, Release
  <2>2. pc'[t] # "bare"
    BY <1>4 DEF TargetByBytecode, TargetByLine, TargetSafety, Install, InstallFails,
       Record, Release, NextTarget, Return, Shape, Threading
  <2>3. QED
    BY <1>4, <2>1, <2>2, ArmingAlone, StepBound
<1>5. ASSUME NEW t \in Threads, NoSlot(t) \/ EnqueueBare(t) \/ Enqueue(t)
      PROVE  QueueBound'
  BY <1>5, NoSlotBound, EnqueueBound
<1>6. QED
  BY <1>1, <1>2, <1>3, <1>4, <1>5 DEF Next

-----------------------------------------------------------------------------
(* Theorems.                                                                *)

\* The invariant that the theorems rest on: no part but the shape is needed for
\* another one, so that each can be read alone.
IInv == Shape /\ Leased /\ NoUntrackedBreakpoint /\ Targeted /\ QueueBound

LEMMA InitIInv == ASSUME Init PROVE IInv
<1>1. Shape /\ Leased
  BY InitShape, InitLeased
<1>2. NoUntrackedBreakpoint
  BY DEF Init, NoUntrackedBreakpoint
<1>3. Targeted
  BY DEF Init, Targeted, PendingOwned, ArmingOwned, Arming
<1>4. QueueBound
  <2>1. hitQueue = {} /\ Bare = {}
    BY DEF Init, Bare
  <2>2. Cardinality(hitQueue) = 0 /\ Cardinality(Bare) = 0
    BY <2>1, FS_EmptySet
  <2>3. MaxQueue \in Nat \ {0} /\ Cardinality(Threads) \in Nat
    BY <1>1, Sizes, PipelineAssumption DEF PipelineAssumption
  <2>4. Cardinality(hitQueue) + Cardinality(Bare) <= MaxQueue + Cardinality(Threads) - 1
    BY <2>2, <2>3
  <2>5. QED
    BY <2>4 DEF QueueBound, Bare
<1>5. QED
  BY <1>1, <1>2, <1>3, <1>4 DEF IInv

LEMMA NextIInv == ASSUME IInv, [Next]_vars PROVE IInv'
<1>1. Shape'
  BY NextShape DEF IInv
<1>2. Leased' /\ NoUntrackedBreakpoint' /\ Targeted' /\ QueueBound'
  BY <1>1, NextLeased, NextTracked, NextTargeted, NextBound DEF IInv
<1>3. QED
  BY <1>1, <1>2 DEF IInv

LEMMA Invariance == Spec => []IInv
BY InitIInv, NextIInv, PTL DEF Spec

LEMMA ShapeTypeOK == ASSUME Shape PROVE TypeOK
<1>1. pc \in [Threads -> {"run", "target", "safety", "noslot", "bare", "enqueue",
                          "install", "record", "release", "suspend", "disarm",
                          "undo", "pause", "paused", "shown", "ours"}]
  <2>1. \A p \in Places : p \in {"run", "target", "safety", "noslot", "bare", "enqueue",
                          "install", "record", "release", "suspend", "disarm",
                          "undo", "pause", "paused", "shown", "ours"}
    BY DEF Places, Working
  <2>2. QED
    BY <2>1 DEF Shape, Threading
<1>2. \A b \in tempBps \cup pydevd : b.watch \in Watches /\ b.line \in Lines
  BY DEF Shape, Tables, Bps
<1>3. \A t \in Threads : pc[t] # "undo" => undo[t] = {}
  BY DEF Shape, Threading
<1>4. QED
  BY <1>1, <1>2, <1>3 DEF Shape, Tables, Used, TypeOK

\* The tables keep their types: a queued hit has been numbered, only slots are armed
\* or reserved, and only a thread that undoes breakpoints has any to undo.
THEOREM TypeCorrect == Spec => []TypeOK
<1>1. IInv => TypeOK
  BY ShapeTypeOK DEF IInv
<1>2. QED
  BY <1>1, Invariance, PTL

\* However installations fail and threads interleave, a reservation is held by a
\* thread that is arming a hit (_bp_slot_reservations, _handle_hit).
THEOREM ReservationsEnd == Spec => []ReservationsReleased
<1>1. IInv => ReservationsReleased
  BY DEF IInv, Leased
<1>2. QED
  BY <1>1, Invariance, PTL

\* Any number of threads that change watched values at once never arm two hits
\* for one slot, until clear_watches() drops reservations (_compute_bp_targets).
THEOREM SlotsExclusive == Spec => []SlotExclusive
<1>1. IInv => SlotExclusive
  BY DEF IInv, Leased
<1>2. QED
  BY <1>1, Invariance, PTL

\* The choice of pause targets and their installation implement the lease of slots:
\* a hit owns a slot only after one thread has held it alone.
THEOREM ImplementsLease == Spec => LeasesSlots
<1>1. Init => Lease!Init
  BY InitLease
<1>2. IInv /\ [Next]_vars => [Lease!Next]_(Lease!vars)
  BY NextLease DEF IInv
<1>3. QED
  BY <1>1, <1>2, Invariance, PTL DEF Spec, LeasesSlots, Lease!Spec

\* A breakpoint that pydevd knows can still be found and taken out, or its
\* installation failed half-way (_install_bp_at, _remove_temp_breakpoints).
THEOREM BreakpointsTracked == Spec => []NoUntrackedBreakpoint
<1>1. IInv => NoUntrackedBreakpoint
  BY DEF IInv
<1>2. QED
  BY <1>1, Invariance, PTL

\* A line armed in _bp_pause_pending belongs to a hit that is queued or left the
\* queue early, or a thread is about to record it.
THEOREM TargetsOwned == Spec => []PendingOwned
<1>1. IInv => PendingOwned
  BY DEF IInv, Targeted
<1>2. QED
  BY <1>1, Invariance, PTL

\* The queue exceeds _MAX_HIT_QUEUE_SIZE by less than the number of threads.
THEOREM QueueBounded == Spec => []QueueBound
<1>1. IInv => QueueBound
  BY DEF IInv
<1>2. QED
  BY <1>1, Invariance, PTL

===============================================================================
