------------------------- MODULE PausePath_proofs -------------------------
(***************************************************************************)
(* Proofs about PausePath, for every code object, every set of breakpoints  *)
(* and every bound.                                                         *)
(***************************************************************************)
EXTENDS PausePath, SequenceTheorems, WellFoundedInduction, TLAPS

-----------------------------------------------------------------------------
(* The inductive invariant.                                                *)

Pcs == {"boot", "idle", "decide", "start", "run", "arm", "publish", "events",
        "stored", "disarm"}
Boots == [module : {"absent", "loading", "loaded"}, hook : BOOLEAN,
          applied : BOOLEAN, decision : BOOLEAN, raise : BOOLEAN,
          registered : {"none", "patched", "original"}, late : BOOLEAN,
          failed : BOOLEAN]
Runs == [straight : BOOLEAN, over : BOOLEAN, raised : BOOLEAN, unarmed : BOOLEAN,
         stale : BOOLEAN, missed : BOOLEAN]
Builds == [map : SUBSET Breakpoint, outdated : BOOLEAN]

\* pydevd's module is patched as it is loaded, or it is known why not.
BootInv ==
  /\ boot \in Boots
  /\ boot.hook => ~ boot.applied
  /\ boot.module = "loading" => boot.hook
  /\ boot.applied => boot.late \/ boot.failed \/ boot.raise
  /\ boot.hook /\ boot.module = "loaded" => boot.late
  /\ RegisteredPatched

\* The hook of the change is at work on its hit.
Arming == pc \in {"arm", "events"} \/ (pc = "publish" /\ target # NoTarget)

\* Where the thread is, and what it has begun.
PlaceInv ==
  /\ pc \in Pcs
  /\ pc # "boot" => code \in Codes /\ at \in Offsets(code)
  /\ pc = "boot" => at = 1 /\ ~ skipped /\ target = NoTarget
  /\ pc \in {"boot", "idle"} => event = NoLine
  /\ pc \in {"arm", "events"} => target # NoTarget
  /\ pc = "disarm" => target = NoTarget
  /\ Arming \/ pc = "stored" => code.op[at] = "store"
  /\ target = NoTarget => own = {}
  /\ own \subseteq {target.line}
  /\ run \in Runs
  /\ lineOn \in BOOLEAN /\ skipped \in BOOLEAN

\* A breakpoint of the user is in the table once, a temporary one at most.
Entries(bps) ==
  /\ bps \in Seq(Breakpoint)
  /\ \A i \in DOMAIN bps : ~ bps[i].temp => bps[i] \in UserBps
  /\ \A i, j \in DOMAIN bps : ~ bps[i].temp /\ bps[i] = bps[j] => i = j
  /\ \A i, j \in DOMAIN bps : bps[i].temp /\ bps[j].temp => i = j

\* The temporary breakpoint is in the table as long as its hit waits.
TempInv ==
  /\ \A i \in DOMAIN table : table[i].temp =>
       pc = "disarm" \/ (target # NoTarget /\ pc # "arm"
                         /\ table[i].line = target.line)
  /\ target # NoTarget /\ pc # "arm" =>
       \E i \in DOMAIN table : table[i].temp /\ table[i].line = target.line

\* A line map has one breakpoint on a line.
LineMap(m) == m \subseteq Breakpoint /\ \A b, d \in m : b.line = d.line => b = d

\* Maps are built from the table, and the last one that was built is published.
MapInv ==
  /\ LineMap(lineMap) /\ seen \subseteq Breakpoint
  /\ build \in [Actors -> {Nothing} \cup Builds]
  /\ build["program"] # Nothing => pc = "publish"
  /\ pc = "boot" => \A a \in Actors : build[a] = Nothing
  /\ \A a \in Actors : build[a] # Nothing => LineMap(build[a].map)
  /\ \A a \in Actors : build[a] # Nothing /\ ~ build[a].outdated =>
       build[a].map = MapOf(table)
  /\ (\A a \in Actors : build[a] = Nothing) /\ ~ run.stale =>
       lineMap = MapOf(table)

\* What a target comes from: the next start of a later line, or a jump if there
\* is none.
TargetOf(t) ==
  /\ t \in [line : Nat, from : Offsets(code), to : Nat,
            by : {"source", "shared", "ahead", "handler", "loop"}]
  /\ t.by = "ahead" =>
       /\ StartsAhead(code, t.from) # {}
       /\ t.to = Least(StartsAhead(code, t.from))
       /\ t.line = code.line[t.to]
  /\ t.by = "loop" => StartsAhead(code, t.from) = {}

TargetInv == target # NoTarget => TargetOf(target)

OnMap == run.stale \/ \E b \in lineMap : b.line = target.line

\* Once a hit is armed its line pauses, as long as the map is not stale.
ArmedInv ==
  /\ pc = "events" => OnMap
  /\ target # NoTarget /\ pc \notin {"arm", "publish", "events"} /\ ~ run.unarmed =>
       target.line \in own \/ (lineOn /\ OnMap)

\* The frame that runs straight on has not come to its target.
AheadInv ==
  /\ pc \in {"decide", "start"} => ~ run.straight
  /\ Arming => ~ run.unarmed
  /\ target # NoTarget /\ run.straight => target.from <= at
  /\ target.by = "ahead" /\ run.straight /\ ~ run.unarmed /\ ~ run.missed =>
       at < target.to

IInv == /\ BootInv /\ PlaceInv /\ Entries(table) /\ TempInv /\ MapInv
        /\ TargetInv /\ ArmedInv /\ AheadInv

-----------------------------------------------------------------------------
(* Numbers, sequences and maps.                                            *)

\* A set of numbers has a least member, if it has any.
LEMMA LeastMember ==
  ASSUME NEW S \in SUBSET Nat, S # {}
  PROVE  Least(S) \in S /\ \A n \in S : Least(S) <= n
<1> DEFINE Less == {p \in Nat \X Nat : p[1] < p[2]}
<1>1. IsWellFoundedOn(Less, Nat)
  BY NatLessThanWellFounded DEF OpToRel
<1>2. PICK m \in S : \A n \in S : ~ (<<n, m>> \in Less)
  BY <1>1, WFMin
<1>3. \A a, b \in Nat : a < b => <<a, b>> \in Less
  OBVIOUS
<1> HIDE DEF Less
<1>4. ASSUME NEW n \in S PROVE m <= n
  <2>1. n \in Nat /\ m \in Nat /\ ~ (n < m)
    BY <1>2, <1>3
  <2>2. QED
    BY <2>1
<1>5. QED
  BY <1>4 DEF Least

\* The greatest of a set of positions has none after it.
LEMMA LastPosition ==
  ASSUME NEW n \in Nat, NEW S \in SUBSET (1 .. n), S # {}
  PROVE  \E i \in S : \A k \in S : k <= i
<1> DEFINE R == {n - i : i \in S}
<1>1. R \in SUBSET Nat /\ R # {}
  <2>1. \A i \in S : i \in 1 .. n
    OBVIOUS
  <2>2. \A i \in S : n - i \in Nat
    BY <2>1
  <2>3. QED
    BY <2>2
<1>2. PICK r \in R : \A q \in R : r <= q
  <2> HIDE DEF R
  <2>1. QED
    BY <1>1, LeastMember
<1>3. PICK i \in S : r = n - i
  BY <1>2
<1>4. ASSUME NEW k \in S PROVE k <= i
  <2>1. n - k \in R /\ k \in 1 .. n /\ i \in 1 .. n
    OBVIOUS
  <2>2. n - i <= n - k
    <3>1. r <= n - k
      BY <2>1, <1>2
    <3>2. QED
      BY <3>1, <1>3
  <2>3. QED
    BY <2>1, <2>2
<1>5. QED
  BY <1>4

\* A breakpoint on each line of the table has its place in the map: the last.
LEMMA MapOfLines ==
  ASSUME NEW bps \in Seq(Breakpoint), NEW i \in DOMAIN bps
  PROVE  \E b \in MapOf(bps) : b.line = bps[i].line
<1> DEFINE S == {k \in DOMAIN bps : bps[k].line = bps[i].line}
<1>1. Len(bps) \in Nat /\ DOMAIN bps = 1 .. Len(bps)
  BY LenProperties
<1>2. S \in SUBSET (1 .. Len(bps)) /\ S # {}
  BY <1>1
<1>3. PICK j \in S : \A k \in S : k <= j
  <2> HIDE DEF S
  <2>1. QED
    BY <1>1, <1>2, LastPosition
<1>4. ASSUME NEW k \in DOMAIN bps, k > j PROVE bps[k].line # bps[j].line
  <2>1. bps[j].line = bps[i].line /\ j \in Int /\ k \in Int
    BY <1>1, <1>2
  <2>2. QED
    BY <2>1, <1>3, <1>4
<1>5. bps[j] \in MapOf(bps)
  BY <1>4 DEF MapOf
<1>6. QED
  BY <1>5

LEMMA MapOfIsMap ==
  ASSUME NEW bps \in Seq(Breakpoint) PROVE LineMap(MapOf(bps))
<1>1. Len(bps) \in Nat /\ DOMAIN bps = 1 .. Len(bps)
  BY LenProperties
<1>2. \A i \in DOMAIN bps : bps[i] \in Breakpoint
  BY <1>1, ElementOfSeq
<1>3. ASSUME NEW b \in MapOf(bps), NEW d \in MapOf(bps), b.line = d.line PROVE b = d
  <2>1. PICK i \in DOMAIN bps :
          b = bps[i] /\ \A k \in DOMAIN bps : k > i => bps[k].line # bps[i].line
    BY DEF MapOf
  <2>2. PICK j \in DOMAIN bps :
          d = bps[j] /\ \A k \in DOMAIN bps : k > j => bps[k].line # bps[j].line
    BY DEF MapOf
  <2>3. ~ (i > j) /\ ~ (j > i)
    BY <2>1, <2>2, <1>3
  <2>4. i = j
    BY <2>3, <1>1
  <2>5. QED
    BY <2>1, <2>2, <2>4
<1>4. MapOf(bps) \subseteq Breakpoint
  BY <1>2 DEF MapOf
<1>5. QED
  BY <1>3, <1>4 DEF LineMap

\* What is left of a sequence without one of its elements.
LEMMA RemoveAtProperties ==
  ASSUME NEW S, NEW q \in Seq(S), NEW i \in DOMAIN q
  PROVE  /\ RemoveAt(q, i) \in Seq(S)
         /\ DOMAIN RemoveAt(q, i) = 1 .. Len(q) - 1
         /\ \A n \in 1 .. Len(q) - 1 :
              RemoveAt(q, i)[n] = IF n < i THEN q[n] ELSE q[n + 1]
<1> DEFINE a == SubSeq(q, 1, i - 1)
           b == SubSeq(q, i + 1, Len(q))
<1>2. Len(q) \in Nat /\ DOMAIN q = 1 .. Len(q) /\ i \in 1 .. Len(q)
  BY LenProperties
<1>3. \A n \in 1 .. Len(q) : q[n] \in S
  BY ElementOfSeq
<1>4. /\ a \in Seq(S) /\ Len(a) = i - 1
      /\ \A n \in 1 .. i - 1 : a[n] = q[n]
  <2>1. 1 \in Int /\ i - 1 \in Int /\ \A n \in 1 .. i - 1 : q[n] \in S
    BY <1>2, <1>3
  <2>2. /\ a \in Seq(S)
        /\ Len(a) = IF 1 <= i - 1 THEN i - 1 - 1 + 1 ELSE 0
        /\ \A n \in 1 .. i - 1 - 1 + 1 : a[n] = q[1 + n - 1]
    BY <2>1, SubSeqProperties
  <2>3. QED
    BY <2>2, <1>2
<1>5. /\ b \in Seq(S) /\ Len(b) = Len(q) - i
      /\ \A n \in 1 .. Len(q) - i : b[n] = q[i + n]
  <2>1. i + 1 \in Int /\ Len(q) \in Int /\ \A n \in i + 1 .. Len(q) : q[n] \in S
    BY <1>2, <1>3
  <2>2. /\ b \in Seq(S)
        /\ Len(b) = IF i + 1 <= Len(q) THEN Len(q) - (i + 1) + 1 ELSE 0
        /\ \A n \in 1 .. Len(q) - (i + 1) + 1 : b[n] = q[i + 1 + n - 1]
    BY <2>1, SubSeqProperties
  <2> HIDE DEF b
  <2>3. Len(b) = Len(q) - i
    BY <2>2, <1>2
  <2>4. ASSUME NEW n \in 1 .. Len(q) - i PROVE b[n] = q[i + n]
    <3>1. n \in 1 .. Len(q) - (i + 1) + 1 /\ i + 1 + n - 1 = i + n
      BY <1>2
    <3>2. b[n] = q[i + 1 + n - 1]
      BY <3>1, <2>2
    <3>3. QED
      BY <3>1, <3>2
  <2>5. QED
    BY <2>2, <2>3, <2>4
<1>6. RemoveAt(q, i) = a \o b
  BY DEF RemoveAt
<1> HIDE DEF a, b
<1>7. /\ RemoveAt(q, i) \in Seq(S) /\ Len(RemoveAt(q, i)) = Len(a) + Len(b)
      /\ \A n \in 1 .. Len(a) + Len(b) :
           RemoveAt(q, i)[n] = IF n <= Len(a) THEN a[n] ELSE b[n - Len(a)]
  <2>1. a \in Seq(S) /\ b \in Seq(S)
    BY <1>4, <1>5
  <2>2. /\ a \o b \in Seq(S) /\ Len(a \o b) = Len(a) + Len(b)
        /\ \A n \in 1 .. Len(a) + Len(b) :
             (a \o b)[n] = IF n <= Len(a) THEN a[n] ELSE b[n - Len(a)]
    BY <2>1, ConcatProperties
  <2>3. QED
    BY <2>2, <1>6
<1>8. DOMAIN RemoveAt(q, i) = 1 .. Len(q) - 1
  BY <1>7, <1>4, <1>5, <1>2, LenProperties
<1>9. \A n \in 1 .. Len(q) - 1 : RemoveAt(q, i)[n] = IF n < i THEN q[n] ELSE q[n + 1]
  <2> TAKE n \in 1 .. Len(q) - 1
  <2>1. RemoveAt(q, i)[n] = IF n <= i - 1 THEN a[n] ELSE b[n - (i - 1)]
    BY <1>7, <1>4, <1>5, <1>2
  <2>2. CASE n < i
    BY <2>1, <2>2, <1>4, <1>2
  <2>3. CASE ~ n < i
    <3>1. n - (i - 1) \in 1 .. Len(q) - i /\ i + (n - (i - 1)) = n + 1
      BY <2>3, <1>2
    <3>2. b[n - (i - 1)] = q[i + (n - (i - 1))]
      BY <3>1, <1>5
    <3>3. RemoveAt(q, i)[n] = b[n - (i - 1)]
      BY <2>1, <2>3, <1>2
    <3>4. QED
      BY <3>1, <3>2, <3>3, <2>3
  <2>4. QED
    BY <2>2, <2>3
<1>10. QED
  BY <1>7, <1>8, <1>9


-----------------------------------------------------------------------------
(* The import hook and the patches.                                        *)

\* A module that is loaded gets the patches that apply.
LEMMA AppliesBoot ==
  ASSUME NEW b \in Boots, b.module = "loaded",
         b.registered = "original" => b.late \/ b.failed,
         Applies(b)
  PROVE  BootInv'
<1>1. ASSUME NEW d \in BOOLEAN, NEW r \in BOOLEAN
      PROVE  /\ Applied(b, d, r) \in Boots
             /\ Applied(b, d, r).hook = FALSE /\ Applied(b, d, r).applied = TRUE
             /\ Applied(b, d, r).raise = r /\ Applied(b, d, r).module = "loaded"
             /\ Applied(b, d, r).late = b.late /\ Applied(b, d, r).failed = b.failed
             /\ Applied(b, d, r).registered = b.registered
  BY DEF Applied, Boots
<1>2. CASE boot' = Applied(b, TRUE, TRUE)
  BY <1>1, <1>2 DEF BootInv, RegisteredPatched
<1>3. ASSUME NEW d \in BOOLEAN, NEW r \in BOOLEAN,
             boot' = [Applied(b, d, r) EXCEPT !.failed = TRUE]
      PROVE  BootInv'
  <2>1. PICK x : x = Applied(b, d, r)
    OBVIOUS
  <2>2. /\ x \in Boots /\ x.hook = FALSE /\ x.applied = TRUE /\ x.module = "loaded"
        /\ x.registered = b.registered
    BY <2>1, <1>1
  <2>3. boot' = [x EXCEPT !.failed = TRUE]
    BY <2>1, <1>3
  <2>4. /\ boot' \in Boots /\ boot'.failed = TRUE /\ boot'.hook = FALSE
        /\ boot'.applied = TRUE /\ boot'.module = "loaded"
    BY <2>2, <2>3 DEF Boots
  <2>5. QED
    BY <2>4 DEF BootInv, RegisteredPatched
<1>4. QED
  BY <1>2, <1>3 DEF Applies

LEMMA InstallBoot ==
  ASSUME BootInv, Install PROVE BootInv'
<1>1. boot \in Boots /\ ~ boot.applied /\ ~ boot.hook /\ boot.module # "loading"
  BY DEF BootInv, Install
<1>2. CASE Present(boot.module)
  <2>1. PICK b : b = [boot EXCEPT !.late = TRUE]
    OBVIOUS
  <2>2. b \in Boots /\ b.module = "loaded" /\ b.late = TRUE
    BY <1>1, <1>2, <2>1 DEF Boots, Present
  <2>3. Applies(b)
    BY <2>1, <1>2 DEF Install
  <2>4. QED
    BY <2>2, <2>3, AppliesBoot
<1>3. CASE ~ Present(boot.module)
  <2>1. boot' = [boot EXCEPT !.hook = TRUE] /\ boot.module = "absent"
    BY <1>3 DEF Install, Present
  <2>2. /\ boot' \in Boots /\ boot'.hook = TRUE /\ boot'.module = "absent"
        /\ boot'.applied = boot.applied /\ boot'.registered = boot.registered
        /\ boot'.late = boot.late /\ boot'.failed = boot.failed
    BY <1>1, <2>1 DEF Boots
  <2>3. QED
    BY <1>1, <2>2 DEF BootInv, RegisteredPatched
<1>4. QED
  BY <1>2, <1>3

LEMMA ImportReturnsBoot ==
  ASSUME BootInv, ImportReturns PROVE BootInv'
<1>1. boot \in Boots /\ boot.module # "absent" /\ boot.hook
  BY DEF BootInv, ImportReturns
<1>2. PICK m \in {boot.module, "loaded"} :
        IF Complete(m) THEN Applies([boot EXCEPT !.module = m])
        ELSE UNCHANGED <<boot, left>>
  BY DEF ImportReturns
<1>3. CASE Complete(m)
  <2>1. PICK b : b = [boot EXCEPT !.module = m]
    OBVIOUS
  <2>2. /\ b \in Boots /\ b.module = "loaded" /\ b.registered = boot.registered
        /\ b.late = boot.late /\ b.failed = boot.failed
    BY <1>1, <1>3, <2>1 DEF Boots, Complete
  <2>3. Applies(b)
    BY <2>1, <1>2, <1>3
  <2>4. b.registered = "original" => b.late \/ b.failed
    BY <2>2 DEF BootInv, RegisteredPatched
  <2>5. QED
    BY <2>2, <2>3, <2>4, AppliesBoot
<1>4. CASE ~ Complete(m)
  BY <1>2, <1>4 DEF BootInv, RegisteredPatched
<1>5. QED
  BY <1>3, <1>4

LEMMA ImportBoot ==
  ASSUME BootInv, BeginImport \/ ImportElsewhere \/ ImportFails PROVE BootInv'
<1>1. boot \in Boots
  BY DEF BootInv
<1>2. CASE BeginImport
  <2>1. /\ boot' = [boot EXCEPT !.module = "loading"] /\ boot.hook
    BY <1>2 DEF BeginImport
  <2>2. /\ boot' \in Boots /\ boot'.module = "loading" /\ boot'.hook = boot.hook
        /\ boot'.applied = boot.applied /\ boot'.registered = boot.registered
        /\ boot'.late = boot.late /\ boot'.failed = boot.failed
    BY <1>1, <2>1 DEF Boots
  <2>3. QED
    BY <2>1, <2>2 DEF BootInv, RegisteredPatched
<1>3. CASE ImportElsewhere
  <2>1. /\ boot' = [boot EXCEPT !.module = "loaded", !.late = ~ boot.applied]
        /\ boot.module = "loading" /\ ~ boot.applied
    BY <1>3 DEF ImportElsewhere, BootInv
  <2>2. boot' \in Boots /\ boot'.late = TRUE /\ boot'.hook = boot.hook
        /\ boot'.applied = boot.applied /\ boot'.module = "loaded"
    BY <1>1, <2>1 DEF Boots
  <2>3. QED
    BY <2>1, <2>2 DEF BootInv, RegisteredPatched
<1>4. CASE ImportFails
  <2>1. /\ boot' = [boot EXCEPT !.module = "absent"]
    BY <1>4 DEF ImportFails
  <2>2. /\ boot' \in Boots /\ boot'.module = "absent" /\ boot'.hook = boot.hook
        /\ boot'.applied = boot.applied /\ boot'.registered = boot.registered
        /\ boot'.late = boot.late /\ boot'.failed = boot.failed
        /\ boot'.raise = boot.raise
    BY <1>1, <2>1 DEF Boots
  <2>3. QED
    BY <2>2 DEF BootInv, RegisteredPatched
<1>5. QED
  BY <1>2, <1>3, <1>4

LEMMA RegisterBoot ==
  ASSUME BootInv, Register PROVE BootInv'
<1>0. PICK r \in {"patched", "original"} : r = IF boot.raise THEN "patched" ELSE "original"
  OBVIOUS
<1>1. /\ boot \in Boots /\ boot.module = "loaded" /\ (boot.hook \/ boot.applied)
      /\ boot' = [boot EXCEPT !.registered = r]
  BY <1>0 DEF BootInv, Register
<1>2. boot.late \/ boot.failed \/ boot.raise
  BY <1>1 DEF BootInv
<1>3. /\ boot' \in Boots /\ boot'.hook = boot.hook /\ boot'.applied = boot.applied
      /\ boot'.module = boot.module /\ boot'.late = boot.late
      /\ boot'.failed = boot.failed /\ boot'.raise = boot.raise
      /\ boot'.registered = r
  BY <1>1 DEF Boots
<1>4. QED
  BY <1>0, <1>2, <1>3 DEF BootInv, RegisteredPatched

\* A step of the program or of the reader leaves the patches alone.
Later ==
  \/ \E b \in UserBps : SetBreakpoint(b)
  \/ \E a \in Actors : Publish(a)
  \/ Raise \/ Frame

LEMMA LaterBoot ==
  ASSUME Later PROVE boot' = boot
<1> USE DEF GoOn, JumpTo
<1>1. CASE Raise \/ Start \/ Step \/ LoopExit \/ Back
  BY <1>1 DEF Raise, Start, Step, LoopExit, Back
<1>2. CASE Enter \/ Decide \/ Return \/ Hit \/ Arm \/ Disarm
  BY <1>2 DEF Enter, Decide, Return, Hit, Arm, Disarm
<1>3. CASE \E forced, ours \in BOOLEAN : ArmEvents(forced, ours)
  BY <1>3 DEF ArmEvents
<1>4. CASE \E b \in UserBps : SetBreakpoint(b)
  BY <1>4 DEF SetBreakpoint
<1>5. CASE \E a \in Actors : Publish(a)
  BY <1>5 DEF Publish
<1>6. QED
  BY <1>1, <1>2, <1>3, <1>4, <1>5 DEF Later, Frame

LEMMA BootStep ==
  ASSUME BootInv, [Next]_vars PROVE BootInv'
<1>1. CASE Later
  BY <1>1, LaterBoot DEF BootInv, RegisteredPatched
<1>2. CASE UNCHANGED vars
  BY <1>2 DEF BootInv, RegisteredPatched, vars
<1>3. QED
  BY <1>1, <1>2, InstallBoot, ImportReturnsBoot, ImportBoot, RegisterBoot DEF Next, Later

-----------------------------------------------------------------------------
(* Code objects, and the target that is picked from one.                   *)

LEMMA CodeFacts ==
  ASSUME NEW c \in Codes
  PROVE  /\ Len(c.line) \in Nat /\ Offsets(c) = 1 .. Len(c.line)
         /\ 1 \in Offsets(c)
         /\ \A i \in Offsets(c) : i \in Nat /\ c.line[i] \in Nat
         /\ \A i \in Offsets(c) : c.op[i] \in {"op", "for", "store"} => i + 1 \in Offsets(c)
         /\ \A i \in Offsets(c) : c.op[i] \in {"for", "back"} => c.arg[i] \in Offsets(c)
         /\ c.handlers \subseteq Offsets(c)
         /\ c.name \in STRING
<1>1. WellFormed(c)
  BY PausePathAssumption DEF PausePathAssumption
<1>2. c.line \in Seq(Nat) /\ c.line # << >>
  BY <1>1 DEF WellFormed
<1>3. Len(c.line) \in Nat /\ DOMAIN c.line = 1 .. Len(c.line) /\ Len(c.line) # 0
  BY <1>2, LenProperties, EmptySeq
<1>4. Offsets(c) = 1 .. Len(c.line) /\ 1 \in Offsets(c)
  BY <1>3 DEF Offsets
<1>5. \A i \in Offsets(c) : c.line[i] \in Nat
  BY <1>2, <1>3, <1>4, ElementOfSeq
<1>6. /\ \A i \in Offsets(c) : c.op[i] \in {"op", "for", "store"} => i + 1 \in Offsets(c)
      /\ \A i \in Offsets(c) : c.op[i] \in {"for", "back"} => c.arg[i] \in Offsets(c)
      /\ c.handlers \subseteq Offsets(c)
      /\ c.name \in STRING
  BY <1>1 DEF WellFormed
<1>7. QED
  BY <1>3, <1>4, <1>5, <1>6

LEMMA StartsAheadFacts ==
  ASSUME NEW c \in Codes, NEW i \in Offsets(c), StartsAhead(c, i) # {}
  PROVE  /\ Least(StartsAhead(c, i)) \in StartsAhead(c, i)
         /\ \A n \in StartsAhead(c, i) : Least(StartsAhead(c, i)) <= n
<1>1. StartsAhead(c, i) \in SUBSET Nat
  BY CodeFacts DEF StartsAhead
<1>2. QED
  BY <1>1, LeastMember

LEMMA PickedTarget ==
  ASSUME code \in Codes, at \in Offsets(code)
  PROVE  Picked = NoTarget \/ (TargetOf(Picked) /\ Picked.from = at)
<1>1. /\ Offsets(code) \in SUBSET Nat
      /\ \A i \in Offsets(code) : code.line[i] \in Nat
      /\ \A i \in Offsets(code) : code.op[i] = "back" => code.arg[i] \in Offsets(code)
  BY CodeFacts
<1> DEFINE line == NextCodeLineAfterFrame(code, at)
           starts == StartsAhead(code, at)
           backs == BacksAhead(code, at)
           source == NextCodeLineIn(code, code.line[at])
<1>2. starts # {} => Least(starts) \in Offsets(code) /\ line = code.line[Least(starts)]
  <2>1. starts # {} => Least(starts) \in starts
    BY StartsAheadFacts
  <2>2. QED
    BY <2>1 DEF StartsAhead, NextCodeLineAfterFrame
<1>3. backs # {} =>
        Least(backs) \in Offsets(code) /\ code.arg[Least(backs)] \in Offsets(code)
  <2>1. backs \in SUBSET Nat
    BY <1>1 DEF BacksAhead
  <2>2. backs # {} => Least(backs) \in backs
    BY <2>1, LeastMember
  <2>3. QED
    BY <1>1, <2>2 DEF BacksAhead
<1>4. starts = {} /\ backs # {} => line = code.line[code.arg[Least(backs)]]
  BY DEF NextCodeLineAfterFrame
<1>5. starts = {} /\ backs = {} => line = NoLine
  BY DEF NextCodeLineAfterFrame
<1>6. source \in Nat
  <2> DEFINE ahead == {l \in CodeLines(code) : l > code.line[at]}
             normal == ahead \ HandlerLines(code)
             lines == IF normal # {} THEN normal ELSE ahead
  <2>1. CodeLines(code) \in SUBSET Nat
    BY <1>1 DEF CodeLines, LinesAt
  <2>2. lines \in SUBSET Nat
    BY <2>1
  <2>3. ahead # {} => lines # {}
    OBVIOUS
  <2>4. source = IF ahead = {} THEN NoLine ELSE Least(lines)
    BY DEF NextCodeLineIn
  <2>5. ahead # {} => Least(lines) \in Nat
    <3> HIDE DEF lines, ahead
    <3>1. QED
      BY <2>2, <2>3, LeastMember
  <2>6. QED
    BY <2>4, <2>5 DEF NoLine
<1>7. CASE line = NoLine
  <2>1. Picked = IF source = NoLine THEN NoTarget
                 ELSE [line |-> source, from |-> at, to |-> 0, by |-> "source"]
    BY <1>7 DEF Picked
  <2> HIDE DEF source
  <2>2. QED
    BY <2>1, <1>6 DEF TargetOf
<1>8. CASE line # NoLine /\ starts # {}
  <2>1. PICK by \in {"shared", "ahead"} :
          by = IF Least(starts) \in HandlerOffsets(code) THEN "shared" ELSE "ahead"
    OBVIOUS
  <2>2. Picked = [line |-> line, from |-> at, to |-> Least(starts), by |-> by]
    BY <1>8, <2>1 DEF Picked
  <2>3. line \in Nat /\ Least(starts) \in Nat
    BY <1>8, <1>1, <1>2
  <2>4. Picked \in [line : Nat, from : Offsets(code), to : Nat,
                    by : {"source", "shared", "ahead", "handler", "loop"}]
    <3> HIDE DEF line, starts
    <3>1. QED
      BY <2>2, <2>3
  <2>5. /\ Picked.line = line /\ Picked.from = at /\ Picked.to = Least(starts)
        /\ Picked.by = by
    BY <2>2
  <2>6. QED
    BY <1>8, <1>2, <2>1, <2>4, <2>5 DEF TargetOf
<1>9. CASE line # NoLine /\ starts = {}
  <2>1. PICK by \in {"handler", "loop"} :
          by = IF Least(backs) \in HandlerOffsets(code) THEN "handler" ELSE "loop"
    OBVIOUS
  <2>2. Picked = [line |-> line, from |-> at, to |-> code.arg[Least(backs)], by |-> by]
    BY <1>9, <2>1 DEF Picked
  <2>3. line \in Nat /\ code.arg[Least(backs)] \in Nat
    BY <1>9, <1>1, <1>3, <1>4, <1>5
  <2>4. Picked \in [line : Nat, from : Offsets(code), to : Nat,
                    by : {"source", "shared", "ahead", "handler", "loop"}]
    <3> HIDE DEF line, backs
    <3>1. QED
      BY <2>2, <2>3
  <2>5. Picked.from = at /\ Picked.by = by
    BY <2>2
  <2>6. QED
    BY <1>9, <2>1, <2>4, <2>5 DEF TargetOf
<1>10. QED
  BY <1>7, <1>8, <1>9

-----------------------------------------------------------------------------
(* What an action does to the thread.                                      *)

\* The frame goes on to offset j with event l; straight: without a jump.
Moves(j, l, straight) ==
  /\ at' = j /\ event' = l
  /\ UNCHANGED <<code, table, lineMap, build, skipped, seen, lineOn>>
  /\ run' \in Runs /\ run'.unarmed = run.unarmed /\ run'.stale = run.stale
  /\ run'.straight => run.straight /\ straight
  /\ ~ run'.missed => ~ run.missed /\ ~ (l = target.line /\ run.stale)
  /\ IF Pauses(l)
     THEN target' = NoTarget /\ own' = {} /\ pc' = "disarm"
     ELSE pc' = "run" /\ UNCHANGED <<target, own>>

LEMMA GoOnMoves ==
  ASSUME NEW j, NEW l, NEW jumps \in BOOLEAN, NEW raises \in BOOLEAN, run \in Runs,
         GoOn(j, l, jumps, raises)
  PROVE  Moves(j, l, ~ jumps)
<1>1. PICK s \in BOOLEAN, r \in BOOLEAN, o \in BOOLEAN, m \in BOOLEAN :
        /\ s = (run.straight /\ ~ jumps) /\ r = (run.raised \/ raises)
        /\ o = (run.over \/ (jumps /\ target.to \in at + 1 .. j - 1))
        /\ m = (run.missed \/ (l = target.line /\ run.stale))
  <2>1. /\ (run.straight /\ ~ jumps) \in BOOLEAN
        /\ (run.raised \/ raises) \in BOOLEAN
        /\ (run.over \/ (jumps /\ target.to \in at + 1 .. j - 1)) \in BOOLEAN
        /\ (run.missed \/ (l = target.line /\ run.stale)) \in BOOLEAN
    OBVIOUS
  <2>2. QED
    BY <2>1, Zenon
<1>2. run' = [run EXCEPT !.straight = s, !.raised = r, !.over = o, !.missed = m]
  <2>1. run' = [run EXCEPT !.straight = @ /\ ~ jumps, !.raised = @ \/ raises,
                  !.over = @ \/ (jumps /\ target.to \in at + 1 .. j - 1),
                  !.missed = @ \/ (l = target.line /\ run.stale)]
    BY DEF GoOn
  <2>2. QED
    BY <1>1, <2>1, Zenon
<1>3. /\ run' \in Runs /\ run'.unarmed = run.unarmed /\ run'.stale = run.stale
      /\ run'.straight = s /\ run'.missed = m
  BY <1>2 DEF Runs
<1>4. /\ run'.straight => run.straight /\ ~ jumps
      /\ ~ run'.missed => ~ run.missed /\ ~ (l = target.line /\ run.stale)
  BY <1>1, <1>3, Zenon
<1>5. QED
  BY <1>3, <1>4 DEF GoOn, Moves, pydevd

\* How a frame goes on: to the start, to the next offset, or with a jump.
LEMMA MoveEffect ==
  ASSUME PlaceInv, Start \/ Step \/ LoopExit \/ Back \/ Raise
  PROVE  /\ pc \in {"start", "stored", "run"} /\ code \in Codes /\ at \in Offsets(code)
         /\ \E j \in Offsets(code), straight \in BOOLEAN : \E l :
              /\ Moves(j, l, straight)
              /\ straight => pc = "start" \/ (j = at + 1 /\ l = EventOf(at, j))

<1>1. pc \in {"start", "stored", "run"}
  BY DEF Start, Step, LoopExit, Back, Raise
<1>2. code \in Codes /\ at \in Offsets(code)
  BY <1>1 DEF PlaceInv, Arming
<1>3. run \in Runs
  BY DEF PlaceInv, Arming
<1>4. TRUE \in BOOLEAN /\ FALSE \in BOOLEAN /\ (~ FALSE) = TRUE /\ (~ TRUE) = FALSE
  OBVIOUS
<1>5. CASE Start
  <2>1. GoOn(1, code.line[1], FALSE, FALSE)
    BY <1>5 DEF Start
  <2>2. Moves(1, code.line[1], TRUE)
    BY <2>1, <1>3, <1>4, GoOnMoves
  <2>3. 1 \in Offsets(code) /\ pc = "start"
    BY <1>2, <1>5, CodeFacts DEF Start
  <2>4. QED
    BY <2>2, <2>3, <1>1, <1>2, <1>4
<1>6. CASE Step
  <2>1. GoOn(at + 1, EventOf(at, at + 1), FALSE, FALSE)
    BY <1>6 DEF Step
  <2>2. Moves(at + 1, EventOf(at, at + 1), TRUE)
    BY <2>1, <1>3, <1>4, GoOnMoves
  <2>3. code.op[at] \in {"op", "for", "store"}
    BY <1>6 DEF Step, PlaceInv
  <2>4. at + 1 \in Offsets(code)
    BY <1>2, <2>3, CodeFacts
  <2>5. QED
    BY <2>2, <2>4, <1>1, <1>2, <1>4
<1>7. CASE LoopExit \/ Back
  <2>1. GoOn(code.arg[at], EventOf(at, code.arg[at]), TRUE, FALSE)
    BY <1>7 DEF LoopExit, Back, JumpTo
  <2>2. Moves(code.arg[at], EventOf(at, code.arg[at]), FALSE)
    BY <2>1, <1>3, <1>4, GoOnMoves
  <2>3. code.op[at] \in {"for", "back"}
    BY <1>7 DEF LoopExit, Back
  <2>4. code.arg[at] \in Offsets(code)
    BY <1>2, <2>3, CodeFacts
  <2>5. QED
    BY <2>2, <2>4, <1>1, <1>2, <1>4
<1>8. CASE Raise
  <2>1. PICK h \in code.handlers : GoOn(h, EventOf(at, h), TRUE, TRUE)
    BY <1>8 DEF Raise
  <2>2. Moves(h, EventOf(at, h), FALSE)
    BY <2>1, <1>3, <1>4, GoOnMoves
  <2>3. h \in Offsets(code)
    BY <1>2, CodeFacts
  <2>4. QED
    BY <2>2, <2>3, <1>1, <1>2, <1>4
<1>9. QED
  BY <1>5, <1>6, <1>7, <1>8

Moving == Start \/ Step \/ LoopExit \/ Back \/ Raise
Booted == Install \/ BeginImport \/ ImportReturns \/ ImportElsewhere \/ ImportFails

\* A breakpoint of the table, and what a hit makes of the frame.
LEMMA NoTargetFacts ==
  NoTarget.line = NoLine /\ NoTarget.by = "none" /\ NoTarget.from = 0
BY DEF NoTarget

LEMMA TargetLine ==
  ASSUME PlaceInv, TargetInv
  PROVE  target.line \in Nat /\ (target # NoTarget => target.from \in Nat)
<1>1. CASE target = NoTarget
  BY <1>1, NoTargetFacts DEF NoLine
<1>2. CASE target # NoTarget
  <2>1. target \in [line : Nat, from : Offsets(code), to : Nat,
                    by : {"source", "shared", "ahead", "handler", "loop"}]
    BY <1>2 DEF TargetInv, TargetOf
  <2>2. target.line \in Nat /\ target.from \in Offsets(code)
    BY <2>1
  <2>3. code \in Codes
    BY <1>2 DEF PlaceInv, Arming
  <2>4. QED
    BY <2>2, <2>3, CodeFacts
<1>3. QED
  BY <1>1, <1>2

\* The import hook leaves all but the patches alone.
LEMMA BootedEffect ==
  ASSUME Booted
  PROVE  UNCHANGED <<code, pc, at, event, pydevd, seen, lineOn, own, target, run>>
BY DEF Booted, Booting, Install, BeginImport, ImportReturns, ImportElsewhere, ImportFails

LEMMA SetEffect ==
  ASSUME NEW b \in UserBps, SetBreakpoint(b)
  PROVE  /\ pc # "boot" /\ event' = NoLine
         /\ UNCHANGED <<code, pc, at, lineMap, skipped, seen, lineOn, own, target, run>>
BY DEF SetBreakpoint, Changed

LEMMA PublishEffect ==
  ASSUME NEW a \in Actors, Publish(a), MapInv, PlaceInv
  PROVE  /\ pc # "boot" /\ event' = NoLine
         /\ UNCHANGED <<code, at, table, seen, lineOn, own, target>>
         /\ ~ skipped' /\ skipped' \in BOOLEAN
         /\ lineMap' = build[a].map
         /\ build' = [build EXCEPT ![a] = Nothing]
         /\ run' \in Runs /\ run'.stale = build[a].outdated
         /\ run'.unarmed = run.unarmed /\ run'.straight = run.straight
         /\ run'.missed = run.missed
         /\ a = "reader" => pc' = pc
         /\ a = "program" =>
              pc = "publish" /\ pc' = IF target = NoTarget THEN "run" ELSE "events"
<1>1. build[a] # Nothing /\ build[a] \in {Nothing} \cup Builds
  BY DEF Publish, MapInv
<1>2. build[a].outdated \in BOOLEAN
  BY <1>1 DEF Builds
<1>3. run' = [run EXCEPT !.stale = build[a].outdated]
  BY DEF Publish
<1>4. /\ run' \in Runs /\ run'.stale = build[a].outdated
      /\ run'.unarmed = run.unarmed /\ run'.straight = run.straight
      /\ run'.missed = run.missed
  BY <1>2, <1>3 DEF PlaceInv, Arming, Runs
<1>5. pc # "boot"
  BY <1>1 DEF MapInv
<1>6. a = "program" => pc = "publish"
  BY <1>1 DEF MapInv
<1>7. QED
  BY <1>4, <1>5, <1>6 DEF Publish

LEMMA HitEffect ==
  ASSUME Hit, PlaceInv
  PROVE  /\ pc = "run" /\ target = NoTarget /\ code.op[at] = "store" /\ own = {}
         /\ code \in Codes /\ at \in Offsets(code)
         /\ UNCHANGED <<code, at, pydevd, seen, lineOn, own>>
         /\ target' = Picked
         /\ pc' = IF target' = NoTarget THEN "stored" ELSE "arm"
         /\ run' \in Runs /\ run'.stale = run.stale /\ run'.straight /\ ~ run'.unarmed
         /\ ~ run'.missed
<1>1. run \in Runs /\ run.stale \in BOOLEAN
  BY DEF PlaceInv, Arming, Runs
<1>2. run' = [Undisturbed EXCEPT !.stale = run.stale]
  BY DEF Hit
<1>3. Undisturbed \in Runs
  BY DEF Undisturbed, Runs
<1>4. /\ run' \in Runs /\ run'.stale = run.stale /\ run'.straight /\ ~ run'.unarmed
      /\ ~ run'.missed
  BY <1>1, <1>2 DEF Undisturbed, Runs
<1>5. /\ pc = "run" /\ target = NoTarget /\ code.op[at] = "store" /\ own = {}
      /\ code \in Codes /\ at \in Offsets(code)
  BY DEF Hit, PlaceInv
<1>6. QED
  BY <1>4, <1>5 DEF Hit

LEMMA EventsEffect ==
  ASSUME NEW forced \in BOOLEAN, NEW ours \in BOOLEAN, ArmEvents(forced, ours), PlaceInv
  PROVE  /\ pc = "events" /\ pc' = "stored"
         /\ UNCHANGED <<code, at, pydevd, seen, target>>
         /\ lineOn' \in BOOLEAN /\ lineOn' = (lineOn \/ forced)
         /\ own' = IF ours THEN {target.line} ELSE {}
         /\ run' \in Runs /\ run'.unarmed = (~ forced /\ ~ ours)
         /\ run'.stale = run.stale /\ run'.straight = run.straight
         /\ run'.missed = run.missed
<1>1. PICK u \in BOOLEAN : u = (~ forced /\ ~ ours)
  OBVIOUS
<1>2. run' = [run EXCEPT !.unarmed = u]
  <2>1. run' = [run EXCEPT !.unarmed = ~ forced /\ ~ ours]
    BY DEF ArmEvents
  <2>2. QED
    BY <1>1, <2>1, Zenon
<1>3. /\ run' \in Runs /\ run'.unarmed = u
      /\ run'.stale = run.stale /\ run'.straight = run.straight
      /\ run'.missed = run.missed
  BY <1>2 DEF PlaceInv, Arming, Runs
<1>4. lineOn' \in BOOLEAN
  BY DEF ArmEvents, PlaceInv
<1>5. QED
  BY <1>1, <1>3, <1>4 DEF ArmEvents

LEMMA DecideEffect ==
  ASSUME Decide, PlaceInv
  PROVE  /\ pc = "decide" /\ pc' = "start"
         /\ UNCHANGED <<code, at, table, lineMap, build, own, target>>
         /\ seen' = {}
         /\ run' \in Runs /\ run'.unarmed = run.unarmed /\ run'.straight = run.straight
         /\ run'.missed = run.missed /\ (run.stale => run'.stale)
         /\ lineOn => lineOn'
         /\ lineOn' \in BOOLEAN /\ skipped' \in BOOLEAN
         /\ skipped' =>
              \/ skipped /\ run' = run
              \/ SkipsLineEvents(code, seen) /\ (~ run'.stale => seen = lineMap)
<1>1. pc = "decide" /\ pc' = "start" /\ seen' = {}
  BY DEF Decide
<1>2. UNCHANGED <<code, at, table, lineMap, build, own, target>>
  BY DEF Decide
<1>3. run \in Runs /\ lineOn \in BOOLEAN /\ skipped \in BOOLEAN
  BY DEF PlaceInv, Arming
<1>4. CASE boot.decision /\ SkipsLineEvents(code, seen)
  <2>1. skipped' = TRUE /\ UNCHANGED lineOn
    BY <1>4 DEF Decide
  <2>2. PICK t \in BOOLEAN : t = (run.stale \/ seen # lineMap)
    OBVIOUS
  <2>3. run' = [run EXCEPT !.stale = t]
    <3>1. run' = [run EXCEPT !.stale = @ \/ seen # lineMap]
      BY <1>4 DEF Decide
    <3>2. QED
      BY <2>2, <3>1, Zenon
  <2>4. /\ run' \in Runs /\ run'.unarmed = run.unarmed /\ run'.straight = run.straight
        /\ run'.missed = run.missed /\ run'.stale = t
    BY <1>3, <2>3 DEF Runs
  <2>5. (run.stale => run'.stale) /\ (~ run'.stale => seen = lineMap)
    BY <2>2, <2>4
  <2>6. QED
    BY <1>1, <1>2, <1>3, <1>4, <2>1, <2>4, <2>5
<1>5. CASE ~ (boot.decision /\ SkipsLineEvents(code, seen))
  <2>1. UNCHANGED <<skipped, run>> /\ lineOn' = (lineOn \/ Original(seen))
    BY <1>5 DEF Decide
  <2>2. QED
    BY <1>1, <1>2, <1>3, <2>1
<1>6. QED
  BY <1>4, <1>5

LEMMA EnterEffect ==
  ASSUME Enter, PlaceInv
  PROVE  /\ pc = "idle" /\ pc' \in {"start", "decide"} /\ at' = 1
         /\ UNCHANGED <<code, pydevd, lineOn, own, target>>
         /\ seen' \in {seen, lineMap}
         /\ run' \in Runs /\ run'.unarmed = run.unarmed /\ run'.stale = run.stale
         /\ ~ run'.straight /\ run'.missed = run.missed
<1>1. run' = [run EXCEPT !.straight = FALSE]
  BY DEF Enter
<1>2. /\ run' \in Runs /\ run'.unarmed = run.unarmed /\ run'.stale = run.stale
      /\ ~ run'.straight /\ run'.missed = run.missed
  BY <1>1 DEF PlaceInv, Arming, Runs
<1>3. QED
  BY <1>2 DEF Enter

-----------------------------------------------------------------------------
(* Where the thread is, and its target.                                    *)

LEMMA MovePlace ==
  ASSUME PlaceInv, Moving PROVE PlaceInv'
<1>1. pc \in {"start", "stored", "run"} /\ code \in Codes
  BY MoveEffect DEF Moving
<1>2. PICK j \in Offsets(code), straight \in BOOLEAN : \E l : Moves(j, l, straight)
  BY MoveEffect DEF Moving
<1>3. PICK l : Moves(j, l, straight)
  BY <1>2
<1>4. /\ at' = j /\ UNCHANGED <<code, skipped, lineOn>> /\ run' \in Runs
      /\ \/ pc' = "disarm" /\ target' = NoTarget /\ own' = {}
         \/ pc' = "run" /\ target' = target /\ own' = own
  BY <1>3 DEF Moves
<1>5. code' \in Codes /\ at' \in Offsets(code)'
  BY <1>1, <1>4, <1>2 DEF Offsets
<1>6. QED
  BY <1>1, <1>4, <1>5 DEF PlaceInv, Arming, Pcs

LEMMA PlaceStep ==
  ASSUME PlaceInv, MapInv, TargetInv, [Next]_vars PROVE PlaceInv'
<1>1. CASE Moving
  BY <1>1, MovePlace
<1>2. CASE Booted
  BY <1>2, BootedEffect DEF PlaceInv, Arming, pydevd, Offsets
<1>3. CASE UNCHANGED vars
  BY <1>3 DEF PlaceInv, Arming, vars, pydevd, Offsets
<1>4. CASE Register
  <2>1. pc = "boot" /\ pc' = "idle" /\ at' = at /\ code' \in Codes
        /\ UNCHANGED <<event, skipped, lineOn, own, target, run>>
    BY <1>4 DEF Register, pydevd
  <2>2. at' = 1 /\ target' = NoTarget
    BY <2>1 DEF PlaceInv, Arming
  <2>3. at' \in Offsets(code)'
    BY <2>1, <2>2, CodeFacts DEF Offsets
  <2>4. QED
    BY <2>1, <2>2, <2>3 DEF PlaceInv, Arming, Pcs
<1>5. ASSUME NEW b \in UserBps, SetBreakpoint(b) PROVE PlaceInv'
  BY <1>5, SetEffect DEF PlaceInv, Arming, Offsets
<1>6. ASSUME NEW a \in Actors, Publish(a) PROVE PlaceInv'
  <2>1. /\ pc # "boot" /\ event' = NoLine
        /\ UNCHANGED <<code, at, lineOn, own, target>>
        /\ skipped' \in BOOLEAN /\ run' \in Runs
        /\ a = "reader" => pc' = pc
        /\ a = "program" =>
             pc = "publish" /\ pc' = IF target = NoTarget THEN "run" ELSE "events"
    BY <1>6, PublishEffect
  <2>2. a = "reader" \/ a = "program"
    BY DEF Actors
  <2>3. QED
    BY <2>1, <2>2 DEF PlaceInv, Arming, Pcs, Offsets
<1>7. CASE Enter
  <2>1. code \in Codes /\ pc = "idle"
    BY <1>7, EnterEffect DEF PlaceInv, Arming
  <2>2. 1 \in Offsets(code)
    BY <2>1, CodeFacts
  <2>3. QED
    BY <1>7, <2>1, <2>2, EnterEffect DEF PlaceInv, Arming, Pcs, pydevd, Offsets
<1>8. CASE Decide
  BY <1>8, DecideEffect DEF PlaceInv, Arming, Pcs, Offsets
<1>9. CASE Return
  BY <1>9 DEF Return, PlaceInv, Arming, Pcs, pydevd, Offsets
<1>10. CASE Hit
  BY <1>10, HitEffect DEF PlaceInv, Arming, Pcs, pydevd, Offsets
<1>11. CASE Arm \/ Disarm
  <2>1. UNCHANGED <<code, at, lineOn, own, target, run, skipped>> /\ pc' = "publish"
        /\ (pc = "arm" \/ pc = "disarm")
    BY <1>11 DEF Arm, Disarm, Changed
  <2>2. QED
    BY <2>1 DEF PlaceInv, Arming, Pcs, Offsets
<1>12. ASSUME NEW forced \in BOOLEAN, NEW ours \in BOOLEAN, ArmEvents(forced, ours)
       PROVE  PlaceInv'
  BY <1>12, EventsEffect DEF PlaceInv, Arming, Pcs, pydevd, Offsets
<1>13. QED
  BY <1>1, <1>2, <1>3, <1>4, <1>5, <1>6, <1>7, <1>8, <1>9, <1>10, <1>11, <1>12
     DEF Next, Frame, Moving, Booted

\* The step does not give the frame another target.
KeepsTarget == UNCHANGED <<code, target>> \/ target' = NoTarget

LEMMA TargetKept ==
  ASSUME TargetInv, KeepsTarget PROVE TargetInv'
BY DEF TargetInv, KeepsTarget, TargetOf, Offsets

LEMMA TargetStep ==
  ASSUME PlaceInv, MapInv, TargetInv, [Next]_vars PROVE TargetInv'
<1>1. CASE Moving
  <2>1. PICK j \in Offsets(code), straight \in BOOLEAN : \E l : Moves(j, l, straight)
    BY <1>1, MoveEffect DEF Moving
  <2>2. QED
    BY <2>1, TargetKept DEF Moves, KeepsTarget
<1>2. CASE Booted
  BY <1>2, BootedEffect, TargetKept DEF KeepsTarget
<1>3. CASE UNCHANGED vars
  BY <1>3, TargetKept DEF KeepsTarget, vars
<1>4. CASE Register
  BY <1>4, TargetKept DEF KeepsTarget, Register, PlaceInv
<1>5. ASSUME NEW b \in UserBps, SetBreakpoint(b) PROVE TargetInv'
  BY <1>5, SetEffect, TargetKept DEF KeepsTarget
<1>6. ASSUME NEW a \in Actors, Publish(a) PROVE TargetInv'
  BY <1>6, PublishEffect, TargetKept DEF KeepsTarget
<1>7. CASE Enter \/ Decide \/ Return \/ Arm \/ Disarm
  BY <1>7, TargetKept DEF KeepsTarget, Enter, Decide, Return, Arm, Disarm
<1>8. CASE Hit
  <2>1. target' = Picked /\ code' = code /\ code \in Codes /\ at \in Offsets(code)
    BY <1>8, HitEffect
  <2>2. target' = NoTarget \/ TargetOf(target')
    BY <2>1, PickedTarget
  <2>3. QED
    BY <2>1, <2>2 DEF TargetInv, TargetOf, Offsets
<1>9. ASSUME NEW forced \in BOOLEAN, NEW ours \in BOOLEAN, ArmEvents(forced, ours)
      PROVE  TargetInv'
  BY <1>9, EventsEffect, TargetKept DEF KeepsTarget
<1>10. QED
  BY <1>1, <1>2, <1>3, <1>4, <1>5, <1>6, <1>7, <1>8, <1>9
     DEF Next, Frame, Moving, Booted

-----------------------------------------------------------------------------
(* pydevd's table of breakpoints.                                          *)

\* Both tables have the same temporary breakpoints.
SameTemps(p, q) ==
  /\ \A i \in DOMAIN q : q[i].temp => \E j \in DOMAIN p : p[j] = q[i]
  /\ \A i \in DOMAIN p : p[i].temp => \E j \in DOMAIN q : q[j] = p[i]

LEMMA UserBreakpoint ==
  ASSUME NEW b \in UserBps PROVE b \in Breakpoint /\ ~ b.temp
BY PausePathAssumption DEF PausePathAssumption

LEMMA AppendEntry ==
  ASSUME NEW bps, Entries(bps), NEW b \in Breakpoint,
         ~ b.temp => b \in UserBps /\ \A i \in DOMAIN bps : bps[i] # b,
         b.temp => \A i \in DOMAIN bps : ~ bps[i].temp
  PROVE  /\ Entries(Append(bps, b))
         /\ DOMAIN Append(bps, b) = 1 .. Len(bps) + 1
         /\ DOMAIN bps = 1 .. Len(bps) /\ Len(bps) \in Nat
         /\ Append(bps, b)[Len(bps) + 1] = b
         /\ \A i \in DOMAIN bps : Append(bps, b)[i] = bps[i]
<1>1. bps \in Seq(Breakpoint)
  BY DEF Entries
<1>2. Len(bps) \in Nat /\ DOMAIN bps = 1 .. Len(bps)
  BY <1>1, LenProperties
<1> DEFINE q == Append(bps, b)
<1>3. /\ q \in Seq(Breakpoint) /\ Len(q) = Len(bps) + 1
      /\ \A i \in 1 .. Len(bps) : q[i] = bps[i]
      /\ q[Len(bps) + 1] = b
  BY <1>1, AppendProperties
<1>4. DOMAIN q = 1 .. Len(bps) + 1
  BY <1>3, LenProperties
<1> HIDE DEF q
<1>5. \A i \in DOMAIN q : i \in DOMAIN bps \/ (i = Len(bps) + 1 /\ q[i] = b)
  BY <1>2, <1>3, <1>4
<1>6. \A i \in DOMAIN q : ~ q[i].temp => q[i] \in UserBps
  BY <1>5, <1>2, <1>3 DEF Entries
<1>7. \A i, j \in DOMAIN q : ~ q[i].temp /\ q[i] = q[j] => i = j
  BY <1>5, <1>2, <1>3 DEF Entries
<1>8. \A i, j \in DOMAIN q : q[i].temp /\ q[j].temp => i = j
  BY <1>5, <1>2, <1>3 DEF Entries
<1>9. Entries(q)
  BY <1>3, <1>6, <1>7, <1>8 DEF Entries
<1>10. QED
  BY <1>2, <1>3, <1>4, <1>9 DEF q

\* Without the entry at i the others are left, in their order.
LEMMA RemoveEntry ==
  ASSUME NEW bps, Entries(bps), NEW i \in DOMAIN bps
  PROVE  /\ Entries(RemoveAt(bps, i))
         /\ \A n \in DOMAIN RemoveAt(bps, i) :
              \E m \in DOMAIN bps : m # i /\ RemoveAt(bps, i)[n] = bps[m]
         /\ \A m \in DOMAIN bps :
              m # i => \E n \in DOMAIN RemoveAt(bps, i) : RemoveAt(bps, i)[n] = bps[m]
<1>1. bps \in Seq(Breakpoint)
  BY DEF Entries
<1>2. Len(bps) \in Nat /\ DOMAIN bps = 1 .. Len(bps) /\ i \in 1 .. Len(bps)
  BY <1>1, LenProperties
<1> DEFINE q == RemoveAt(bps, i)
<1>3. /\ q \in Seq(Breakpoint)
      /\ DOMAIN q = 1 .. Len(bps) - 1
      /\ \A n \in 1 .. Len(bps) - 1 : q[n] = IF n < i THEN bps[n] ELSE bps[n + 1]
  BY <1>1, RemoveAtProperties
<1> HIDE DEF q
<1> DEFINE old(n) == IF n < i THEN n ELSE n + 1
<1>4. \A n \in DOMAIN q : old(n) \in DOMAIN bps /\ old(n) # i /\ q[n] = bps[old(n)]
  BY <1>2, <1>3
<1>5. \A n, m \in DOMAIN q : old(n) = old(m) => n = m
  BY <1>2, <1>3
<1>6. ASSUME NEW m \in DOMAIN bps, m # i PROVE \E n \in DOMAIN q : q[n] = bps[m]
  <2>1. CASE m < i
    <3>1. m \in DOMAIN q /\ q[m] = bps[m]
      BY <1>2, <1>3, <2>1
    <3>2. QED
      BY <3>1
  <2>2. CASE ~ (m < i)
    <3>1. m - 1 \in DOMAIN q /\ ~ (m - 1 < i) /\ m - 1 + 1 = m
      BY <1>2, <1>3, <1>6, <2>2
    <3>2. q[m - 1] = bps[m - 1 + 1]
      BY <3>1, <1>3
    <3>3. QED
      BY <3>1, <3>2
  <2>3. QED
    BY <2>1, <2>2
<1> HIDE DEF old
<1>7. Entries(q)
  <2>1. \A n \in DOMAIN q : ~ q[n].temp => q[n] \in UserBps
    BY <1>4 DEF Entries
  <2>2. \A n, m \in DOMAIN q : ~ q[n].temp /\ q[n] = q[m] => n = m
    BY <1>4, <1>5 DEF Entries
  <2>3. \A n, m \in DOMAIN q : q[n].temp /\ q[m].temp => n = m
    BY <1>4, <1>5 DEF Entries
  <2>4. QED
    BY <1>3, <2>1, <2>2, <2>3 DEF Entries
<1>8. QED
  BY <1>4, <1>6, <1>7 DEF q

LEMMA SetTable ==
  ASSUME NEW b \in UserBps, Entries(table), SetBreakpoint(b)
  PROVE  Entries(table') /\ SameTemps(table, table')
<1> DEFINE positions == {i \in DOMAIN table : table[i] = b}
<1>1. b \in Breakpoint /\ ~ b.temp
  BY UserBreakpoint
<1>2. table' = IF positions = {} THEN Append(table, b) ELSE RemoveAt(table, Least(positions))
  BY DEF SetBreakpoint, Changed
<1>3. CASE positions = {}
  <2>1. table' = Append(table, b)
    BY <1>2, <1>3
  <2>2. \A i \in DOMAIN table : table[i] # b
    BY <1>3
  <2>3. PICK q : q = Append(table, b)
    OBVIOUS
  <2>4. /\ Entries(q) /\ DOMAIN q = 1 .. Len(table) + 1
        /\ DOMAIN table = 1 .. Len(table) /\ Len(table) \in Nat
        /\ q[Len(table) + 1] = b /\ \A i \in DOMAIN table : q[i] = table[i]
    BY <1>1, <2>2, <2>3, AppendEntry
  <2>5. \A i \in DOMAIN q : i \in DOMAIN table \/ i = Len(table) + 1
    BY <2>4
  <2>6. \A i \in DOMAIN table : i \in DOMAIN q
    BY <2>4
  <2>7. SameTemps(table, q)
    BY <1>1, <2>4, <2>5, <2>6 DEF SameTemps
  <2>8. QED
    BY <2>1, <2>3, <2>4, <2>7
<1>4. CASE positions # {}
  <2>1. Len(table) \in Nat /\ DOMAIN table = 1 .. Len(table)
    BY LenProperties DEF Entries
  <2>2. positions \in SUBSET Nat
    BY <2>1
  <2>3. Least(positions) \in positions
    <3> HIDE DEF positions
    <3>1. QED
      BY <1>4, <2>2, LeastMember
  <2>4. PICK i : i = Least(positions)
    OBVIOUS
  <2>5. i \in DOMAIN table /\ table[i] = b /\ table' = RemoveAt(table, i)
    BY <1>2, <1>4, <2>3, <2>4
  <2>6. PICK q : q = RemoveAt(table, i)
    OBVIOUS
  <2>7. /\ Entries(q)
        /\ \A n \in DOMAIN q : \E m \in DOMAIN table : m # i /\ q[n] = table[m]
        /\ \A m \in DOMAIN table : m # i => \E n \in DOMAIN q : q[n] = table[m]
    BY <2>5, <2>6, RemoveEntry
  <2>8. SameTemps(table, q)
    BY <1>1, <2>5, <2>7 DEF SameTemps
  <2>9. QED
    BY <2>5, <2>6, <2>7, <2>8
<1>5. QED
  BY <1>3, <1>4

LEMMA ArmTable ==
  ASSUME PlaceInv, TargetInv, Entries(table), TempInv, Arm
  PROVE  /\ Entries(table')
         /\ \E i \in DOMAIN table' : table'[i].temp /\ table'[i].line = target.line
         /\ \A i \in DOMAIN table' : table'[i].temp => table'[i].line = target.line
<1>1. PICK b : b = [line |-> target.line, func |-> code.name, temp |-> TRUE]
  OBVIOUS
<1>2. pc = "arm" /\ code \in Codes
  BY DEF Arm, PlaceInv
<1>3. target.line \in Nat /\ code.name \in STRING
  BY <1>2, TargetLine, CodeFacts
<1>4. b \in Breakpoint /\ b.temp = TRUE /\ b.line = target.line
  BY <1>1, <1>3 DEF Breakpoint
<1>5. table' = Append(table, b)
  BY <1>1 DEF Arm, Changed
<1>6. \A i \in DOMAIN table : ~ table[i].temp
  BY <1>2 DEF TempInv
<1>7. PICK q : q = Append(table, b)
  OBVIOUS
<1>8. /\ Entries(q) /\ DOMAIN q = 1 .. Len(table) + 1
      /\ DOMAIN table = 1 .. Len(table) /\ Len(table) \in Nat
      /\ q[Len(table) + 1] = b /\ \A i \in DOMAIN table : q[i] = table[i]
  BY <1>4, <1>6, <1>7, AppendEntry
<1>9. Len(table) + 1 \in DOMAIN q
  BY <1>8
<1>10. \A i \in DOMAIN q : i \in DOMAIN table \/ i = Len(table) + 1
  BY <1>8
<1>11. /\ \E i \in DOMAIN q : q[i].temp /\ q[i].line = target.line
       /\ \A i \in DOMAIN q : q[i].temp => q[i].line = target.line
  BY <1>4, <1>6, <1>8, <1>9, <1>10
<1>12. QED
  BY <1>5, <1>7, <1>8, <1>11

LEMMA DisarmTable ==
  ASSUME Entries(table), Disarm
  PROVE  Entries(table') /\ \A i \in DOMAIN table' : ~ table'[i].temp
<1> DEFINE temps == {i \in DOMAIN table : table[i].temp}
<1>1. table' = IF temps = {} THEN table ELSE RemoveAt(table, Least(temps))
  BY DEF Disarm, Changed, WithoutTemps
<1>2. CASE temps = {}
  BY <1>1, <1>2
<1>3. CASE temps # {}
  <2>1. Len(table) \in Nat /\ DOMAIN table = 1 .. Len(table)
    BY LenProperties DEF Entries
  <2>2. temps \in SUBSET Nat
    BY <2>1
  <2>3. Least(temps) \in temps
    <3> HIDE DEF temps
    <3>1. QED
      BY <1>3, <2>2, LeastMember
  <2>4. PICK i : i = Least(temps)
    OBVIOUS
  <2>5. i \in DOMAIN table /\ table[i].temp /\ table' = RemoveAt(table, i)
    BY <1>1, <1>3, <2>3, <2>4
  <2>6. PICK q : q = RemoveAt(table, i)
    OBVIOUS
  <2>7. /\ Entries(q)
        /\ \A n \in DOMAIN q : \E m \in DOMAIN table : m # i /\ q[n] = table[m]
    BY <2>5, <2>6, RemoveEntry
  <2>8. \A m \in DOMAIN table : table[m].temp => m = i
    BY <2>5 DEF Entries
  <2>9. \A n \in DOMAIN q : ~ q[n].temp
    BY <2>7, <2>8
  <2>10. QED
    BY <2>5, <2>6, <2>7, <2>9
<1>4. QED
  BY <1>2, <1>3

\* Only these steps change the table, or the map under construction.
LEMMA TableKept ==
  ASSUME PlaceInv, MapInv, [Next]_vars
  PROVE  \/ UNCHANGED table
         \/ \E b \in UserBps : SetBreakpoint(b)
         \/ Arm \/ Disarm
<1>1. CASE Moving
  BY <1>1, MoveEffect DEF Moving, Moves
<1>2. CASE Booted
  BY <1>2, BootedEffect DEF pydevd
<1>3. CASE UNCHANGED vars \/ Register \/ Enter \/ Decide \/ Return \/ Hit
  BY <1>3 DEF vars, pydevd, Register, Enter, Decide, Return, Hit
<1>4. ASSUME NEW a \in Actors, Publish(a) PROVE UNCHANGED table
  BY <1>4 DEF Publish
<1>5. ASSUME NEW forced \in BOOLEAN, NEW ours \in BOOLEAN, ArmEvents(forced, ours)
      PROVE  UNCHANGED table
  BY <1>5 DEF ArmEvents, pydevd
<1>6. QED
  BY <1>1, <1>2, <1>3, <1>4, <1>5 DEF Next, Frame, Moving, Booted

LEMMA EntriesStep ==
  ASSUME PlaceInv, TargetInv, MapInv, TempInv, Entries(table), [Next]_vars
  PROVE  Entries(table')
BY TableKept, SetTable, ArmTable, DisarmTable

\* The hit's breakpoint stays as the thread goes on.
LEMMA TempKept ==
  ASSUME TempInv, SameTemps(table, table'),
         pc # "arm", pc' # "arm", UNCHANGED target, pc = "disarm" => pc' = "disarm"
  PROVE  TempInv'
<1>1. ASSUME NEW i \in DOMAIN table', table'[i].temp
      PROVE  pc' = "disarm" \/ (target' # NoTarget /\ pc' # "arm"
                                /\ table'[i].line = target'.line)
  <2>1. PICK j \in DOMAIN table : table[j] = table'[i]
    BY <1>1 DEF SameTemps
  <2>2. QED
    BY <2>1, <1>1 DEF TempInv
<1>2. ASSUME target' # NoTarget
      PROVE  \E i \in DOMAIN table' : table'[i].temp /\ table'[i].line = target'.line
  <2>1. PICK i \in DOMAIN table : table[i].temp /\ table[i].line = target.line
    BY <1>2 DEF TempInv
  <2>2. PICK j \in DOMAIN table' : table'[j] = table[i]
    BY <2>1 DEF SameTemps
  <2>3. QED
    BY <2>1, <2>2
<1>3. QED
  BY <1>1, <1>2 DEF TempInv

LEMMA TempStep ==
  ASSUME PlaceInv, TargetInv, MapInv, TempInv, Entries(table), [Next]_vars
  PROVE  TempInv'
<1>0. table' = table => SameTemps(table, table')
  BY DEF SameTemps
<1>1. CASE Moving
  <2>1. PICK j \in Offsets(code), straight \in BOOLEAN : \E l : Moves(j, l, straight)
    BY <1>1, MoveEffect DEF Moving
  <2>2. PICK l : Moves(j, l, straight)
    BY <2>1
  <2>3. table' = table /\ pc \notin {"arm", "disarm"}
    BY <2>2, <1>1, MoveEffect DEF Moves, Moving
  <2>4. CASE Pauses(l)
    BY <2>2, <2>3, <2>4 DEF Moves, TempInv
  <2>5. CASE ~ Pauses(l)
    BY <2>2, <2>3, <2>5 DEF Moves, TempInv
  <2>6. QED
    BY <2>4, <2>5
<1>2. CASE Booted \/ UNCHANGED vars
  <2>1. UNCHANGED <<table, target, pc>>
    BY <1>2, BootedEffect DEF pydevd, vars
  <2>2. QED
    BY <2>1 DEF TempInv
<1>3. CASE Register
  BY <1>3 DEF Register, TempInv, PlaceInv, pydevd
<1>4. ASSUME NEW b \in UserBps, SetBreakpoint(b) PROVE TempInv'
  <2>1. UNCHANGED <<target, pc>> /\ SameTemps(table, table')
    BY <1>4, SetEffect, SetTable
  <2>2. CASE pc # "arm"
    BY <2>1, <2>2, TempKept
  <2>3. CASE pc = "arm"
    BY <2>1, <2>3 DEF TempInv, SameTemps
  <2>4. QED
    BY <2>2, <2>3
<1>5. ASSUME NEW a \in Actors, Publish(a) PROVE TempInv'
  <2>1. UNCHANGED <<table, target>> /\ (pc' = pc \/ (pc = "publish" /\ pc' \in {"run", "events"}))
    BY <1>5, PublishEffect DEF Actors
  <2>2. QED
    BY <2>1 DEF TempInv
<1>6. CASE Enter \/ Decide \/ Return
  BY <1>6 DEF Enter, Decide, Return, TempInv, pydevd
<1>7. CASE Hit
  <2>1. /\ pc = "run" /\ target = NoTarget /\ table' = table
        /\ pc' = IF target' = NoTarget THEN "stored" ELSE "arm"
    BY <1>7, HitEffect DEF pydevd
  <2>2. \A i \in DOMAIN table : ~ table[i].temp
    BY <2>1 DEF TempInv
  <2>3. QED
    BY <2>1, <2>2 DEF TempInv
<1>8. CASE Arm
  <2>1. pc = "arm" /\ pc' = "publish" /\ target' = target /\ target # NoTarget
    BY <1>8 DEF Arm, PlaceInv
  <2>2. QED
    BY <1>8, <2>1, ArmTable DEF TempInv
<1>9. CASE Disarm
  <2>1. target' = NoTarget
    BY <1>9 DEF Disarm, PlaceInv
  <2>2. QED
    BY <1>9, <2>1, DisarmTable DEF TempInv
<1>10. ASSUME NEW forced \in BOOLEAN, NEW ours \in BOOLEAN, ArmEvents(forced, ours)
       PROVE  TempInv'
  <2>1. UNCHANGED <<table, target>> /\ pc = "events" /\ pc' = "stored"
    BY <1>10, EventsEffect DEF pydevd
  <2>2. QED
    BY <2>1 DEF TempInv
<1>11. QED
  BY <1>1, <1>2, <1>3, <1>4, <1>5, <1>6, <1>7, <1>8, <1>9, <1>10
     DEF Next, Frame, Moving, Booted

-----------------------------------------------------------------------------
(* Line maps.                                                              *)

LEMMA BuildFacts ==
  ASSUME NEW map, NEW old \in BOOLEAN, LineMap(map)
  PROVE  /\ [map |-> map, outdated |-> old] \in Builds
         /\ [map |-> map, outdated |-> old] # Nothing
<1>1. [map |-> map, outdated |-> old] \in Builds
  BY DEF Builds, LineMap
<1>2. DOMAIN [map |-> map, outdated |-> old] = {"map", "outdated"}
  OBVIOUS
<1>3. DOMAIN Nothing = {}
  BY DEF Nothing
<1>4. QED
  BY <1>1, <1>2, <1>3

\* An actor that changes the table has built the map of the new one.
LEMMA ChangedBuilds ==
  ASSUME MapInv, NEW actor \in Actors, NEW bps \in Seq(Breakpoint),
         Changed(actor, bps, MapOf(bps))
  PROVE  /\ build' \in [Actors -> {Nothing} \cup Builds]
         /\ build'[actor] # Nothing
         /\ \A a \in Actors : a # actor /\ build'[a] # Nothing => build[a] # Nothing
         /\ \A a \in Actors : build'[a] # Nothing => LineMap(build'[a].map)
         /\ \A a \in Actors : build'[a] # Nothing /\ ~ build'[a].outdated =>
              build'[a].map = MapOf(table')
         /\ lineMap' = lineMap /\ table' = bps
<1>1. LineMap(MapOf(bps))
  BY MapOfIsMap
<1>2. PICK r : r = [map |-> MapOf(bps), outdated |-> FALSE]
  OBVIOUS
<1>3. r \in Builds /\ r # Nothing
  BY <1>1, <1>2, BuildFacts
<1>4. r.map = MapOf(bps) /\ r.outdated = FALSE
  BY <1>2
<1>5. /\ build' = [a \in Actors |->
                     IF a = actor THEN r
                     ELSE IF build[a] = Nothing THEN Nothing
                     ELSE [build[a] EXCEPT !.outdated = TRUE]]
      /\ lineMap' = lineMap /\ table' = bps
  BY <1>2 DEF Changed
<1>6. ASSUME NEW a \in Actors, build[a] # Nothing
      PROVE  /\ [build[a] EXCEPT !.outdated = TRUE] \in Builds
             /\ [build[a] EXCEPT !.outdated = TRUE].map = build[a].map
             /\ [build[a] EXCEPT !.outdated = TRUE].outdated = TRUE
             /\ LineMap(build[a].map)
  <2>1. build[a] \in Builds /\ LineMap(build[a].map)
    BY <1>6 DEF MapInv
  <2>2. QED
    BY <2>1 DEF Builds
<1>7. ASSUME NEW a \in Actors
      PROVE  /\ build'[a] \in {Nothing} \cup Builds
             /\ a = actor => build'[a] = r
             /\ a # actor /\ build'[a] # Nothing =>
                  build[a] # Nothing /\ LineMap(build'[a].map) /\ build'[a].outdated = TRUE
  <2>1. CASE a = actor
    BY <1>3, <1>5, <2>1
  <2>2. CASE a # actor /\ build[a] = Nothing
    <3>1. build'[a] = Nothing
      BY <1>5, <2>2
    <3>2. QED
      BY <3>1, <2>2
  <2>3. CASE a # actor /\ build[a] # Nothing
    <3>1. build'[a] = [build[a] EXCEPT !.outdated = TRUE]
      BY <1>5, <2>3
    <3>2. QED
      BY <3>1, <1>6, <2>3
  <2>4. QED
    BY <2>1, <2>2, <2>3
<1>8. build' \in [Actors -> {Nothing} \cup Builds]
  BY <1>5, <1>7
<1>9. QED
  BY <1>1, <1>3, <1>4, <1>5, <1>7, <1>8

\* A step that leaves table and maps alone.
LEMMA MapKept ==
  ASSUME MapInv, UNCHANGED <<table, lineMap, build>>, seen' \in {seen, lineMap, {}},
         run.stale => run'.stale, pc = "publish" => pc' = "publish",
         pc' = "boot" => pc = "boot"
  PROVE  MapInv'
<1>1. MapOf(table)' = MapOf(table) /\ LineMap(lineMap)' = LineMap(lineMap)
  BY DEF MapOf, LineMap
<1>2. seen' \subseteq Breakpoint
  BY DEF MapInv, LineMap
<1>3. build["program"]' # Nothing => pc' = "publish"
  BY DEF MapInv
<1>4. /\ build' \in [Actors -> {Nothing} \cup Builds]
      /\ pc' = "boot" => \A a \in Actors : build'[a] = Nothing
      /\ \A a \in Actors : build'[a] # Nothing => LineMap(build'[a].map)
      /\ \A a \in Actors : build'[a] # Nothing /\ ~ build'[a].outdated =>
           build'[a].map = MapOf(table)
  BY DEF MapInv
<1>5. (\A a \in Actors : build'[a] = Nothing) /\ ~ run'.stale => lineMap' = MapOf(table)
  BY DEF MapInv
<1>6. LineMap(lineMap)'
  BY <1>1 DEF MapInv
<1>7. QED
  BY <1>1, <1>2, <1>3, <1>4, <1>5, <1>6 DEF MapInv, LineMap

LEMMA MapStep ==
  ASSUME PlaceInv, TargetInv, MapInv, TempInv, Entries(table), [Next]_vars
  PROVE  MapInv'
<1>0. table' \in Seq(Breakpoint)
  BY EntriesStep DEF Entries
<1>1. CASE Moving
  <2>1. PICK j \in Offsets(code), straight \in BOOLEAN : \E l : Moves(j, l, straight)
    BY <1>1, MoveEffect DEF Moving
  <2>2. pc \in {"start", "stored", "run"}
    BY <1>1, MoveEffect DEF Moving
  <2>3. UNCHANGED <<table, lineMap, build, seen>> /\ run'.stale = run.stale
        /\ pc' \in {"run", "disarm"}
    BY <2>1 DEF Moves
  <2>4. QED
    BY <2>2, <2>3, MapKept
<1>2. CASE Booted
  BY <1>2, BootedEffect, MapKept DEF pydevd
<1>3. CASE UNCHANGED vars
  BY <1>3, MapKept DEF vars, pydevd
<1>4. CASE Register
  BY <1>4, MapKept DEF Register, pydevd
<1>5. ASSUME NEW b \in UserBps, SetBreakpoint(b) PROVE MapInv'
  <2>1. Changed("reader", table', MapOf(table'))
    BY <1>5 DEF SetBreakpoint, Changed
  <2>2. "reader" \in Actors
    BY DEF Actors
  <2>3. /\ build' \in [Actors -> {Nothing} \cup Builds]
        /\ build'["reader"] # Nothing
        /\ \A a \in Actors : a # "reader" /\ build'[a] # Nothing => build[a] # Nothing
        /\ \A a \in Actors : build'[a] # Nothing => LineMap(build'[a].map)
        /\ \A a \in Actors : build'[a] # Nothing /\ ~ build'[a].outdated =>
             build'[a].map = MapOf(table')
        /\ lineMap' = lineMap
    BY <1>0, <2>1, <2>2, ChangedBuilds
  <2>4. pc' = pc /\ pc # "boot" /\ seen' = seen
    BY <1>5, SetEffect
  <2>5. build'["program"] # Nothing => pc' = "publish"
    BY <2>3, <2>4 DEF MapInv, Actors
  <2>6. QED
    BY <2>2, <2>3, <2>4, <2>5 DEF MapInv, MapOf
<1>6. CASE Arm \/ Disarm
  <2>1. Changed("program", table', MapOf(table'))
    BY <1>6 DEF Arm, Disarm, Changed, RebuiltMap
  <2>2. "program" \in Actors
    BY DEF Actors
  <2>3. /\ build' \in [Actors -> {Nothing} \cup Builds]
        /\ build'["program"] # Nothing
        /\ \A a \in Actors : build'[a] # Nothing => LineMap(build'[a].map)
        /\ \A a \in Actors : build'[a] # Nothing /\ ~ build'[a].outdated =>
             build'[a].map = MapOf(table')
        /\ lineMap' = lineMap
    BY <1>0, <2>1, <2>2, ChangedBuilds
  <2>4. pc' = "publish" /\ seen' = seen
    BY <1>6 DEF Arm, Disarm
  <2>5. QED
    BY <2>2, <2>3, <2>4 DEF MapInv, MapOf
<1>7. ASSUME NEW a \in Actors, Publish(a) PROVE MapInv'
  <2>1. /\ pc # "boot" /\ UNCHANGED <<table, seen>>
        /\ lineMap' = build[a].map
        /\ build' = [build EXCEPT ![a] = Nothing]
        /\ run'.stale = build[a].outdated
        /\ a = "reader" => pc' = pc
        /\ a = "program" => pc' \in {"run", "events"}
    BY <1>7, PublishEffect
  <2>2. build[a] # Nothing
    BY <1>7 DEF Publish
  <2>3. LineMap(lineMap') /\ (~ run'.stale => lineMap' = MapOf(table))
    BY <2>1, <2>2 DEF MapInv
  <2>4. /\ build' \in [Actors -> {Nothing} \cup Builds] /\ build'[a] = Nothing
        /\ \A c \in Actors : c # a => build'[c] = build[c]
    BY <2>1 DEF MapInv
  <2>5. pc' # "boot" /\ (build'["program"] # Nothing => pc' = "publish")
    BY <2>1, <2>4 DEF MapInv, Actors
  <2>6. /\ \A c \in Actors : build'[c] # Nothing => LineMap(build'[c].map)
        /\ \A c \in Actors : build'[c] # Nothing /\ ~ build'[c].outdated =>
             build'[c].map = MapOf(table)
    BY <2>4 DEF MapInv
  <2>7. QED
    BY <2>1, <2>3, <2>4, <2>5, <2>6 DEF MapInv, MapOf
<1>8. CASE Enter
  BY <1>8, EnterEffect, MapKept DEF pydevd
<1>9. CASE Decide
  BY <1>9, DecideEffect, MapKept
<1>10. CASE Return
  BY <1>10, MapKept DEF Return, pydevd
<1>11. CASE Hit
  BY <1>11, HitEffect, MapKept DEF pydevd
<1>12. ASSUME NEW forced \in BOOLEAN, NEW ours \in BOOLEAN, ArmEvents(forced, ours)
       PROVE  MapInv'
  BY <1>12, EventsEffect, MapKept DEF pydevd
<1>13. QED
  BY <1>1, <1>2, <1>3, <1>4, <1>5, <1>6, <1>7, <1>8, <1>9, <1>10, <1>11, <1>12
     DEF Next, Frame, Moving, Booted

-----------------------------------------------------------------------------
(* The line events of a hit.                                               *)

LEMMA ArmedKept ==
  ASSUME ArmedInv, UNCHANGED <<target, lineMap, own>>, lineOn => lineOn',
         run'.unarmed = run.unarmed, run.stale => run'.stale,
         pc' = "events" => pc = "events",
         pc' \notin {"arm", "publish", "events"} => pc \notin {"arm", "publish", "events"}
  PROVE  ArmedInv'
BY DEF ArmedInv, OnMap

\* The map of the table has a breakpoint at the target.
LEMMA TargetOnMap ==
  ASSUME TempInv, Entries(table), target # NoTarget, pc # "arm"
  PROVE  \E b \in MapOf(table) : b.line = target.line
<1>1. PICK i \in DOMAIN table : table[i].line = target.line
  BY DEF TempInv
<1>2. QED
  BY <1>1, MapOfLines DEF Entries

LEMMA ArmedStep ==
  ASSUME PlaceInv, TargetInv, MapInv, TempInv, Entries(table), ArmedInv, [Next]_vars
  PROVE  ArmedInv'
<1>1. CASE Moving
  <2>1. PICK j \in Offsets(code), straight \in BOOLEAN : \E l : Moves(j, l, straight)
    BY <1>1, MoveEffect DEF Moving
  <2>2. PICK l : Moves(j, l, straight)
    BY <2>1
  <2>3. pc \in {"start", "stored", "run"}
    BY <1>1, MoveEffect DEF Moving
  <2>4. CASE Pauses(l)
    <3>1. target' = NoTarget /\ pc' = "disarm"
      BY <2>2, <2>4 DEF Moves
    <3>2. QED
      BY <3>1 DEF ArmedInv
  <2>5. CASE ~ Pauses(l)
    <3>1. /\ UNCHANGED <<target, lineMap, own, lineOn>> /\ pc' = "run"
          /\ run'.unarmed = run.unarmed /\ run'.stale = run.stale
      BY <2>2, <2>5 DEF Moves
    <3>2. QED
      BY <2>3, <3>1, ArmedKept
  <2>6. QED
    BY <2>4, <2>5
<1>2. CASE Booted
  BY <1>2, BootedEffect, ArmedKept DEF pydevd
<1>3. CASE UNCHANGED vars
  BY <1>3, ArmedKept DEF vars, pydevd
<1>4. CASE Register
  BY <1>4 DEF Register, PlaceInv, ArmedInv
<1>5. ASSUME NEW b \in UserBps, SetBreakpoint(b) PROVE ArmedInv'
  BY <1>5, SetEffect, ArmedKept
<1>6. ASSUME NEW a \in Actors, Publish(a) PROVE ArmedInv'
  <2>1. /\ UNCHANGED <<table, lineOn, own, target>>
        /\ lineMap' = build[a].map
        /\ run'.stale = build[a].outdated /\ run'.unarmed = run.unarmed
        /\ a = "reader" => pc' = pc
        /\ a = "program" =>
             pc = "publish" /\ pc' = IF target = NoTarget THEN "run" ELSE "events"
    BY <1>6, PublishEffect
  <2>2. build[a] # Nothing
    BY <1>6 DEF Publish
  <2>3. ~ run'.stale => lineMap' = MapOf(table)
    BY <2>1, <2>2 DEF MapInv
  <2>4. ASSUME target # NoTarget, pc # "arm" PROVE OnMap'
    <3>1. \E b \in MapOf(table) : b.line = target.line
      BY <2>4, TargetOnMap
    <3>2. QED
      BY <2>1, <2>3, <3>1 DEF OnMap
  <2>5. CASE a = "reader"
    BY <2>1, <2>4, <2>5 DEF ArmedInv, PlaceInv
  <2>6. CASE a = "program"
    BY <2>1, <2>4, <2>6 DEF ArmedInv
  <2>7. QED
    BY <2>5, <2>6 DEF Actors
<1>7. CASE Enter
  BY <1>7, EnterEffect, ArmedKept DEF pydevd
<1>8. CASE Decide
  BY <1>8, DecideEffect, ArmedKept
<1>9. CASE Return
  BY <1>9, ArmedKept DEF Return, pydevd
<1>10. CASE Hit
  <2>1. pc' = IF target' = NoTarget THEN "stored" ELSE "arm"
    BY <1>10, HitEffect
  <2>2. QED
    BY <2>1 DEF ArmedInv
<1>11. CASE Arm \/ Disarm
  BY <1>11 DEF Arm, Disarm, ArmedInv
<1>12. ASSUME NEW forced \in BOOLEAN, NEW ours \in BOOLEAN, ArmEvents(forced, ours)
       PROVE  ArmedInv'
  <2>1. /\ pc = "events" /\ pc' = "stored"
        /\ UNCHANGED <<lineMap, target>>
        /\ lineOn' = (lineOn \/ forced)
        /\ own' = IF ours THEN {target.line} ELSE {}
        /\ run'.unarmed = (~ forced /\ ~ ours) /\ run'.stale = run.stale
    BY <1>12, EventsEffect DEF pydevd
  <2>2. OnMap'
    BY <2>1 DEF ArmedInv, OnMap
  <2>3. QED
    BY <2>1, <2>2 DEF ArmedInv
<1>13. QED
  BY <1>1, <1>2, <1>3, <1>4, <1>5, <1>6, <1>7, <1>8, <1>9, <1>10, <1>11, <1>12
     DEF Next, Frame, Moving, Booted

-----------------------------------------------------------------------------
(* The line events of a frame that runs straight on from the change.       *)

LEMMA AheadFacts ==
  ASSUME PlaceInv, TargetInv, target.by = "ahead"
  PROVE  /\ target # NoTarget /\ code \in Codes /\ pc # "boot"
         /\ target.from \in Offsets(code) /\ target.from \in Nat
         /\ target.to \in StartsAhead(code, target.from) /\ target.to \in Nat
         /\ target.line = code.line[target.to]
         /\ \A n \in StartsAhead(code, target.from) : target.to <= n
<1>1. target # NoTarget
  BY NoTargetFacts
<1>2. code \in Codes /\ pc # "boot"
  BY <1>1 DEF PlaceInv, Arming
<1>3. TargetOf(target)
  BY <1>1 DEF TargetInv
<1>4. target.from \in Offsets(code)
  BY <1>3 DEF TargetOf
<1>5. /\ StartsAhead(code, target.from) # {}
      /\ target.to = Least(StartsAhead(code, target.from))
      /\ target.line = code.line[target.to]
  BY <1>3 DEF TargetOf
<1>6. /\ target.to \in StartsAhead(code, target.from)
      /\ \A n \in StartsAhead(code, target.from) : target.to <= n
  BY <1>2, <1>4, <1>5, StartsAheadFacts
<1>7. target.from \in Nat /\ target.to \in Nat
  BY <1>2, <1>4, <1>6, CodeFacts DEF StartsAhead
<1>8. QED
  BY <1>1, <1>2, <1>4, <1>5, <1>6, <1>7

\* The step from one instruction to the next at the start of the target's line
\* has its event.
LEMMA EventAtStart ==
  ASSUME NEW c \in Codes, c = code, NEW i \in Nat, i > 0, StartsLine(c, i + 1)
  PROVE  EventOf(i, i + 1) = c.line[i + 1]
<1>1. i + 1 > 1 => c.line[i + 1 - 1] # c.line[i + 1]
  BY DEF StartsLine
<1>2. i + 1 - 1 = i /\ i + 1 > 1
  OBVIOUS
<1>3. QED
  BY <1>1, <1>2 DEF EventOf

LEMMA StartOfLine ==
  ASSUME NEW c \in Codes, NEW i \in Nat, c.line[i + 1] # NoLine,
         c.line[i + 1] # c.line[i]
  PROVE  StartsLine(c, i + 1)
<1>1. PICK n \in Nat : n = i + 1
  OBVIOUS
<1>2. n - 1 = i
  BY <1>1
<1>3. c.line[n] # NoLine /\ c.line[n - 1] # c.line[n]
  BY <1>1, <1>2
<1>4. StartsLine(c, n)
  BY <1>3 DEF StartsLine
<1>5. QED
  BY <1>1, <1>4

\* The frame does not go past its target without a pause.
LEMMA MoveAhead ==
  ASSUME PlaceInv, TargetInv, ArmedInv, AheadInv, Moving PROVE AheadInv'
<1>1. /\ pc \in {"start", "stored", "run"} /\ code \in Codes /\ at \in Offsets(code)
      /\ at \in Nat
  BY MoveEffect, CodeFacts DEF Moving
<1>2. PICK j \in Offsets(code), straight \in BOOLEAN : \E l :
        /\ Moves(j, l, straight)
        /\ straight => pc = "start" \/ (j = at + 1 /\ l = EventOf(at, j))
  BY MoveEffect DEF Moving
<1>3. PICK l :
        /\ Moves(j, l, straight)
        /\ straight => pc = "start" \/ (j = at + 1 /\ l = EventOf(at, j))
  BY <1>2
<1>4. pc' \in {"run", "disarm"} /\ at' = j
      /\ (target' = NoTarget \/ (~ Pauses(l) /\ UNCHANGED <<target, own>>))
  BY <1>3 DEF Moves
<1>5. run'.straight => run.straight /\ j = at + 1 /\ l = EventOf(at, j)
  BY <1>3 DEF Moves, AheadInv
<1>6. ASSUME target' # NoTarget, run'.straight PROVE target'.from <= at'
  <2>1. target' = target /\ target.from <= at /\ target.from \in Nat
    BY <1>4, <1>5, <1>6, TargetLine DEF AheadInv, Arming
  <2>2. QED
    BY <2>1, <1>1, <1>4, <1>5, <1>6
<1>7. ASSUME target'.by = "ahead", run'.straight, ~ run'.unarmed, ~ run'.missed
      PROVE  at' < target'.to
  <2>1. target' # NoTarget /\ target' = target /\ ~ Pauses(l)
    BY <1>4, <1>7, NoTargetFacts
  <2>2. /\ run.straight /\ ~ run.unarmed /\ ~ run.missed
        /\ l = target.line => ~ run.stale
    BY <1>3, <1>5, <1>7 DEF Moves
  <2>3. at < target.to /\ target.to \in Nat
    BY <1>7, <2>1, <2>2, AheadFacts DEF AheadInv, Arming
  <2>4. ASSUME at + 1 = target.to PROVE FALSE
    <3>1. /\ target.to \in StartsAhead(code, target.from)
          /\ target.line = code.line[target.to]
      BY <1>7, <2>1, AheadFacts
    <3>2. StartsLine(code, at + 1)
      BY <2>4, <3>1 DEF StartsAhead
    <3>3. l = target.line /\ l # NoLine
      <4>1. at > 0
        BY <1>1, CodeFacts
      <4>2. EventOf(at, at + 1) = code.line[at + 1]
        BY <1>1, <3>2, <4>1, EventAtStart
      <4>3. code.line[at + 1] # NoLine
        BY <3>2 DEF StartsLine
      <4>4. QED
        BY <1>5, <1>7, <2>4, <3>1, <4>2, <4>3
    <3>4. target.line \in own \/ (lineOn /\ OnMap)
      BY <1>1, <2>1, <2>2 DEF ArmedInv
    <3>5. Pauses(l)
      BY <2>2, <3>3, <3>4 DEF Pauses, OnMap
    <3>6. QED
      BY <2>1, <3>5
  <2>5. QED
    BY <1>1, <1>4, <1>5, <1>7, <2>1, <2>3, <2>4
<1>8. QED
  BY <1>4, <1>6, <1>7 DEF AheadInv, Arming

LEMMA AheadKept ==
  ASSUME AheadInv, UNCHANGED <<target, at>>,
         run'.straight = run.straight, run'.unarmed = run.unarmed,
         run'.missed = run.missed,
         pc' \in {"decide", "start"} => pc \in {"decide", "start"},
         Arming' => Arming
  PROVE  AheadInv'
BY DEF AheadInv, Arming

LEMMA AheadStep ==
  ASSUME PlaceInv, TargetInv, MapInv, ArmedInv, AheadInv, [Next]_vars
  PROVE  AheadInv'
<1>1. CASE Moving
  BY <1>1, MoveAhead
<1>2. CASE Booted
  BY <1>2, BootedEffect, AheadKept DEF Arming, pydevd
<1>3. CASE UNCHANGED vars
  BY <1>3, AheadKept DEF Arming, vars, pydevd
<1>4. CASE Register
  BY <1>4, AheadKept DEF Arming, Register
<1>5. ASSUME NEW b \in UserBps, SetBreakpoint(b) PROVE AheadInv'
  BY <1>5, SetEffect, AheadKept DEF Arming
<1>6. ASSUME NEW a \in Actors, Publish(a) PROVE AheadInv'
  <2>1. /\ UNCHANGED <<at, target>> /\ run'.straight = run.straight
        /\ run'.unarmed = run.unarmed /\ run'.missed = run.missed
        /\ \/ pc' = pc
           \/ pc = "publish" /\ pc' = IF target = NoTarget THEN "run" ELSE "events"
    BY <1>6, PublishEffect DEF Actors
  <2>2. QED
    BY <2>1, AheadKept DEF Arming
<1>7. CASE Enter
  BY <1>7, EnterEffect DEF AheadInv, Arming
<1>8. CASE Decide
  BY <1>8, DecideEffect, AheadKept DEF Arming
<1>9. CASE Return
  BY <1>9, AheadKept DEF Arming, Return
<1>10. CASE Hit
  <2>1. /\ UNCHANGED <<at, code>> /\ target' = Picked /\ code \in Codes /\ at \in Offsets(code)
        /\ pc' \in {"stored", "arm"} /\ ~ run'.unarmed
    BY <1>10, HitEffect
  <2>2. at \in Nat
    BY <2>1, CodeFacts
  <2>3. target' = NoTarget \/ (TargetOf(target') /\ target'.from = at)
    BY <2>1, PickedTarget
  <2>4. target' # NoTarget => target'.from <= at'
    BY <2>1, <2>2, <2>3
  <2>5. ASSUME target'.by = "ahead" PROVE at' < target'.to
    <3>1. TargetOf(target') /\ target'.from = at
      BY <2>3, <2>5, NoTargetFacts
    <3>2. StartsAhead(code, at) # {} /\ target'.to = Least(StartsAhead(code, at))
      BY <2>5, <3>1 DEF TargetOf
    <3>3. target'.to \in StartsAhead(code, at)
      BY <2>1, <3>2, StartsAheadFacts
    <3>4. QED
      BY <2>1, <2>2, <3>3 DEF StartsAhead
  <2>6. QED
    BY <2>1, <2>4, <2>5 DEF AheadInv, Arming
<1>11. CASE Arm \/ Disarm
  <2>1. /\ UNCHANGED <<at, target, run>> /\ pc' = "publish"
        /\ pc = "arm" \/ (pc = "disarm" /\ target = NoTarget)
    BY <1>11 DEF Arm, Disarm, PlaceInv
  <2>2. QED
    BY <2>1, AheadKept DEF Arming
<1>12. ASSUME NEW forced \in BOOLEAN, NEW ours \in BOOLEAN, ArmEvents(forced, ours)
       PROVE  AheadInv'
  <2>1. /\ UNCHANGED <<at, target>> /\ pc' = "stored" /\ run'.straight = run.straight
        /\ run'.missed = run.missed
        /\ pc = "events"
    BY <1>12, EventsEffect
  <2>2. ~ run.unarmed
    BY <2>1 DEF AheadInv, Arming
  <2>3. QED
    BY <2>1, <2>2 DEF AheadInv, Arming
<1>13. QED
  BY <1>1, <1>2, <1>3, <1>4, <1>5, <1>6, <1>7, <1>8, <1>9, <1>10, <1>11, <1>12
     DEF Next, Frame, Moving, Booted

-----------------------------------------------------------------------------
(* The functions that the boost takes out of line tracing.                 *)

\* A line of a function is in its range.
LEMMA LinesInRange ==
  ASSUME NEW c \in Codes, NEW l \in CodeLines(c) PROVE InRange(c, l)
<1>1. c.first <= l
  BY PausePathAssumption DEF PausePathAssumption, WellFormed
<1>2. l \in Nat
  BY CodeFacts DEF CodeLines, LinesAt
<1>3. l <= l
  BY <1>2
<1>4. QED
  BY <1>1, <1>3 DEF InRange

LEMMA SkipKept ==
  ASSUME SkipIsCurrent, UNCHANGED <<lineMap, code>>, skipped' => skipped,
         run.stale => run'.stale
  PROVE  SkipIsCurrent'
BY DEF SkipIsCurrent, CodeLines, LinesAt, Offsets

LEMMA SkipStep ==
  ASSUME PlaceInv, MapInv, SkipIsCurrent, [Next]_vars PROVE SkipIsCurrent'
<1>1. CASE Moving
  <2>1. PICK j \in Offsets(code), straight \in BOOLEAN : \E l : Moves(j, l, straight)
    BY <1>1, MoveEffect DEF Moving
  <2>2. QED
    BY <2>1, SkipKept DEF Moves
<1>2. CASE Booted
  BY <1>2, BootedEffect, SkipKept DEF pydevd
<1>3. CASE UNCHANGED vars
  BY <1>3, SkipKept DEF vars, pydevd
<1>4. CASE Register
  BY <1>4 DEF Register, PlaceInv, SkipIsCurrent, pydevd
<1>5. ASSUME NEW b \in UserBps, SetBreakpoint(b) PROVE SkipIsCurrent'
  BY <1>5, SetEffect, SkipKept
<1>6. ASSUME NEW a \in Actors, Publish(a) PROVE SkipIsCurrent'
  BY <1>6, PublishEffect DEF SkipIsCurrent
<1>7. CASE Enter
  BY <1>7, EnterEffect, SkipKept DEF pydevd
<1>8. CASE Decide
  <2>1. UNCHANGED <<code, lineMap>> /\ code \in Codes /\ (run.stale => run'.stale)
    BY <1>8, DecideEffect DEF PlaceInv
  <2>2. skipped' => \/ skipped /\ run' = run
                    \/ SkipsLineEvents(code, seen) /\ (~ run'.stale => seen = lineMap)
    BY <1>8, DecideEffect
  <2>3. CASE SkipsLineEvents(code, lineMap)
    <3>1. \A b \in lineMap : b.func = ModuleLevel /\ b.line \notin CodeLines(code)
      BY <2>1, <2>3, LinesInRange DEF SkipsLineEvents
    <3>2. QED
      BY <2>1, <3>1 DEF SkipIsCurrent, CodeLines, LinesAt, Offsets
  <2>4. CASE ~ SkipsLineEvents(code, lineMap)
    <3>1. skipped' /\ ~ run'.stale => skipped /\ run' = run
      BY <2>2, <2>4
    <3>2. QED
      BY <2>1, <3>1 DEF SkipIsCurrent, CodeLines, LinesAt, Offsets
  <2>5. QED
    BY <2>3, <2>4
<1>9. CASE Return
  BY <1>9, SkipKept DEF Return, pydevd
<1>10. CASE Hit
  BY <1>10, HitEffect, SkipKept DEF pydevd
<1>11. CASE Arm \/ Disarm
  BY <1>11, SkipKept DEF Arm, Disarm, Changed
<1>12. ASSUME NEW forced \in BOOLEAN, NEW ours \in BOOLEAN, ArmEvents(forced, ours)
       PROVE  SkipIsCurrent'
  BY <1>12, EventsEffect, SkipKept DEF pydevd
<1>13. QED
  BY <1>1, <1>2, <1>3, <1>4, <1>5, <1>6, <1>7, <1>8, <1>9, <1>10, <1>11, <1>12
     DEF Next, Frame, Moving, Booted

-----------------------------------------------------------------------------
(* The theorems.                                                           *)

LEMMA Initial ==
  ASSUME Init PROVE IInv /\ SkipIsCurrent
<1>1. BootInv
  BY DEF Init, BootInv, Boots, RegisteredPatched
<1>2. Undisturbed \in Runs /\ ~ Undisturbed.unarmed
  BY DEF Undisturbed, Runs
<1>3. PlaceInv
  BY <1>2 DEF Init, PlaceInv, Pcs, Arming
<1>4. << >> \in Seq(Breakpoint) /\ Len(<< >>) = 0 /\ DOMAIN << >> = {}
  BY EmptySeq
<1>5. table = << >>
  BY DEF Init
<1>6. Entries(table)
  BY <1>4, <1>5 DEF Entries
<1>7. TempInv
  BY <1>4, <1>5 DEF Init, TempInv
<1>8. MapOf(table) = {}
  BY <1>4, <1>5 DEF MapOf
<1>9. MapInv
  <2>1. lineMap = {} /\ seen = {} /\ build = [a \in Actors |-> Nothing]
    BY DEF Init
  <2>2. \A a \in Actors : build[a] = Nothing
    BY <2>1
  <2>3. build \in [Actors -> {Nothing} \cup Builds] /\ build["program"] = Nothing
    BY <2>1 DEF Actors
  <2>4. QED
    BY <1>8, <2>1, <2>2, <2>3 DEF MapInv, LineMap
<1>10. TargetInv /\ ArmedInv
  BY DEF Init, TargetInv, ArmedInv
<1>11. AheadInv
  BY NoTargetFacts DEF Init, AheadInv, Arming
<1>12. SkipIsCurrent
  BY DEF Init, SkipIsCurrent
<1>13. QED
  BY <1>1, <1>3, <1>6, <1>7, <1>9, <1>10, <1>11, <1>12 DEF IInv

\* The inductive invariant: the table, the map built from it and the target go
\* together, whichever of the two threads takes the next step.
THEOREM Invariant == Spec => [](IInv /\ SkipIsCurrent)
<1>1. Init => IInv /\ SkipIsCurrent
  BY Initial
<1>2. IInv /\ SkipIsCurrent /\ [Next]_vars => (IInv /\ SkipIsCurrent)'
  <2> SUFFICES ASSUME IInv, SkipIsCurrent, [Next]_vars PROVE (IInv /\ SkipIsCurrent)'
    OBVIOUS
  <2>1. /\ BootInv /\ PlaceInv /\ Entries(table) /\ TempInv /\ MapInv
        /\ TargetInv /\ ArmedInv /\ AheadInv
    BY DEF IInv
  <2>2. BootInv' /\ PlaceInv' /\ TargetInv'
    BY <2>1, BootStep, PlaceStep, TargetStep
  <2>3. Entries(table)' /\ TempInv' /\ MapInv'
    BY <2>1, EntriesStep, TempStep, MapStep DEF Entries
  <2>4. ArmedInv' /\ AheadInv' /\ SkipIsCurrent'
    BY <2>1, ArmedStep, AheadStep, SkipStep
  <2>5. QED
    BY <2>2, <2>3, <2>4 DEF IInv
<1>3. QED
  BY <1>1, <1>2, PTL DEF Spec

\* The state has its shape; pydevd's table has our breakpoint while its hit waits
\* for the pause, and only then (_install_bp_at, _remove_temp_breakpoints).
THEOREM TypeCorrect == FairSpec => []TypeOK
<1>1. IInv => TypeOK
  <2> SUFFICES ASSUME IInv PROVE TypeOK
    OBVIOUS
  <2>1. PlaceInv /\ Entries(table) /\ TempInv /\ MapInv
    BY DEF IInv
  <2>2. /\ pc # "boot" => at \in Offsets(code)
        /\ pc \in Pcs
        /\ own \subseteq {target.line}
    BY <2>1 DEF PlaceInv
  <2>3. /\ table \in Seq(Breakpoint)
        /\ lineMap \subseteq Breakpoint /\ seen \subseteq Breakpoint
        /\ \A b, d \in lineMap : b.line = d.line => b = d
    BY <2>1 DEF Entries, MapInv, LineMap
  <2>4. \A i \in DOMAIN table : table[i].temp =>
          pc = "disarm" \/ table[i].line = target.line
    BY <2>1 DEF TempInv
  <2>5. QED
    BY <2>2, <2>3, <2>4 DEF TypeOK, Pcs
<1>2. QED
  BY <1>1, Invariant, PTL DEF FairSpec

\* The callback that pydevd registers for exceptions is the patched one, unless
\* the module came before the hook or past it, or the patch cannot be applied
\* (pydevd_boost.py, install and the import hook).
THEOREM PatchedInTime == FairSpec => []RegisteredPatched
<1>1. IInv => RegisteredPatched
  BY DEF IInv, BootInv
<1>2. QED
  BY <1>1, Invariant, PTL DEF FairSpec

\* A function that the boost has taken out of line tracing has no breakpoint in
\* it, as long as none was published while the decision was under way
\* (patched_should_enable, consolidate_breakpoints).
THEOREM CurrentSkips == FairSpec => []SkipIsCurrent
<1>1. QED
  BY Invariant, PTL DEF FairSpec

\* The user's breakpoints stay in pydevd's map, or give their line to the
\* temporary one as long as it is there (_remove_temp_breakpoints rebuilds the
\* map from the table).
THEOREM UserBreakpointsStay == FairSpec => []UserBreakpointKept
<1>1. IInv => UserBreakpointKept
  <2> SUFFICES ASSUME IInv, \A a \in Actors : build[a] = Nothing, ~ run.stale,
                      NEW i \in DOMAIN table, ~ table[i].temp
               PROVE  \/ table[i] \in lineMap
                      \/ \E b \in lineMap : b.temp /\ b.line = table[i].line
    BY DEF UserBreakpointKept
  <2>1. Entries(table) /\ lineMap = MapOf(table)
    BY DEF IInv, MapInv
  <2>2. PICK b \in lineMap : b.line = table[i].line
    BY <2>1, MapOfLines DEF Entries
  <2>3. PICK j \in DOMAIN table : b = table[j]
    BY <2>1, <2>2 DEF MapOf
  <2>4. CASE b.temp
    BY <2>2, <2>4
  <2>5. CASE ~ b.temp
    <3>1. b \in UserBps /\ table[i] \in UserBps
      BY <2>1, <2>3, <2>5 DEF Entries
    <3>2. b = table[i]
      BY <2>2, <3>1, PausePathAssumption DEF PausePathAssumption
    <3>3. QED
      BY <3>2
  <2>6. QED
    BY <2>4, <2>5
<1>2. QED
  BY <1>1, Invariant, PTL DEF FairSpec

\* While the frame runs straight on from the change, no later line of the normal
\* flow is passed before the target (_next_code_line_after_frame): the first one
\* it comes to is the target's.
THEOREM NextLineIsTarget == FairSpec => TargetIsNext
<1> DEFINE Passed == /\ target.by \in {"ahead", "loop"} /\ run'.straight
                     /\ ~ run.unarmed /\ ~ run'.missed
                     /\ event' > code.line[target.from]
                     /\ event' \notin HandlerLines(code)
<1>1. ASSUME IInv, Next, Passed PROVE event' = target.line
  <2>1. PlaceInv /\ TargetInv /\ ArmedInv /\ AheadInv /\ MapInv
    BY <1>1 DEF IInv
  <2>2. target # NoTarget /\ TargetOf(target) /\ code \in Codes
    BY <1>1, <2>1, NoTargetFacts DEF TargetInv, PlaceInv
  <2>3. target.from \in Offsets(code) /\ target.from \in Nat /\ code.line[target.from] \in Nat
    BY <2>2, CodeFacts DEF TargetOf
  <2>4. event' # NoLine
    BY <1>1, <2>3 DEF NoLine
  <2>5. CASE Moving
    <3>1. /\ pc \in {"start", "stored", "run"} /\ at \in Offsets(code) /\ at \in Nat
      BY <2>1, <2>2, <2>5, MoveEffect, CodeFacts DEF Moving
    <3>2. PICK j \in Offsets(code), straight \in BOOLEAN : \E l :
            /\ Moves(j, l, straight)
            /\ straight => pc = "start" \/ (j = at + 1 /\ l = EventOf(at, j))
      BY <2>1, <2>5, MoveEffect DEF Moving
    <3>3. PICK l :
            /\ Moves(j, l, straight)
            /\ straight => pc = "start" \/ (j = at + 1 /\ l = EventOf(at, j))
      BY <3>2
    <3>4. run.straight /\ j = at + 1 /\ event' = EventOf(at, at + 1) /\ ~ run.missed
      BY <1>1, <2>1, <3>3 DEF Moves, AheadInv
    <3>5. at + 1 \in Offsets(code) /\ event' = code.line[at + 1]
          /\ code.line[at + 1] # code.line[at]
      BY <2>4, <3>1, <3>2, <3>4 DEF EventOf
    <3>6. target.from <= at
      BY <2>1, <2>2, <3>4 DEF AheadInv
    <3>7. StartsLine(code, at + 1)
      BY <2>2, <2>4, <3>1, <3>5, StartOfLine
    <3>8. at + 1 \in StartsAhead(code, target.from)
      <4>1. at + 1 > target.from
        BY <2>3, <3>1, <3>6
      <4>2. /\ code.line[at + 1] > code.line[target.from]
            /\ code.line[at + 1] \notin HandlerLines(code)
        BY <1>1, <3>5
      <4>3. QED
        BY <3>5, <3>7, <4>1, <4>2, Zenon DEF StartsAhead
    <3>9. target.by = "ahead"
      BY <1>1, <2>2, <3>8 DEF TargetOf
    <3>10. target.to <= at + 1 /\ target.to \in Nat /\ target.line = code.line[target.to]
      BY <2>1, <3>8, <3>9, AheadFacts
    <3>11. at < target.to
      BY <1>1, <2>1, <3>4, <3>9 DEF AheadInv
    <3>12. target.to = at + 1
      BY <3>1, <3>10, <3>11
    <3>13. QED
      BY <3>5, <3>10, <3>12
  <2>6. CASE Booted
    BY <2>1, <2>2, <2>4, <2>6, BootedEffect DEF Booted, Booting, Install, BeginImport,
       ImportReturns, ImportElsewhere, ImportFails, PlaceInv
  <2>7. CASE Register
    BY <2>1, <2>2, <2>7 DEF Register, PlaceInv
  <2>8. CASE Enter \/ Decide \/ Return \/ Hit \/ Arm \/ Disarm
    BY <2>4, <2>8 DEF Enter, Decide, Return, Hit, Arm, Disarm
  <2>9. ASSUME NEW b \in UserBps, SetBreakpoint(b) PROVE FALSE
    BY <2>4, <2>9, SetEffect
  <2>10. ASSUME NEW a \in Actors, Publish(a) PROVE FALSE
    BY <2>1, <2>4, <2>10, PublishEffect
  <2>11. ASSUME NEW forced \in BOOLEAN, NEW ours \in BOOLEAN, ArmEvents(forced, ours)
         PROVE  FALSE
    BY <2>4, <2>11 DEF ArmEvents
  <2>12. QED
    BY <1>1, <2>5, <2>6, <2>7, <2>8, <2>9, <2>10, <2>11 DEF Next, Frame, Moving, Booted
<1>2. QED
  BY <1>1, Invariant, PTL DEF FairSpec, Spec, TargetIsNext
=============================================================================
