-------------------------- MODULE FrameWalks_proofs --------------------------
(* What the walks over call stacks return, for stacks of any length.        *)
EXTENDS FrameWalks, SequenceTheorems, WellFoundedInduction, TLAPS

\* A set of positions has a first one, if it has any.
LEMMA FirstIsLeast ==
  ASSUME NEW S \in SUBSET (Nat \ {0})
  PROVE  /\ S = {} <=> First(S) = 0
         /\ S # {} => First(S) \in S /\ \A j \in S : First(S) <= j
<1> DEFINE Less == {p \in Nat \X Nat : p[1] < p[2]}
<1>1. IsWellFoundedOn(Less, Nat)
  BY NatLessThanWellFounded DEF OpToRel
<1>2. S # {} => \E i \in S : i \in Leasts(S)
  <2>1. \A T : T \subseteq Nat /\ T # {} => \E x \in T : \A y \in T : ~ (<<y, x>> \in Less)
    BY <1>1, WFMin
  <2>2. SUFFICES ASSUME S # {} PROVE \E i \in S : i \in Leasts(S)
    OBVIOUS
  <2>3. PICK x \in S : \A y \in S : ~ (<<y, x>> \in Less)
    BY <2>1, <2>2
  <2>4. \A y \in S : x <= y
    <3>1. \A a, b \in Nat : a < b => <<a, b>> \in Less
      OBVIOUS
    <3>2. x \in Nat /\ \A y \in S : y \in Nat
      OBVIOUS
    <3> HIDE DEF Less
    <3>3. ASSUME NEW y \in S PROVE x <= y
      <4>1. ~ (<<y, x>> \in Less)
        BY <2>3
      <4>2. ~ (y < x)
        BY <3>1, <3>2, <4>1
      <4>3. QED
        BY <3>2, <4>2
    <3>4. QED
      BY <3>3
  <2>5. QED
    BY <2>4 DEF Leasts
<1>3. S # {} => First(S) \in Leasts(S)
  BY <1>2 DEF First
<1>4. S = {} => First(S) = 0
  BY DEF First
<1> HIDE DEF First
<1>5. QED
  BY <1>3, <1>4 DEF Leasts

\* The frame of the safety net is user code, every frame of user code within reach
\* lies above it, and it is never below the frame that made the change.
THEOREM SafetyNetAbove ==
  ASSUME NEW F, NEW stack \in Seq(F), UserCodeCaller(stack) # 0
  PROVE  LET u == UserCodeCaller(stack)
         IN /\ u \in Reached(stack)
            /\ ~ IsRuntime(stack[u]) /\ ~ IsLibrary(stack[u]) /\ ~ stack[u].framework
            /\ UserCaller(stack) # 0 /\ UserCaller(stack) <= u
            /\ \A i \in Reached(stack) :
                 ~ IsRuntime(stack[i]) /\ ~ IsLibrary(stack[i]) /\ ~ stack[i].framework
                   => u <= i
<1> DEFINE S == {i \in Reached(stack) : /\ ~ IsRuntime(stack[i])
                                        /\ ~ IsLibrary(stack[i])
                                        /\ ~ stack[i].framework}
           T == {i \in Reached(stack) : ~ IsRuntime(stack[i])}
<1>1. Reached(stack) \subseteq Nat \ {0}
  BY LenProperties DEF Reached
<1>2. /\ S = {} <=> First(S) = 0
      /\ S # {} => First(S) \in S /\ \A j \in S : First(S) <= j
  BY <1>1, FirstIsLeast
<1>3. /\ T = {} <=> First(T) = 0
      /\ T # {} => First(T) \in T /\ \A j \in T : First(T) <= j
  BY <1>1, FirstIsLeast
<1>4. UserCodeCaller(stack) = First(S) /\ UserCaller(stack) = First(T)
  BY DEF UserCodeCaller, UserCaller
<1> HIDE DEF IsRuntime, IsLibrary, First, UserCodeCaller, UserCaller, Reached
<1>5. First(S) \in S /\ \A j \in S : First(S) <= j
  BY <1>2, <1>4
<1>6. S \subseteq T
  OBVIOUS
<1>7. First(T) # 0 /\ First(T) <= First(S)
  BY <1>3, <1>5, <1>6
<1>8. \A i \in Reached(stack) :
        ~ IsRuntime(stack[i]) /\ ~ IsLibrary(stack[i]) /\ ~ stack[i].framework => i \in S
  OBVIOUS
<1>9. QED
  BY <1>4, <1>5, <1>7, <1>8

\* _find_paused_user_frame ("prefer the DEEPEST invocation", __init__.py:135) sees
\* no thread, only depths.  The invocation a thread is paused in, its innermost of
\* that function, wins over those it was called by, in recursion, without fail; it
\* is the frame that is found if and only if every invocation on another thread
\* lies less deep on its stack.
THEOREM InnermostFound ==
  ASSUME NEW F, NEW T, NEW stacks \in [T -> Seq(F)], NEW file, NEW func,
         NEW t \in T, NEW p \in DOMAIN stacks[t],
         <<t, p>> \in Candidates(stacks, file, func),
         \A i \in DOMAIN stacks[t] :
           <<t, i>> \in Candidates(stacks, file, func) => p <= i
  PROVE  PausedUserFrame(stacks, file, func) = {<<t, p>>}
         <=> \A c \in Candidates(stacks, file, func) :
               c[1] # t => Depth(stacks, c) < Depth(stacks, <<t, p>>)
<1> DEFINE C == Candidates(stacks, file, func)
           D(c) == Depth(stacks, c)
           P == PausedUserFrame(stacks, file, func)
<1>1. /\ P = {c \in C : \A d \in C : D(d) <= D(c)}
      /\ <<t, p>> \in C
  BY DEF PausedUserFrame
<1>2. \A c \in C : D(c) \in Int
  <2>1. \A u \in T : Len(stacks[u]) \in Nat /\ \A i \in DOMAIN stacks[u] : i \in Nat
    BY LenProperties
  <2>2. \A c \in C : c[1] \in T /\ c[2] \in DOMAIN stacks[c[1]]
    BY DEF Candidates
  <2>3. QED
    BY <2>1, <2>2 DEF Depth
<1>3. \A c \in C : c[1] = t => c = <<t, c[2]>> /\ c[2] \in DOMAIN stacks[t]
  BY DEF Candidates
<1>4. \A c \in C : c[1] = t /\ c # <<t, p>> => D(c) < D(<<t, p>>)
  <2> SUFFICES ASSUME NEW c \in C, c[1] = t, c # <<t, p>> PROVE D(c) < D(<<t, p>>)
    OBVIOUS
  <2>1. PICK i \in DOMAIN stacks[t] : c = <<t, i>>
    BY <1>3
  <2>2. p <= i /\ p # i
    BY <2>1
  <2>3. Len(stacks[t]) \in Nat /\ i \in Nat /\ p \in Nat
    BY LenProperties
  <2>4. D(c) = Len(stacks[t]) - i + 1 /\ D(<<t, p>>) = Len(stacks[t]) - p + 1
    BY <2>1 DEF Depth
  <2>5. QED
    BY <2>2, <2>3, <2>4
<1> HIDE DEF C, D, P
<1>5. ASSUME P = {<<t, p>>}, NEW c \in C, c[1] # t PROVE D(c) < D(<<t, p>>)
  <2>1. D(c) <= D(<<t, p>>) /\ c # <<t, p>>
    BY <1>1, <1>5
  <2>2. CASE D(c) = D(<<t, p>>)
    <3>1. c \in P
      BY <1>1, <1>5, <2>2
    <3>2. QED
      BY <1>5, <2>1, <3>1
  <2>3. QED
    BY <1>1, <1>2, <2>1, <2>2
<1>6. ASSUME \A c \in C : c[1] # t => D(c) < D(<<t, p>>) PROVE P = {<<t, p>>}
  <2>1. \A c \in C : c # <<t, p>> => D(c) < D(<<t, p>>)
    BY <1>4, <1>6
  <2>2. \A c \in C : c # <<t, p>> => ~ (D(<<t, p>>) <= D(c))
    BY <1>1, <1>2, <2>1
  <2>3. \A c \in P : c = <<t, p>>
    BY <1>1, <2>2
  <2>4. <<t, p>> \in P
    <3>1. \A d \in C : D(d) <= D(<<t, p>>)
      BY <1>1, <1>2, <2>1
    <3>2. QED
      BY <1>1, <3>1
  <2>5. QED
    BY <2>3, <2>4
<1>7. QED
  BY <1>5, <1>6 DEF C, D, P
=============================================================================
