---------------------------- MODULE MCHitPipeline ----------------------------
(* Small instances of HitPipeline for TLC: a library function lib called from *)
(* user code usr, each with the lines 1 and 2.                               *)
EXTENDS HitPipeline, TLC

CONSTANTS t1, t2, usr, lib, w1, link, target

\* The co_filename of the library is a symbolic link.
Filename == [c \in Codes |-> IF c = lib THEN link ELSE c]
RealPath == [c \in Codes |-> IF c = lib THEN target ELSE c]

Frame(c, l) == [code |-> c, line |-> l]
UserStack == << Frame(usr, 1) >>
LibStack == << Frame(lib, 1), Frame(usr, 1) >>
SomeStacks == {UserStack, LibStack}

\* The least line of Lines after l.
After == [c \in Codes |-> [l \in Lines \cup {0} |->
            LET later == {m \in Lines : m > l}
            IN IF later = {} THEN 0 ELSE CHOOSE m \in later : \A n \in later : m <= n]]
\* In bytecode order the user's function loops back from its last line.
ByBytecode == [c \in Codes |-> [l \in Lines |->
                 IF After[c][l] = 0 /\ c = usr THEN 1 ELSE After[c][l]]]

\* The safety net's frame is the one the walk of caller.py finds: on these stacks,
\* with frames of the runtime and of pydevd anywhere in between.
Walks == INSTANCE FrameWalks WITH MaxHops <- 4, SameFile <- {}

OnPath(f) == [id |-> f, place |-> IF f.code \in User THEN "elsewhere" ELSE "packages",
              declared |-> FALSE, framework |-> FALSE]
Skipped == {[id |-> Frame(usr, 0), place |-> p, declared |-> FALSE, framework |-> FALSE] :
              p \in {"runtime", "pydevd"}}
WithSkipped(s) ==
  {w \in UNION {[1 .. n -> Skipped \cup {OnPath(s[i]) : i \in DOMAIN s}] : n \in 1 .. 4} :
     LET own == SelectSeq(w, LAMBDA f : f \notin Skipped)
     IN own = [i \in DOMAIN s |-> OnPath(s[i])]}

ASSUME WalksAgree ==
  \A s \in Stacks : \A w \in WithSkipped(s) :
    SafetyFrames(s) = {w[Walks!UserCodeCaller(w)].id}

Symmetry == Permutations(Threads) \cup Permutations(Watches)
=============================================================================
