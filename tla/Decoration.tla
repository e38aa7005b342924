------------------------------ MODULE Decoration ------------------------------
(***************************************************************************)
(* What the editor decorations of debug sessions promise: decorations come *)
(* and go while a session is open; once it is closed they go for good, in  *)
(* one step that is bound to come.  IdeSession implements this.            *)
(***************************************************************************)
CONSTANTS
  Sessions,   \* debug sessions
  Marks       \* decorations that a session may ask for

VARIABLES
  shown,      \* the decorations of each session on screen
  stage       \* each session is "open", "closing" or "gone"

vars == <<shown, stage>>

TypeOK ==
  /\ shown \in [Sessions -> SUBSET Marks]
  /\ stage \in [Sessions -> {"open", "closing", "gone"}]

Init ==
  /\ shown = [s \in Sessions |-> {}]
  /\ stage = [s \in Sessions |-> "open"]

Show(s, m) ==
  /\ stage[s] # "gone"
  /\ shown' = [shown EXCEPT ![s] = @ \cup {m}]
  /\ UNCHANGED stage

\* All decorations of a session go together.
Hide(s) ==
  /\ shown' = [shown EXCEPT ![s] = {}]
  /\ UNCHANGED stage

Close(s) ==
  /\ stage[s] = "open"
  /\ stage' = [stage EXCEPT ![s] = "closing"]
  /\ UNCHANGED shown

Finish(s) ==
  /\ stage[s] = "closing"
  /\ stage' = [stage EXCEPT ![s] = "gone"]
  /\ shown' = [shown EXCEPT ![s] = {}]

Next ==
  \E s \in Sessions :
    \/ \E m \in Marks : Show(s, m)
    \/ Hide(s)
    \/ Close(s)
    \/ Finish(s)

Safe == Init /\ [][Next]_vars

Spec == Safe /\ \A s \in Sessions : WF_vars(Finish(s))
===============================================================================
