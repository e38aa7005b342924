---------------------------- MODULE MCLocalWatch ----------------------------
(* Small instances of LocalWatch for TLC. *)
EXTENDS LocalWatch, TLC

CONSTANTS t1, f1, f2, f3, c1, c2, x, y, v1, v2, v3

\* Each code object takes the local x as its only parameter.
OneParam == [c \in Codes |-> {x}]

\* Frame ids, values and threads are interchangeable.
Symmetry == Permutations(Fids) \cup Permutations(Vals)
=============================================================================
