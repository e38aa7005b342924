---------------------------- MODULE MCClassPatch ----------------------------
(* A small instance of ClassPatch for TLC. *)
EXTENDS ClassPatch

CONSTANTS t1, a1, a2, base, derived, sealed, f, any, e1, e2, e3

\* "derived" inherits from "base", which may define __setattr__.
TwoClasses == [c \in Classes |-> IF c = derived THEN <<derived, base>> ELSE <<c>>]

\* Two expressions end in the attribute f, one is the bare name of an object.
KeysOfExprs == [e \in Exprs |-> IF e = e3 THEN any ELSE f]

\* 1 and True.
Numbers == {[type |-> "int", id |-> 1, content |-> 1, raises |-> FALSE],
            [type |-> "bool", id |-> 2, content |-> 1, raises |-> FALSE]}
=============================================================================
