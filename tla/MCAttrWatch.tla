---------------------------- MODULE MCAttrWatch ----------------------------
(* A small instance of AttrWatch for TLC: the names x and y, and attributes. *)
EXTENDS AttrWatch, TLC

CONSTANTS t1, t2, o1, o2

SomeExprs == {<<"x">>, <<"x", "a">>}
OneAttr == {"a"}

Symmetry == Permutations(Threads) \cup Permutations(Objs)
=============================================================================
