----------------------------- MODULE ValueHash -----------------------------
(* _value_hash (helpers.py), by which every watch decides whether a value   *)
(* has changed.  A value is a record: its type, its id(), its content, a    *)
(* number for an immutable and a repr for a container, and whether that     *)
(* raises: a tuple with something mutable in it has no hash, and the repr   *)
(* of what a container holds may fail.                                      *)
EXTENDS Integers

Immutables == {"NoneType", "bool", "int", "float", "str", "bytes", "complex",
               "tuple", "frozenset"}
Containers == {"list", "dict", "set", "bytearray"}

\* CPython's hash() of a small number: -1 is reserved for errors.
PyHash(n) == IF n = -1 THEN -2 ELSE n

\* hash((type, value)) for immutables, hash(repr(value)) for containers, and
\* the identity of anything else, our own container wrappers included, and of what
\* has no hash or no repr.
ValueHash(v) ==
  CASE v.type \in Immutables /\ ~ v.raises -> <<"hash", v.type, PyHash(v.content)>>
    [] v.type \in Containers /\ ~ v.raises -> <<"repr", "", v.content>>
    [] OTHER                               -> <<"id", "", v.id>>
=============================================================================
