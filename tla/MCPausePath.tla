---------------------------- MODULE MCPausePath ----------------------------
(* Small code objects for PausePath. *)
EXTENDS PausePath

CONSTANTS Few, Many

\* Normal code: three instructions and a return, with at most one loop and one
\* store, whose lines are 1 to 3 in any order.
Lines == {<<1, b, c, d>> : b, c, d \in 1 .. 3}
Op(s, loop, i) == CASE i = s -> "store"
                    [] i = loop[1] -> "for"
                    [] i = loop[2] -> "back"
                    [] OTHER -> "op"
\* A handler behind the return: its line, and where it goes on in normal code.
Handler == [line : {2, 4}, to : 1 .. 4]
Plain(l, s, loop) ==
  [name |-> "f", first |-> 1, handlers |-> {},
   line |-> l, op |-> [i \in 1 .. 4 |-> IF i = 4 THEN "return" ELSE Op(s, loop, i)],
   arg |-> [i \in 1 .. 4 |-> IF i = loop[1] THEN loop[2] + 1
                             ELSE IF i = loop[2] THEN loop[1] ELSE 0]]
WithHandler(c, h) ==
  [c EXCEPT !.handlers = {5}, !.line = @ \o <<h.line, h.line>>,
            !.op = @ \o <<"op", "back">>, !.arg = @ \o <<0, h.to>>]

Loops == {<<0, 0>>, <<1, 3>>, <<1, 2>>, <<2, 3>>}
Shapes == {p \in (1 .. 3) \X Loops : p[1] \notin {p[2][1], p[2][2]}}
Functions == {Plain(l, p[1], p[2]) : l \in Lines, p \in Shapes}
NoLoop == {c \in Functions : \A i \in Offsets(c) : c.op[i] # "back"}
AllCodes == Functions \cup {WithHandler(c, h) : c \in NoLoop, h \in Handler}

\* Code objects with which the user's breakpoints are interleaved.
Straight == Plain(<<1, 1, 2, 3>>, 2, <<0, 0>>)
Loop == Plain(<<1, 2, 2, 1>>, 2, <<1, 3>>)

\* try: one line, with a handler; two lines after it, the last one stores.
TryThenStore == WithHandler(Plain(<<1, 3, 4, 4>>, 3, <<0, 0>>), [line |-> 2, to |-> 2])
OneCode == {TryThenStore}

\* Breakpoints of the user in the function, in another one, and outside.
SomeBps == {[line |-> 3, func |-> ModuleLevel, temp |-> FALSE],
            [line |-> 2, func |-> "f", temp |-> FALSE],
            [line |-> 9, func |-> ModuleLevel, temp |-> FALSE]}
SomeSets == [c \in Codes |-> IF c = Straight \/ c = Loop THEN Many ELSE Few]
=============================================================================
