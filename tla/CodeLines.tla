----------------------------- MODULE CodeLines -----------------------------
(***************************************************************************)
(* The line tables of code objects, as pydevd_pause.py reads them to find a *)
(* line at which a hit can pause, and pydevd_boost.py to tell whether a     *)
(* function needs line events at all.                                       *)
(*                                                                         *)
(* A code object is a record: its co_name, its co_firstlineno, for every    *)
(* instruction its line (NoLine if it has none), its opcode and its jump    *)
(* target, and the targets of its exception table at depth 0.  Offsets are  *)
(* positions of instructions.                                               *)
(***************************************************************************)
EXTENDS Integers, Sequences, FiniteSets

NoLine == 0

Offsets(c) == DOMAIN c.line

\* The least number of a set that has one.
Least(S) == CHOOSE m \in S : \A n \in S : m <= n

\* Lines of the instructions at some offsets.
LinesAt(c, offsets) == {c.line[i] : i \in offsets} \ {NoLine}

CodeLines(c) == LinesAt(c, Offsets(c))

\* The instructions from the first handler on: CPython lays handlers out last.
HandlerOffsets(c) == {i \in Offsets(c) : \E h \in c.handlers : h <= i}

\* _get_except_handler_lines: the lines that only exceptions lead to.
HandlerLines(c) ==
  LinesAt(c, HandlerOffsets(c)) \ LinesAt(c, Offsets(c) \ HandlerOffsets(c))

\* _next_code_line_in: the next line in the source, outside handlers if any is.
NextCodeLineIn(c, after) ==
  LET ahead  == {l \in CodeLines(c) : l > after}
      normal == ahead \ HandlerLines(c)
  IN IF ahead = {} THEN NoLine
     ELSE Least(IF normal # {} THEN normal ELSE ahead)

\* _instruction_starts_line: where the line table changes its line.
StartsLine(c, i) ==
  /\ c.line[i] # NoLine
  /\ i > 1 => c.line[i - 1] # c.line[i]

\* Mutant: the source line decides, whatever has been executed already.
StartsAfter(c, at) ==
  {i \in Offsets(c) : /\ StartsLine(c, i)
                      /\ c.line[i] > c.line[at]
                      /\ c.line[i] \notin HandlerLines(c)}

\* Instructions still ahead of offset at that start a later line.
StartsAhead(c, at) ==
  {i \in Offsets(c) : /\ i > at
                      /\ StartsLine(c, i)
                      /\ c.line[i] > c.line[at]
                      /\ c.line[i] \notin HandlerLines(c)}

\* Mutant: the loop may lie behind.
BacksAnywhere(c, at) ==
  {i \in Offsets(c) : /\ c.op[i] = "back"
                      /\ c.line[c.arg[i]] \notin {NoLine, c.line[at]}
                      /\ c.line[c.arg[i]] \notin HandlerLines(c)}

\* Backward jumps ahead that lead to another line.
BacksAhead(c, at) ==
  {i \in Offsets(c) : /\ i > at
                      /\ c.op[i] = "back"
                      /\ c.line[c.arg[i]] \notin {NoLine, c.line[at]}
                      /\ c.line[c.arg[i]] \notin HandlerLines(c)}

\* _next_code_line_after_frame: the line of the next instruction that starts a
\* later line, or else the line that the next loop leads back to.
NextCodeLineAfterFrame(c, at) ==
  IF StartsAhead(c, at) # {} THEN c.line[Least(StartsAhead(c, at))]
  ELSE IF BacksAhead(c, at) # {} THEN c.line[c.arg[Least(BacksAhead(c, at))]]
  ELSE NoLine

-----------------------------------------------------------------------------
(* Breakpoints of a file: the line and the name of the function they are in, *)
(* "None" for one outside functions.                                         *)

ModuleLevel == "None"

\* Names for which patched_should_enable leaves the decision to pydevd.
Exempt == {"?", "<module>", "<lambda>", ""}

\* Mutant: the last line of a function is not in its range.
InOpenRange(c, l) == c.first <= l /\ \E m \in CodeLines(c) : l < m

\* From the first line of a function to its last, the first if it has no lines.
InRange(c, l) ==
  LET lines == IF CodeLines(c) = {} THEN {c.first} ELSE CodeLines(c)
  IN c.first <= l /\ \E m \in lines : l <= m

\* patched_should_enable turns line events off without asking pydevd: there are
\* only module-level breakpoints in the file, and none in the function.
SkipsLineEvents(c, bps) ==
  /\ bps # {}
  /\ c.name \notin Exempt
  /\ \A b \in bps : b.func = ModuleLevel /\ ~ InRange(c, b.line)
=============================================================================
