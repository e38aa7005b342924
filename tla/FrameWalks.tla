----------------------------- MODULE FrameWalks -----------------------------
(***************************************************************************)
(* The walks over call stacks: caller.py, which tells user code from the    *)
(* runtime, from pydevd and from libraries, and the searches of             *)
(* __init__.py for the frame a watch was asked for and for the frames that  *)
(* hold a watched object.                                                   *)
(*                                                                         *)
(* A stack is a sequence of frames, the innermost first.  A frame is a      *)
(* record: its id, its function and file, the place its file is in,         *)
(* whether that is under a root the user has declared to be his own code,   *)
(* whether its module belongs to a framework, and its locals.               *)
(***************************************************************************)
EXTENDS Integers, Sequences, FiniteSets

CONSTANTS
  MaxHops,  \* _MAX_FRAME_WALK_HOPS
  SameFile  \* pairs <<co_filename, hint>>: equal, or one the end of the other,
            \* or with the same last part

Places == {"runtime", "pydevd", "packages", "stdlib", "elsewhere"}

\* _is_runtime_filename and _is_pydevd_internal.
IsRuntime(f) == f.place = "runtime"
IsPydevdInternal(f) == f.place = "pydevd"

\* _is_library_filename: a declared root goes before everything else.
IsLibrary(f) ==
  /\ ~ f.declared
  /\ f.place \in {"packages", "stdlib"} \/ IsPydevdInternal(f)

\* As far as a walk goes.
Reached(stack) == {i \in DOMAIN stack : i <= MaxHops}

Leasts(indexes) == {i \in indexes : \A j \in indexes : i <= j}
First(indexes) == IF indexes = {} THEN 0 ELSE CHOOSE i \in indexes : i \in Leasts(indexes)

\* _find_user_caller: the position of the frame, 0 for None.
UserCaller(stack) == First({i \in Reached(stack) : ~ IsRuntime(stack[i])})

\* _find_user_code_caller.
UserCodeCaller(stack) ==
  First({i \in Reached(stack) : /\ ~ IsRuntime(stack[i])
                                /\ ~ IsLibrary(stack[i])
                                /\ ~ stack[i].framework})

-----------------------------------------------------------------------------
(* watch_at: the frame of a function, given by file and name.              *)

\* Frames of all threads, as pairs of a thread and a position.
Candidates(stacks, file, func) ==
  LET Matches(f) == f.func = func /\ <<f.file, file>> \in SameFile
  IN {c \in UNION {{t} \X DOMAIN stacks[t] : t \in DOMAIN stacks} :
        Matches(stacks[c[1]][c[2]])}

\* _frame_depth: the frames from this one down to the bottom of its stack.
Depth(stacks, c) == Len(stacks[c[1]]) - c[2] + 1

\* _find_paused_user_frame: a candidate of the greatest depth, whichever thread
\* it is on; none when there is no candidate.
PausedUserFrame(stacks, file, func) ==
  LET all == Candidates(stacks, file, func)
  IN {c \in all : \A d \in all : Depth(stacks, d) <= Depth(stacks, c)}

-----------------------------------------------------------------------------
(* _pycharm_locate_watches, while fewer than _MAX_LOCATE_PAIRS are found:   *)
(* the keys of local watches, and the locals bound to a watched object.     *)

Scanned(stacks) ==
  UNION {{stacks[t][i] : i \in {j \in Reached(stacks[t]) : ~ IsRuntime(stacks[t][j])}} :
           t \in DOMAIN stacks}

LocateWatches(stacks, keys, objects) ==
  keys \cup UNION {{<<n, f.id>> : n \in {m \in DOMAIN f.locals : f.locals[m] \in objects}} :
                      f \in Scanned(stacks)}
=============================================================================
