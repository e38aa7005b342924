----------------------------- MODULE MCIdeSession -----------------------------
(* A small instance of IdeSession for TLC.                                  *)
EXTENDS IdeSession

CONSTANTS x, old
===============================================================================
