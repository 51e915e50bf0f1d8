--------------------------- MODULE MCResponseQueue ---------------------------
(* Instance of ResponseQueue for TLC: four pushes of two sizes against a     *)
(* queue of two messages and three bytes, so that both limits are met while  *)
(* the coroutine is busy, asks, waits, times out and leaves.                 *)
EXTENDS ResponseQueue

MCSizes == {1, 2}
==============================================================================
