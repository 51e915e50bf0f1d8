--------------------------------- MODULE MCSse ---------------------------------
(* An instance of Sse for TLC: one stream that ends and another that begins.  *)
EXTENDS Sse

CONSTANTS w1, w2

TwoWorkers == {w1, w2}
===============================================================================
