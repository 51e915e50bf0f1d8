----------------------------- MODULE MCHttpStream -----------------------------
(* Instances of HttpStream for TLC: which POSTs there are, and their ids.     *)
EXTENDS HttpStream

CONSTANTS w1, w2,
          init, other, \* initialize requests of two clients
          call         \* another request

TwoWorkers == {w1, w2}

OneInit     == {init}
TwoInits    == {init, other}
InitAndCall == {init, call}
OwnIds      == [p \in Request |-> p]

\* Both clients number their requests from 1.
FromOne     == {1}
AllFirst    == [p \in Request |-> 1]
==============================================================================
