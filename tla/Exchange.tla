------------------------------- MODULE Exchange -------------------------------
(***************************************************************************)
(* What a transport with requests and answers promises its clients: a      *)
(* request is open until it is answered or fails, never both and never     *)
(* twice; its answer is one that fits it; after the end nothing reaches it *)
(* any more; and no request stays open.                                    *)
(***************************************************************************)
EXTENDS Naturals

CONSTANTS Request, None,
          Answers      \* of a request: those whose answers fit it; only itself,
                       \* unless answers are told apart by an id that may be shared

VARIABLES status,      \* "new", "open", "answered" or "failed"
          answer       \* the request whose answer has come for it, None before

vars == <<status, answer>>

Init == /\ status = [r \in Request |-> "new"]
        /\ answer = [r \in Request |-> None]

Move(r, s) == status' = [status EXCEPT ![r] = s]

Open(r) == status[r] = "new" /\ Move(r, "open") /\ UNCHANGED answer

\* The answer has come, and is not with the client yet: a time-out can still win.
Reply(r) == /\ status[r] = "open" /\ answer[r] = None
            /\ \E a \in Answers[r] : answer' = [answer EXCEPT ![r] = a]
            /\ UNCHANGED status

Deliver(r) == /\ status[r] = "open" /\ answer[r] \in Answers[r]
              /\ Move(r, "answered")
              /\ UNCHANGED answer

\* Refused, timed out, or released: what may have come for them is never read, or
\* lost with the queue it was in.  They are several when the service ends.
Fail(rs) ==
    /\ rs # {} /\ \A r \in rs : status[r] \in {"new", "open"}
    /\ status' = [r \in Request |-> IF r \in rs THEN "failed" ELSE status[r]]
    /\ \E lost \in SUBSET rs :
           answer' = [r \in Request |-> IF r \in lost THEN None ELSE answer[r]]

Next == \/ \E r \in Request : Open(r) \/ Reply(r) \/ Deliver(r)
        \/ \E rs \in SUBSET Request : Fail(rs)

Spec == Init /\ [][Next]_vars

\* A request that is open ends.
Ends == \A r \in Request :
            WF_vars(/\ status[r] = "open"
                    /\ Deliver(r) \/ \E rs \in SUBSET Request : r \in rs /\ Fail(rs))

FairSpec == Spec /\ Ends
==============================================================================
