------------------------------- MODULE Mailbox -------------------------------
(***************************************************************************)
(* What a ResponseQueue promises to the two sides that use it, with the    *)
(* strand, the posted tasks and the timer left out: a bounded FIFO box     *)
(* that producers fill, that may be shut once, and that answers every      *)
(* question of its single consumer, with the oldest message while there is *)
(* one and with "null" only when the box is empty.                         *)
(*                                                                         *)
(* Messages are numbered in the order in which they were posted, so that   *)
(* a message that overtakes another one, is lost or is answered twice      *)
(* shows in the numbers.                                                   *)
(***************************************************************************)
EXTENDS Naturals, Sequences

CONSTANT Capacity      \* messages the box holds, a number

VARIABLES box,         \* numbers of the messages in the box, oldest first
          shut,        \* no message enters any more
          taken,       \* how many messages the consumer has been given
          answer       \* "none" while a question is open, else what it got

vars == <<box, shut, taken, answer>>

Init == /\ box = <<>>
        /\ shut = FALSE
        /\ taken = 0
        /\ answer = "null"

\* The next message in posting order enters: nothing before it was left out.
Accept == /\ ~shut
          /\ Len(box) < Capacity
          /\ box' = Append(box, taken + Len(box) + 1)
          /\ UNCHANGED <<shut, taken, answer>>

Shut == /\ shut' = TRUE
        /\ UNCHANGED <<box, taken, answer>>

\* The consumer asks and has to wait.
Ask == /\ answer' = "none"
       /\ UNCHANGED <<box, shut, taken>>

\* The oldest message is handed over, and it is the next one in order.
Take == /\ box # <<>>
        /\ Head(box) = taken + 1
        /\ box' = Tail(box)
        /\ taken' = taken + 1
        /\ answer' = "message"
        /\ UNCHANGED shut

\* "null": the time is up or the box is shut, and in both cases it is empty.
Refuse == /\ box = <<>>
          /\ answer' = "null"
          /\ UNCHANGED <<box, shut, taken>>

Next == Accept \/ Shut \/ Ask \/ Take \/ Refuse

Spec == Init /\ [][Next]_vars

\* Every question that is open gets an answer.
Answered == WF_vars(answer = "none" /\ (Take \/ Refuse))

FairSpec == Spec /\ Answered
==============================================================================
