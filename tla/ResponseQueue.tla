---------------------------- MODULE ResponseQueue ----------------------------
(***************************************************************************)
(* StreamableTransport::Impl::ResponseQueue: the queue between the threads *)
(* that answer an HTTP exchange and the one connection coroutine that      *)
(* writes the answers to the socket.                                       *)
(*                                                                         *)
(* Any thread calls Push and Close.  Neither touches the queue: they post  *)
(* a task on the strand of the connection, and the strand runs its tasks   *)
(* one at a time in the order they were posted.  The coroutine calls       *)
(* PopFor, which waits on the timer wake_: the timer either expires or is  *)
(* cancelled by a task, and in both cases the completion of the wait is    *)
(* itself one more task on the strand.  Between the moment the timer fires *)
(* and the moment the coroutine resumes, other tasks may run.              *)
(***************************************************************************)
EXTENDS Integers, Sequences, SequencesExt

CONSTANTS
    MaxMessages,       \* kMaxQueuedResponseMessages
    MaxBytes,          \* kMaxQueuedResponseBytes
    Sizes,             \* sizes of the messages that are pushed
    MaxPushes,         \* bound of the model: pushes in a behaviour
    MaxCloses          \* bound of the model: calls of Close by other threads

ASSUME LimitsAssumption == MaxMessages \in Nat /\ MaxBytes \in Nat
ASSUME SizesAssumption  == Sizes \subseteq Nat
ASSUME BoundsAssumption == MaxPushes \in Nat /\ MaxCloses \in Nat

VARIABLES
    strand,            \* tasks posted on the connection's strand, in order
    wake_,             \* the timer: "idle" or "armed"
    messages_,         \* the queue itself
    queued_bytes_,     \* bytes in it, as the code counts them
    closed_,
    cancelled_,        \* the flag shared with the worker that answers
    reader,            \* the coroutine: "caller" (about to call PopFor),
                       \* "waiting" (in it), "writing" (at the socket, between
                       \* two calls), "ending" (the last write), "left"
    result,            \* what PopFor last returned; "none" inside a call
    taken,             \* messages PopFor has returned so far
    pushes, closes     \* calls of Push and of Close made so far

queue == <<messages_, queued_bytes_, closed_>>
calls == <<pushes, closes>>
vars  == <<strand, wake_, messages_, queued_bytes_, closed_, cancelled_,
           reader, result, taken, pushes, closes>>

\* A message is its place in the order of the Push calls, and its size.
Message == [id : 1 .. MaxPushes, size : Sizes]

PushTask(m) == [op |-> "push", msg |-> m]
CloseTask   == [op |-> "close"]
\* The completion of wake_.async_wait, with ec set and without.
Cancelled == [op |-> "resume", ec |-> "aborted"]
Expired   == [op |-> "resume", ec |-> "none"]

Task == [op : {"push"}, msg : Message] \cup [op : {"close"}]
            \cup [op : {"resume"}, ec : {"aborted", "none"}]

TypeOK == /\ strand \in Seq(Task)
          /\ wake_ \in {"idle", "armed"}
          /\ messages_ \in Seq(Message)
          /\ queued_bytes_ \in Int
          /\ closed_ \in BOOLEAN
          /\ cancelled_ \in BOOLEAN
          /\ reader \in {"caller", "waiting", "writing", "ending", "left"}
          /\ result \in {"none", "message", "null"}
          /\ taken \in Nat
          /\ pushes \in 0 .. MaxPushes
          /\ closes \in 0 .. MaxCloses

Init == /\ strand = <<>>
        /\ wake_ = "idle"
        /\ messages_ = <<>>
        /\ queued_bytes_ = 0
        /\ closed_ = FALSE
        /\ cancelled_ = FALSE
        /\ reader \in {"caller", "writing"}     \* WriteJson; WriteSse, its header
        /\ result = "null"
        /\ taken = 0
        /\ pushes = 0
        /\ closes = 0

-----------------------------------------------------------------------------
(* The calls of other threads: they only post. *)

Push(size) ==
    /\ pushes < MaxPushes
    /\ pushes' = pushes + 1
    /\ strand' = Append(strand, PushTask([id |-> pushes + 1, size |-> size]))
    /\ UNCHANGED <<wake_, queue, cancelled_, reader, result, taken, closes>>

\* The flag is set by the caller at once, closed_ only when the task runs.
Close ==
    /\ closes < MaxCloses
    /\ closes' = closes + 1
    /\ cancelled_' = TRUE
    /\ strand' = Append(strand, CloseTask)
    /\ UNCHANGED <<wake_, queue, reader, result, taken, pushes>>

-----------------------------------------------------------------------------
(* The tasks of the strand. *)

\* Mutant: a wait is left pending.
KeepWake(rest) == wake_' = wake_ /\ strand' = rest

\* wake_.cancel(): a pending wait completes, later, with an error code.
CancelWake(rest) ==
    /\ wake_' = "idle"
    /\ strand' = IF wake_ = "armed" THEN Append(rest, Cancelled) ELSE rest

Overflows(m) == \/ Len(messages_) >= MaxMessages
                \/ queued_bytes_ + m.size > MaxBytes

\* Mutant: the message is stored after it has been moved from.
EnterMoved(m) ==
    /\ queued_bytes_' = queued_bytes_ + m.size
    /\ messages_' = Append(messages_, [m EXCEPT !.size = 0])
    /\ UNCHANGED <<closed_, cancelled_>>

Enter(m) ==
    /\ queued_bytes_' = queued_bytes_ + m.size
    /\ messages_' = Append(messages_, m)
    /\ UNCHANGED <<closed_, cancelled_>>

\* Backpressure: the client is too slow.
CloseSlow ==
    /\ cancelled_' = TRUE
    /\ closed_' = TRUE
    /\ UNCHANGED <<messages_, queued_bytes_>>

RunPush ==
    /\ strand # <<>> /\ Head(strand).op = "push"
    /\ LET m == Head(strand).msg IN
       \/ /\ closed_
          /\ strand' = Tail(strand)
          /\ UNCHANGED <<wake_, queue, cancelled_>>
       \/ ~closed_ /\ Overflows(m) /\ CloseSlow /\ CancelWake(Tail(strand))
       \/ ~closed_ /\ ~Overflows(m) /\ Enter(m) /\ CancelWake(Tail(strand))
    /\ UNCHANGED <<reader, result, taken, calls>>

RunClose ==
    /\ strand # <<>> /\ Head(strand).op = "close"
    /\ closed_' = TRUE
    /\ CancelWake(Tail(strand))
    /\ UNCHANGED <<messages_, queued_bytes_, cancelled_, reader, result, taken, calls>>

\* What one turn of the loop of PopFor may come to: the oldest message is
\* returned, or null is, or the coroutine suspends until the timer completes.
\* Mutants: the bytes of the message stay counted; the newest message is taken.
TakeKeepingBytes ==
    /\ messages_ # <<>>
    /\ messages_' = Tail(messages_)
    /\ taken' = taken + 1
    /\ result' = "message"
    /\ reader' = "writing"
    /\ UNCHANGED <<wake_, queued_bytes_>>
TakeNewest ==
    /\ messages_ # <<>>
    /\ messages_' = Front(messages_)
    /\ queued_bytes_' = queued_bytes_ - Last(messages_).size
    /\ taken' = taken + 1
    /\ result' = "message"
    /\ reader' = "writing"
    /\ UNCHANGED wake_

TakeMessage ==
    /\ messages_ # <<>>
    /\ messages_' = Tail(messages_)
    /\ queued_bytes_' = queued_bytes_ - Head(messages_).size
    /\ taken' = taken + 1
    /\ result' = "message"
    /\ reader' = "writing"
    /\ UNCHANGED wake_

\* Null: the caller tests Closed() before anything else, and if it is set writes
\* no keep-alive any more, only the end of the response.
AnswerNull ==
    /\ result' = "null"
    /\ reader' = IF closed_ THEN "ending" ELSE "writing"
    /\ UNCHANGED <<wake_, messages_, queued_bytes_, taken>>

\* Mutant: the timer is not armed.
SuspendForGood ==
    /\ result' = "none"
    /\ reader' = "waiting"
    /\ UNCHANGED <<wake_, messages_, queued_bytes_, taken>>

Suspend ==
    /\ wake_' = "armed"
    /\ result' = "none"
    /\ reader' = "waiting"
    /\ UNCHANGED <<messages_, queued_bytes_, taken>>

PopForTurn == \/ TakeMessage
              \/ messages_ = <<>> /\ closed_ /\ AnswerNull
              \/ messages_ = <<>> /\ ~closed_ /\ Suspend

\* The wait is over and the timer was not cancelled: the time is up, unless a
\* message came in after the timer fired.
TimedOut(task) == task.ec = "none" /\ messages_ = <<>>

RunResume ==
    /\ strand # <<>> /\ Head(strand).op = "resume"
    /\ strand' = Tail(strand)
    /\ \/ TimedOut(Head(strand)) /\ AnswerNull
       \/ ~TimedOut(Head(strand)) /\ PopForTurn
    /\ UNCHANGED <<closed_, cancelled_, calls>>

RunTask == RunPush \/ RunClose \/ RunResume

\* The timer fires: the wait completes without an error code.
Expire ==
    /\ wake_ = "armed"
    /\ wake_' = "idle"
    /\ strand' = Append(strand, Expired)
    /\ UNCHANGED <<queue, cancelled_, reader, result, taken, calls>>

-----------------------------------------------------------------------------
(* The coroutine, between two calls: it writes to the socket what PopFor   *)
(* returned, or a keep-alive.  No time-out limits a write of WriteSse      *)
(* (expires_never), so a client that does not read keeps it in its write   *)
(* for good; WriteJson writes nothing before it asks again.                *)

\* The write has ended, and the coroutine has a reason to ask again.
Written ==
    /\ reader = "writing"
    /\ reader' = "caller"
    /\ UNCHANGED <<strand, wake_, queue, cancelled_, result, taken, calls>>

CallPopFor ==
    /\ reader = "caller"
    /\ PopForTurn
    /\ UNCHANGED <<strand, closed_, cancelled_, calls>>

\* The write was the last, or failed, or the deadline is over: Run() drops the
\* channel with Close(), whose task still runs on the strand.
Leave ==
    /\ reader \in {"writing", "ending"}
    /\ reader' = "left"
    /\ cancelled_' = TRUE
    /\ strand' = Append(strand, CloseTask)
    /\ UNCHANGED <<wake_, queue, result, taken, calls>>

\* Nothing is left to do: the connection has dropped the channel.
Done ==
    /\ reader = "left" /\ strand = <<>>
    /\ UNCHANGED vars

Next == \/ \E size \in Sizes : Push(size)
        \/ Close
        \/ RunTask
        \/ Expire
        \/ Written
        \/ CallPopFor
        \/ Leave
        \/ Done

Spec == Init /\ [][Next]_vars

\* The io threads run posted tasks and the coroutine, and time passes.  Nothing
\* is said of a write: it ends when the client reads, which it may never do.
Fairness == /\ WF_vars(RunTask)
            /\ WF_vars(Expire)
            /\ WF_vars(CallPopFor)

FairSpec == Spec /\ Fairness

-----------------------------------------------------------------------------
(* Properties *)

\* Limits: the queue never holds more messages than kMaxQueuedResponseMessages
\* (Push refuses the message that would exceed it).
WithinLimit == Len(messages_) <= MaxMessages

Bytes(msgs) == FoldLeft(LAMBDA sum, m : sum + m.size, 0, msgs)

\* Accounting: queued_bytes_, which Push adds to and PopFor subtracts from, is
\* the number of bytes of the messages in the queue, and within the byte limit.
BytesAccounted ==
    /\ queued_bytes_ = Bytes(messages_)
    /\ queued_bytes_ <= MaxBytes

\* No gaps: what the coroutine has been given and what still waits for it are
\* the first messages in the order of the Push calls, none left out, none
\* twice: a slow stream that loses a message gets nothing after it.
NoGap == \A i \in 1 .. Len(messages_) : messages_[i].id = taken + i

\* Cancellation: a queue that takes no more messages has told the worker, also
\* when the strand closed it by itself because of backpressure.
ClosedIsCancelled == closed_ => cancelled_

TasksOf(tasks, op) == {i \in 1 .. Len(tasks) : tasks[i].op = op}

\* No lost wake-up: when the coroutine is suspended in PopFor although there is
\* something to return, its resumption is already posted.
NoLostWakeup ==
    reader = "waiting" /\ (messages_ # <<>> \/ closed_)
        => TasksOf(strand, "resume") # {}

\* Suspended at most once: a coroutine in PopFor has exactly one way to be
\* resumed, the armed timer or one posted completion; outside PopFor it has
\* none (resuming it would run the connection twice).
OneResumption ==
    /\ reader = "waiting" => (wake_ = "armed" <=> TasksOf(strand, "resume") = {})
    /\ reader # "waiting" => wake_ = "idle" /\ TasksOf(strand, "resume") = {}
    /\ \A i, j \in TasksOf(strand, "resume") : i = j

\* What the three invariants above rest on.  The pushes that wait on the strand
\* of an open queue are the ones after the last message that entered it, in
\* order; the timer is armed only while there is nothing to return; a close task
\* is posted only after the flag was set.
InOrder(tasks, low, high) ==
    /\ \A i \in TasksOf(tasks, "push") : tasks[i].msg.id \in low + 1 .. high
    /\ \A i, j \in TasksOf(tasks, "push") : i < j => tasks[i].msg.id < tasks[j].msg.id
    /\ \A n \in low + 1 .. high : \E i \in TasksOf(tasks, "push") : tasks[i].msg.id = n

StrandInv ==
    /\ ~closed_ => InOrder(strand, taken + Len(messages_), pushes)
    /\ wake_ = "armed" => messages_ = <<>> /\ ~closed_
    /\ closed_ \/ TasksOf(strand, "close") # {} => cancelled_

EnteredBound == taken + Len(messages_) <= pushes

IInv == /\ WithinLimit /\ NoGap /\ ClosedIsCancelled /\ OneResumption
        /\ StrandInv /\ EnteredBound

\* A null answer is honest: PopFor says "nothing came" only when the queue is
\* empty at that moment, even if a message arrived after the timer fired.
NullMeansEmpty == [][result' = "null" /\ result # "null" => messages_ = <<>>]_vars

\* The client goes on reading: no write of the coroutine lasts for ever.
ClientReads == []<>(reader # "writing")

\* Every message posted enters the queue, whatever the client does, unless the
\* queue is closed.  It is handed over to the coroutine as well, unless the queue
\* is closed or the coroutine leaves, if the client goes on reading.
Delivered ==
    \A i \in 1 .. MaxPushes :
        /\ pushes >= i ~> (taken + Len(messages_) >= i \/ closed_)
        /\ ClientReads => (pushes >= i ~> (taken >= i \/ closed_ \/ reader = "left"))

\* The queue implements a bounded mailbox that answers every question.
MailboxSpec == INSTANCE Mailbox WITH
    Capacity <- MaxMessages,
    box      <- [i \in DOMAIN messages_ |-> messages_[i].id],
    shut     <- closed_,
    answer   <- result

ImplementsMailbox == MailboxSpec!FairSpec
==============================================================================
