-------------------------------- MODULE Server --------------------------------
(***************************************************************************)
(* The server core: Server.cpp, and what main.cpp does with it.            *)
(*                                                                         *)
(* The main thread reads messages from the transport and processes them,   *)
(* itself when the transport has a concurrency of 1 (stdio and the legacy  *)
(* transports), in tasks of std::async otherwise.  A writer thread sends   *)
(* the notifications that any other thread queues.  Stop shuts everything  *)
(* down: Connect calls it when its loop is over, and so does the handler   *)
(* of SIGINT, on the main thread, wherever that happens to be.             *)
(*                                                                         *)
(* The transport is external: it gives a message or, once it is closed, an *)
(* empty one, and it takes what is written.  A message is its number; with *)
(* a transport that correlates them (Scoped) that is its exchange id too.  *)
(***************************************************************************)
EXTENDS Naturals, Sequences, FiniteSets

CONSTANTS
    Concurrency,     \* transport_->GetConcurrency()
    Scoped,          \* the messages carry exchange ids
    Kinds,           \* what can become of a message: a subset of Kind
    MaxReads,        \* bound: messages read
    MaxNotes,        \* bound: notifications sent
    MAX_PARSE_ERRORS,
    MaxSignals       \* bound: SIGINTs, 0 or 1

ASSUME ConcurrencyAssumption == Concurrency \in Nat \ {0}
ASSUME BoundsAssumption ==
    MaxReads \in Nat /\ MaxNotes \in Nat /\ MAX_PARSE_ERRORS \in Nat /\ MaxSignals \in 0..1
ASSUME ScopedAssumption == Scoped \in BOOLEAN

\* A handler answers, returns nullptr, or throws a json::exception; a broken
\* message does not parse.
Kind == {"request", "notice", "throws", "broken"}
ASSUME KindsAssumption == Kinds \subseteq Kind

VARIABLES
    process,             \* "up", or how the program ended
    open,                \* the transport still has messages to come
    transport_,          \* the pointer is set
    isStopping_, isCleaned_, writer_running_, parserErrors_,
    main,                \* where Connect is
    in_flight,           \* the tasks whose futures Connect holds
    reads,               \* messages read so far; also the number of the last
    kind,                \* what becomes of a message when it is handled
    cancelled,           \* the messages whose cancelled flag is set
    stage,               \* how far ProcessMessage is with a message
    active_exchange_id_, \* thread local
    output_mutex_,       \* its owner
    notification_queue_,
    writer,              \* where WriterLoop is
    notification_to_send,
    notifier,            \* where SendNotification is, on a thread of its own
    notes,               \* notifications so far; also the number of the last
    sent,                \* what the writer wrote, in order
    routed,              \* <<message, exchange>>: where a handler's notification went
    stopper,             \* where Stop is, for the two that may call it
    handler              \* the signal handler: "none", "running" or "over"

flags == <<open, transport_, isStopping_, isCleaned_, writer_running_>>
reading == <<main, in_flight, reads, kind>>
tasks == <<stage, cancelled, parserErrors_, active_exchange_id_, routed>>
queue == <<notification_queue_, writer, notification_to_send, sent>>
sender == <<notifier, notes>>
stopping == <<stopper, handler>>
vars == <<process, open, transport_, isStopping_, isCleaned_, writer_running_,
          parserErrors_, main, in_flight, reads, kind, cancelled, stage,
          active_exchange_id_, output_mutex_, notification_queue_, writer,
          notification_to_send, notifier, notes, sent, routed, stopper, handler>>

-----------------------------------------------------------------------------

Id == 1..MaxReads
Note == 1..MaxNotes
None == 0

\* The threads that process messages: main, numbered 0, or one for each task.
Main == 0
Thread == {Main} \cup Id
ThreadOf(m) == IF Concurrency = 1 THEN Main ELSE m

\* The owner of output_mutex_ is the number of a message, or one of these.
Free == 0
Writer == MaxReads + 1

\* The handler has interrupted the main thread.
Runs(thread) == process = "up" /\ (thread = Main => handler # "running")

Processing == {"queued", "handling", "reply", "writing"}
StopSteps == {"idle", "entered", "reset", "flag", "notify", "join", "done", "left"}

FlagTypes ==
    /\ process \in {"up", "exited", "crashed"}
    /\ open \in BOOLEAN
    /\ transport_ \in BOOLEAN
    /\ isStopping_ \in BOOLEAN
    /\ isCleaned_ \in BOOLEAN
    /\ writer_running_ \in BOOLEAN

ReadingTypes ==
    /\ main \in {"connect", "loop", "read", "process", "submit", "head",
                "drain", "stop", "returned"}
    /\ in_flight \subseteq Id
    /\ reads \in 0..MaxReads
    /\ kind \in [Id -> Kind]

TaskTypes ==
    /\ parserErrors_ \in 0..MaxReads
    /\ cancelled \subseteq Id
    /\ stage \in [Id -> Processing \cup {"unread", "done"}]
    /\ active_exchange_id_ \in [Thread -> Id \cup {None}]
    /\ routed \subseteq Id \X Id

QueueTypes ==
    /\ output_mutex_ \in Id \cup {Free, Writer}
    /\ notification_queue_ \in Seq(Note)
    /\ writer \in {"none", "loop", "lock", "falling", "waiting", "send", "holding",
                  "writing", "ended"}
    /\ notification_to_send \in Note \cup {None}
    /\ notifier \in {"idle", "checked", "pushed"}
    /\ notes \in 0..MaxNotes
    /\ sent \in Seq(Note)

StopTypes ==
    /\ stopper \in [{"main", "handler"} -> StopSteps]
    /\ handler \in {"none", "running", "over"}

TypeOK == FlagTypes /\ ReadingTypes /\ TaskTypes /\ QueueTypes /\ StopTypes

Init ==
    /\ process = "up"
    /\ open = TRUE
    /\ transport_ = FALSE
    /\ isStopping_ = FALSE
    /\ isCleaned_ = FALSE
    /\ writer_running_ = FALSE
    /\ parserErrors_ = 0
    /\ main = "connect"
    /\ in_flight = {}
    /\ reads = 0
    /\ kind = [m \in Id |-> "request"]
    /\ cancelled = {}
    /\ stage = [m \in Id |-> "unread"]
    /\ active_exchange_id_ = [t \in Thread |-> None]
    /\ output_mutex_ = Free
    /\ notification_queue_ = <<>>
    /\ writer = "none"
    /\ notification_to_send = None
    /\ notifier = "idle"
    /\ notes = 0
    /\ sent = <<>>
    /\ routed = {}
    /\ stopper = [c \in {"main", "handler"} |-> "idle"]
    /\ handler = "none"

-----------------------------------------------------------------------------
\* Connect.  The transport starts, or it does not and main() calls Stop.

Start ==
    /\ main = "connect" /\ Runs(Main)
    /\ transport_' = TRUE
    /\ isStopping_' = FALSE
    /\ writer_running_' = TRUE
    /\ writer' = "loop"
    /\ main' \in {"loop", "stop"}
    /\ UNCHANGED <<process, open, isCleaned_, in_flight, reads, kind, tasks,
                   output_mutex_, notification_queue_, notification_to_send, sent,
                   sender, stopping>>

\* The condition of the while loop; then Connect is in ReadMessage.
CheckStopping ==
    /\ main = "loop" /\ Runs(Main)
    /\ main' = IF isStopping_ THEN "drain" ELSE "read"
    /\ UNCHANGED <<process, flags, in_flight, reads, kind, tasks, output_mutex_,
                   queue, sender, stopping>>

\* ReadMessage returns a message, which is dropped when the server is stopping.
ReadMessage ==
    /\ main = "read" /\ Runs(Main)
    /\ open
    /\ reads < MaxReads
    /\ reads' = reads + 1
    /\ \E k \in Kinds : kind' = [kind EXCEPT ![reads'] = k]
    /\ IF isStopping_
       THEN main' = "drain" /\ UNCHANGED stage
       ELSE IF Concurrency = 1
            THEN main' = "process" /\ stage' = [stage EXCEPT ![reads'] = "queued"]
            ELSE main' = "submit" /\ UNCHANGED stage
    /\ UNCHANGED <<process, flags, in_flight, cancelled, parserErrors_,
                   active_exchange_id_, routed, output_mutex_, queue, sender, stopping>>

\* ReadMessage returns an empty message: the transport is closed.
ReadNothing ==
    /\ main = "read" /\ Runs(Main)
    /\ ~open
    /\ isStopping_' = TRUE
    /\ main' = "drain"
    /\ UNCHANGED <<process, open, transport_, isCleaned_, writer_running_, in_flight,
                   reads, kind, tasks, output_mutex_, queue, sender, stopping>>

\* The main thread has processed the message itself.
Processed ==
    /\ main = "process" /\ Runs(Main)
    /\ stage[reads] = "done"
    /\ main' = "loop"
    /\ UNCHANGED <<process, flags, in_flight, reads, kind, tasks, output_mutex_,
                   queue, sender, stopping>>

\* The tasks that are over go; then there is a slot, or the oldest is waited for,
\* the one with the least number.
Ready(m) == stage[m] = "done"

\* Mutant: the futures are counted before those that are over have gone.
FullBeforehand(futures) == Cardinality(in_flight) >= Concurrency

Full(futures) == Cardinality(futures) >= Concurrency

Launch(futures) ==
    /\ in_flight' = futures \cup {reads}
    /\ stage' = [stage EXCEPT ![reads] = "queued"]
    /\ main' = "loop"

Submit ==
    /\ main = "submit" /\ Runs(Main)
    /\ LET busy == {m \in in_flight : ~Ready(m)}
       IN IF Full(busy)
          THEN main' = "head" /\ in_flight' = busy /\ UNCHANGED stage
          ELSE Launch(busy)
    /\ UNCHANGED <<process, flags, reads, kind, cancelled, parserErrors_,
                   active_exchange_id_, routed, output_mutex_, queue, sender, stopping>>

WaitForFront ==
    /\ main = "head" /\ Runs(Main)
    /\ \E front \in in_flight :
           /\ \A m \in in_flight : front <= m
           /\ Ready(front)
           /\ Launch(in_flight \ {front})
    /\ UNCHANGED <<process, flags, reads, kind, cancelled, parserErrors_,
                   active_exchange_id_, routed, output_mutex_, queue, sender, stopping>>

\* Mutant: the tasks are left to themselves.
NobodyWaits == TRUE

\* The loop is over: Connect waits for every task, then it calls Stop.
AllReady == \A m \in in_flight : Ready(m)
Drain ==
    /\ main = "drain" /\ Runs(Main)
    /\ AllReady
    /\ main' = "stop"
    /\ UNCHANGED <<process, flags, in_flight, reads, kind, tasks, output_mutex_,
                   queue, sender, stopping>>

Return ==
    /\ main = "stop" /\ Runs(Main)
    /\ stopper["main"] \in {"done", "left"}
    /\ main' = "returned"
    /\ UNCHANGED <<process, flags, in_flight, reads, kind, tasks, output_mutex_,
                   queue, sender, stopping>>

MainStep ==
    \/ Start \/ CheckStopping \/ ReadNothing
    \/ Processed \/ Submit \/ WaitForFront \/ Drain \/ Return

-----------------------------------------------------------------------------
\* The queue of notifications, and whom a push of one wakes.

\* Mutant: nobody is notified.
WakeNobody == UNCHANGED writer

WakeWriter == writer' = IF writer = "waiting" THEN "lock" ELSE writer

Enqueue(n) == notification_queue_' = Append(notification_queue_, n)

-----------------------------------------------------------------------------
\* ProcessMessage, on the thread of the message.

\* Mutant: the variable is not thread local.
EverySlot(m) == Thread

\* What happens to active_exchange_id_ when an ExchangeScope opens and closes.
Slot(m) == {ThreadOf(m)}
OpenScope(m) ==
    active_exchange_id_' = [t \in Thread |-> IF t \in Slot(m) /\ Scoped
                                             THEN m ELSE active_exchange_id_[t]]
CloseScope(m) ==
    active_exchange_id_' = [active_exchange_id_ EXCEPT ![ThreadOf(m)] = None]

Over(m) == stage' = [stage EXCEPT ![m] = "done"]

\* Mutant: the count goes down by one instead of back.
ForgiveOne == parserErrors_' = parserErrors_ - 1

\* A message that parses sets the count back.
ForgetErrors == parserErrors_' = 0

\* A json::exception, from the parser or from the handler.
CountError ==
    /\ parserErrors_' = parserErrors_ + 1
    /\ isStopping_' = (isStopping_ \/ parserErrors_ + 1 > MAX_PARSE_ERRORS)

Begin(m) ==
    /\ stage[m] = "queued" /\ Runs(ThreadOf(m))
    /\ IF m \in cancelled
       THEN Over(m) /\ UNCHANGED <<parserErrors_, isStopping_, active_exchange_id_>>
       ELSE IF kind[m] = "broken"
            THEN Over(m) /\ CountError /\ UNCHANGED active_exchange_id_
            ELSE /\ stage' = [stage EXCEPT ![m] = "handling"]
                 /\ ForgetErrors
                 /\ OpenScope(m)
                 /\ UNCHANGED isStopping_
    /\ UNCHANGED <<process, open, transport_, isCleaned_, writer_running_, reading,
                   cancelled, routed, output_mutex_, queue, sender, stopping>>

\* The handler sends a notification: to the exchange of its thread, or with
\* everybody else's when the thread has none.  The tests of isStopping_ and of
\* transport_ and the use of the pointer are one step here: that a signal resets it in
\* between shows only where the writer does the same (CheckTransport).
HandlerNotifies(m) ==
    LET exchange == active_exchange_id_[ThreadOf(m)]
    IN /\ stage[m] = "handling" /\ Runs(ThreadOf(m))
       /\ notes < MaxNotes
       /\ transport_ /\ ~isStopping_
       /\ notes' = notes + 1
       /\ IF exchange # None
          THEN /\ routed' = routed \cup {<<m, exchange>>}
               /\ UNCHANGED <<notification_queue_, writer>>
          ELSE /\ output_mutex_ = Free
               /\ Enqueue(notes')
               /\ WakeWriter
               /\ UNCHANGED routed
       /\ UNCHANGED <<process, flags, reading, stage, cancelled, parserErrors_,
                      active_exchange_id_, output_mutex_, notification_to_send, sent,
                      notifier, stopping>>

HandlerReturns(m) ==
    /\ stage[m] = "handling" /\ Runs(ThreadOf(m))
    /\ IF kind[m] = "request" /\ m \notin cancelled
       THEN /\ stage' = [stage EXCEPT ![m] = "reply"]
            /\ UNCHANGED <<parserErrors_, isStopping_, active_exchange_id_>>
       ELSE /\ Over(m)
            /\ CloseScope(m)
            /\ IF kind[m] = "throws" THEN CountError
               ELSE UNCHANGED <<parserErrors_, isStopping_>>
    /\ UNCHANGED <<process, open, transport_, isCleaned_, writer_running_, reading,
                   cancelled, routed, output_mutex_, queue, sender, stopping>>

LockForReply(m) ==
    /\ stage[m] = "reply" /\ Runs(ThreadOf(m))
    /\ output_mutex_ = Free
    /\ output_mutex_' = m
    /\ stage' = [stage EXCEPT ![m] = "writing"]
    /\ UNCHANGED <<process, flags, reading, cancelled, parserErrors_,
                   active_exchange_id_, routed, queue, sender, stopping>>

\* transport_->WriteMessage; without a transport the program is over.
Unlock == output_mutex_' = Free
Reply(m) ==
    /\ stage[m] = "writing" /\ Runs(ThreadOf(m))
    /\ process' = IF transport_ THEN "up" ELSE "crashed"
    /\ Unlock
    /\ Over(m)
    /\ CloseScope(m)
    /\ UNCHANGED <<flags, reading, cancelled, parserErrors_, routed, queue, sender,
                   stopping>>

TaskStep(m) == Begin(m) \/ HandlerReturns(m) \/ LockForReply(m) \/ Reply(m)

\* The transport gives up on a message.
Cancel(m) ==
    /\ process = "up"
    /\ Scoped
    /\ m <= reads /\ m \notin cancelled /\ stage[m] # "done"
    /\ cancelled' = cancelled \cup {m}
    /\ UNCHANGED <<process, flags, reading, stage, parserErrors_,
                   active_exchange_id_, routed, output_mutex_, queue, sender, stopping>>

-----------------------------------------------------------------------------
\* WriterLoop.

WriterLoops ==
    /\ writer = "loop" /\ process = "up"
    /\ writer' = IF writer_running_ THEN "lock" ELSE "ended"
    /\ UNCHANGED <<process, flags, reading, tasks, output_mutex_, notification_queue_,
                   notification_to_send, sent, sender, stopping>>

\* Mutant: the notification is not popped.
PeekNotification ==
    /\ notification_to_send' = Head(notification_queue_)
    /\ UNCHANGED notification_queue_

PopNotification ==
    /\ notification_to_send' = Head(notification_queue_)
    /\ notification_queue_' = Tail(notification_queue_)

\* The predicate of the wait, tested under the mutex.  When it is false the
\* thread is on its way to sleep and nobody can wake it yet.
TestQueue ==
    /\ writer = "lock" /\ process = "up"
    /\ output_mutex_ = Free
    /\ IF notification_queue_ = <<>>
       THEN /\ IF writer_running_
               THEN writer' = "falling" /\ output_mutex_' = Writer
               ELSE writer' = "loop" /\ UNCHANGED output_mutex_
            /\ UNCHANGED <<notification_queue_, notification_to_send>>
       ELSE IF writer_running_
            THEN /\ PopNotification
                 /\ writer' = "send"
                 /\ UNCHANGED output_mutex_
            ELSE /\ writer' = "ended"
                 /\ UNCHANGED <<output_mutex_, notification_queue_, notification_to_send>>
    /\ UNCHANGED <<process, flags, reading, tasks, sent, sender, stopping>>

\* The mutex is released and the thread sleeps, in one step.
FallAsleep ==
    /\ writer = "falling" /\ process = "up"
    /\ output_mutex_' = Free
    /\ writer' = "waiting"
    /\ UNCHANGED <<process, flags, reading, tasks, notification_queue_,
                   notification_to_send, sent, sender, stopping>>

\* The write takes the mutex again and looks at transport_ before it uses it.
LockForWrite ==
    /\ writer = "send" /\ process = "up"
    /\ output_mutex_ = Free
    /\ output_mutex_' = Writer
    /\ writer' = "holding"
    /\ UNCHANGED <<process, flags, reading, tasks, notification_queue_,
                   notification_to_send, sent, sender, stopping>>

CheckTransport ==
    /\ writer = "holding" /\ process = "up"
    /\ IF transport_
       THEN writer' = "writing" /\ UNCHANGED output_mutex_
       ELSE writer' = "loop" /\ output_mutex_' = Free
    /\ UNCHANGED <<process, flags, reading, tasks, notification_queue_,
                   notification_to_send, sent, sender, stopping>>

\* transport_->Write: through a pointer that was reset meanwhile it may crash.
WriteNotification ==
    /\ writer = "writing" /\ process = "up"
    /\ IF transport_
       THEN sent' = Append(sent, notification_to_send) /\ UNCHANGED process
       ELSE process' = "crashed" /\ UNCHANGED sent
    /\ output_mutex_' = Free
    /\ notification_to_send' = None
    /\ writer' = "loop"
    /\ UNCHANGED <<flags, reading, tasks, notification_queue_, sender, stopping>>

WriterStep ==
    \/ WriterLoops \/ TestQueue \/ FallAsleep
    \/ LockForWrite \/ CheckTransport \/ WriteNotification

-----------------------------------------------------------------------------
\* SendNotification on a thread that handles no message: the watcher of the
\* plugins, or a thread of a plugin.

NotifierChecks ==
    /\ notifier = "idle" /\ process = "up"
    /\ transport_ /\ ~isStopping_
    /\ notes < MaxNotes
    /\ notifier' = "checked"
    /\ UNCHANGED <<process, flags, reading, tasks, output_mutex_, queue, notes, stopping>>

NotifierPushes ==
    /\ notifier = "checked" /\ process = "up"
    /\ notes < MaxNotes
    /\ output_mutex_ = Free
    /\ notes' = notes + 1
    /\ Enqueue(notes')
    /\ notifier' = "pushed"
    /\ UNCHANGED <<process, flags, reading, tasks, output_mutex_, writer,
                   notification_to_send, sent, stopping>>

NotifierWakes ==
    /\ notifier = "pushed" /\ process = "up"
    /\ WakeWriter
    /\ notifier' = "idle"
    /\ UNCHANGED <<process, flags, reading, tasks, output_mutex_, notification_queue_,
                   notification_to_send, sent, notes, stopping>>

-----------------------------------------------------------------------------
\* Stop, step by step, for its caller.

Calls(caller) ==
    /\ process = "up"
    /\ IF caller = "main" THEN main = "stop" /\ handler # "running" ELSE handler = "running"
At(caller, step) == Calls(caller) /\ stopper[caller] = step
Goto(caller, step) == stopper' = [stopper EXCEPT ![caller] = step]

\* isCleaned_.exchange(true)
AlreadyCleaned == isCleaned_

Enter(caller) ==
    /\ At(caller, "idle")
    /\ caller = "handler" => transport_
    /\ IF AlreadyCleaned
       THEN Goto(caller, "left") /\ UNCHANGED <<isCleaned_, isStopping_>>
       ELSE /\ isCleaned_' = TRUE
            /\ isStopping_' = TRUE
            /\ Goto(caller, IF transport_ THEN "entered" ELSE "flag")
    /\ UNCHANGED <<process, open, transport_, writer_running_, reading, tasks,
                   output_mutex_, queue, sender, handler>>

StopTransport(caller) ==
    /\ At(caller, "entered")
    /\ open' = FALSE
    /\ Goto(caller, "reset")
    /\ UNCHANGED <<process, transport_, isStopping_, isCleaned_, writer_running_,
                   reading, tasks, output_mutex_, queue, sender, handler>>

ResetTransport(caller) ==
    /\ At(caller, "reset")
    /\ transport_' = FALSE
    /\ Goto(caller, "flag")
    /\ UNCHANGED <<process, open, isStopping_, isCleaned_, writer_running_,
                   reading, tasks, output_mutex_, queue, sender, handler>>

StopWriter(caller) ==
    /\ At(caller, "flag")
    /\ writer_running_' = FALSE
    /\ Goto(caller, "notify")
    /\ UNCHANGED <<process, open, transport_, isStopping_, isCleaned_,
                   reading, tasks, output_mutex_, queue, sender, handler>>

NotifyWriter(caller) ==
    /\ At(caller, "notify")
    /\ WakeWriter
    /\ Goto(caller, "join")
    /\ UNCHANGED <<process, flags, reading, tasks, output_mutex_, notification_queue_,
                   notification_to_send, sent, sender, handler>>

JoinWriter(caller) ==
    /\ At(caller, "join")
    /\ writer = "ended"
    /\ Goto(caller, "done")
    /\ UNCHANGED <<process, flags, reading, tasks, output_mutex_, queue, sender, handler>>

StopStep(caller) ==
    \/ Enter(caller) \/ StopTransport(caller) \/ ResetTransport(caller)
    \/ StopWriter(caller) \/ NotifyWriter(caller) \/ JoinWriter(caller)

-----------------------------------------------------------------------------
\* What comes from outside: the transport ends (its client closes stdin), some
\* code calls RequestStop, and the user presses Ctrl+C.

TransportCloses ==
    /\ process = "up"
    /\ open /\ transport_
    /\ open' = FALSE
    /\ UNCHANGED <<process, transport_, isStopping_, isCleaned_, writer_running_,
                   reading, tasks, output_mutex_, queue, sender, stopping>>

RequestStop ==
    /\ process = "up"
    /\ transport_
    /\ isStopping_' = TRUE
    /\ UNCHANGED <<process, open, transport_, isCleaned_, writer_running_,
                   reading, tasks, output_mutex_, queue, sender, stopping>>

\* stop_handler: Stop when the server is valid, then exit.
Interrupt ==
    /\ process = "up"
    /\ MaxSignals > 0
    /\ handler = "none"
    /\ handler' = "running"
    /\ UNCHANGED <<process, flags, reading, tasks, output_mutex_, queue, sender, stopper>>

Exit ==
    /\ process = "up"
    /\ handler = "running"
    /\ \/ stopper["handler"] \in {"done", "left"}
       \/ stopper["handler"] = "idle" /\ ~transport_
    /\ handler' = "over"
    /\ process' = "exited"
    /\ UNCHANGED <<flags, reading, tasks, output_mutex_, queue, sender, stopper>>

-----------------------------------------------------------------------------

Next ==
    \/ MainStep \/ ReadMessage
    \/ \E m \in Id : TaskStep(m) \/ HandlerNotifies(m) \/ Cancel(m)
    \/ WriterStep
    \/ NotifierChecks \/ NotifierPushes \/ NotifierWakes
    \/ \E c \in {"main", "handler"} : StopStep(c)
    \/ TransportCloses \/ RequestStop \/ Interrupt \/ Exit

Spec == Init /\ [][Next]_vars

\* Every thread of the server runs, and handlers return.  Nobody has to send a
\* message or a notification, to close the transport or to stop the server.
Fairness ==
    /\ WF_vars(MainStep)
    /\ \A m \in Id : WF_vars(TaskStep(m))
    /\ WF_vars(WriterStep)
    /\ WF_vars(NotifierPushes \/ NotifierWakes)
    /\ \A c \in {"main", "handler"} : WF_vars(StopStep(c))
    /\ WF_vars(Exit)
FairSpec == Spec /\ Fairness

-----------------------------------------------------------------------------
\* What the server promises.

\* No more messages are processed at a time than the transport allows, by
\* whatever order the tasks end in (Connect:124-144).
WithinConcurrency ==
    Cardinality({m \in Id : stage[m] \in Processing}) <= Concurrency

\* A notification that a handler sends goes to the exchange of the message it
\* handles and of no other, though all of them send through the same server
\* (SendNotification:277-283, ExchangeScope).
ScopedToExchange ==
    \A r \in routed : r[1] = r[2]

\* Final responses and queued notifications are written one at a time
\* (ProcessMessage:163-165, WriterLoop:79-82).
WritesOneAtATime ==
    \A m \in Id : stage[m] = "writing" =>
        /\ \A n \in Id : stage[n] = "writing" => n = m
        /\ writer \notin {"falling", "holding", "writing"}

\* While no signal comes, no message is still in process when the transport is
\* let go: its answer would have nowhere to go (Connect:146-147).
TransportOutlivesTasks ==
    handler = "none" /\ ~transport_ =>
        \A m \in Id : stage[m] \notin Processing

\* Notifications are written in the order in which they were queued, and each
\* once, whoever queued them (WriterLoop:66-87).
NotificationsInOrder ==
    \A i, j \in DOMAIN sent : i < j => sent[i] < sent[j]

\* However often Stop is called it stops the transport once: whoever comes
\* second leaves at once (Stop:221-223).
Stopping(c) == stopper[c] \in {"entered", "reset", "flag", "notify", "join", "done"}
StoppedOnce ==
    ~(Stopping("main") /\ Stopping("handler"))

\* A notification in the queue is written, or the server stops: the writer never
\* sleeps over it (WriterLoop:66-68, SendNotification:285-289).
NotificationsWritten ==
    \A n \in Note :
        (\E i \in DOMAIN notification_queue_ : notification_queue_[i] = n)
            ~> \/ \E i \in DOMAIN sent : sent[i] = n
               \/ isStopping_
               \/ process # "up"

\* Nothing stays unfinished for good: no message waits for ever for a slot, for the
\* thread of another message or for the mutex, if handlers return, although Connect
\* waits for the oldest task only (Connect:124-144, ProcessMessage).  Messages come to
\* an end in the model (MaxReads), so that the server is idle again.
Unfinished == {m \in Id : \/ stage[m] \in Processing
                          \/ m = reads /\ main \in {"submit", "head"}}
MessagesEnd ==
    Unfinished # {} ~> (Unfinished = {} \/ handler # "none" \/ process # "up")

-----------------------------------------------------------------------------
\* What the documentation says of the end of the program.

\* Stop closes the transport and waits for the writer, which ends.
StopReturns ==
    (main = "stop") ~> (main = "returned" \/ handler # "none" \/ process # "up")

\* The writer that Stop waits for gets to its end.
NeverCrashes == process # "crashed"

\* What is true of it: the transport is used after it has been let go only in a
\* program that Stop is ending; and while no signal comes only the writer does so,
\* under the Stop of Connect, which waits for it: no answer is lost that way
\* (WriterLoop:79-82, Stop:225-237).
CrashesInStop ==
    [][process = "up" /\ process' = "crashed" =>
           /\ isCleaned_
           /\ handler = "none" => main = "stop" /\ writer = "writing"]_vars

=============================================================================
