----------------------------- MODULE ServerProofs -----------------------------
(***************************************************************************)
(* Safety of Server for any concurrency, any kinds of messages, any number *)
(* of them and of notifications, and any limit of parse errors.            *)
(***************************************************************************)
EXTENDS Server, FiniteSetTheorems, TLAPS

(***************************************************************************)
(* What the proofs rest on.                                                *)
(***************************************************************************)

\* Where a message that is in process comes from: the main thread is at it, or
\* Connect holds its future.  Before the loop and after it there is none.
TaskInv ==
    /\ \A m \in Id : stage[m] # "unread" => m <= reads
    /\ \A m \in Id : stage[m] \in Processing =>
           \/ Concurrency = 1 /\ main = "process" /\ m = reads
           \/ Concurrency # 1 /\ m \in in_flight
    /\ \A m \in in_flight : m <= reads
    /\ Concurrency = 1 => in_flight = {}
    /\ Cardinality(in_flight) <= Concurrency
    /\ main \in {"submit", "head"} => reads \in Id /\ stage[reads] = "unread" /\ Concurrency # 1
    /\ main = "process" => Concurrency = 1
    /\ main \in {"connect", "stop", "returned"} => \A m \in Id : stage[m] \notin Processing

\* Without a signal only Connect lets the transport go, at its end.
TransportInv ==
    handler = "none" /\ ~transport_ => main \in {"connect", "stop", "returned"}

\* A thread has the exchange of the message it handles, or none.
SlotInv ==
    \A t \in Thread : active_exchange_id_[t] # None =>
        /\ ThreadOf(active_exchange_id_[t]) = t
        /\ stage[active_exchange_id_[t]] \in {"handling", "reply", "writing"}

\* Every error is that of a message which is over.
ErrorInv == parserErrors_ <= Cardinality({m \in Id : stage[m] = "done"})

\* Who writes has the mutex.
LockInv ==
    /\ \A m \in Id : stage[m] = "writing" => output_mutex_ = m
    /\ writer \in {"falling", "holding", "writing"} => output_mutex_ = Writer

\* Who stops has set isCleaned_ first.
StopInv ==
    /\ \A c \in {"main", "handler"} : Stopping(c) => isCleaned_
    /\ StoppedOnce

\* What was written, what is about to be and what is queued are in order.
QueueInv ==
    /\ NotificationsInOrder
    /\ \A i, j \in DOMAIN notification_queue_ :
           i < j => notification_queue_[i] < notification_queue_[j]
    /\ \A i \in DOMAIN notification_queue_ : notification_queue_[i] <= notes
    /\ \A i \in DOMAIN sent, j \in DOMAIN notification_queue_ : sent[i] < notification_queue_[j]
    /\ \A i \in DOMAIN sent : sent[i] <= notes
    /\ writer \in {"send", "holding", "writing"} =>
           /\ notification_to_send \in Note /\ notification_to_send <= notes
           /\ \A i \in DOMAIN sent : sent[i] < notification_to_send
           /\ \A j \in DOMAIN notification_queue_ : notification_to_send < notification_queue_[j]

IInv == /\ TaskInv /\ TransportInv /\ SlotInv /\ ErrorInv /\ LockInv /\ StopInv /\ QueueInv
        /\ ScopedToExchange

USE ConcurrencyAssumption, BoundsAssumption, ScopedAssumption, KindsAssumption
    DEF None, Main, Free, Id, Note, Thread, Writer

-----------------------------------------------------------------------------
(* What the threads of the program leave alone *)

MainThread == MainStep \/ ReadMessage
Task(m) == TaskStep(m) \/ HandlerNotifies(m)
Notifier == NotifierChecks \/ NotifierPushes \/ NotifierWakes
Outside == TransportCloses \/ RequestStop \/ Interrupt \/ Exit \/ \E m \in Id : Cancel(m)

\* The main thread starts tasks, and ends none.
LEMMA MainFrame ==
    ASSUME TypeOK, MainThread
    PROVE  /\ UNCHANGED <<cancelled, parserErrors_, active_exchange_id_, routed, output_mutex_,
                          notification_queue_, notification_to_send, sent, notes, notifier,
                          stopper, handler, process, open, isCleaned_>>
           /\ writer' = writer \/ writer' = "loop"
           /\ transport_ => transport_'
           /\ \A m \in Id : \/ stage'[m] = stage[m]
                            \/ m = reads' /\ stage'[m] = "queued"
<1> USE DEF TypeOK, FlagTypes, ReadingTypes, TaskTypes, QueueTypes, StopTypes,
            flags, reading, tasks, queue, sender, stopping
<1>1. CASE Start
  BY <1>1 DEF Start
<1>2. CASE CheckStopping \/ ReadNothing \/ Processed \/ Drain \/ Return
  BY <1>2 DEF CheckStopping, ReadNothing, Processed, Drain, Return
<1>3. CASE Submit
  BY <1>3 DEF Submit, Launch
<1>4. CASE WaitForFront
  BY <1>4 DEF WaitForFront, Launch
<1>5. CASE ReadMessage
  BY <1>5 DEF ReadMessage
<1> QED BY <1>1, <1>2, <1>3, <1>4, <1>5 DEF MainThread, MainStep

\* A task touches no stage but its own.
LEMMA TaskFrame ==
    ASSUME TypeOK, NEW m \in Id, Task(m)
    PROVE  /\ UNCHANGED <<open, transport_, isCleaned_, writer_running_, main, in_flight, reads,
                          kind, cancelled, notification_to_send, sent, notifier, stopper, handler>>
           /\ stage[m] \in Processing
           /\ stage'[m] \in Processing \cup {"done"}
           /\ stage' = [stage EXCEPT ![m] = stage'[m]]
           /\ writer' = writer \/ writer' = "lock"
<1> USE DEF TypeOK, FlagTypes, ReadingTypes, TaskTypes, QueueTypes, StopTypes,
            flags, reading, tasks, queue, sender, stopping, Processing
<1>1. CASE Begin(m)
  BY <1>1 DEF Begin, Over
<1>2. CASE HandlerReturns(m)
  BY <1>2 DEF HandlerReturns, Over
<1>3. CASE LockForReply(m)
  BY <1>3 DEF LockForReply
<1>4. CASE Reply(m)
  BY <1>4 DEF Reply, Over
<1>5. CASE HandlerNotifies(m)
  BY <1>5 DEF HandlerNotifies, WakeWriter
<1> QED BY <1>1, <1>2, <1>3, <1>4, <1>5 DEF Task, TaskStep

LEMMA WriterFrame ==
    ASSUME WriterStep
    PROVE  UNCHANGED <<flags, reading, tasks, sender, stopping>>
BY DEF WriterStep, WriterLoops, TestQueue, FallAsleep, LockForWrite, CheckTransport,
       WriteNotification, PopNotification

LEMMA NotifierFrame ==
    ASSUME Notifier
    PROVE  /\ UNCHANGED <<process, flags, reading, tasks, output_mutex_, notification_to_send,
                          sent, stopping>>
           /\ writer' = writer \/ writer' = "lock"
BY DEF Notifier, NotifierChecks, NotifierPushes, NotifierWakes, WakeWriter, queue

LEMMA StopFrame ==
    ASSUME NEW c \in {"main", "handler"}, StopStep(c)
    PROVE  /\ UNCHANGED <<process, reading, tasks, output_mutex_, notification_queue_,
                          notification_to_send, sent, sender, handler>>
           /\ writer' = writer \/ writer' = "lock"
BY DEF StopStep, Enter, StopTransport, ResetTransport, StopWriter, NotifyWriter, JoinWriter,
       WakeWriter, Goto, queue, flags

LEMMA OutsideFrame ==
    ASSUME Outside
    PROVE  /\ UNCHANGED <<transport_, isCleaned_, writer_running_, reading, stage, parserErrors_,
                          active_exchange_id_, routed, output_mutex_, queue, sender, stopper>>
           /\ handler' = "none" => handler = "none"
BY DEF Outside, TransportCloses, RequestStop, Interrupt, Exit, Cancel, tasks, flags, stopping

-----------------------------------------------------------------------------
(* Types *)

USE DEF Processing

LEMMA InitTyped == Init => TypeOK
<1> SUFFICES ASSUME Init PROVE TypeOK
  OBVIOUS
<1>1. FlagTypes
  BY DEF Init, FlagTypes
<1>4. ReadingTypes
  <2>1. kind \in [Id -> Kind]
    BY DEF Init, Kind
  <2> QED BY <2>1 DEF Init, ReadingTypes
<1>2. TaskTypes /\ QueueTypes
  BY DEF Init, TaskTypes, QueueTypes
<1>3. StopTypes
  BY DEF Init, StopTypes, StopSteps
<1> QED BY <1>1, <1>2, <1>3, <1>4 DEF TypeOK

LEMMA MainTyped ==
    ASSUME TypeOK, TaskInv, MainThread PROVE TypeOK'
<1> USE DEF TypeOK, flags
<1>1. TaskTypes' /\ QueueTypes' /\ StopTypes'
  <2>1. stage' \in [Id -> Processing \cup {"unread", "done"}]
    BY DEF MainThread, MainStep, Start, CheckStopping, ReadNothing, Processed, Drain, Return,
           Submit, WaitForFront, ReadMessage, Launch, TaskTypes, tasks
  <2> QED BY <2>1, MainFrame DEF TaskTypes, QueueTypes, StopTypes
<1>2. CASE Start
  BY <1>1, <1>2 DEF Start, FlagTypes, ReadingTypes
<1>3. CASE CheckStopping \/ ReadNothing \/ Processed \/ Drain \/ Return
  BY <1>1, <1>3 DEF CheckStopping, ReadNothing, Processed, Drain, Return, FlagTypes, ReadingTypes
<1>4. CASE ReadMessage
  <2>1. kind' \in [Id -> Kind]
    BY <1>4 DEF ReadMessage, ReadingTypes
  <2> QED BY <1>1, <1>4, <2>1 DEF ReadMessage, FlagTypes, ReadingTypes
<1>5. ASSUME Submit \/ WaitForFront PROVE reads \in Id
  BY <1>5 DEF Submit, WaitForFront, TaskInv
<1>6. CASE Submit
  BY <1>1, <1>5, <1>6 DEF Submit, Launch, FlagTypes, ReadingTypes
<1>7. CASE WaitForFront
  BY <1>1, <1>5, <1>7 DEF WaitForFront, Launch, FlagTypes, ReadingTypes
<1> QED BY <1>2, <1>3, <1>4, <1>6, <1>7 DEF MainThread, MainStep

\* The number of errors is bounded by that of the messages that are over.
LEMMA CountBound ==
    ASSUME NEW S \in SUBSET Id
    PROVE  IsFiniteSet(S) /\ Cardinality(S) \in 0..MaxReads
<1>1. IsFiniteSet(Id) /\ Cardinality(Id) = MaxReads
  <2>1. IsFiniteSet(1..MaxReads) /\ Cardinality(1..MaxReads) = IF 1 > MaxReads THEN 0 ELSE MaxReads - 1 + 1
    BY FS_Interval
  <2> QED BY <2>1
<1>2. IsFiniteSet(S) /\ Cardinality(S) \in Nat /\ Cardinality(S) <= Cardinality(Id)
  BY <1>1, FS_Subset, FS_CardinalityType
<1> QED BY <1>1, <1>2

LEMMA OneMore ==
    ASSUME NEW S \in SUBSET Id, NEW m \in Id
    PROVE  Cardinality(S \cup {m}) <= Cardinality(S) + 1
<1>1. IsFiniteSet(S) /\ Cardinality(S) \in Nat
  BY CountBound
<1>2. Cardinality(S \cup {m}) = IF m \in S THEN Cardinality(S) ELSE Cardinality(S) + 1
  BY <1>1, FS_AddElement
<1> QED BY <1>1, <1>2

LEMMA OneLess ==
    ASSUME NEW S \in SUBSET Id, NEW m \in S
    PROVE  Cardinality(S \ {m}) + 1 = Cardinality(S)
<1>1. IsFiniteSet(S) /\ Cardinality(S) \in Nat
  BY CountBound
<1>2. Cardinality(S \ {m}) = IF m \in S THEN Cardinality(S) - 1 ELSE Cardinality(S)
  BY <1>1, FS_RemoveElement
<1> QED BY <1>1, <1>2

DoneSet == {m \in Id : stage[m] = "done"}

LEMMA OneMoreDone ==
    ASSUME TypeOK, NEW m \in Id, stage[m] # "done", stage' = [stage EXCEPT ![m] = "done"]
    PROVE  Cardinality(DoneSet') = Cardinality(DoneSet) + 1
<1>1. DoneSet' = DoneSet \cup {m} /\ m \notin DoneSet
  BY DEF TypeOK, TaskTypes, DoneSet
<1>2. IsFiniteSet(DoneSet)
  BY CountBound DEF DoneSet
<1> QED BY <1>1, <1>2, FS_AddElement

LEMMA ErrorsBounded == TypeOK /\ ErrorInv => parserErrors_ <= MaxReads
<1> SUFFICES ASSUME TypeOK, ErrorInv PROVE parserErrors_ <= MaxReads
  OBVIOUS
<1>1. Cardinality(DoneSet) \in 0..MaxReads /\ parserErrors_ <= Cardinality(DoneSet)
  BY CountBound DEF ErrorInv, DoneSet
<1> QED BY <1>1 DEF TypeOK, TaskTypes

\* A task that counts an error is over.
LEMMA TaskErrors ==
    ASSUME TypeOK, ErrorInv, NEW m \in Id, Task(m)
    PROVE  ErrorInv' /\ parserErrors_' \in 0..MaxReads
<1>0. /\ Cardinality(DoneSet) \in Nat /\ Cardinality(DoneSet') \in 0..MaxReads
      /\ parserErrors_ \in Nat /\ parserErrors_ <= Cardinality(DoneSet)
  BY CountBound DEF DoneSet, TypeOK, TaskTypes, ErrorInv
<1>1. \/ parserErrors_' \in {0, parserErrors_}
      \/ parserErrors_' = parserErrors_ + 1 /\ stage' = [stage EXCEPT ![m] = "done"]
  BY DEF Task, TaskStep, Begin, HandlerReturns, LockForReply, Reply, HandlerNotifies,
         CountError, ForgetErrors, Over, tasks
<1>2. stage[m] # "done" /\ Cardinality(DoneSet') >= Cardinality(DoneSet)
  <2>1. stage[m] \in Processing /\ stage' = [stage EXCEPT ![m] = stage'[m]]
    BY TaskFrame
  <2>2. DoneSet \subseteq DoneSet'
    BY <2>1 DEF DoneSet, TypeOK, TaskTypes
  <2>3. IsFiniteSet(DoneSet')
    BY CountBound DEF DoneSet
  <2> QED BY <2>1, <2>2, <2>3, FS_Subset
<1>3. parserErrors_' <= Cardinality(DoneSet')
  BY <1>0, <1>1, <1>2, OneMoreDone
<1>4. parserErrors_' \in Nat
  BY <1>0, <1>1
<1> QED BY <1>0, <1>3, <1>4 DEF ErrorInv, DoneSet

LEMMA EnqueueType ==
    ASSUME notification_queue_ \in Seq(Note),
           \/ notification_queue_' = notification_queue_
           \/ notes' \in Note /\ notification_queue_' = Append(notification_queue_, notes')
    PROVE  notification_queue_' \in Seq(Note)
OBVIOUS

LEMMA TaskTyped ==
    ASSUME TypeOK, ErrorInv, NEW m \in Id, Task(m) PROVE TypeOK'
<1> USE DEF TypeOK, flags
<1>1. ReadingTypes' /\ StopTypes'
  BY TaskFrame DEF ReadingTypes, StopTypes
<1>2. FlagTypes'
  BY DEF FlagTypes, Task, TaskStep, Begin, HandlerReturns, LockForReply, Reply, HandlerNotifies,
         CountError
<1>3. TaskTypes'
  <2>1. /\ parserErrors_' \in 0..MaxReads /\ cancelled' \subseteq Id
        /\ stage' \in [Id -> Processing \cup {"unread", "done"}]
    BY TaskFrame, TaskErrors DEF TaskTypes
  <2>2. ThreadOf(m) \in Thread
    BY DEF ThreadOf
  <2>3. active_exchange_id_' \in [Thread -> Id \cup {None}]
    BY <2>2 DEF TaskTypes, Task, TaskStep, Begin, HandlerReturns, LockForReply, Reply,
         HandlerNotifies, OpenScope, CloseScope, tasks
  <2>4. routed' \subseteq Id \X Id
    BY <2>2 DEF TaskTypes, Task, TaskStep, Begin, HandlerReturns, LockForReply, Reply,
         HandlerNotifies, tasks
  <2> QED BY <2>1, <2>3, <2>4 DEF TaskTypes
<1>4. QueueTypes'
  <2>1. CASE Begin(m) \/ HandlerReturns(m)
    BY <2>1 DEF Begin, HandlerReturns, QueueTypes, queue, sender
  <2>2. CASE LockForReply(m) \/ Reply(m)
    BY <2>2 DEF LockForReply, Reply, Unlock, QueueTypes, queue, sender
  <2>3. CASE HandlerNotifies(m)
    <3>1. notes' \in 0..MaxNotes /\ (notes' \in Note \/ notes' = notes)
      BY <2>3 DEF HandlerNotifies, QueueTypes
    <3>2. notification_queue_' \in Seq(Note)
      <4>1. \/ notification_queue_' = notification_queue_
            \/ notes' \in Note /\ notification_queue_' = Append(notification_queue_, notes')
        BY <2>3 DEF HandlerNotifies, QueueTypes, Enqueue
      <4> QED BY <4>1, EnqueueType DEF QueueTypes
    <3>3. UNCHANGED <<output_mutex_, notification_to_send, notifier, sent>>
      BY <2>3 DEF HandlerNotifies
    <3> QED BY <3>1, <3>2, <3>3, TaskFrame DEF QueueTypes
  <2> QED BY <2>1, <2>2, <2>3 DEF Task, TaskStep
<1> QED BY <1>1, <1>2, <1>3, <1>4

LEMMA WriterTyped ==
    ASSUME TypeOK, QueueInv, WriterStep PROVE TypeOK'
<1> USE DEF TypeOK
<1>2. process' \in {"up", "exited", "crashed"}
  BY DEF FlagTypes, WriterStep, WriterLoops, TestQueue, FallAsleep, LockForWrite, CheckTransport,
         WriteNotification
<1>3. FlagTypes' /\ ReadingTypes' /\ TaskTypes' /\ StopTypes'
  <2>1. UNCHANGED <<flags, reading, tasks, stopping>>
    BY WriterFrame
  <2>2. FlagTypes' /\ ReadingTypes'
    BY <1>2, <2>1 DEF FlagTypes, ReadingTypes, flags, reading
  <2>3. TaskTypes' /\ StopTypes'
    BY <2>1 DEF TaskTypes, StopTypes, tasks, stopping
  <2> QED BY <2>2, <2>3
<1>4. notes' = notes /\ notifier' = notifier
  BY WriterFrame DEF sender
<1>5. QueueTypes'
  <2> USE <1>4 DEF QueueTypes
  <2>1. CASE WriterLoops \/ FallAsleep \/ LockForWrite \/ CheckTransport
    BY <2>1 DEF WriterLoops, FallAsleep, LockForWrite, CheckTransport
  <2>2. CASE TestQueue
    <3>1. notification_queue_ # <<>> =>
              Head(notification_queue_) \in Note /\ Tail(notification_queue_) \in Seq(Note)
      OBVIOUS
    <3> QED BY <2>2, <3>1 DEF TestQueue, PopNotification
  <2>3. CASE WriteNotification
    <3>1. notification_to_send \in Note
      BY <2>3 DEF WriteNotification, QueueInv
    <3>2. Append(sent, notification_to_send) \in Seq(Note)
      BY <3>1
    <3> QED BY <2>3, <3>2 DEF WriteNotification
  <2> QED BY <2>1, <2>2, <2>3 DEF WriterStep
<1> QED BY <1>3, <1>5

LEMMA OtherTyped ==
    ASSUME TypeOK, Notifier \/ Outside \/ \E c \in {"main", "handler"} : StopStep(c)
    PROVE  TypeOK'
<1> USE DEF TypeOK
<1>1. CASE Notifier
  <2>0. UNCHANGED <<process, flags, reading, tasks, stopping>>
    BY <1>1, NotifierFrame
  <2>1. FlagTypes' /\ ReadingTypes' /\ StopTypes'
    BY <2>0 DEF FlagTypes, ReadingTypes, StopTypes, flags, reading, stopping
  <2>4. TaskTypes'
    BY <2>0 DEF TaskTypes, tasks
  <2>2. notes' \in 0..MaxNotes /\ notifier' \in {"idle", "checked", "pushed"}
    BY <1>1 DEF Notifier, NotifierChecks, NotifierPushes, NotifierWakes, QueueTypes, sender
  <2>3. notification_queue_' \in Seq(Note)
    <3>1. \/ notification_queue_' = notification_queue_
          \/ notes' \in Note /\ notification_queue_' = Append(notification_queue_, notes')
      BY <1>1 DEF Notifier, NotifierChecks, NotifierPushes, NotifierWakes, QueueTypes, queue,
                  Enqueue
    <3> QED BY <3>1, EnqueueType DEF QueueTypes
  <2> QED BY <1>1, <2>1, <2>4, <2>2, <2>3, NotifierFrame DEF QueueTypes
<1>2. CASE Outside
  <2>1. FlagTypes'
    BY <1>2 DEF FlagTypes, Outside, TransportCloses, RequestStop, Interrupt, Exit, Cancel, flags
  <2>2. cancelled' \subseteq Id /\ handler' \in {"none", "running", "over"}
    BY <1>2 DEF Outside, TransportCloses, RequestStop, Interrupt, Exit, Cancel, tasks, stopping,
                TaskTypes, StopTypes
  <2>3. UNCHANGED <<reading, stage, parserErrors_, active_exchange_id_, routed, output_mutex_,
                    queue, sender, stopper>>
    BY <1>2, OutsideFrame
  <2>4. ReadingTypes' /\ TaskTypes'
    BY <2>2, <2>3 DEF ReadingTypes, TaskTypes, reading
  <2>5. QueueTypes' /\ StopTypes'
    BY <2>2, <2>3 DEF QueueTypes, StopTypes, queue, sender
  <2> QED BY <2>1, <2>4, <2>5
<1>3. ASSUME NEW c \in {"main", "handler"}, StopStep(c) PROVE TypeOK'
  <2>1. FlagTypes'
    BY <1>3 DEF FlagTypes, StopStep, Enter, StopTransport, ResetTransport, StopWriter,
                NotifyWriter, JoinWriter, flags
  <2>2. stopper' \in [{"main", "handler"} -> StopSteps]
    BY <1>3 DEF StopTypes, StopStep, Enter, StopTransport, ResetTransport, StopWriter,
                NotifyWriter, JoinWriter, Goto, StopSteps
  <2>3. /\ UNCHANGED <<process, reading, tasks, output_mutex_, notification_queue_,
                      notification_to_send, sent, sender, handler>>
        /\ writer' = writer \/ writer' = "lock"
    BY <1>3, StopFrame
  <2>4. ReadingTypes' /\ TaskTypes'
    BY <2>3 DEF ReadingTypes, TaskTypes, reading, tasks
  <2>5. QueueTypes' /\ StopTypes'
    BY <2>2, <2>3 DEF QueueTypes, StopTypes, sender
  <2> QED BY <2>1, <2>4, <2>5
<1> QED BY <1>1, <1>2, <1>3

-----------------------------------------------------------------------------
(* The parts of the invariant *)

\* Tasks: where the messages are that are in process.
LEMMA MainTask ==
    ASSUME TypeOK, TaskInv, MainThread PROVE TaskInv'
<1> USE DEF TypeOK, ReadingTypes, TaskTypes
<1>0. IsFiniteSet(in_flight) /\ Cardinality(in_flight) \in Nat /\ reads \in Nat
  BY CountBound
<1>1. CASE Start \/ CheckStopping \/ ReadNothing \/ Processed \/ Drain \/ Return
  <2>1. UNCHANGED <<stage, in_flight, reads>>
    BY <1>1 DEF Start, CheckStopping, ReadNothing, Processed, Drain, Return, tasks
  <2>2. /\ main' \notin {"connect", "submit", "head", "process"}
        /\ main = "process" => stage[reads] = "done"
        /\ main' \in {"stop", "returned"} =>
               main \in {"connect", "stop"} \/ \A m \in in_flight : stage[m] = "done"
    BY <1>1 DEF Start, CheckStopping, ReadNothing, Processed, Drain, Return, AllReady, Ready
  <2>3. ASSUME NEW m \in Id, stage[m] \in Processing PROVE Concurrency # 1 /\ m \in in_flight
    BY <2>2, <2>3, <1>1 DEF TaskInv, Start, CheckStopping, ReadNothing, Processed, Drain, Return
  <2>4. \A m \in Id : /\ stage'[m] # "unread" => m <= reads'
                      /\ stage'[m] \in Processing => Concurrency # 1 /\ m \in in_flight'
                      /\ m \in in_flight' => m <= reads'
    BY <2>1, <2>3 DEF TaskInv
  <2>5. main' \in {"connect", "stop", "returned"} => \A m \in Id : stage'[m] \notin Processing
    BY <2>1, <2>2, <2>3 DEF TaskInv
  <2>6. (Concurrency = 1 => in_flight' = {}) /\ Cardinality(in_flight') <= Concurrency
    BY <2>1 DEF TaskInv
  <2> QED BY <2>1, <2>2, <2>4, <2>5, <2>6 DEF TaskInv
<1>2. CASE ReadMessage
  <2>1. /\ reads' = reads + 1 /\ reads' \in Id /\ stage[reads'] = "unread" /\ main = "read"
        /\ in_flight' = in_flight
    <3>1. reads' = reads + 1 /\ reads' \in Id /\ main = "read" /\ in_flight' = in_flight
      BY <1>2 DEF ReadMessage
    <3> QED BY <3>1 DEF TaskInv
  <2>2. \/ main' = "drain" /\ stage' = stage
        \/ Concurrency = 1 /\ main' = "process" /\ stage' = [stage EXCEPT ![reads'] = "queued"]
        \/ Concurrency # 1 /\ main' = "submit" /\ stage' = stage
    BY <1>2 DEF ReadMessage
  <2>3. ASSUME NEW m \in Id, stage[m] \in Processing PROVE Concurrency # 1 /\ m \in in_flight
    BY <2>1, <2>3 DEF TaskInv
  <2> QED BY <1>0, <2>1, <2>2, <2>3 DEF TaskInv
<1>3. CASE Submit
  <2>1. /\ reads \in Id /\ stage[reads] = "unread" /\ Concurrency # 1 /\ reads' = reads
    BY <1>3 DEF Submit, TaskInv
  <2>2. PICK busy \in SUBSET in_flight :
            /\ \A m \in Id : stage[m] \in Processing => m \in busy
            /\ \/ main' = "head" /\ in_flight' = busy /\ stage' = stage
               \/ ~Full(busy) /\ main' = "loop" /\ in_flight' = busy \cup {reads}
                      /\ stage' = [stage EXCEPT ![reads] = "queued"]
    <3> DEFINE B == {m \in in_flight : ~Ready(m)}
    <3>1. \A m \in Id : stage[m] \in Processing => m \in B
      BY <2>1 DEF TaskInv, Ready
    <3>2. \/ main' = "head" /\ in_flight' = B /\ stage' = stage
          \/ ~Full(B) /\ main' = "loop" /\ in_flight' = B \cup {reads}
                 /\ stage' = [stage EXCEPT ![reads] = "queued"]
      BY <1>3 DEF Submit, Launch
    <3> HIDE DEF B
    <3>3. B \subseteq in_flight
      BY DEF B
    <3> QED BY <3>1, <3>2, <3>3
  <2>3. busy \in SUBSET Id /\ busy \cup {reads} \in SUBSET Id
    BY <2>1, <2>2
  <2>4. /\ Cardinality(busy) \in Nat /\ Cardinality(busy) <= Cardinality(in_flight)
        /\ Cardinality(busy \cup {reads}) \in Nat
        /\ Cardinality(busy \cup {reads}) <= Cardinality(busy) + 1
    <3>1. Cardinality(busy) \in Nat /\ Cardinality(busy \cup {reads}) \in Nat
      BY <2>3, CountBound
    <3>2. Cardinality(busy) <= Cardinality(in_flight)
      BY <1>0, <2>2, FS_Subset
    <3> QED BY <2>1, <2>3, <3>1, <3>2, OneMore
  <2>5. Cardinality(in_flight') <= Concurrency
    <3>1. CASE in_flight' = busy
      BY <1>0, <2>4, <3>1 DEF TaskInv
    <3>2. CASE ~Full(busy) /\ in_flight' = busy \cup {reads}
      <4>1. ~(Cardinality(busy) >= Concurrency)
        BY <3>2 DEF Full
      <4> QED BY <2>4, <3>2, <4>1
    <3> QED BY <2>2, <3>1, <3>2
  <2>6. \A m \in Id : \/ stage'[m] = stage[m] /\ (m \in busy => m \in in_flight')
                      \/ m = reads /\ stage'[m] = "queued" /\ m \in in_flight'
    <3>1. CASE stage' = stage /\ in_flight' = busy
      BY <3>1
    <3>2. CASE in_flight' = busy \cup {reads} /\ stage' = [stage EXCEPT ![reads] = "queued"]
      BY <2>1, <3>2
    <3> QED BY <2>2, <3>1, <3>2
  <2>7. \A m \in in_flight' : m <= reads
    <3>1. in_flight' \subseteq in_flight \cup {reads}
      BY <2>2
    <3> QED BY <1>0, <3>1 DEF TaskInv
  <2>8. /\ main' \in {"head", "loop"}
        /\ main' = "head" => stage'[reads] = "unread"
    BY <2>1, <2>2
  <2>9. \A m \in Id : /\ stage'[m] # "unread" => m <= reads
                      /\ stage'[m] \in Processing => m \in in_flight'
    BY <1>0, <2>2, <2>6 DEF TaskInv
  <2> QED BY <2>1, <2>5, <2>7, <2>8, <2>9 DEF TaskInv
<1>4. CASE WaitForFront
  <2>1. /\ reads \in Id /\ stage[reads] = "unread" /\ Concurrency # 1 /\ reads' = reads
    BY <1>4 DEF WaitForFront, TaskInv
  <2>2. PICK front \in in_flight : /\ stage[front] = "done"
                                   /\ in_flight' = (in_flight \ {front}) \cup {reads}
                                   /\ stage' = [stage EXCEPT ![reads] = "queued"]
                                   /\ main' = "loop"
    BY <1>4 DEF WaitForFront, Launch, Ready
  <2>3. in_flight \in SUBSET Id /\ in_flight \ {front} \in SUBSET Id
        /\ (in_flight \ {front}) \cup {reads} \in SUBSET Id
    BY <2>1, <2>2
  <2>6. /\ Cardinality(in_flight \ {front}) + 1 = Cardinality(in_flight)
        /\ Cardinality(in_flight \ {front}) \in Nat
        /\ Cardinality((in_flight \ {front}) \cup {reads}) \in Nat
        /\ Cardinality((in_flight \ {front}) \cup {reads}) <= Cardinality(in_flight \ {front}) + 1
    <3>1. Cardinality(in_flight \ {front}) + 1 = Cardinality(in_flight)
      BY <2>2, <2>3, OneLess
    <3>2. /\ Cardinality(in_flight \ {front}) \in Nat
          /\ Cardinality((in_flight \ {front}) \cup {reads}) \in Nat
      BY <2>3, CountBound
    <3>3. Cardinality((in_flight \ {front}) \cup {reads}) <= Cardinality(in_flight \ {front}) + 1
      BY <2>1, <2>3, OneMore
    <3> QED BY <3>1, <3>2, <3>3
  <2>4. Cardinality(in_flight') <= Concurrency
    BY <1>0, <2>2, <2>6 DEF TaskInv
  <2>5. \A m \in Id : \/ stage'[m] = stage[m] /\ (m \in in_flight /\ m # front => m \in in_flight')
                      \/ m = reads /\ stage'[m] = "queued" /\ m \in in_flight'
    BY <2>1, <2>2
  <2> QED BY <1>0, <2>1, <2>2, <2>4, <2>5 DEF TaskInv
<1> QED BY <1>1, <1>2, <1>3, <1>4 DEF MainThread, MainStep

LEMMA TaskTask ==
    ASSUME TypeOK, TaskInv, NEW m \in Id, Task(m) PROVE TaskInv'
<1>1. /\ UNCHANGED <<main, in_flight, reads>> /\ stage[m] \in Processing
      /\ \A n \in Id : stage'[n] = stage[n] \/ n = m
  BY TaskFrame DEF TypeOK, TaskTypes
<1> QED BY <1>1 DEF TaskInv

LEMMA OtherTask ==
    ASSUME TaskInv, UNCHANGED <<main, in_flight, reads, stage>> PROVE TaskInv'
BY DEF TaskInv

\* The exchange of a thread.
LEMMA SlotKept ==
    ASSUME TypeOK, SlotInv, ScopedToExchange, UNCHANGED <<active_exchange_id_, routed>>,
           \A n \in Id : stage[n] \in {"handling", "reply", "writing"} => stage'[n] = stage[n]
    PROVE  SlotInv' /\ ScopedToExchange'
<1>1. \A t \in Thread : active_exchange_id_[t] # None => active_exchange_id_[t] \in Id
  BY DEF TypeOK, TaskTypes
<1> QED BY <1>1 DEF SlotInv, ScopedToExchange

LEMMA TaskSlot ==
    ASSUME TypeOK, TaskInv, SlotInv, ScopedToExchange, NEW m \in Id, Task(m)
    PROVE  SlotInv' /\ ScopedToExchange'
<1> DEFINE t == ThreadOf(m)
<1>0. /\ t \in Thread /\ stage[m] \in Processing /\ stage' = [stage EXCEPT ![m] = stage'[m]]
      /\ \A n \in Id : n # m => stage'[n] = stage[n]
  BY TaskFrame DEF ThreadOf, TypeOK, TaskTypes
\* No other message in process is on the same thread.
<1>1. \A n \in Id : stage[n] \in Processing /\ ThreadOf(n) = t => n = m
  BY <1>0 DEF TaskInv, ThreadOf
<1>2. active_exchange_id_[t] \in {None, m}
  BY <1>0, <1>1 DEF SlotInv, TypeOK, TaskTypes
<1>3. \A u \in Thread : active_exchange_id_[u] = m => u = t
  BY DEF SlotInv
<1>4. CASE HandlerNotifies(m)
  <2>1. stage' = stage /\ active_exchange_id_' = active_exchange_id_
        /\ routed' \subseteq routed \cup {<<m, m>>}
    BY <1>2, <1>4 DEF HandlerNotifies
  <2> QED BY <2>1 DEF SlotInv, ScopedToExchange
<1>5. ASSUME stage'[m] = "done", UNCHANGED routed,
             CloseScope(m) \/ (stage[m] = "queued" /\ active_exchange_id_' = active_exchange_id_)
      PROVE  SlotInv' /\ ScopedToExchange'
  <2>1. \A u \in Thread : active_exchange_id_'[u] # None =>
            active_exchange_id_'[u] = active_exchange_id_[u] /\ active_exchange_id_[u] # m
    BY <1>0, <1>3, <1>5 DEF CloseScope, TypeOK, TaskTypes, SlotInv
  <2>2. \A u \in Thread : active_exchange_id_[u] # None => active_exchange_id_[u] \in Id
    BY DEF TypeOK, TaskTypes
  <2> QED BY <1>0, <1>5, <2>1, <2>2 DEF SlotInv, ScopedToExchange
<1>6. CASE Begin(m)
  <2>1. CASE stage'[m] = "done"
    BY <1>5, <1>6, <2>1 DEF Begin, TypeOK, TaskTypes
  <2>2. CASE stage'[m] # "done"
    <3>1. stage'[m] = "handling" /\ OpenScope(m) /\ routed' = routed
      BY <1>6, <2>2 DEF Begin, Over, TypeOK, TaskTypes
    <3>2. \A u \in Thread : \/ active_exchange_id_'[u] = active_exchange_id_[u]
                            \/ u = t /\ active_exchange_id_'[u] = m
      BY <3>1 DEF OpenScope, Slot
    <3>3. \A u \in Thread : active_exchange_id_[u] # None => active_exchange_id_[u] \in Id
      BY DEF TypeOK, TaskTypes
    <3>4. \A u \in Thread : active_exchange_id_'[u] # None =>
              /\ ThreadOf(active_exchange_id_'[u]) = u
              /\ stage'[active_exchange_id_'[u]] \in {"handling", "reply", "writing"}
      BY <1>0, <3>1, <3>2, <3>3 DEF SlotInv
    <3> QED BY <3>1, <3>4 DEF SlotInv, ScopedToExchange
  <2> QED BY <2>1, <2>2
<1>7. CASE HandlerReturns(m)
  <2>1. CASE stage'[m] = "reply"
    <3>1. stage[m] = "handling" /\ UNCHANGED <<active_exchange_id_, routed>>
      BY <1>7, <2>1 DEF HandlerReturns, Over, TypeOK, TaskTypes
    <3>2. \A u \in Thread : active_exchange_id_[u] # None => active_exchange_id_[u] \in Id
      BY DEF TypeOK, TaskTypes
    <3> QED BY <1>0, <2>1, <3>1, <3>2 DEF SlotInv, ScopedToExchange
  <2>2. CASE stage'[m] # "reply"
    BY <1>5, <1>7, <2>2 DEF HandlerReturns, Over, TypeOK, TaskTypes
  <2> QED BY <2>1, <2>2
<1>8. CASE LockForReply(m)
  <2>1. stage[m] = "reply" /\ stage'[m] = "writing" /\ UNCHANGED <<active_exchange_id_, routed>>
    BY <1>8 DEF LockForReply, TypeOK, TaskTypes
  <2>2. \A u \in Thread : active_exchange_id_[u] # None => active_exchange_id_[u] \in Id
    BY DEF TypeOK, TaskTypes
  <2> QED BY <1>0, <2>1, <2>2 DEF SlotInv, ScopedToExchange
<1>9. CASE Reply(m)
  BY <1>5, <1>9 DEF Reply, Over, TypeOK, TaskTypes
<1> QED BY <1>4, <1>6, <1>7, <1>8, <1>9 DEF Task, TaskStep

\* The main thread queues a message it has just read.
LEMMA MainStage ==
    ASSUME TypeOK, TaskInv, MainThread
    PROVE  \A n \in Id : \/ stage'[n] = stage[n]
                         \/ stage[n] = "unread" /\ stage'[n] = "queued"
<1> USE DEF TypeOK, ReadingTypes, TaskTypes
<1>1. CASE Start \/ CheckStopping \/ ReadNothing \/ Processed \/ Drain \/ Return
  BY <1>1 DEF Start, CheckStopping, ReadNothing, Processed, Drain, Return, tasks
<1>2. CASE Submit \/ WaitForFront
  BY <1>2 DEF Submit, WaitForFront, Launch, TaskInv
<1>3. CASE ReadMessage
  <2>1. reads' \in Id /\ stage[reads'] = "unread"
    BY <1>3 DEF ReadMessage, TaskInv
  <2> QED BY <1>3, <2>1 DEF ReadMessage
<1> QED BY <1>1, <1>2, <1>3 DEF MainThread, MainStep

\* Who is not over stays that, so the errors stay covered.
LEMMA MainError ==
    ASSUME TypeOK, TaskInv, ErrorInv, MainThread PROVE ErrorInv'
<1>1. parserErrors_' = parserErrors_ /\ DoneSet' = DoneSet
  BY MainFrame, MainStage DEF DoneSet
<1> QED BY <1>1 DEF ErrorInv, DoneSet

\* The transport goes when Connect has come to its end.
LEMMA TransportKept ==
    ASSUME TransportInv, [Next]_vars, TypeOK PROVE TransportInv'
<1>1. CASE MainThread
  BY <1>1, MainFrame DEF TransportInv, MainThread, MainStep, Start, CheckStopping, ReadNothing,
                         Processed, Submit, WaitForFront, Drain, Return, ReadMessage, flags
<1>2. ASSUME NEW m \in Id, Task(m) PROVE TransportInv'
  BY <1>2, TaskFrame DEF TransportInv
<1>3. CASE WriterStep \/ Notifier
  BY <1>3, WriterFrame, NotifierFrame DEF TransportInv, flags, reading, stopping
<1>4. ASSUME NEW c \in {"main", "handler"}, StopStep(c) PROVE TransportInv'
  <2>1. main' = main /\ handler' = handler
    BY <1>4, StopFrame DEF reading
  <2>2. CASE ResetTransport(c)
    BY <2>1, <2>2 DEF ResetTransport, At, Calls, TransportInv
  <2>3. CASE ~ResetTransport(c)
    BY <1>4, <2>1, <2>3 DEF TransportInv, StopStep, Enter, StopTransport, StopWriter,
                            NotifyWriter, JoinWriter, flags
  <2> QED BY <2>2, <2>3
<1>5. CASE Outside
  BY <1>5, OutsideFrame DEF TransportInv, reading
<1>6. CASE UNCHANGED vars
  BY <1>6 DEF TransportInv, vars
<1> QED BY <1>1, <1>2, <1>3, <1>4, <1>5, <1>6 DEF Next, MainThread, Task, Notifier, Outside

\* The mutex has one owner.
LEMMA LockKept ==
    ASSUME TypeOK, TaskInv, LockInv, [Next]_vars PROVE LockInv'
<1> USE DEF LockInv
<1>1. CASE MainThread
  BY <1>1, MainFrame, MainStage
<1>2. ASSUME NEW m \in Id, Task(m) PROVE LockInv'
  <2>0. /\ writer' = writer \/ writer' = "lock"
        /\ \A n \in Id : n # m => stage'[n] = stage[n]
    BY <1>2, TaskFrame DEF TypeOK, TaskTypes
  <2>1. CASE Begin(m) \/ HandlerReturns(m) \/ HandlerNotifies(m)
    <3>1. stage'[m] # "writing" /\ output_mutex_' = output_mutex_
      BY <2>1 DEF Begin, HandlerReturns, HandlerNotifies, Over, TypeOK, TaskTypes
    <3> QED BY <2>0, <3>1
  <2>2. CASE LockForReply(m)
    <3>1. output_mutex_ = Free /\ output_mutex_' = m /\ writer' = writer
      BY <2>2 DEF LockForReply, queue
    <3> QED BY <2>0, <3>1
  <2>3. CASE Reply(m)
    <3>1. stage[m] = "writing" /\ stage'[m] = "done" /\ writer' = writer
      BY <2>3 DEF Reply, Over, queue, TypeOK, TaskTypes
    <3> QED BY <2>0, <3>1
  <2> QED BY <1>2, <2>1, <2>2, <2>3 DEF Task, TaskStep
<1>3. CASE WriterStep
  <2>1. stage' = stage
    BY <1>3, WriterFrame DEF tasks
  <2> QED BY <1>3, <2>1 DEF WriterStep, WriterLoops, TestQueue, FallAsleep, LockForWrite,
                            CheckTransport, WriteNotification, PopNotification
<1>4. CASE Notifier
  BY <1>4, NotifierFrame DEF tasks
<1>5. ASSUME NEW c \in {"main", "handler"}, StopStep(c) PROVE LockInv'
  BY <1>5, StopFrame DEF tasks
<1>6. CASE Outside
  BY <1>6, OutsideFrame DEF queue
<1>7. CASE UNCHANGED vars
  BY <1>7 DEF vars
<1> QED BY <1>1, <1>2, <1>3, <1>4, <1>5, <1>6, <1>7 DEF Next, MainThread, Task, Notifier, Outside

\* Whoever comes second finds isCleaned_ set.
LEMMA StopKept ==
    ASSUME TypeOK, StopInv, [Next]_vars PROVE StopInv'
<1>0. ASSUME stopper' = stopper, isCleaned_' = isCleaned_ PROVE StopInv'
  BY <1>0 DEF StopInv, StoppedOnce, Stopping
<1>1. CASE MainThread
  BY <1>0, <1>1, MainFrame
<1>2. ASSUME NEW m \in Id, Task(m) PROVE StopInv'
  BY <1>0, <1>2, TaskFrame
<1>3. CASE WriterStep
  BY <1>0, <1>3, WriterFrame DEF flags, stopping
<1>4. CASE Notifier
  BY <1>0, <1>4, NotifierFrame DEF flags, stopping
<1>5. CASE Outside
  BY <1>0, <1>5, OutsideFrame
<1>6. ASSUME NEW c \in {"main", "handler"}, StopStep(c) PROVE StopInv'
  <2>1. \A d \in {"main", "handler"} : d # c => stopper'[d] = stopper[d]
    BY <1>6 DEF StopStep, Enter, StopTransport, ResetTransport, StopWriter, NotifyWriter,
                JoinWriter, Goto, TypeOK, StopTypes
  <2>2. CASE Enter(c)
    <3>1. \/ stopper'[c] = "left" /\ isCleaned_' = isCleaned_
          \/ ~isCleaned_ /\ isCleaned_'
      BY <2>2 DEF Enter, AlreadyCleaned, Goto, TypeOK, StopTypes
    <3> QED BY <2>1, <3>1 DEF StopInv, StoppedOnce, Stopping
  <2>3. CASE ~Enter(c)
    <3>1. Stopping(c) /\ isCleaned_' = isCleaned_
      BY <1>6, <2>3 DEF StopStep, StopTransport, ResetTransport, StopWriter, NotifyWriter,
                        JoinWriter, At, Stopping, flags
    <3> QED BY <2>1, <3>1 DEF StopInv, StoppedOnce, Stopping
  <2> QED BY <2>2, <2>3
<1>7. CASE UNCHANGED vars
  BY <1>0, <1>7 DEF vars
<1> QED BY <1>1, <1>2, <1>3, <1>4, <1>5, <1>6, <1>7 DEF Next, MainThread, Task, Notifier, Outside

\* A notification that is queued is the youngest there is.
LEMMA QueueMore ==
    ASSUME TypeOK, QueueInv, sent' = sent, notification_to_send' = notification_to_send,
           writer' \in {"send", "holding", "writing"} => writer \in {"send", "holding", "writing"},
           \/ notes' = notes /\ notification_queue_' = notification_queue_
           \/ notes' = notes + 1 /\ notification_queue_' = notification_queue_
           \/ notes' = notes + 1 /\ notification_queue_' = Append(notification_queue_, notes')
    PROVE  QueueInv'
<1> USE DEF TypeOK, QueueTypes
<1>0. /\ notes \in Nat
      /\ \A i \in DOMAIN sent : sent[i] \in Nat
      /\ \A i \in DOMAIN notification_queue_ : notification_queue_[i] \in Nat
  OBVIOUS
<1>1. CASE notification_queue_' = notification_queue_
  BY <1>0, <1>1 DEF QueueInv, NotificationsInOrder
<1>2. CASE notes' = notes + 1 /\ notification_queue_' = Append(notification_queue_, notes')
  <2> DEFINE q == Append(notification_queue_, notes')
             n == Len(notification_queue_) + 1
  <2>1. /\ DOMAIN q = 1..n /\ DOMAIN notification_queue_ = 1..(n - 1) /\ n \in Nat
        /\ q[n] = notes + 1
        /\ \A j \in 1..(n - 1) : q[j] = notification_queue_[j]
    BY <1>2
  <2>2. \A i, j \in DOMAIN q : i < j => q[i] < q[j]
    BY <1>0, <2>1 DEF QueueInv
  <2>3. \A i \in DOMAIN q : q[i] <= notes + 1
    BY <1>0, <2>1 DEF QueueInv
  <2>4. \A i \in DOMAIN sent, j \in DOMAIN q : sent[i] < q[j]
    BY <1>0, <2>1 DEF QueueInv
  <2>5. writer \in {"send", "holding", "writing"} =>
            \A j \in DOMAIN q : notification_to_send < q[j]
    BY <1>0, <2>1 DEF QueueInv
  <2> HIDE DEF q
  <2>6. notification_queue_' = q
    BY <1>2 DEF q
  <2>7. notes' = notes + 1
    BY <1>2
  <2>8. NotificationsInOrder' /\ \A i \in DOMAIN sent' : sent'[i] <= notes'
    BY <1>0, <2>7 DEF QueueInv, NotificationsInOrder
  <2>9. /\ \A i, j \in DOMAIN notification_queue_' :
               i < j => notification_queue_'[i] < notification_queue_'[j]
        /\ \A i \in DOMAIN notification_queue_' : notification_queue_'[i] <= notes'
        /\ \A i \in DOMAIN sent', j \in DOMAIN notification_queue_' :
               sent'[i] < notification_queue_'[j]
    BY <2>2, <2>3, <2>4, <2>6, <2>7
  <2>10. writer' \in {"send", "holding", "writing"} =>
            /\ notification_to_send' \in Note /\ notification_to_send' <= notes'
            /\ \A i \in DOMAIN sent' : sent'[i] < notification_to_send'
            /\ \A j \in DOMAIN notification_queue_' : notification_to_send' < notification_queue_'[j]
    BY <1>0, <2>5, <2>6, <2>7 DEF QueueInv
  <2> QED BY <2>8, <2>9, <2>10 DEF QueueInv
<1> QED BY <1>1, <1>2

LEMMA QueueKept ==
    ASSUME TypeOK, QueueInv, [Next]_vars PROVE QueueInv'
<1>1. CASE MainThread
  BY <1>1, MainFrame, QueueMore
<1>2. ASSUME NEW m \in Id, Task(m) PROVE QueueInv'
  <2>1. \/ notes' = notes /\ notification_queue_' = notification_queue_
        \/ notes' = notes + 1 /\ notification_queue_' = notification_queue_
        \/ notes' = notes + 1 /\ notification_queue_' = Append(notification_queue_, notes')
    BY <1>2 DEF Task, TaskStep, Begin, HandlerReturns, LockForReply, Reply, HandlerNotifies,
                Enqueue, queue, sender
  <2> QED BY <1>2, <2>1, TaskFrame, QueueMore
<1>3. CASE Notifier
  <2>1. \/ notes' = notes /\ notification_queue_' = notification_queue_
        \/ notes' = notes + 1 /\ notification_queue_' = Append(notification_queue_, notes')
    BY <1>3 DEF Notifier, NotifierChecks, NotifierPushes, NotifierWakes, Enqueue, queue
  <2> QED BY <1>3, <2>1, NotifierFrame, QueueMore
<1>4. CASE Outside
  BY <1>4, OutsideFrame, QueueMore DEF queue, sender
<1>5. ASSUME NEW c \in {"main", "handler"}, StopStep(c) PROVE QueueInv'
  BY <1>5, StopFrame, QueueMore DEF sender
<1>6. CASE UNCHANGED vars
  BY <1>6, QueueMore DEF vars
<1>7. CASE WriterStep
  <2>0. notes' = notes
    BY <1>7, WriterFrame DEF sender
  <2>1. CASE WriterLoops \/ FallAsleep \/ LockForWrite \/ CheckTransport
    BY <2>0, <2>1, QueueMore DEF WriterLoops, FallAsleep, LockForWrite, CheckTransport
  <2>2. CASE TestQueue /\ writer' # "send"
    BY <2>0, <2>2, QueueMore DEF TestQueue
  <2>3. CASE TestQueue /\ writer' = "send"
    <3> DEFINE q == Tail(notification_queue_)
               h == Head(notification_queue_)
    <3>1. /\ notification_queue_ # <<>> /\ notification_queue_' = q
          /\ notification_to_send' = h /\ sent' = sent
      BY <2>3 DEF TestQueue, PopNotification
    <3>2. /\ notification_queue_ \in Seq(Note) /\ sent \in Seq(Note)
      BY DEF TypeOK, QueueTypes
    <3>3. /\ h = notification_queue_[1] /\ 1 \in DOMAIN notification_queue_ /\ h \in Note
          /\ \A j \in DOMAIN q : /\ j \in Nat /\ j + 1 \in DOMAIN notification_queue_
                                 /\ q[j] = notification_queue_[j + 1] /\ 1 < j + 1
      BY <3>1, <3>2
    <3> HIDE DEF q, h
    <3>4. /\ \A i, j \in DOMAIN q : i < j => q[i] < q[j]
          /\ \A i \in DOMAIN q : q[i] <= notes
          /\ \A i \in DOMAIN sent, j \in DOMAIN q : sent[i] < q[j]
      BY <3>3 DEF QueueInv
    <3>5. /\ h <= notes /\ \A i \in DOMAIN sent : sent[i] < h
          /\ \A j \in DOMAIN q : h < q[j]
      BY <3>3 DEF QueueInv
    <3> QED BY <2>0, <3>1, <3>3, <3>4, <3>5 DEF QueueInv, NotificationsInOrder
  <2>4. CASE WriteNotification
    <3>1. CASE ~transport_
      BY <2>0, <2>4, <3>1 DEF WriteNotification, QueueInv, NotificationsInOrder
    <3>2. CASE transport_
      <4> DEFINE s == Append(sent, notification_to_send)
                 n == Len(sent) + 1
      <4>1. /\ notification_queue_' = notification_queue_ /\ writer = "writing"
            /\ writer' = "loop" /\ sent' = s
        BY <2>4, <3>2 DEF WriteNotification
      <4>2. /\ notification_queue_ \in Seq(Note) /\ sent \in Seq(Note)
        BY DEF TypeOK, QueueTypes
      <4>3. /\ DOMAIN s = 1..n /\ DOMAIN sent = 1..(n - 1) /\ n \in Nat
            /\ s[n] = notification_to_send /\ \A j \in 1..(n - 1) : s[j] = sent[j]
        BY <4>2
      <4> HIDE DEF s, n
      <4>4. \A i, j \in DOMAIN s : i < j => s[i] < s[j]
        BY <4>1, <4>3 DEF QueueInv, NotificationsInOrder
      <4>5. \A i \in DOMAIN s : s[i] <= notes
        BY <4>1, <4>3 DEF QueueInv
      <4>6. \A i \in DOMAIN s, j \in DOMAIN notification_queue_ : s[i] < notification_queue_[j]
        BY <4>1, <4>3 DEF QueueInv
      <4> QED BY <2>0, <4>1, <4>4, <4>5, <4>6 DEF QueueInv, NotificationsInOrder
    <3> QED BY <3>1, <3>2
  <2> QED BY <1>7, <2>1, <2>2, <2>3, <2>4 DEF WriterStep
<1> QED BY <1>1, <1>2, <1>3, <1>4, <1>5, <1>6, <1>7 DEF Next, MainThread, Task, Notifier, Outside

-----------------------------------------------------------------------------
(* The theorems *)

LEMMA InitSafe == Init => IInv
<1> SUFFICES ASSUME Init PROVE IInv
  OBVIOUS
<1>1. TaskInv
  <2>1. Cardinality(in_flight) = 0
    BY FS_EmptySet DEF Init
  <2> QED BY <2>1 DEF Init, TaskInv
<1>2. ErrorInv
  BY InitTyped, CountBound DEF Init, ErrorInv
<1>3. TransportInv /\ SlotInv /\ ScopedToExchange
  BY DEF Init, TransportInv, SlotInv, ScopedToExchange
<1>4. LockInv /\ StopInv
  BY DEF Init, LockInv, StopInv, StoppedOnce, Stopping
<1>5. QueueInv
  BY DEF Init, QueueInv, NotificationsInOrder
<1> QED BY <1>1, <1>2, <1>3, <1>4, <1>5 DEF IInv

LEMMA Inductive == TypeOK /\ IInv /\ [Next]_vars => (TypeOK /\ IInv)'
<1> SUFFICES ASSUME TypeOK, IInv, [Next]_vars PROVE TypeOK' /\ IInv'
  OBVIOUS
<1> USE DEF IInv
<1>1. TransportInv' /\ LockInv' /\ StopInv' /\ QueueInv'
  BY TransportKept, LockKept, StopKept, QueueKept
<1>2. ASSUME TypeOK', UNCHANGED <<main, in_flight, reads, stage, parserErrors_,
                                  active_exchange_id_, routed>>
      PROVE  TypeOK' /\ IInv'
  BY <1>1, <1>2, OtherTask, SlotKept DEF ErrorInv
<1>3. CASE MainThread
  <2>1. TypeOK' /\ TaskInv' /\ ErrorInv'
    BY <1>3, MainTyped, MainTask, MainError
  <2>2. SlotInv' /\ ScopedToExchange'
    BY <1>3, MainFrame, MainStage, SlotKept
  <2> QED BY <1>1, <2>1, <2>2
<1>4. ASSUME NEW m \in Id, Task(m) PROVE TypeOK' /\ IInv'
  BY <1>1, <1>4, TaskTyped, TaskTask, TaskErrors, TaskSlot
<1>5. CASE WriterStep
  <2>1. TypeOK'
    BY <1>5, WriterTyped
  <2> QED BY <1>2, <1>5, <2>1, WriterFrame DEF reading, tasks
<1>6. CASE Notifier \/ Outside \/ \E c \in {"main", "handler"} : StopStep(c)
  <2>1. TypeOK'
    BY <1>6, OtherTyped
  <2>2. UNCHANGED <<main, in_flight, reads, stage, parserErrors_, active_exchange_id_, routed>>
    BY <1>6, NotifierFrame, OutsideFrame, StopFrame DEF reading, tasks
  <2> QED BY <1>2, <2>1, <2>2
<1>7. CASE UNCHANGED vars
  <2>1. TypeOK'
    BY <1>7 DEF vars, TypeOK, FlagTypes, ReadingTypes, TaskTypes, QueueTypes, StopTypes
  <2> QED BY <1>2, <1>7, <2>1 DEF vars
<1> QED BY <1>3, <1>4, <1>5, <1>6, <1>7 DEF Next, MainThread, Task, Notifier, Outside

\* Every variable keeps its type, and what the proofs rest on always holds.
THEOREM Invariant == Spec => [](TypeOK /\ IInv)
<1>1. Init => TypeOK /\ IInv
  BY InitTyped, InitSafe
<1> QED BY <1>1, Inductive, PTL DEF Spec

\* The variables of the server keep their types: the count of parse errors never
\* exceeds the messages read, though two threads may add to it.
THEOREM TypeCorrect == Spec => []TypeOK
BY Invariant, PTL

\* Without a signal every task is over before the transport goes (Connect:146-147).
THEOREM TransportLast == Spec => []TransportOutlivesTasks
<1>1. IInv => TransportOutlivesTasks
  BY DEF IInv, TaskInv, TransportInv, TransportOutlivesTasks
<1> QED BY <1>1, Invariant, PTL

\* A notification of a handler goes to the exchange of its own message, with any
\* concurrency (SendNotification:277-283, ExchangeScope).
THEOREM OwnExchange == Spec => []ScopedToExchange
<1>1. IInv => ScopedToExchange
  BY DEF IInv
<1> QED BY <1>1, Invariant, PTL

\* Queued notifications are written in order, each once (WriterLoop:66-87).
THEOREM InOrder == Spec => []NotificationsInOrder
<1>1. IInv => NotificationsInOrder
  BY DEF IInv, QueueInv
<1> QED BY <1>1, Invariant, PTL

\* Who has output_mutex_ is the only one to write (ProcessMessage:163-165, WriterLoop:79-82).
THEOREM OneWriter == Spec => []WritesOneAtATime
<1>1. IInv => WritesOneAtATime
  BY DEF IInv, LockInv, WritesOneAtATime
<1> QED BY <1>1, Invariant, PTL

\* Of two calls of Stop one does the work (Stop:221-223).
THEOREM OneStop == Spec => []StoppedOnce
<1>1. IInv => StoppedOnce
  BY DEF IInv, StopInv
<1> QED BY <1>1, Invariant, PTL

\* No more tasks are in process than the transport allows (Connect:124-144).
THEOREM Limited == Spec => []WithinConcurrency
<1>1. TypeOK /\ IInv => WithinConcurrency
  <2> SUFFICES ASSUME TypeOK, IInv PROVE WithinConcurrency
    OBVIOUS
  <2> DEFINE busy == {m \in Id : stage[m] \in Processing}
  <2>1. CASE Concurrency # 1
    <3>1. busy \subseteq in_flight
      BY <2>1 DEF IInv, TaskInv
    <3>2. in_flight \in SUBSET Id /\ Cardinality(in_flight) <= Concurrency
      BY DEF IInv, TaskInv, TypeOK, ReadingTypes
    <3>3. /\ IsFiniteSet(in_flight) /\ Cardinality(in_flight) \in Nat
          /\ Cardinality(busy) \in Nat
      BY <3>2, CountBound
    <3>4. Cardinality(busy) <= Cardinality(in_flight)
      BY <3>1, <3>3, FS_Subset
    <3> HIDE DEF busy
    <3>5. Cardinality(busy) <= Concurrency
      BY <3>2, <3>3, <3>4
    <3> QED BY <3>5 DEF busy, WithinConcurrency
  <2>2. CASE Concurrency = 1
    <3>1. busy \subseteq {reads} /\ reads \in Nat
      BY <2>2 DEF IInv, TaskInv, TypeOK, ReadingTypes
    <3>2. IsFiniteSet({reads}) /\ Cardinality({reads}) = 1
      BY FS_Singleton
    <3>3. Cardinality(busy) \in Nat /\ Cardinality(busy) <= 1
      BY <3>1, <3>2, FS_Subset, CountBound
    <3> QED BY <2>2, <3>3 DEF WithinConcurrency
  <2> QED BY <2>1, <2>2
<1> QED BY <1>1, Invariant, PTL

-----------------------------------------------------------------------------
(* The end of the program *)

\* The transport goes in Stop; a Stop that is over has seen the writer end, and the
\* one that leaves at once has met another.
EndInv ==
    /\ main = "connect" => writer = "none"
    /\ main # "connect" /\ ~transport_ => isCleaned_
    /\ isCleaned_ => Stopping("main") \/ Stopping("handler")
    /\ handler = "none" => stopper["handler"] = "idle"
    /\ main \notin {"stop", "returned"} => stopper["main"] = "idle"
    /\ main = "returned" => stopper["main"] \in {"done", "left"}
    /\ stopper["main"] = "left" => Stopping("handler")
    /\ stopper["main"] = "done" => writer = "ended"

LEMMA EndStep == TypeOK /\ IInv /\ EndInv /\ [Next]_vars => EndInv'
<1> SUFFICES ASSUME TypeOK, IInv, EndInv, [Next]_vars PROVE EndInv'
  OBVIOUS
<1> USE DEF EndInv, Stopping
<1>0. writer \in {"none", "ended"} => writer # "waiting"
  OBVIOUS
<1>1. CASE MainThread
  BY <1>1 DEF MainThread, MainStep, Start, CheckStopping, ReadNothing, Processed, Submit, Launch,
              WaitForFront, Drain, Return, ReadMessage, stopping, flags, queue
<1>2. ASSUME NEW m \in Id, Task(m) PROVE EndInv'
  <2>1. writer' = writer \/ writer = "waiting"
    BY <1>2 DEF Task, TaskStep, Begin, HandlerReturns, LockForReply, Reply, HandlerNotifies,
                WakeWriter, queue
  <2>2. main # "connect"
    <3>1. stage[m] \in Processing
      BY <1>2, TaskFrame
    <3> QED BY <3>1 DEF IInv, TaskInv
  <2> QED BY <1>2, <2>1, <2>2, TaskFrame
<1>3. CASE WriterStep
  <2>1. UNCHANGED <<main, transport_, isCleaned_, stopper, handler>>
    BY <1>3, WriterFrame DEF flags, reading, stopping
  <2>2. writer \notin {"none", "ended"}
    BY <1>3 DEF WriterStep, WriterLoops, TestQueue, FallAsleep, LockForWrite, CheckTransport,
                WriteNotification
  <2> QED BY <2>1, <2>2
<1>4. CASE Notifier
  <2>1. UNCHANGED <<main, transport_, isCleaned_, stopper, handler>>
    BY <1>4, NotifierFrame DEF flags, reading, stopping
  <2>2. writer' = writer \/ writer = "waiting"
    BY <1>4 DEF Notifier, NotifierChecks, NotifierPushes, NotifierWakes, WakeWriter, queue
  <2> QED BY <2>1, <2>2
<1>5. ASSUME NEW c \in {"main", "handler"}, StopStep(c) PROVE EndInv'
  <2>0. /\ main' = main /\ handler' = handler
        /\ c = "main" => main = "stop"
        /\ c = "handler" => handler = "running"
    BY <1>5, StopFrame DEF reading, StopStep, Enter, StopTransport, ResetTransport, StopWriter,
                          NotifyWriter, JoinWriter, At, Calls
  <2>1. stopper \in [{"main", "handler"} -> StopSteps]
    BY DEF TypeOK, StopTypes
  <2>2. CASE Enter(c)
    BY <2>0, <2>1, <2>2 DEF Enter, AlreadyCleaned, At, Goto, queue
  <2>3. CASE StopTransport(c) \/ StopWriter(c) \/ JoinWriter(c)
    BY <2>0, <2>1, <2>3 DEF StopTransport, StopWriter, JoinWriter, At, Goto, queue, flags
  <2>4. CASE ResetTransport(c)
    <3>1. isCleaned_ /\ isCleaned_' = isCleaned_ /\ writer' = writer
      BY <2>4 DEF ResetTransport, At, IInv, StopInv, queue
    <3> QED BY <2>0, <2>1, <2>4, <3>1 DEF ResetTransport, At, Goto
  <2>5. CASE NotifyWriter(c)
    BY <2>0, <2>1, <2>5 DEF NotifyWriter, WakeWriter, At, Goto, flags
  <2> QED BY <1>5, <2>2, <2>3, <2>4, <2>5 DEF StopStep
<1>6. CASE Outside
  <2>1. stopper' = stopper /\ writer' = writer /\ main' = main
    BY <1>6, OutsideFrame DEF queue, reading
  <2> QED BY <1>6, <2>1, OutsideFrame
<1>7. CASE UNCHANGED vars
  BY <1>7 DEF vars
<1> QED BY <1>1, <1>2, <1>3, <1>4, <1>5, <1>6, <1>7 DEF Next, MainThread, Task, Notifier, Outside

\* The program crashes only in Stop, and without a signal only by its writer
\* (WriterLoop:79-82, Stop:225-237).
THEOREM CrashInStop == Spec => CrashesInStop
<1> DEFINE Explained == process = "up" /\ process' = "crashed" =>
                            /\ isCleaned_
                            /\ handler = "none" => main = "stop" /\ writer = "writing"
<1>1. Init => EndInv
  BY DEF Init, EndInv, Stopping
<1>2. TypeOK /\ IInv /\ EndInv /\ [Next]_vars => [Explained]_vars
  <2> SUFFICES ASSUME TypeOK, IInv, EndInv, Next, process = "up", process' = "crashed"
               PROVE  /\ isCleaned_
                      /\ handler = "none" => main = "stop" /\ writer = "writing"
    OBVIOUS
  <2>1. CASE \E m \in Id : Reply(m)
    <3>1. PICK m \in Id : stage[m] = "writing" /\ ~transport_
      BY <2>1 DEF Reply
    <3>2. main \notin {"connect", "stop", "returned"}
      BY <3>1 DEF IInv, TaskInv
    <3> QED BY <3>1, <3>2 DEF IInv, TransportInv, EndInv
  <2>2. CASE WriteNotification
    <3>1. writer = "writing" /\ ~transport_
      BY <2>2 DEF WriteNotification
    <3>2. main # "connect"
      BY <3>1 DEF EndInv
    <3>3. ASSUME handler = "none" PROVE main = "stop"
      <4>1. main \in {"stop", "returned"}
        BY <3>1, <3>2, <3>3 DEF IInv, TransportInv
      <4>2. main # "returned"
        BY <3>1, <3>3 DEF EndInv, Stopping
      <4> QED BY <4>1, <4>2
    <3> QED BY <3>1, <3>2, <3>3 DEF EndInv
  <2>3. CASE ~(WriteNotification \/ \E m \in Id : Reply(m))
    <3>1. process' \in {process, "exited"}
      BY <2>3 DEF Next, MainStep, Start, CheckStopping, ReadNothing, Processed, Submit, WaitForFront,
                  Drain, Return, ReadMessage, TaskStep, Begin, HandlerReturns, LockForReply,
                  HandlerNotifies, Cancel, WriterStep, WriterLoops, TestQueue, FallAsleep,
                  LockForWrite, CheckTransport, NotifierChecks, NotifierPushes, NotifierWakes,
                  StopStep, Enter, StopTransport, ResetTransport, StopWriter, NotifyWriter,
                  JoinWriter, TransportCloses, RequestStop, Interrupt, Exit
    <3> QED BY <3>1
  <2> QED BY <2>1, <2>2, <2>3
<1>3. Spec => [][Explained]_vars
  BY <1>1, <1>2, EndStep, Invariant, PTL DEF Spec
<1> QED BY <1>3 DEF CrashesInStop

=============================================================================
