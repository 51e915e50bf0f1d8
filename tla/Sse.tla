---------------------------------- MODULE Sse ----------------------------------
(***************************************************************************)
(* The SSE transport: a GET opens a stream that carries what Server writes *)
(* and POSTs bring what Server reads.  All streams share one queue and two *)
(* flags, which every new stream sets and every end of a stream clears.    *)
(*                                                                         *)
(* Messages differ in nothing that a property tells apart: a queue is the  *)
(* number of messages in it.                                               *)
(***************************************************************************)
EXTENDS HttpServer

CONSTANT MaxMessages   \* bound of the model: messages in a queue, or on the way to it

ASSUME MessagesAssumption == MaxMessages \in Nat

VARIABLES
    server_running_, client_connected_, sse_active_,
    incoming_messages_, outgoing_messages_,
    abandoned,         \* history: since client_connected_ was cleared last, a stream has
                       \* ended without terminate(), or a HEAD has opened none
    reader,            \* the thread of Server that calls Read
    stop               \* how far Stop has come

streamVars == <<client_connected_, sse_active_, abandoned, outgoing_messages_>>
readVars   == <<incoming_messages_, reader>>
vars == <<serverVars, pc, left, server_running_, streamVars, readVars, stop>>

\* Places in HandleSSEConnection, in terminate and in HandlePostMessage.
Handling == {"get", "head", "terminate", "post", "notify"}

TypeOK ==
    /\ ServerTypeOK(Handling)
    /\ server_running_ \in BOOLEAN
    /\ client_connected_ \in BOOLEAN /\ sse_active_ \in BOOLEAN
    /\ abandoned \in BOOLEAN
    /\ incoming_messages_ \in 0 .. MaxMessages
    /\ outgoing_messages_ \in 0 .. MaxMessages
    /\ reader \in {"new", "starting", "read", "waits", "asleep", "busy", "over"}
    /\ stop \in {"none", "cleared", "closed", "freed", "joined", "done", "crashed"}

Init ==
    /\ ServerInit
    /\ server_running_ = FALSE
    /\ client_connected_ = FALSE /\ sse_active_ = FALSE
    /\ abandoned = FALSE
    /\ incoming_messages_ = 0 /\ outgoing_messages_ = 0
    /\ reader = "new"
    /\ stop = "none"

-----------------------------------------------------------------------------
(* Start and Stop *)

StartTransport ==
    /\ reader = "new" /\ reader' = "starting"
    /\ server_running_' = TRUE
    /\ listener' = "starting"
    /\ UNCHANGED <<svr_sock_, jobs_, pc, left, streamVars, incoming_messages_, stop>>

\* The 100 ms are taken to be enough for the thread to listen, or to fail.
StartReturns ==
    /\ reader = "starting" /\ listener # "starting"
    /\ reader' = IF server_running_ THEN "read" ELSE "over"
    /\ UNCHANGED <<serverVars, pc, left, server_running_, streamVars, incoming_messages_, stop>>

ListenReturns ==
    /\ BindFails \/ JoinWorkers
    /\ server_running_' = FALSE
    /\ UNCHANGED <<streamVars, readVars, stop>>

\* A step of httplib of which the transport is not told.
ByServer(step) ==
    /\ step
    /\ abandoned' = (abandoned \/ \E w \in Worker : pc[w] = "sse" /\ pc'[w] # "sse")
    /\ UNCHANGED <<server_running_, client_connected_, sse_active_, outgoing_messages_,
                   readVars, stop>>

\* The three flags; without a running server nothing more happens.
StopBegins ==
    /\ stop = "none" /\ reader \notin {"new", "starting"}
    /\ \/ /\ server_running_ /\ server_running_' = FALSE
          /\ client_connected_' = FALSE /\ sse_active_' = FALSE /\ abandoned' = FALSE
          /\ stop' = "cleared"
       \/ /\ ~server_running_ /\ stop' = "done"
          /\ UNCHANGED <<server_running_, client_connected_, sse_active_, abandoned>>
    /\ UNCHANGED <<serverVars, pc, left, outgoing_messages_, readVars>>

\* Mutant: the server is freed without having been stopped.
StopForgetsServer ==
    /\ stop = "cleared" /\ stop' = "closed"
    /\ UNCHANGED <<serverVars, pc, left, server_running_, streamVars, readVars>>

StopListening ==
    /\ stop = "cleared" /\ stop' = "closed"
    /\ CloseListener
    /\ UNCHANGED <<server_running_, streamVars, readVars>>

StopMoves(from, to) ==
    /\ stop = from /\ stop' = to
    /\ UNCHANGED <<serverVars, pc, left, server_running_, streamVars, incoming_messages_>>

\* server_ = nullptr: the server is gone, and its threads may still be in it.
StopFrees == StopMoves("closed", "freed") /\ UNCHANGED reader

\* What they use then has any content: the program may crash, or go on as if
\* the server were still there.
Crash == /\ listener # "over"
         /\ StopMoves("freed", "crashed") /\ UNCHANGED reader

StopJoins == /\ listener = "over"
             /\ StopMoves("freed", "joined") /\ UNCHANGED reader

Wake == reader' = IF reader = "asleep" THEN "read" ELSE reader

StopNotifies == StopMoves("joined", "done") /\ Wake

StopStep == StopListening \/ StopFrees \/ StopJoins \/ StopNotifies

-----------------------------------------------------------------------------
(* HandleSSEConnection, and the loop that httplib runs its provider in        *)

\* A HEAD is routed like a GET, and no provider is called for it.
ReceiveGet(w) ==
    /\ pc[w] = "keep"
    /\ client_connected_' = TRUE
    /\ \E handler \in {"get", "head"} : Goto(w, handler)
    /\ UNCHANGED <<serverVars, server_running_, sse_active_, abandoned, outgoing_messages_,
                   readVars, stop>>

Activate(w) ==
    /\ pc[w] \in {"get", "head"}
    /\ sse_active_' = TRUE
    /\ abandoned' = (abandoned \/ pc[w] = "head")
    /\ Goto(w, IF pc[w] = "get" THEN "sse" ELSE "keep")
    /\ UNCHANGED <<serverVars, server_running_, client_connected_, outgoing_messages_,
                   readVars, stop>>

\* Mutant: woken without a reason, a stream does not look at the queue again.
PopUnchecked(w) ==
    /\ pc[w] = "sse" /\ svr_sock_ /\ sse_active_
    /\ outgoing_messages_' = outgoing_messages_ - 1
    /\ UNCHANGED <<serverVars, pc, left, server_running_, client_connected_, sse_active_,
                   abandoned, readVars, stop>>

\* The oldest message goes to whichever stream asks first.  A write to a client
\* that has left fails at the next turn, and its message is lost.
PopMessage(w) ==
    /\ pc[w] = "sse" /\ svr_sock_
    /\ sse_active_ /\ outgoing_messages_ > 0
    /\ outgoing_messages_' = outgoing_messages_ - 1
    /\ UNCHANGED <<serverVars, pc, left, server_running_, client_connected_, sse_active_,
                   abandoned, readVars, stop>>

\* Mutant: terminate clears one flag only.
DeactivateOnly(w) ==
    /\ pc[w] = "sse" /\ svr_sock_
    /\ w \in left \/ ~sse_active_
    /\ sse_active_' = FALSE
    /\ CloseSocket(w)
    /\ UNCHANGED <<serverVars, server_running_, client_connected_, abandoned,
                   outgoing_messages_, readVars, stop>>

\* terminate, for one stream or because another one has: the first flag ...
Deactivate(w) ==
    /\ pc[w] = "sse" /\ svr_sock_
    /\ w \in left \/ ~sse_active_
    /\ sse_active_' = FALSE
    /\ Goto(w, "terminate")
    /\ UNCHANGED <<serverVars, server_running_, client_connected_, abandoned,
                   outgoing_messages_, readVars, stop>>

\* ... the second one, and the notifications.
Disconnect(w) ==
    /\ pc[w] = "terminate"
    /\ client_connected_' = FALSE /\ abandoned' = FALSE
    /\ Wake
    /\ CloseSocket(w)
    /\ UNCHANGED <<serverVars, server_running_, sse_active_, outgoing_messages_,
                   incoming_messages_, stop>>

-----------------------------------------------------------------------------
(* HandlePostMessage; a POST without a stream is refused, a stuttering step   *)

OnTheWay == Cardinality({w \in Worker : pc[w] = "post"})

ReceivePost(w) ==
    /\ pc[w] = "keep" /\ client_connected_
    /\ incoming_messages_ + OnTheWay < MaxMessages
    /\ Goto(w, "post")
    /\ UNCHANGED <<serverVars, server_running_, streamVars, readVars, stop>>

\* Mutant: the message is pushed without the mutex.
PushUnlocked(w) ==
    /\ pc[w] = "post"
    /\ incoming_messages_' = incoming_messages_ + 1
    /\ Goto(w, "notify")
    /\ UNCHANGED <<serverVars, server_running_, streamVars, reader, stop>>

\* incoming_mutex_ is free: Read does not hold it between its test and its sleep.
PushIncoming(w) ==
    /\ pc[w] = "post" /\ reader # "waits"
    /\ incoming_messages_' = incoming_messages_ + 1
    /\ Goto(w, "notify")
    /\ UNCHANGED <<serverVars, server_running_, streamVars, reader, stop>>

NotifyReader(w) ==
    /\ pc[w] = "notify"
    /\ Wake
    /\ Goto(w, "keep")
    /\ UNCHANGED <<serverVars, server_running_, streamVars, incoming_messages_, stop>>

HandlerStep(w) ==
    \/ Activate(w) \/ PopMessage(w) \/ Deactivate(w) \/ Disconnect(w)
    \/ PushIncoming(w) \/ NotifyReader(w)

-----------------------------------------------------------------------------
(* Read and Write, as Server calls them *)

\* Once the server does not run, what is still queued is not read.
ReadMessage ==
    /\ reader = "read" /\ server_running_ /\ incoming_messages_ > 0
    /\ reader' = "busy"
    /\ incoming_messages_' = incoming_messages_ - 1
    /\ UNCHANGED <<serverVars, pc, left, server_running_, streamVars, stop>>

ReadNothing ==
    /\ reader = "read" /\ ~server_running_ /\ reader' = "over"
    /\ UNCHANGED <<serverVars, pc, left, server_running_, streamVars, incoming_messages_, stop>>

\* The predicate of the wait is false ...
ReadTests ==
    /\ reader = "read" /\ server_running_ /\ incoming_messages_ = 0
    /\ reader' = "waits"
    /\ UNCHANGED <<serverVars, pc, left, server_running_, streamVars, incoming_messages_, stop>>

\* ... and the thread sleeps; only now incoming_mutex_ is released.
ReadSleeps ==
    /\ reader = "waits" /\ reader' = "asleep"
    /\ UNCHANGED <<serverVars, pc, left, server_running_, streamVars, incoming_messages_, stop>>

\* Write: without a client the message is dropped.
Send ==
    /\ outgoing_messages_ < MaxMessages
    /\ outgoing_messages_' = outgoing_messages_ + IF client_connected_ THEN 1 ELSE 0
    /\ UNCHANGED <<serverVars, pc, left, server_running_, client_connected_, sse_active_,
                   abandoned, incoming_messages_, stop>>

\* Server answers the message it has read, or not.
Answer ==
    /\ reader = "busy" /\ reader' = "read"
    /\ \/ Send
       \/ UNCHANGED <<serverVars, pc, left, server_running_, streamVars, incoming_messages_, stop>>

\* The writer thread of Server.
Notify == Send /\ UNCHANGED reader

-----------------------------------------------------------------------------
Running == stop # "crashed"

Next ==
    /\ Running
    /\ \/ StartTransport \/ StartReturns \/ StopBegins \/ StopStep \/ Crash
       \/ ListenReturns \/ ByServer(Listen \/ Accept)
       \/ \E w \in Worker : \/ ByServer(WorkerStep(w) \/ Leave(w))
                            \/ ReceiveGet(w) \/ ReceivePost(w) \/ HandlerStep(w)
       \/ ReadMessage \/ ReadNothing \/ ReadTests \/ ReadSleeps
       \/ Answer \/ Notify

Spec == Init /\ [][Next]_vars

\* The workers run, a connection is over after a hundred requests or five seconds
\* without one, a thread that is about to sleep does, and what Stop has begun goes
\* on when it can, in its thread or in the one that listens.  Nothing is assumed of
\* clients and of Server.
Fairness ==
    /\ \A w \in Worker : /\ WF_vars(Running /\ (ByServer(WorkerStep(w)) \/ HandlerStep(w)))
                         /\ SF_vars(Running /\ ByServer(KeepAliveEnds(w)))
    /\ WF_vars(Running /\ ReadSleeps)
    /\ WF_vars(Running /\ (StopStep \/ ListenReturns))

FairSpec == Spec /\ Fairness

-----------------------------------------------------------------------------
(* Properties *)

\* A POST is accepted (client_connected_) for a stream.  There is one, or one on its
\* way in or out, unless a stream was abandoned since the flag was cleared last: then
\* it stays set, and answers find nobody.  And the streams that are there go on, for
\* sse_active_ is set as well, unless a handler is between its stores.
AcceptsForAStream ==
    server_running_ /\ client_connected_ =>
        /\ abandoned \/ \E w \in Worker : pc[w] \in {"get", "head", "sse", "terminate"}
        /\ sse_active_ \/ \E w \in Worker : pc[w] \in {"get", "head", "terminate"}

\* The thread that reads does not sleep on a message, unless the notification is
\* still to come.
NoLostWakeup ==
    reader = "asleep" /\ incoming_messages_ > 0 => \E w \in Worker : pc[w] = "notify"

\* Stop comes to an end, whatever the streams do, unless the threads of the
\* server trip over the server it has freed.
StopReturns == stop = "cleared" ~> stop \in {"done", "crashed"}
===============================================================================
