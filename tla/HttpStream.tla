------------------------------ MODULE HttpStream ------------------------------
(***************************************************************************)
(* The HttpStream transport: POSTs whose handlers wait in a worker of the  *)
(* pool for the answer, up to 30 seconds, and GET streams that share one   *)
(* queue.  A waiting handler is found by the JSON-RPC id of its request.   *)
(*                                                                         *)
(* Server is seen through Read and Write: its main thread takes one        *)
(* message after the other (GetConcurrency is 1), and answers it, or not.  *)
(***************************************************************************)
EXTENDS HttpServer

CONSTANTS
    Request,           \* the requests that are sent
    Initialize,        \* those that are initialize requests
    Id, IdOf,          \* JSON-RPC ids, and the one of each request
    NoRequest,         \* no request, no answer yet
    Released,          \* the empty answer that Stop gives
    MaxNotes           \* bound of the model: Server sends no notification that
                       \* would make sse_notifications_ longer

ASSUME RequestAssumption ==
    /\ Initialize \subseteq Request
    /\ IdOf \in [Request -> Id]
    /\ NoRequest \notin Request /\ Released \notin Request /\ Released # NoRequest
    /\ "note" \notin Request /\ MaxNotes \in Nat

VARIABLES
    server_running_, client_connected_,
    session_,          \* the initialize that made the session; NoRequest: not initialized
    incoming_messages_,
    pending_requests_, \* of an id: the request whose promise is there
    promise,           \* of a request: the one whose answer it was given
    sse_notifications_, sse_stream_active_,
    post,              \* the request a worker handles
    outcome,           \* of a request: what its client got
    main,              \* what the main thread of Server does
    handling,          \* the message it works on
    stop               \* how far Stop has come

sessionVars  == <<session_, client_connected_>>
exchangeVars == <<pending_requests_, promise>>
streamVars   == <<sse_notifications_, sse_stream_active_>>
readerVars   == <<incoming_messages_, main, handling>>
vars == <<serverVars, pc, left, server_running_, sessionVars, exchangeVars, streamVars,
          readerVars, post, outcome, stop>>

Handling == {"push", "wait", "erase"}   \* places in HandlePostMessage

TypeOK ==
    /\ ServerTypeOK(Handling)
    /\ server_running_ \in BOOLEAN /\ client_connected_ \in BOOLEAN
    /\ session_ \in Initialize \cup {NoRequest}
    /\ incoming_messages_ \in Seq(Request)
    /\ pending_requests_ \in [Id -> Request \cup {NoRequest}]
    /\ promise \in [Request -> Request \cup {NoRequest, Released}]
    /\ sse_notifications_ \in Seq({"note"} \cup Request)
    /\ sse_stream_active_ \in BOOLEAN
    /\ post \in [Worker -> Request \cup {NoRequest}]
    /\ outcome \in [Request -> {"unsent", "open", "answered", "failed"}]
    /\ main \in {"new", "starting", "read", "busy", "stream", "over"}
    /\ handling \in Request \cup {NoRequest}
    /\ stop \in {"none", "cleared", "closing", "joined", "done"}

Init ==
    /\ ServerInit
    /\ server_running_ = FALSE /\ client_connected_ = FALSE
    /\ session_ = NoRequest
    /\ incoming_messages_ = <<>>
    /\ pending_requests_ = [i \in Id |-> NoRequest]
    /\ promise = [p \in Request |-> NoRequest]
    /\ sse_notifications_ = <<>>
    /\ sse_stream_active_ = FALSE
    /\ post = [w \in Worker |-> NoRequest]
    /\ outcome = [p \in Request |-> "unsent"]
    /\ main = "new"
    /\ handling = NoRequest
    /\ stop = "none"

-----------------------------------------------------------------------------
(* Start and Stop, and what they do to the server                             *)

StartTransport ==
    /\ main = "new" /\ main' = "starting"
    /\ server_running_' = TRUE
    /\ listener' = "starting"
    /\ UNCHANGED <<svr_sock_, jobs_, pc, left, sessionVars, exchangeVars, streamVars,
                   incoming_messages_, handling, post, outcome, stop>>

\* The 100 ms are taken to be enough for the thread to listen, or to fail.
StartReturns ==
    /\ main = "starting" /\ listener # "starting"
    /\ main' = IF server_running_ THEN "read" ELSE "over"
    /\ UNCHANGED <<serverVars, pc, left, server_running_, sessionVars, exchangeVars, streamVars,
                   incoming_messages_, handling, post, outcome, stop>>

\* listen returns false, or after the workers have been joined; Read is not told.
ListenReturns ==
    /\ BindFails \/ JoinWorkers
    /\ server_running_' = FALSE
    /\ UNCHANGED <<sessionVars, exchangeVars, streamVars, readerVars, post, outcome, stop>>

\* A step of httplib with which the transport has nothing to do.
ByServer(step) ==
    /\ step
    /\ UNCHANGED <<server_running_, sessionVars, exchangeVars, streamVars, readerVars,
                   post, outcome, stop>>

\* exchange(false): without a running server nothing more happens.
StopBegins ==
    /\ stop = "none" /\ main \notin {"new", "starting"}
    /\ \/ /\ server_running_ /\ server_running_' = FALSE
          /\ client_connected_' = FALSE /\ sse_stream_active_' = FALSE
          /\ stop' = "cleared"
       \/ /\ ~server_running_ /\ stop' = "done"
          /\ UNCHANGED <<server_running_, client_connected_, sse_stream_active_>>
    /\ UNCHANGED <<serverVars, pc, left, session_, exchangeVars, sse_notifications_,
                   readerVars, post, outcome>>

StopListening ==
    /\ stop = "cleared" /\ stop' = "closing"
    /\ CloseListener
    /\ UNCHANGED <<server_running_, sessionVars, exchangeVars, streamVars, readerVars,
                   post, outcome>>

\* Mutant: the thread that listens is detached, and not joined.
StopDetaches ==
    /\ stop = "closing" /\ stop' = "joined"
    /\ UNCHANGED <<serverVars, pc, left, server_running_, sessionVars, exchangeVars, streamVars,
                   readerVars, post, outcome>>

StopJoins ==
    /\ stop = "closing" /\ stop' = "joined"
    /\ listener = "over"
    /\ UNCHANGED <<serverVars, pc, left, server_running_, sessionVars, exchangeVars, streamVars,
                   readerVars, post, outcome>>

\* Whoever still waits gets the empty answer.
StopReleases ==
    /\ stop = "joined" /\ stop' = "done"
    /\ promise' = [p \in Request |-> IF \E i \in Id : pending_requests_[i] = p
                                  THEN Released ELSE promise[p]]
    /\ pending_requests_' = [i \in Id |-> NoRequest]
    /\ UNCHANGED <<serverVars, pc, left, server_running_, sessionVars, streamVars, readerVars,
                   post, outcome>>

StopStep == StopListening \/ StopJoins \/ StopReleases

-----------------------------------------------------------------------------
(* HandlePostMessage, in worker w.  What is refused before a state changes is *)
(* left out, and so is a message without an id, which only passes through the *)
(* queue; a POST with the token of another session fails.                     *)

\* Mutant: the request is not registered.
EmplaceNothing(p) == UNCHANGED pending_requests_

\* emplace leaves an entry of the same id alone.
Emplace(p) ==
    pending_requests_' = [pending_requests_ EXCEPT ![IdOf[p]] = IF @ = NoRequest THEN p ELSE @]

\* A request, up to the end of the first mutex.
Handle(w, p) ==
    /\ post' = [post EXCEPT ![w] = p]
    /\ outcome' = [outcome EXCEPT ![p] = "open"]
    /\ Emplace(p)
    /\ Goto(w, "push")

ReceivePost(w, p) ==
    /\ pc[w] = "keep" /\ outcome[p] = "unsent"
    /\ \/ /\ p \in Initialize
          /\ session_' = p /\ client_connected_' = TRUE
          /\ Handle(w, p)
       \/ /\ p \notin Initialize
          /\ Handle(w, p)
          /\ UNCHANGED sessionVars
       \/ /\ p \notin Initialize /\ session_ # NoRequest
          /\ outcome' = [outcome EXCEPT ![p] = "failed"]
          /\ UNCHANGED <<pc, left, post, sessionVars, pending_requests_>>
    /\ UNCHANGED <<serverVars, server_running_, promise, streamVars, readerVars, stop>>

\* The worker has answered, and goes on with its connection.
Respond(w, result) ==
    /\ outcome' = [outcome EXCEPT ![post[w]] = result]
    /\ post' = [post EXCEPT ![w] = NoRequest]
    /\ Goto(w, "keep")

PushIncoming(w) ==
    /\ pc[w] = "push"
    /\ incoming_messages_' = Append(incoming_messages_, post[w])
    /\ Goto(w, "wait")
    /\ UNCHANGED <<serverVars, server_running_, sessionVars, exchangeVars, streamVars,
                   main, handling, post, outcome, stop>>

GetAnswer(w) ==
    /\ pc[w] = "wait" /\ promise[post[w]] # NoRequest
    /\ Respond(w, IF promise[post[w]] = Released THEN "failed" ELSE "answered")
    /\ UNCHANGED <<serverVars, server_running_, sessionVars, exchangeVars, streamVars,
                   readerVars, stop>>

\* Mutant: wait in the place of wait_for.
WaitsForever(w) == FALSE

TimeOut(w) ==
    /\ pc[w] = "wait" /\ promise[post[w]] = NoRequest
    /\ Goto(w, "erase")
    /\ UNCHANGED <<serverVars, server_running_, sessionVars, exchangeVars, streamVars,
                   readerVars, post, outcome, stop>>

\* Mutant: the entry stays after the time-out.
EraseNothing(p) == UNCHANGED pending_requests_

\* Whatever entry has this id by now is erased.
Erase(p) == pending_requests_' = [pending_requests_ EXCEPT ![IdOf[p]] = NoRequest]

\* The 504 is a local of the handler until it returns, so that it is one step with
\* the erase: no other thread can tell whether it has been set.
EraseTimedOut(w) ==
    /\ pc[w] = "erase"
    /\ Erase(post[w])
    /\ Respond(w, "failed")
    /\ UNCHANGED <<serverVars, server_running_, sessionVars, promise, streamVars,
                   readerVars, stop>>

PostStep(w) ==
    PushIncoming(w) \/ GetAnswer(w) \/ TimeOut(w) \/ EraseTimedOut(w)

-----------------------------------------------------------------------------
(* HandleGetSSE and the loop that httplib runs its content provider in, and   *)
(* HandleDeleteSession.  A wrong token is a stuttering step.                  *)

\* A HEAD is routed like a GET, and no provider is called for it.
ReceiveGet(w) ==
    /\ pc[w] = "keep"
    /\ sse_stream_active_' = TRUE
    /\ \/ Goto(w, "sse")
       \/ UNCHANGED <<pc, left>>
    /\ UNCHANGED <<serverVars, server_running_, sessionVars, exchangeVars, sse_notifications_,
                   readerVars, post, outcome, stop>>

\* terminate() in the provider: another stream has ended, Stop or DELETE has
\* cleared the flag, or a ping or a message could not be written.
Terminate(w) ==
    /\ pc[w] = "sse" /\ svr_sock_
    /\ w \in left \/ ~sse_stream_active_
    /\ sse_stream_active_' = FALSE
    /\ CloseSocket(w)
    /\ UNCHANGED <<serverVars, server_running_, sessionVars, exchangeVars, sse_notifications_, readerVars,
                   post, outcome, stop>>

\* The provider, under sse_mutex_; then sink.write, which fails at the next turn
\* when the client has left.  Within 200 ms the provider comes back to the loop,
\* and with nothing to send that is a stuttering step.
PopNotification(w) ==
    /\ pc[w] = "sse" /\ svr_sock_
    /\ sse_stream_active_ /\ sse_notifications_ # <<>>
    /\ sse_notifications_' = Tail(sse_notifications_)
    /\ UNCHANGED <<serverVars, pc, left, server_running_, sessionVars, exchangeVars,
                   sse_stream_active_, readerVars, post, outcome, stop>>

ProviderStep(w) == Terminate(w) \/ PopNotification(w)

ReceiveDelete(w) ==
    /\ pc[w] = "keep" /\ session_ # NoRequest
    /\ session_' = NoRequest /\ client_connected_' = FALSE
    /\ sse_stream_active_' = FALSE
    /\ UNCHANGED <<serverVars, pc, left, server_running_, exchangeVars, sse_notifications_,
                   readerVars, post, outcome, stop>>

-----------------------------------------------------------------------------
(* Read and Write, as Server calls them *)

\* With the queue empty Read waits, and once server_running_ is cleared it returns
\* nothing: in both cases Server does nothing here.
ReadMessage ==
    /\ main = "read" /\ incoming_messages_ # <<>>
    /\ incoming_messages_' = Tail(incoming_messages_)
    /\ handling' = Head(incoming_messages_)
    /\ main' = "busy"
    /\ UNCHANGED <<serverVars, pc, left, server_running_, sessionVars, exchangeVars, streamVars,
                   post, outcome, stop>>

\* A handler that threw, or a message that Server reads when it has been told to
\* stop.
NoAnswer ==
    /\ main = "busy" /\ main' = "read"
    /\ handling' = NoRequest
    /\ UNCHANGED <<serverVars, pc, left, server_running_, sessionVars, exchangeVars, streamVars,
                   incoming_messages_, post, outcome, stop>>

\* Mutant: the entry stays after the answer.
ResolveKeeps(p) ==
    /\ promise' = [promise EXCEPT ![pending_requests_[IdOf[p]]] = p]
    /\ UNCHANGED pending_requests_

\* Write, under pending_mutex_: the promise found by the id gets the answer.
Resolve(p) ==
    LET waiter == pending_requests_[IdOf[p]] IN
    /\ promise' = [promise EXCEPT ![waiter] = p]
    /\ pending_requests_' = [pending_requests_ EXCEPT ![IdOf[p]] = NoRequest]

WriteAnswer ==
    /\ main = "busy"
    /\ \/ /\ ~client_connected_
          /\ main' = "read" /\ handling' = NoRequest
          /\ UNCHANGED exchangeVars
       \/ /\ client_connected_ /\ pending_requests_[IdOf[handling]] # NoRequest
          /\ Resolve(handling)
          /\ main' = "read" /\ handling' = NoRequest
       \/ /\ client_connected_ /\ pending_requests_[IdOf[handling]] = NoRequest
          /\ main' = "stream"
          /\ UNCHANGED <<exchangeVars, handling>>
    /\ UNCHANGED <<serverVars, pc, left, server_running_, sessionVars, streamVars,
                   incoming_messages_, post, outcome, stop>>

ToStream(m) ==
    sse_notifications_' = IF sse_stream_active_ THEN Append(sse_notifications_, m)
                                                ELSE sse_notifications_

\* Nobody waits for the answer: it goes the way of the notifications.
StreamAnswer ==
    /\ main = "stream" /\ main' = "read"
    /\ ToStream(handling)
    /\ handling' = NoRequest
    /\ UNCHANGED <<serverVars, pc, left, server_running_, sessionVars, exchangeVars,
                   sse_stream_active_, incoming_messages_, post, outcome, stop>>

\* Write of a notification, in the writer thread of Server: output_mutex_ keeps
\* it out of the Write of an answer.
Notify ==
    /\ main # "stream" /\ client_connected_
    /\ Len(sse_notifications_) < MaxNotes
    /\ ToStream("note")
    /\ UNCHANGED <<serverVars, pc, left, server_running_, sessionVars, exchangeVars,
                   sse_stream_active_, readerVars, post, outcome, stop>>

-----------------------------------------------------------------------------
Next ==
    \/ StartTransport \/ StartReturns \/ StopBegins \/ StopStep
    \/ ListenReturns \/ ByServer(Listen \/ Accept)
    \/ \E w \in Worker : \/ ByServer(WorkerStep(w) \/ Leave(w))
                         \/ \E p \in Request : ReceivePost(w, p)
                         \/ PostStep(w)
                         \/ ReceiveGet(w) \/ ProviderStep(w) \/ ReceiveDelete(w)
    \/ ReadMessage \/ NoAnswer \/ WriteAnswer \/ StreamAnswer \/ Notify

Spec == Init /\ [][Next]_vars

\* The workers run, the 30 s and the keep-alive time pass, and what Stop has begun
\* goes on when it can, in its thread or in the one that listens.  Nothing is
\* assumed of clients, and of Server neither that it reads nor that it answers.
Fairness ==
    /\ \A w \in Worker : WF_vars(ByServer(WorkerStep(w)) \/ PostStep(w) \/ ProviderStep(w))
    /\ WF_vars(StopStep \/ ListenReturns)

FairSpec == Spec /\ Fairness

-----------------------------------------------------------------------------
(* Properties *)

\* Whose answer a request has, if it has any; what Stop releases is no answer.
Given == [p \in Request |-> IF promise[p] = Released THEN NoRequest ELSE promise[p]]

\* What a request has come to, as its client sees it.
Status == [p \in Request |-> IF outcome[p] = "unsent" THEN "new" ELSE outcome[p]]

\* An answer fits every request with its id: that is all the transport looks at.
SameId == [p \in Request |-> {q \in Request : IdOf[q] = IdOf[p]}]

Exchanges == INSTANCE Exchange WITH
    None <- NoRequest, Answers <- SameId, status <- Status, answer <- Given

\* Every request is answered once, by an answer with its id, or fails, and does not
\* stay open; nothing reaches it after its end: what the exchange service promises.
ImplementsExchange == Exchanges!FairSpec

\* Registration: an entry of pending_requests_ belongs to a handler that is still
\* waiting or about to, under its own id, and a handler without an entry has been
\* answered: no entry outlives its handler, no handler waits for nothing.
RegisteredIffWaiting ==
    \A i \in Id : \A p \in Request :
        pending_requests_[i] = p <=>
            /\ IdOf[p] = i /\ promise[p] = NoRequest
            /\ \E w \in Worker : post[w] = p /\ pc[w] \in {"push", "wait", "erase"}

\* Conversations: the answer that a client gets is the one to its own request,
\* although ids may be reused by concurrent clients.
OwnAnswer == \A p \in Request : outcome[p] = "answered" => promise[p] = p

\* Streams get notifications, and of the answers only those whose client has
\* been told that its request failed.
OnlyLateAnswersStream ==
    \A i \in 1 .. Len(sse_notifications_) :
        sse_notifications_[i] # "note" => outcome[sse_notifications_[i]] = "failed"

\* The promises that Stop releases after the join: there is none, because the join
\* waits for the handlers, each of them until its time-out if it has no answer.
NobodyReleased == stop = "joined" => \A i \in Id : pending_requests_[i] = NoRequest

\* Stop comes to an end, although it joins before it releases anybody.
StopReturns == stop = "cleared" ~> stop = "done"

\* However long the queue of connections has become, it gets shorter again, unless
\* streams hold every worker.
QueueMovesOn ==
    jobs_ = MaxJobs ~> jobs_ < MaxJobs \/ \A w \in Worker : pc[w] = "sse"
==============================================================================
