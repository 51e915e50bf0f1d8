------------------------- MODULE StreamableTransport -------------------------
(***************************************************************************)
(* StreamableTransport::Impl: the Streamable HTTP transport and its use by *)
(* Server.  Every HTTP connection is a coroutine on a strand of its own;   *)
(* it routes one request after the other, and a request that needs an      *)
(* answer becomes an exchange, with a ResponseQueue that the worker        *)
(* threads of Server, the writer thread of Server and other connections    *)
(* push messages to.  The maps pending_ and subscriptions_ (one mutex) and *)
(* sessions_ (another one) are what these threads find the queues by.      *)
(*                                                                         *)
(* The timer and the wake-ups of a queue are the subject of ResponseQueue; *)
(* here PopFor is what that module shows it to be: it returns the oldest   *)
(* message, and null only when the queue is empty.                         *)
(***************************************************************************)
EXTENDS Integers, Sequences, FiniteSets

CONSTANTS
    Conn,              \* HTTP connections
    Session,           \* tokens MakeToken can return; a token is never drawn twice
    Topic,             \* what a notification is about
    Filterable,        \* topics a subscription filter can name
    Kinds,             \* requests that occur: a subset of the names in Request
    MaxQueued,         \* kMaxQueuedResponseMessages
    MaxPending,        \* kMaxPendingExchanges
    MaxExchange,       \* bound of the model: exchange ids drawn
    MaxNotes,          \* bound of the model: notifications sent
    NoConn             \* the owner of an exchange that does not exist

Request == {"json", "sse", "initialize", "notification", "listen", "get", "delete"}

ASSUME KindsAssumption  == Kinds \subseteq Request
ASSUME TopicAssumption  == /\ Filterable \subseteq Topic
                           /\ Topic \cap {"reply", "ack"} = {}
ASSUME LimitsAssumption == /\ MaxQueued \in Nat /\ MaxPending \in Nat
                           /\ MaxExchange \in Nat /\ MaxNotes \in Nat

Writer == "writer"                     \* the writer thread of Server

ASSUME ConnAssumption   == NoConn \notin Conn /\ Writer \notin Conn

VARIABLES
    phase,             \* how far Stop has come
    exchange_counter_, \* ids drawn so far
    pc,                \* what the coroutine of a connection is doing
    active_channel_,   \* the exchange it is serving, 0 when none
    routing,           \* what Route carries from one lock to the next
    kind, owner, session_id, filter,   \* of an exchange: fixed once created
    messages_, closed_, cancelled_,    \* its ResponseQueue
    outcome,           \* what its client has been sent
    posted,            \* tasks posted on the strand of a connection
    pending_, subscriptions_,          \* the exchanges registered in the maps
    sessions_,         \* a token: "fresh", "live" or "gone"
    notification_stream,               \* of a session: an exchange, 0 when none
    incoming_,         \* messages for Server; 0 is one without an exchange
    serving,           \* exchanges whose request a worker of Server is handling
    cast,              \* the Broadcast a thread is in
    notes              \* notifications sent so far

exchangeVars == <<kind, owner, session_id, filter>>
channelVars  == <<exchangeVars, routing>>
queueVars    == <<messages_, closed_, outcome>>
mapVars      == <<pending_, subscriptions_, sessions_, notification_stream>>
serverVars   == <<incoming_, serving, notes>>
vars == <<phase, exchange_counter_, pc, active_channel_, channelVars, queueVars,
          cancelled_, posted, mapVars, serverVars, cast>>

Exchange == 1 .. MaxExchange
NoExchange == 0
Caller == Conn \cup {Writer}           \* who calls Broadcast

Message == [from : 0 .. MaxExchange, what : Topic \cup {"reply", "ack"}]
Reply(e)   == [from |-> e, what |-> "reply"]
Ack(e)     == [from |-> e, what |-> "ack"]
IsFinal(m) == m.what = "reply"

Task == [op : {"push"}, to : Exchange, msg : Message] \cup [op : {"close"}, to : Exchange]
PushTask(e, m) == [op |-> "push", to |-> e, msg |-> m]
CloseTask(e)   == [op |-> "close", to |-> e]

\* A POST with an id that is not a subscription is an entry of pending_; its
\* answer is one JSON body or an event stream.
JsonKinds == {"initialize", "json"}
PostKinds == JsonKinds \cup {"sse"}

\* What is known of a request between the look at its session and its place in
\* pending_, and the stream a DELETE has taken off its session.
NotRouting == [kind |-> "none"]
Routing == {NotRouting} \cup [kind : PostKinds, session : SUBSET Session]
                        \cup [kind : {"delete"}, stream : Exchange]

\* Where a coroutine can be: reading a request, inside Route, in PopFor or Broadcast,
\* in a write of WriteSse, in its last ones, past WriteSse or WriteJson, or ended.
Place == {"read", "admit", "test", "push", "close", "ack", "pop", "cast",
          "write", "last", "finish", "gone"}

NoCast == [step |-> "none"]
Cast == {NoCast} \cup [step : {"streams", "push"}, msg : Message, targets : SUBSET Exchange]

ChannelTypes ==
    /\ exchange_counter_ \in 0 .. MaxExchange
    /\ pc \in [Conn -> Place]
    /\ active_channel_ \in [Conn -> 0 .. MaxExchange]
    /\ kind \in [Exchange -> {"none", "initialize", "json", "sse", "listen", "get"}]
    /\ owner \in [Exchange -> Conn \cup {NoConn}]
    /\ session_id \in [Exchange -> SUBSET Session]
    /\ filter \in [Exchange -> SUBSET Filterable]
    /\ routing \in [Conn -> Routing]

QueueTypes ==
    /\ messages_ \in [Exchange -> Seq(Message)]
    /\ closed_ \in [Exchange -> BOOLEAN]
    /\ cancelled_ \in [Exchange -> BOOLEAN]
    /\ outcome \in [Exchange -> {"nothing", "part", "reply", "timeout", "ended"}]
    /\ posted \in [Conn -> Seq(Task)]

MapTypes ==
    /\ pending_ \subseteq Exchange
    /\ subscriptions_ \subseteq Exchange
    /\ sessions_ \in [Session -> {"fresh", "live", "gone"}]
    /\ notification_stream \in [Session -> 0 .. MaxExchange]

ServerTypes ==
    /\ phase \in {"running", "stopping", "cleared", "swept", "stopped"}
    /\ incoming_ \in Seq(0 .. MaxExchange)
    /\ serving \subseteq Exchange
    /\ cast \in [Caller -> Cast]
    /\ notes \in 0 .. MaxNotes

TypeOK == ChannelTypes /\ QueueTypes /\ MapTypes /\ ServerTypes

Init ==
    /\ phase = "running"
    /\ exchange_counter_ = 0
    /\ pc = [c \in Conn |-> "read"]
    /\ active_channel_ = [c \in Conn |-> NoExchange]
    /\ kind = [e \in Exchange |-> "none"]
    /\ owner = [e \in Exchange |-> NoConn]
    /\ session_id = [e \in Exchange |-> {}]
    /\ filter = [e \in Exchange |-> {}]
    /\ routing = [c \in Conn |-> NotRouting]
    /\ messages_ = [e \in Exchange |-> <<>>]
    /\ closed_ = [e \in Exchange |-> FALSE]
    /\ cancelled_ = [e \in Exchange |-> FALSE]
    /\ outcome = [e \in Exchange |-> "nothing"]
    /\ posted = [c \in Conn |-> <<>>]
    /\ pending_ = {}
    /\ subscriptions_ = {}
    /\ sessions_ = [s \in Session |-> "fresh"]
    /\ notification_stream = [s \in Session |-> NoExchange]
    /\ incoming_ = <<>>
    /\ serving = {}
    /\ cast = [k \in Caller |-> NoCast]
    /\ notes = 0

-----------------------------------------------------------------------------
(* Helpers *)

\* The shared pointers to a queue are those of its connection; when the
\* coroutine drops the queue the weak pointers in the maps expire.
Alive(e) == e # NoExchange /\ \E c \in Conn : active_channel_[c] = e

\* ResponseQueue::Push posts a task on the strand of the queue's connection.
Push(e, m) == posted' = [posted EXCEPT ![owner[e]] = Append(@, PushTask(e, m))]

\* ResponseQueue::Close for every queue of a set of live ones: the flag at once,
\* closed_ when the strand runs the task.
Close(queues) ==
    /\ cancelled_' = [e \in Exchange |-> cancelled_[e] \/ e \in queues]
    /\ posted' = [c \in Conn |-> IF active_channel_[c] \in queues
                                 THEN Append(posted[c], CloseTask(active_channel_[c]))
                                 ELSE posted[c]]

\* Mutant: the counter is read before it is incremented.
CreatedBefore == exchange_counter_

\* NextExchangeId and the new ResponseQueue.
Created == exchange_counter_ + 1

DrawId == /\ exchange_counter_ < MaxExchange
          /\ exchange_counter_' = Created

Create(c, k, session, topics) ==
    /\ DrawId
    /\ kind' = [kind EXCEPT ![Created] = k]
    /\ owner' = [owner EXCEPT ![Created] = c]
    /\ session_id' = [session_id EXCEPT ![Created] = session]
    /\ filter' = [filter EXCEPT ![Created] = topics]
    /\ active_channel_' = [active_channel_ EXCEPT ![c] = Created]
    /\ routing' = [routing EXCEPT ![c] = NotRouting]

\* The bound of the model leaves an id for every request that is being routed.
IdLeft == exchange_counter_ + Cardinality({c \in Conn : pc[c] = "admit"}) < MaxExchange

\* The coroutine goes on elsewhere.
Goto(c, place) == pc' = [pc EXCEPT ![c] = place]

LiveSessions == {s \in Session : sessions_[s] = "live"}
Streams      == {notification_stream[s] : s \in LiveSessions}

-----------------------------------------------------------------------------
(* Route: a request has been read on connection c.  A request that is refused *)
(* before anything is changed is a stuttering step; the id that a refused     *)
(* listen or GET may have drawn is not counted, as no id comes twice anyway.  *)
(* Each lock Route takes is a step, and so is the look at running_, which     *)
(* takes none: other threads run between them.                                *)

PendingFull       == Cardinality(pending_) >= MaxPending

SubscriptionsFull == Cardinality(subscriptions_) >= MaxPending

\* A modern request carries no session, a legacy one a session that is live when
\* it is looked up; it may be gone when the request comes to pending_.
RoutePost(c, k, session) ==
    /\ pc[c] = "read" /\ k \in Kinds \cap {"json", "sse"} /\ IdLeft
    /\ session \subseteq LiveSessions /\ Cardinality(session) <= 1
    /\ Goto(c, "admit")
    /\ routing' = [routing EXCEPT ![c] = [kind |-> k, session |-> session]]
    /\ UNCHANGED <<phase, exchange_counter_, active_channel_, exchangeVars,
                   queueVars, cancelled_, posted, mapVars, serverVars, cast>>

\* Legacy initialize: the session exists before the request is admitted.  Its
\* answer is an event stream when the client accepts nothing else.
RouteInitialize(c, s) ==
    /\ pc[c] = "read" /\ "initialize" \in Kinds /\ IdLeft
    /\ sessions_[s] = "fresh"
    /\ sessions_' = [sessions_ EXCEPT ![s] = "live"]
    /\ Goto(c, "admit")
    /\ \E k \in {"initialize"} \cup (Kinds \cap {"sse"}) :
           routing' = [routing EXCEPT ![c] = [kind |-> k, session |-> {s}]]
    /\ UNCHANGED <<phase, exchange_counter_, active_channel_, exchangeVars,
                   queueVars, cancelled_, posted, pending_, subscriptions_,
                   notification_stream, serverVars, cast>>

\* The part of RoutePost that every request with an id comes to: a place in
\* pending_ if there is one, or 503, after the id has been drawn.
Admit(c) ==
    /\ pc[c] = "admit"
    /\ IF PendingFull
       THEN /\ DrawId
            /\ Goto(c, "read")
            /\ routing' = [routing EXCEPT ![c] = NotRouting]
            /\ UNCHANGED <<active_channel_, exchangeVars, pending_>>
       ELSE /\ Create(c, routing[c].kind, routing[c].session, {})
            /\ pending_' = pending_ \cup {Created}
            /\ Goto(c, "test")
    /\ UNCHANGED <<phase, queueVars, cancelled_, posted, subscriptions_, sessions_,
                   notification_stream, serverVars, cast>>

\* A message without an id is queued for Server and answered 202.
RouteNotification(c) ==
    /\ pc[c] = "read" /\ "notification" \in Kinds
    /\ Len(incoming_) < MaxExchange
    /\ Goto(c, "test")
    /\ UNCHANGED <<phase, exchange_counter_, active_channel_, channelVars, queueVars,
                   cancelled_, posted, mapVars, serverVars, cast>>

\* Route has returned: an event stream begins with the write of its header, a
\* JSON answer with PopFor, and one that is immediate with the next request.
Routed(c) == CASE active_channel_[c] = NoExchange -> "read"
               [] active_channel_[c] # NoExchange /\ kind[active_channel_[c]] \in JsonKinds -> "pop"
               [] OTHER -> "write"

\* Mutant: running_ is not looked at.
RunningAnyway == TRUE

Running == phase = "running"

\* Enqueue, before it has the mutex: nothing is queued when running_ is clear.
TestRunning(c) ==
    /\ pc[c] = "test"
    /\ Goto(c, IF Running THEN "push" ELSE Routed(c))
    /\ UNCHANGED <<phase, exchange_counter_, active_channel_, channelVars, queueVars,
                   cancelled_, posted, mapVars, serverVars, cast>>

\* Enqueue under incoming_mutex_, whatever has become of running_.
PushIncoming(c) ==
    /\ pc[c] = "push"
    /\ incoming_' = Append(incoming_, active_channel_[c])
    /\ Goto(c, Routed(c))
    /\ UNCHANGED <<phase, exchange_counter_, active_channel_, channelVars, queueVars,
                   cancelled_, posted, mapVars, serving, notes, cast>>

\* subscriptions/listen, first half: the subscription is in the map, and
\* pending_mutex_ is released.
RouteListen(c, topics) ==
    /\ pc[c] = "read" /\ "listen" \in Kinds /\ IdLeft
    /\ IF SubscriptionsFull
       THEN /\ DrawId
            /\ UNCHANGED <<channelVars, active_channel_, pc, subscriptions_>>
       ELSE /\ Create(c, "listen", {}, topics)
            /\ subscriptions_' = subscriptions_ \cup {Created}
            /\ Goto(c, "ack")
    /\ UNCHANGED <<phase, queueVars, cancelled_, posted, pending_, sessions_,
                   notification_stream, serverVars, cast>>

\* Second half: the acknowledgement is pushed.
PushAck(c) ==
    /\ pc[c] = "ack"
    /\ Push(active_channel_[c], Ack(active_channel_[c]))
    /\ Goto(c, "write")
    /\ UNCHANGED <<phase, exchange_counter_, active_channel_, channelVars, queueVars,
                   cancelled_, mapVars, serverVars, cast>>

\* Mutant: the old stream stays open.
ReplaceStreamOnly(s) ==
    /\ notification_stream' = [notification_stream EXCEPT ![s] = Created]
    /\ UNCHANGED <<cancelled_, posted>>

ReplaceStream(s) ==
    /\ notification_stream' = [notification_stream EXCEPT ![s] = Created]
    /\ Close({e \in {notification_stream[s]} : Alive(e)})

\* A legacy GET replaces the stream of its session and closes the old one.
RouteLegacyGet(c, s) ==
    /\ pc[c] = "read" /\ "get" \in Kinds /\ IdLeft
    /\ sessions_[s] = "live"
    /\ Create(c, "get", {s}, {})
    /\ ReplaceStream(s)
    /\ Goto(c, "write")
    /\ UNCHANGED <<phase, queueVars, pending_, subscriptions_, sessions_, serverVars, cast>>

\* A legacy DELETE takes the session out of the map, and then, with the mutex
\* released, closes the stream the session had.
RouteLegacyDelete(c, s) ==
    /\ pc[c] = "read" /\ "delete" \in Kinds
    /\ sessions_[s] = "live"
    /\ sessions_' = [sessions_ EXCEPT ![s] = "gone"]
    /\ IF Alive(notification_stream[s])
       THEN /\ routing' = [routing EXCEPT ![c] = [kind |-> "delete",
                                                  stream |-> notification_stream[s]]]
            /\ Goto(c, "close")
       ELSE UNCHANGED <<routing, pc>>
    /\ UNCHANGED <<phase, exchange_counter_, active_channel_, exchangeVars,
                   queueVars, cancelled_, posted, pending_, subscriptions_,
                   notification_stream, serverVars, cast>>

CloseDeleted(c) ==
    /\ pc[c] = "close"
    /\ Close({e \in {routing[c].stream} : Alive(e)})
    /\ routing' = [routing EXCEPT ![c] = NotRouting]
    /\ Goto(c, "read")
    /\ UNCHANGED <<phase, exchange_counter_, active_channel_, exchangeVars,
                   queueVars, mapVars, serverVars, cast>>

\* End of stream, a read error, 30 seconds without a request.
ReadEnds(c) ==
    /\ pc[c] = "read"
    /\ Goto(c, "gone")
    /\ UNCHANGED <<phase, exchange_counter_, active_channel_, channelVars, queueVars,
                   cancelled_, posted, mapVars, serverVars, cast>>

Route(c) ==
    \/ \E k \in {"json", "sse"}, session \in {{}} \cup {{s} : s \in Session} :
           RoutePost(c, k, session)
    \/ \E s \in Session : \/ RouteInitialize(c, s)
                          \/ RouteLegacyGet(c, s)
                          \/ RouteLegacyDelete(c, s)
    \/ RouteNotification(c)
    \/ \E topics \in SUBSET Filterable : RouteListen(c, topics)
    \/ ReadEnds(c)

\* The rest of Route, which no other part of the coroutine interrupts.
RouteGoesOn(c) ==
    Admit(c) \/ TestRunning(c) \/ PushIncoming(c) \/ PushAck(c) \/ CloseDeleted(c)

-----------------------------------------------------------------------------
(* Broadcast, in the thread k that calls it: the targets are collected under  *)
(* pending_mutex_, then under session_mutex_, and pushed to with no mutex     *)
(* held, in the order of no particular map.                                   *)

\* Mutant: the filter is not looked at.
BeginUnfiltered(k, m) ==
    cast' = [cast EXCEPT ![k] =
                [step |-> "streams", msg |-> m, targets |-> {e \in subscriptions_ : Alive(e)}]]

BeginCast(k, m) ==
    cast' = [cast EXCEPT ![k] =
                [step |-> "streams", msg |-> m,
                 targets |-> {e \in subscriptions_ : Alive(e) /\ m.what \in filter[e]}]]

StreamTargets == {e \in Streams : Alive(e)}

CollectStreams(k) ==
    /\ cast[k].step = "streams"
    /\ cast' = [cast EXCEPT ![k] = [step |-> "push", msg |-> @.msg,
                                    targets |-> @.targets \cup StreamTargets]]
    /\ UNCHANGED <<phase, exchange_counter_, pc, active_channel_, channelVars, queueVars,
                   cancelled_, posted, mapVars, serverVars>>

PushTarget(k) ==
    /\ cast[k].step = "push"
    /\ \E e \in cast[k].targets :
          /\ Push(e, cast[k].msg)
          /\ cast' = [cast EXCEPT ![k] = [step |-> "push", msg |-> @.msg,
                                          targets |-> @.targets \ {e}]]
    /\ UNCHANGED <<phase, exchange_counter_, pc, active_channel_, channelVars, queueVars,
                   cancelled_, mapVars, serverVars>>

\* Every target has its message: WriteJson goes on with PopFor, the writer
\* thread of Server with its queue.
EndCast(k) ==
    /\ cast[k].step = "push" /\ cast[k].targets = {}
    /\ cast' = [cast EXCEPT ![k] = NoCast]
    /\ pc' = IF k \in Conn THEN [pc EXCEPT ![k] = "pop"] ELSE pc
    /\ UNCHANGED <<phase, exchange_counter_, active_channel_, channelVars, queueVars,
                   cancelled_, posted, mapVars, serverVars>>

CastStep(k) == CollectStreams(k) \/ PushTarget(k) \/ EndCast(k)

-----------------------------------------------------------------------------
(* The strand of connection c: the tasks posted on it, and its coroutine.     *)
(* They run one at a time, and not after ioc_.stop().                         *)

\* The coroutine is in the middle of Route or of a Broadcast, not at a co_await.
Busy(c) == pc[c] \in {"admit", "test", "push", "close", "ack", "cast"}

StrandFree(c) == phase # "stopped" /\ ~Busy(c)

RunTask(c) ==
    /\ StrandFree(c) /\ posted[c] # <<>>
    /\ posted' = [posted EXCEPT ![c] = Tail(@)]
    /\ LET task == Head(posted[c])  e == Head(posted[c]).to IN
       \/ /\ task.op = "push" /\ ~closed_[e] /\ Len(messages_[e]) < MaxQueued
          /\ messages_' = [messages_ EXCEPT ![e] = Append(@, task.msg)]
          /\ UNCHANGED <<closed_, cancelled_>>
       \/ /\ task.op = "push" /\ ~closed_[e] /\ Len(messages_[e]) >= MaxQueued
          /\ closed_' = [closed_ EXCEPT ![e] = TRUE]
          /\ cancelled_' = [cancelled_ EXCEPT ![e] = TRUE]
          /\ UNCHANGED messages_
       \/ /\ task.op = "push" /\ closed_[e]
          /\ UNCHANGED <<messages_, closed_, cancelled_>>
       \/ /\ task.op = "close"
          /\ closed_' = [closed_ EXCEPT ![e] = TRUE]
          /\ UNCHANGED <<messages_, cancelled_>>
    /\ UNCHANGED <<phase, exchange_counter_, pc, active_channel_, channelVars, outcome,
                   mapVars, serverVars, cast>>

\* The coroutine stops waiting for e: what its client got, and on to the end, for
\* an event stream by way of its last writes.
EndExchange(c, e, result) ==
    /\ outcome' = [outcome EXCEPT ![e] = result]
    /\ Goto(c, IF kind[e] \in JsonKinds THEN "finish" ELSE "last")

Popping(c) == phase # "stopped" /\ pc[c] = "pop"

\* PopFor returns a message.  The final one is the answer; WriteSse writes any
\* other one to its client, WriteJson broadcasts it.
TakeMessage(c) ==
    LET e == active_channel_[c]  m == Head(messages_[active_channel_[c]]) IN
    /\ Popping(c) /\ messages_[e] # <<>>
    /\ messages_' = [messages_ EXCEPT ![e] = Tail(@)]
    /\ \/ IsFinal(m) /\ EndExchange(c, e, "reply") /\ UNCHANGED cast
       \/ /\ ~IsFinal(m) /\ kind[e] \in JsonKinds
          /\ BeginCast(c, m)
          /\ Goto(c, "cast")
          /\ UNCHANGED outcome
       \/ /\ ~IsFinal(m) /\ kind[e] \notin JsonKinds
          /\ outcome' = [outcome EXCEPT ![e] = "part"]
          /\ Goto(c, "write")
          /\ UNCHANGED cast
    /\ UNCHANGED <<phase, exchange_counter_, active_channel_, channelVars, closed_,
                   cancelled_, posted, mapVars, serverVars>>

\* Mutant: a JSON answer is waited for until the queue is closed.
NullEndsClosed(e) == closed_[e]

\* Null ends WriteJson whatever the reason, WriteSse only when Closed().
NullEnds(e) == kind[e] \in JsonKinds \/ closed_[e]

\* PopFor returns null: after kRequestTimeout or a Close, WriteJson answers 504;
\* WriteSse writes a keep-alive unless the queue is closed.
TakeNull(c) ==
    LET e == active_channel_[c] IN
    /\ Popping(c) /\ messages_[e] = <<>>
    /\ IF NullEnds(e)
       THEN EndExchange(c, e, IF kind[e] \in JsonKinds THEN "timeout" ELSE "ended")
       ELSE Goto(c, "write") /\ UNCHANGED outcome
    /\ UNCHANGED <<phase, exchange_counter_, active_channel_, channelVars, messages_,
                   closed_, cancelled_, posted, mapVars, serverVars, cast>>

\* WriteSse stops at its deadline, with messages in the queue or not, unless the
\* stream is long-lived.
Deadline(c) ==
    LET e == active_channel_[c] IN
    /\ Popping(c) /\ kind[e] = "sse"
    /\ EndExchange(c, e, "ended")
    /\ UNCHANGED <<phase, exchange_counter_, active_channel_, channelVars, messages_,
                   closed_, cancelled_, posted, mapVars, serverVars, cast>>

\* A write of WriteSse has no time-out.  It ends when the client has read enough,
\* or with an error, which ends the stream; Stop abandons it.
Written(c) ==
    /\ phase # "stopped"
    /\ \/ pc[c] = "write" /\ Goto(c, "pop")
       \/ pc[c] = "last" /\ Goto(c, "finish")
    /\ UNCHANGED <<phase, exchange_counter_, active_channel_, channelVars, queueVars,
                   cancelled_, posted, mapVars, serverVars, cast>>

WriteFails(c) ==
    /\ phase # "stopped" /\ pc[c] = "write"
    /\ outcome' = [outcome EXCEPT ![active_channel_[c]] = "ended"]
    /\ Goto(c, "finish")
    /\ UNCHANGED <<phase, exchange_counter_, active_channel_, channelVars, messages_,
                   closed_, cancelled_, posted, mapVars, serverVars, cast>>

\* Mutant: the entry of the other map is left.
UnregisterPending(e) == pending_' = pending_ \ {e} /\ UNCHANGED subscriptions_

Unregister(e) == /\ pending_' = pending_ \ {e}
                 /\ subscriptions_' = subscriptions_ \ {e}

\* Unregister and Close; a JSON connection is used again if it is kept alive.
Finish(c) ==
    LET e == active_channel_[c] IN
    /\ phase # "stopped" /\ pc[c] = "finish"
    /\ Unregister(e)
    /\ Close({e})
    /\ active_channel_' = [active_channel_ EXCEPT ![c] = NoExchange]
    /\ \/ kind[e] \in JsonKinds /\ Goto(c, "read")
       \/ Goto(c, "gone")
    /\ UNCHANGED <<phase, exchange_counter_, channelVars, queueVars, sessions_,
                   notification_stream, serverVars, cast>>

-----------------------------------------------------------------------------
(* Server: the loop of Connect, the workers, the writer thread.               *)

\* Mutant: the message stays in the queue.
PopNothing == UNCHANGED incoming_

PopIncoming == incoming_' = Tail(incoming_)

Serve(e) == serving' = IF e # NoExchange /\ ~cancelled_[e] THEN serving \cup {e} ELSE serving

\* ReadMessage, and the start of ProcessMessage, which drops a request whose
\* exchange is over already.
ReadMessage ==
    /\ incoming_ # <<>>
    /\ PopIncoming
    /\ Serve(Head(incoming_))
    /\ UNCHANGED <<phase, exchange_counter_, pc, active_channel_, channelVars, queueVars,
                   cancelled_, posted, mapVars, notes, cast>>

\* Mutant: the queue is looked up by the connection of the exchange.
WriteToConnection(e, m) ==
    IF active_channel_[owner[e]] \in pending_ THEN Push(active_channel_[owner[e]], m)
                                              ELSE UNCHANGED posted

\* WriteMessage with an exchange id: pushed if the exchange is still registered.  The
\* push comes after the mutex is released; one that comes after the Close of its
\* queue is dropped on the strand, as if the exchange had not been found, so the
\* two are one step.
WriteMessage(e, m) ==
    IF e \in pending_ /\ Alive(e) THEN Push(e, m) ELSE UNCHANGED posted

\* A notification sent by a handler belongs to the request it handles; the
\* handler of initialize sends none.
HandlerNotifies(e, what) ==
    /\ e \in serving /\ kind[e] # "initialize" /\ notes < MaxNotes
    /\ notes' = notes + 1
    /\ WriteMessage(e, [from |-> e, what |-> what])
    /\ UNCHANGED <<phase, exchange_counter_, pc, active_channel_, channelVars, queueVars,
                   cancelled_, mapVars, incoming_, serving, cast>>

\* Mutant: the handler goes on after its response.
StayServing(e) == UNCHANGED serving

LeaveServing(e) == serving' = serving \ {e}

\* The handler returns: its response is the final message, unless the exchange
\* has been cancelled, or there is no response (the handler threw).
HandlerReturns(e) ==
    /\ e \in serving
    /\ LeaveServing(e)
    /\ \/ ~cancelled_[e] /\ WriteMessage(e, Reply(e))
       \/ UNCHANGED posted
    /\ UNCHANGED <<phase, exchange_counter_, pc, active_channel_, channelVars, queueVars,
                   cancelled_, mapVars, incoming_, notes, cast>>

\* WriterLoop: a notification that belongs to no request.
WriterBroadcasts(what) ==
    /\ cast[Writer] = NoCast /\ notes < MaxNotes
    /\ notes' = notes + 1
    /\ BeginCast(Writer, [from |-> NoExchange, what |-> what])
    /\ UNCHANGED <<phase, exchange_counter_, pc, active_channel_, channelVars, queueVars,
                   cancelled_, posted, mapVars, incoming_, serving>>

-----------------------------------------------------------------------------
(* Stop, in the thread that calls it, while all others go on.                 *)

StopRunning ==
    /\ phase = "running" /\ phase' = "stopping"
    /\ UNCHANGED <<exchange_counter_, pc, active_channel_, channelVars, queueVars,
                   cancelled_, posted, mapVars, serverVars, cast>>

StopRegistered ==
    /\ phase = "stopping" /\ phase' = "cleared"
    /\ Close({e \in pending_ \cup subscriptions_ : Alive(e)})
    /\ pending_' = {} /\ subscriptions_' = {}
    /\ UNCHANGED <<exchange_counter_, pc, active_channel_, channelVars, queueVars,
                   sessions_, notification_stream, serverVars, cast>>

StopSessions ==
    /\ phase = "cleared" /\ phase' = "swept"
    /\ Close(StreamTargets)
    /\ sessions_' = [s \in Session |-> IF sessions_[s] = "live" THEN "gone" ELSE sessions_[s]]
    /\ UNCHANGED <<exchange_counter_, pc, active_channel_, channelVars, queueVars,
                   pending_, subscriptions_, notification_stream, serverVars, cast>>

\* ioc_.stop() and join: a coroutine in the middle of Route or of a Broadcast comes
\* to the end of it, one that waits, for a message or for a write, is left there.
StopThreads ==
    /\ phase = "swept" /\ phase' = "stopped"
    /\ \A c \in Conn : ~Busy(c)
    /\ UNCHANGED <<exchange_counter_, pc, active_channel_, channelVars, queueVars,
                   cancelled_, posted, mapVars, serverVars, cast>>

Stop == StopRunning \/ StopRegistered \/ StopSessions \/ StopThreads

-----------------------------------------------------------------------------
Coroutine(c) == RouteGoesOn(c) \/ TakeMessage(c) \/ TakeNull(c) \/ Finish(c)

WriteEnds(c) == Written(c) \/ WriteFails(c)

Next ==
    \/ \E c \in Conn : \/ phase # "stopped" /\ Route(c)
                       \/ Coroutine(c)
                       \/ Deadline(c)
                       \/ WriteEnds(c)
                       \/ RunTask(c)
    \/ \E k \in Caller : CastStep(k)
    \/ ReadMessage
    \/ \E e \in Exchange : HandlerReturns(e) \/ \E what \in Topic : HandlerNotifies(e, what)
    \/ \E what \in Topic : WriterBroadcasts(what)
    \/ Stop

Spec == Init /\ [][Next]_vars

\* The io threads run what is ready on every strand, Route and Broadcast are
\* straight-line code, timers expire.  The deadline of a stream is tested each time
\* its loop comes round, between two writes, so it is strong fairness that says the
\* clock goes on.  A JSON response is written under the deadline of its connection;
\* WriteJson waits another 60 seconds after each notification, so that it comes to
\* an end rests on handlers that send finitely many of them (MaxNotes).
Fairness ==
    /\ \A c \in Conn : WF_vars(Coroutine(c)) /\ SF_vars(Deadline(c)) /\ WF_vars(RunTask(c))
    /\ \A k \in Caller : WF_vars(CastStep(k))

\* What the code does not see to: WriteSse writes without a time-out, so a client
\* has to read what it is sent, or break its connection.
ClientsRead == \A c \in Conn : WF_vars(WriteEnds(c))

FairSpec == Spec /\ Fairness /\ ClientsRead

-----------------------------------------------------------------------------
(* Properties *)

Tasks(c)  == {posted[c][i] : i \in 1 .. Len(posted[c])}
Queued(e) == {messages_[e][i] : i \in 1 .. Len(messages_[e])}

\* The messages on their way to exchange e, on the strand or in its queue.
Coming(e) == Queued(e) \cup {t.msg : t \in {u \in UNION {Tasks(c) : c \in Conn} :
                                             u.op = "push" /\ u.to = e}}

\* Isolation: a POST gets nothing but what was written for its own exchange, also
\* when its connection is used again after a time-out and the late answer of the
\* exchange before it is still on the way.
PostIsolated ==
    \A e \in Exchange : kind[e] \in PostKinds =>
        \A m \in Coming(e) : m.from = e

\* Filtering: a subscription gets its acknowledgement and what its filter names,
\* whoever broadcasts, and never an answer.
FilterRespected ==
    \A e \in Exchange : kind[e] = "listen" =>
        \A m \in Coming(e) : m = Ack(e) \/ m.what \in filter[e]

\* What crosses from one exchange to another: a stream, of a subscription or of a
\* session, gets no answer, and of what belongs to requests only notifications of
\* POSTs that are answered with JSON (WriteJson:289); those of a POST that is
\* answered with an event stream go nowhere else.
OnlyJsonCrosses ==
    \A e \in Exchange : kind[e] \in {"listen", "get"} =>
        \A m \in Coming(e) :
            /\ ~IsFinal(m)
            /\ m.from \notin {NoExchange, e} => kind[m.from] = "json"

\* One answer: at any time at most one thing can still answer a request or has
\* done so: its message for Server, the worker that handles it, the final message
\* on its way, the answer its client has.
AnswerTokens(e) ==
      Cardinality({i \in 1 .. Len(incoming_) : incoming_[i] = e})
    + Cardinality({x \in serving : x = e})
    + Cardinality({i \in 1 .. Len(messages_[e]) : IsFinal(messages_[e][i])})
    + Cardinality(UNION {{<<c, i>> : i \in {j \in 1 .. Len(posted[c]) :
                             posted[c][j] = PushTask(e, Reply(e))}} : c \in Conn})
    + IF outcome[e] = "reply" THEN 1 ELSE 0

AnsweredOnce == \A e \in Exchange : AnswerTokens(e) <= 1

\* Registration: while the transport runs, pending_ and subscriptions_ hold
\* exactly the exchanges that a coroutine is still serving: an answer finds its
\* way until the end, and no entry is left behind.
RegisteredIffServed ==
    phase = "running" =>
        /\ pending_ = {e \in Exchange : kind[e] \in PostKinds /\ Alive(e)}
        /\ subscriptions_ = {e \in Exchange : kind[e] = "listen" /\ Alive(e)}

\* Limits on what clients can make the transport hold.
Bounded == /\ Cardinality(pending_) <= MaxPending
           /\ Cardinality(subscriptions_) <= MaxPending
           /\ \A e \in Exchange : Len(messages_[e]) <= MaxQueued

\* One stream per session: a GET stream that has not been told to close is the
\* current stream of a session that exists, or a DELETE has taken that session out
\* of the map and is about to close the stream (RouteLegacyGet:735-746,
\* RouteLegacyDelete:758-769).
OneStreamPerSession ==
    \A e \in Exchange : kind[e] = "get" /\ Alive(e) /\ ~cancelled_[e] =>
        \/ \E s \in LiveSessions : s \in session_id[e] /\ notification_stream[s] = e
        \/ \E c \in Conn : pc[c] = "close" /\ routing[c].stream = e

\* Cancellation: an exchange nobody serves any more, or whose queue takes no more
\* messages, is marked so that its worker does not answer.
OverIsCancelled ==
    \A e \in Exchange :
        closed_[e] \/ (kind[e] # "none" /\ ~Alive(e)) => cancelled_[e]

\* Stop reaches the workers: once the registered exchanges have been cleared, no
\* request that Server holds or will read is still answerable, not even one that
\* had passed the test of running_ before Stop and is queued after it
\* (RoutePost:703-714, Enqueue:929-932, Stop:431-440).
StopReachesWorkers ==
    phase \notin {"running", "stopping"} =>
        \A e \in serving \cup {incoming_[i] : i \in 1 .. Len(incoming_)}
                        \cup {active_channel_[c] : c \in {d \in Conn : pc[d] = "push"}} :
            e # NoExchange => cancelled_[e]

\* The answer comes last: once the final message of a request is on its way no
\* notification of that request is behind it, on the strand or in the queue.
ReplyIsLast ==
    \A e \in Exchange : kind[e] \in PostKinds =>
        /\ \A i \in 1 .. Len(messages_[e]) : IsFinal(messages_[e][i]) =>
               i = Len(messages_[e]) /\ \A m \in Coming(e) : m \in Queued(e)
        /\ \A i, j \in 1 .. Len(posted[owner[e]]) :
               posted[owner[e]][i] = PushTask(e, Reply(e)) /\ i < j
                   /\ posted[owner[e]][j].to = e => posted[owner[e]][j] = CloseTask(e)
        /\ outcome[e] = "reply" => Coming(e) = {}

\* What a request has come to: Stop ends those that are open, as nothing is written
\* after it.
Status == [e \in Exchange |->
    CASE kind[e] \notin PostKinds -> "new"
      [] kind[e] \in PostKinds /\ outcome[e] = "reply" -> "answered"
      [] kind[e] \in PostKinds /\ outcome[e] \in {"nothing", "part"} /\ phase # "stopped" -> "open"
      [] OTHER -> "failed"]

\* Whose answer has come for it: the one its client has, or the one in its queue.
Given == [e \in Exchange |->
    CASE Status[e] = "answered" -> e
      [] Status[e] = "open" /\ (\E m \in Queued(e) : IsFinal(m)) ->
             (CHOOSE m \in Queued(e) : IsFinal(m)).from
      [] OTHER -> NoExchange]

Exchanges == INSTANCE Exchange WITH
    Request <- Exchange, None <- NoExchange, Answers <- [e \in Exchange |-> {e}],
    status <- Status, answer <- Given

\* Every request is answered once, by its own answer, or fails, and, if its client
\* reads what it is sent (ClientsRead), does not stay open; what comes after its
\* end does not reach it, although its connection may be serving the next exchange
\* by then.
ImplementsExchange == Exchanges!FairSpec

\* "subscriptions/listen ... first sends the acknowledged notification":
\* docs, section 3.2.
AckFirst ==
    [][\A e \in Exchange : kind[e] = "listen" /\ outcome[e] = "nothing" /\ outcome'[e] = "part"
           => Head(messages_[e]) = Ack(e)]_vars

\* "Different sessions and different HTTP exchanges are completely isolated":
\* docs, section 4: the stream of a session gets no message of a request that
\* belongs to another session.
SessionsIsolated ==
    \A e \in Exchange : kind[e] = "get" =>
        \A m \in Coming(e) :
            m.from # NoExchange /\ session_id[m.from] # {} => session_id[m.from] = session_id[e]
==============================================================================
