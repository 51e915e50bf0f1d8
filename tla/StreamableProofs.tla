-------------------------- MODULE StreamableProofs --------------------------
(***************************************************************************)
(* Safety of StreamableTransport for any connections, sessions and topics, *)
(* any limits, and any number of exchanges and notifications.              *)
(***************************************************************************)
EXTENDS StreamableTransport, FiniteSetTheorems, TLAPS

(***************************************************************************)
(* What the proofs rest on.                                                *)
(***************************************************************************)

\* A coroutine has an exchange from the time it is created until the end of WriteSse
\* or WriteJson, and only a notification comes to Enqueue without one.
Placed(c) ==
    /\ pc[c] \in {"read", "admit", "close", "gone"} => active_channel_[c] = NoExchange
    /\ active_channel_[c] = NoExchange =>
           pc[c] \in {"read", "admit", "test", "push", "close", "gone"}
    /\ pc[c] = "admit" => routing[c] \in [kind : PostKinds, session : SUBSET Session]
    /\ pc[c] = "close" => routing[c] \in [kind : {"delete"}, stream : Exchange]
    /\ pc[c] \in {"test", "push"} /\ active_channel_[c] # NoExchange =>
           kind[active_channel_[c]] \in PostKinds
    /\ pc[c] = "ack" => kind[active_channel_[c]] = "listen"
    /\ pc[c] = "cast" => kind[active_channel_[c]] \in JsonKinds
    /\ cast[c].step # "none" => pc[c] = "cast"

\* An exchange that a coroutine serves is one that its connection has created.
ChannelInv ==
    /\ \A e \in Exchange : kind[e] # "none" => e <= exchange_counter_ /\ owner[e] \in Conn
    /\ \A c \in Conn : active_channel_[c] # NoExchange =>
           kind[active_channel_[c]] # "none" /\ owner[active_channel_[c]] = c
    /\ \A c \in Conn : Placed(c)

Typed == TypeOK /\ ChannelInv

\* A message of no request, or of a POST that is answered with JSON.
Public(m) == m.from = NoExchange \/ (m.from \in Exchange /\ kind[m.from] = "json")

\* What may be on its way to exchange e: a POST gets its own, and nothing but its
\* answer if it is an initialize; a subscription gets what it has asked for, a
\* stream what may be told to others, and only a POST is answered.
Legal(e, m) ==
    /\ kind[e] \in PostKinds => m.from = e
    /\ kind[e] = "initialize" => IsFinal(m)
    /\ kind[e] = "listen" => m = Ack(e) \/ m.what \in filter[e]
    /\ kind[e] \notin PostKinds => ~IsFinal(m) /\ (m.from = e \/ Public(m))

\* A Broadcast under way has no answer and nothing private, and targets that may
\* get its message.
CastInv ==
    \A k \in Caller : cast[k].step # "none" =>
        /\ ~IsFinal(cast[k].msg) /\ Public(cast[k].msg)
        /\ \A e \in cast[k].targets :
               kind[e] = "get" \/ (kind[e] = "listen" /\ cast[k].msg.what \in filter[e])

\* What waits on a strand is for an exchange of its connection; whoever posts a
\* Close has set the flag.
Fitting(c, t) ==
    /\ kind[t.to] # "none" /\ owner[t.to] = c
    /\ t.op = "push" => Legal(t.to, t.msg)
    /\ t.op = "close" => cancelled_[t.to]

PostedInv ==
    /\ \A c \in Conn : \A i \in 1 .. Len(posted[c]) : Fitting(c, posted[c][i])
    /\ \A e \in Exchange : \A i \in 1 .. Len(messages_[e]) :
           kind[e] # "none" /\ Legal(e, messages_[e][i])

\* The maps hold exchanges that are served, all of them until Stop; Server gets
\* the requests of POSTs.
MapInv ==
    /\ \A e \in pending_ : kind[e] \in PostKinds /\ Alive(e)
    /\ \A e \in subscriptions_ : kind[e] = "listen" /\ Alive(e)
    /\ phase \in {"running", "stopping"} => \A e \in Exchange : Alive(e) =>
           /\ kind[e] \in PostKinds => e \in pending_
           /\ kind[e] = "listen" => e \in subscriptions_
    /\ \A s \in Session : notification_stream[s] # NoExchange =>
           kind[notification_stream[s]] = "get"
    /\ \A i \in 1 .. Len(incoming_) : incoming_[i] # NoExchange =>
           kind[incoming_[i]] \in PostKinds
    /\ \A e \in serving : kind[e] \in PostKinds

\* An answer of e on a strand or in its queue, and a message for it on a strand.
AnswerPosted(e, c, i) == posted[c][i] = PushTask(e, Reply(e))
PushPosted(e, c, i)   == posted[c][i].op = "push" /\ posted[c][i].to = e
AnswerQueued(e, i)    == IsFinal(messages_[e][i])

Unanswered(e) ==
    /\ \A i \in 1 .. Len(messages_[e]) : ~AnswerQueued(e, i)
    /\ \A c \in Conn : \A i \in 1 .. Len(posted[c]) : ~AnswerPosted(e, c, i)
    /\ outcome[e] # "reply"

\* The request is on its way to Server: its coroutine is in Enqueue, or it is queued.
Unsent(e)    == \E c \in Conn : pc[c] \in {"test", "push"} /\ active_channel_[c] = e
Requested(e) == \E i \in 1 .. Len(incoming_) : incoming_[i] = e

\* The request of a POST is for Server, in process, or answered, and the answer is
\* the last of its messages on the strand, then in the queue, then at the client.
OneAnswer(e) ==
    /\ Unsent(e) => ~Requested(e)
    /\ \A i, j \in 1 .. Len(incoming_) : incoming_[i] = e /\ incoming_[j] = e => i = j
    /\ Unsent(e) \/ Requested(e) => e \notin serving /\ Unanswered(e)
    /\ e \in serving => Unanswered(e)
    /\ \A i \in 1 .. Len(messages_[e]) : AnswerQueued(e, i) =>
           /\ i = Len(messages_[e]) /\ outcome[e] # "reply"
           /\ \A c \in Conn : \A j \in 1 .. Len(posted[c]) : ~PushPosted(e, c, j)
    /\ \A c \in Conn : \A i \in 1 .. Len(posted[c]) : AnswerPosted(e, c, i) =>
           /\ outcome[e] # "reply"
           /\ \A j \in 1 .. Len(posted[c]) : i < j => ~PushPosted(e, c, j)
    /\ outcome[e] = "reply" =>
           /\ Len(messages_[e]) = 0
           /\ \A c \in Conn : \A j \in 1 .. Len(posted[c]) : ~PushPosted(e, c, j)

AnswerInv ==
    /\ \A e \in Exchange : kind[e] = "none" => outcome[e] = "nothing"
    /\ \A e \in Exchange : kind[e] \in PostKinds => OneAnswer(e)

IInv == /\ ChannelInv /\ CastInv /\ PostedInv /\ MapInv /\ AnswerInv
        /\ Bounded /\ OverIsCancelled /\ StopReachesWorkers /\ OneStreamPerSession

USE KindsAssumption, TopicAssumption, LimitsAssumption, ConnAssumption
USE DEF Place, Goto, channelVars, exchangeVars

(***************************************************************************)
(* Types.                                                                  *)
(***************************************************************************)

\* A new exchange, or the id of a refused one, leaves the types of the channels.
LEMMA DrawTypes ==
    ASSUME ChannelTypes, DrawId
    PROVE  exchange_counter_' \in 0 .. MaxExchange /\ Created \in Exchange
BY DEF ChannelTypes, DrawId, Created, Exchange

LEMMA CreateTypes ==
    ASSUME ChannelTypes, NEW c \in Conn, NEW k \in {"initialize", "json", "sse", "listen", "get"},
           NEW session \in SUBSET Session, NEW topics \in SUBSET Filterable,
           Create(c, k, session, topics), NEW q \in Place, Goto(c, q)
    PROVE  ChannelTypes'
<1>1. exchange_counter_' \in 0 .. MaxExchange /\ Created \in Exchange
  BY DrawTypes DEF Create
<1>2. Created \in 0 .. MaxExchange
  BY <1>1 DEF Exchange
<1>3. pc' \in [Conn -> Place] /\ routing' \in [Conn -> Routing]
  BY DEF ChannelTypes, Create, Routing
<1>4. kind' \in [Exchange -> {"none", "initialize", "json", "sse", "listen", "get"}]
  BY DEF ChannelTypes, Create
<1>5. active_channel_' \in [Conn -> 0 .. MaxExchange]
  BY <1>2 DEF ChannelTypes, Create
<1>6. /\ owner' \in [Exchange -> Conn \cup {NoConn}]
      /\ session_id' \in [Exchange -> SUBSET Session]
      /\ filter' \in [Exchange -> SUBSET Filterable]
  BY DEF ChannelTypes, Create
<1> QED  BY <1>1, <1>3, <1>4, <1>5, <1>6 DEF ChannelTypes

\* Messages and tasks.
LEMMA Letters ==
    /\ \A e \in Exchange : Reply(e) \in Message /\ Ack(e) \in Message
    /\ \A e \in 0 .. MaxExchange, what \in Topic : [from |-> e, what |-> what] \in Message
    /\ \A e \in Exchange, m \in Message : PushTask(e, m) \in Task
    /\ \A e \in Exchange : CloseTask(e) \in Task
    /\ \A t \in Task : t.to \in Exchange /\ t.op \in {"push", "close"}
    /\ \A t \in Task : t.op = "push" => t.msg \in Message
    /\ \A k \in Cast : k.step # "none" => k.msg \in Message /\ k.targets \in SUBSET Exchange
BY DEF Reply, Ack, Message, Exchange, PushTask, CloseTask, Task, Cast, NoCast

\* Push and Close keep the types.
LEMMA PushTypes ==
    ASSUME posted \in [Conn -> Seq(Task)], NEW e \in Exchange, NEW m \in Message, Push(e, m)
    PROVE  posted' \in [Conn -> Seq(Task)]
<1>1. PushTask(e, m) \in Task
  BY Letters
<1>2. \A c \in Conn : Append(posted[c], PushTask(e, m)) \in Seq(Task)
  BY <1>1
<1> QED  BY <1>2 DEF Push

LEMMA CloseTypes ==
    ASSUME QueueTypes, active_channel_ \in [Conn -> 0 .. MaxExchange],
           NEW Q \in SUBSET Exchange, Close(Q)
    PROVE  /\ posted' \in [Conn -> Seq(Task)]
           /\ cancelled_' \in [Exchange -> BOOLEAN]
<1>1. \A e \in Exchange : CloseTask(e) \in Task
  BY Letters
<1>2. posted' \in [Conn -> Seq(Task)]
  BY <1>1 DEF QueueTypes, Close
<1>3. cancelled_' = [e \in Exchange |-> cancelled_[e] \/ e \in Q]
  BY DEF Close
<1>4. cancelled_' \in [Exchange -> BOOLEAN]
  BY <1>3
<1> QED  BY <1>2, <1>4

(***************************************************************************)
(* Types and the exchanges that are served.                                *)
(***************************************************************************)

LEMMA CreateChannel ==
    ASSUME Typed, NEW c \in Conn, pc[c] \in {"read", "admit"},
           NEW k \in {"initialize", "json", "sse", "listen", "get"},
           NEW session \in SUBSET Session, NEW topics \in SUBSET Filterable,
           Create(c, k, session, topics), NEW q \in {"test", "ack", "write"}, Goto(c, q),
           q = "ack" => k = "listen", q = "test" => k \in PostKinds, UNCHANGED cast
    PROVE  ChannelTypes' /\ ChannelInv'
<1> USE DEF Typed, TypeOK
<1>1. ChannelTypes'
  BY CreateTypes
<1>2. Created \in Exchange /\ exchange_counter_' = Created /\ Created # NoExchange
  BY DrawTypes DEF Create, DrawId, Exchange, NoExchange
<1>3. kind[Created] = "none"
  <2>1. exchange_counter_ \in Nat /\ Created = exchange_counter_ + 1
    BY DEF ChannelTypes, Created
  <2>2. ~(Created <= exchange_counter_)
    BY <2>1
  <2> QED  BY <1>2, <2>2 DEF ChannelInv
<1>4. /\ \A e \in Exchange \ {Created} : kind'[e] = kind[e] /\ owner'[e] = owner[e]
      /\ kind'[Created] = k /\ owner'[Created] = c
  BY <1>2 DEF Create, ChannelTypes
<1>5. /\ \A d \in Conn \ {c} : active_channel_'[d] = active_channel_[d] /\ pc'[d] = pc[d]
      /\ active_channel_'[c] = Created /\ pc'[c] = q
      /\ \A d \in Conn \ {c} : routing'[d] = routing[d]
  BY DEF Create, ChannelTypes
<1>6. \A d \in Conn : active_channel_[d] # Created
  BY <1>2, <1>3 DEF ChannelInv
<1>7. \A d \in Conn : active_channel_[d] # NoExchange => active_channel_[d] \in Exchange
  BY DEF ChannelTypes, Exchange, NoExchange
<1>8. \A e \in Exchange : kind'[e] # "none" => e <= exchange_counter_' /\ owner'[e] \in Conn
  <2>1. exchange_counter_ \in Nat /\ Created = exchange_counter_ + 1
    BY DEF ChannelTypes, Created
  <2>2. \A e \in Exchange : e <= exchange_counter_ => e <= Created
    BY <2>1 DEF Exchange
  <2>3. Created <= exchange_counter_'
    BY <1>2, <2>1
  <2> QED  BY <1>2, <1>4, <2>2, <2>3 DEF ChannelInv
<1>9. \A d \in Conn : /\ active_channel_'[d] # NoExchange =>
                            kind'[active_channel_'[d]] # "none" /\ owner'[active_channel_'[d]] = d
                      /\ Placed(d)'
  <2> TAKE d \in Conn
  <2>1. CASE d = c
    <3>1. cast'[c].step = "none"
      BY DEF ChannelInv, Placed
    <3> QED  BY <2>1, <3>1, <1>2, <1>4, <1>5 DEF Placed
  <2>2. CASE d # c
    <3>0. Placed(d) /\ UNCHANGED cast
      BY DEF ChannelInv
    <3>1. CASE active_channel_[d] = NoExchange
      BY <2>2, <3>0, <3>1, <1>5 DEF Placed
    <3>2. CASE active_channel_[d] # NoExchange
      <4>1. kind'[active_channel_'[d]] = kind[active_channel_[d]] /\ owner'[active_channel_'[d]] = owner[active_channel_[d]]
        BY <2>2, <3>2, <1>4, <1>5, <1>6, <1>7
      <4>2. pc'[d] = pc[d] /\ active_channel_'[d] = active_channel_[d] /\ routing'[d] = routing[d]
        BY <2>2, <1>5
      <4>3. Placed(d)'
        BY <3>0, <4>1, <4>2 DEF Placed
      <4> QED  BY <4>1, <4>2, <4>3, <3>2 DEF ChannelInv
    <3> QED  BY <3>1, <3>2 DEF NoExchange
  <2> QED  BY <2>1, <2>2
<1> QED  BY <1>1, <1>8, <1>9 DEF ChannelInv

\* The id of a refused request is drawn and forgotten.
LEMMA DrawChannel ==
    ASSUME Typed, DrawId, UNCHANGED <<exchangeVars, active_channel_, cast>>,
           pc' \in [Conn -> Place], routing' \in [Conn -> Routing],
           \A c \in Conn : Placed(c)'
    PROVE  ChannelTypes' /\ ChannelInv'
BY DrawTypes DEF Typed, TypeOK, ChannelTypes, ChannelInv, DrawId, Created, Exchange

\* A coroutine or a Broadcast goes on: only pc, routing and cast change.
LEMMA KeepChannel ==
    ASSUME Typed, UNCHANGED <<exchange_counter_, exchangeVars, active_channel_>>,
           pc' \in [Conn -> Place], routing' \in [Conn -> Routing],
           \A c \in Conn :
               \/ /\ pc'[c] = pc[c] /\ routing'[c] = routing[c]
                  /\ cast'[c].step # "none" => cast[c].step # "none"
               \/ Placed(c)'
    PROVE  ChannelTypes' /\ ChannelInv'
<1>1. \A c \in Conn : Placed(c)'
  BY DEF Typed, ChannelInv, Placed
<1> QED  BY <1>1 DEF Typed, TypeOK, ChannelTypes, ChannelInv

\* Coroutine c goes on, with nothing new to carry.
LEMMA GoChannel ==
    ASSUME Typed, NEW c \in Conn, NEW q \in Place, Goto(c, q),
           UNCHANGED <<exchange_counter_, channelVars, active_channel_>>,
           \A d \in Conn \ {c} : cast'[d] = cast[d],
           Placed(c)'
    PROVE  ChannelTypes' /\ ChannelInv'
<1>1. pc' \in [Conn -> Place] /\ \A d \in Conn \ {c} : pc'[d] = pc[d]
  BY DEF Typed, TypeOK, ChannelTypes
<1>2. routing' \in [Conn -> Routing] /\ \A d \in Conn : routing'[d] = routing[d]
  BY DEF Typed, TypeOK, ChannelTypes
<1> QED  BY <1>1, <1>2, KeepChannel

\* Steps that leave what ChannelInv is about.
ChannelSame == UNCHANGED <<exchange_counter_, pc, active_channel_, channelVars, cast>>

LEMMA SameChannel ==
    ASSUME Typed, ChannelSame
    PROVE  ChannelTypes' /\ ChannelInv'
BY DEF Typed, TypeOK, ChannelTypes, ChannelInv, Placed, ChannelSame

\* A coroutine that is at work has an exchange.
LEMMA Working ==
    ASSUME Typed, NEW c \in Conn,
           pc[c] \notin {"read", "admit", "close", "gone"},
           pc[c] \in {"test", "push"} => active_channel_[c] # NoExchange
    PROVE  /\ active_channel_[c] \in Exchange /\ kind[active_channel_[c]] # "none"
           /\ owner[active_channel_[c]] = c /\ Alive(active_channel_[c])
BY DEF Typed, TypeOK, ChannelTypes, ChannelInv, Placed, Alive, Exchange, NoExchange

LEMMA StreamsExist == ASSUME Typed PROVE StreamTargets \in SUBSET Exchange
BY DEF Typed, TypeOK, MapTypes, StreamTargets, Streams, LiveSessions, Alive, Exchange, NoExchange

LEMMA RouteTyped ==
    ASSUME Typed, NEW c \in Conn, Route(c)
    PROVE  Typed'
<1> USE DEF Typed, TypeOK, QueueTypes, queueVars, serverVars, mapVars
<1>0. /\ pc[c] = "read" /\ active_channel_[c] = NoExchange /\ cast[c].step = "none"
  BY DEF Route, RoutePost, RouteInitialize, RouteLegacyGet, RouteLegacyDelete, RouteListen,
         RouteNotification, ReadEnds, ChannelInv, Placed
<1>1. CASE ReadEnds(c)
  <2>1. ChannelTypes' /\ ChannelInv'
    BY <1>0, <1>1, GoChannel DEF ReadEnds, Placed, ChannelTypes
  <2> QED  BY <1>1, <2>1 DEF ReadEnds, MapTypes, ServerTypes
<1>2. CASE RouteNotification(c)
  <2>1. ChannelTypes' /\ ChannelInv'
    BY <1>0, <1>2, GoChannel DEF RouteNotification, Placed, ChannelTypes
  <2> QED  BY <1>2, <2>1 DEF RouteNotification, MapTypes, ServerTypes
<1>3. ASSUME NEW q \in Place, Goto(c, q), NEW carried \in Routing,
             routing' = [routing EXCEPT ![c] = carried],
             UNCHANGED <<exchange_counter_, active_channel_, exchangeVars, cast>>,
             \/ q = "admit" /\ carried \in [kind : PostKinds, session : SUBSET Session]
             \/ q = "close" /\ carried \in [kind : {"delete"}, stream : Exchange]
      PROVE  ChannelTypes' /\ ChannelInv'
  <2>1. pc' \in [Conn -> Place] /\ routing' \in [Conn -> Routing]
    BY <1>3 DEF ChannelTypes
  <2>2. /\ pc'[c] = q /\ routing'[c] = carried
        /\ \A d \in Conn \ {c} : pc'[d] = pc[d] /\ routing'[d] = routing[d]
    BY <1>3 DEF ChannelTypes
  <2>3. Placed(c)'
    BY <1>0, <1>3, <2>2 DEF Placed
  <2> QED  BY <1>3, <2>1, <2>2, <2>3, KeepChannel
<1>4. ASSUME NEW k \in {"json", "sse"}, NEW session \in {{}} \cup {{s} : s \in Session},
             RoutePost(c, k, session)
      PROVE  Typed'
  <2> DEFINE carried == [kind |-> k, session |-> session]
  <2>1. carried \in [kind : PostKinds, session : SUBSET Session]
    BY DEF PostKinds, JsonKinds
  <2>2. carried \in Routing
    BY <2>1 DEF Routing
  <2>3. routing' = [routing EXCEPT ![c] = carried] /\ Goto(c, "admit")
    BY <1>4 DEF RoutePost
  <2> HIDE DEF carried
  <2>4. ChannelTypes' /\ ChannelInv'
    BY <1>3, <1>4, <2>1, <2>2, <2>3 DEF RoutePost
  <2> QED  BY <1>4, <2>4 DEF RoutePost, MapTypes, ServerTypes
<1>5. ASSUME NEW s \in Session, RouteInitialize(c, s)
      PROVE  Typed'
  <2>0. PICK k \in {"initialize", "sse"} :
            routing' = [routing EXCEPT ![c] = [kind |-> k, session |-> {s}]]
    BY <1>5 DEF RouteInitialize
  <2> DEFINE carried == [kind |-> k, session |-> {s}]
  <2>1. carried \in [kind : PostKinds, session : SUBSET Session]
    BY DEF PostKinds, JsonKinds
  <2>2. carried \in Routing
    BY <2>1 DEF Routing
  <2>3. routing' = [routing EXCEPT ![c] = carried] /\ Goto(c, "admit")
    BY <1>5, <2>0 DEF RouteInitialize
  <2> HIDE DEF carried
  <2>4. ChannelTypes' /\ ChannelInv'
    BY <1>3, <1>5, <2>1, <2>2, <2>3 DEF RouteInitialize
  <2> QED  BY <1>5, <2>4 DEF RouteInitialize, MapTypes, ServerTypes
<1>6. ASSUME NEW s \in Session, RouteLegacyGet(c, s)
      PROVE  Typed'
  <2>1. ChannelTypes' /\ ChannelInv'
    BY <1>6, CreateChannel DEF RouteLegacyGet
  <2>2. Created \in Exchange /\ Created \in 0 .. MaxExchange
    BY <1>6, DrawTypes DEF RouteLegacyGet, Create, Exchange
  <2>3. posted' \in [Conn -> Seq(Task)] /\ cancelled_' \in [Exchange -> BOOLEAN]
    <3>1. {e \in {notification_stream[s]} : Alive(e)} \in SUBSET Exchange
      BY DEF MapTypes, Alive, Exchange, NoExchange
    <3> QED  BY <1>6, <3>1, CloseTypes DEF RouteLegacyGet, ReplaceStream, ChannelTypes
  <2>4. notification_stream' \in [Session -> 0 .. MaxExchange]
    BY <1>6, <2>2 DEF RouteLegacyGet, ReplaceStream, MapTypes
  <2> QED  BY <1>6, <2>1, <2>3, <2>4 DEF RouteLegacyGet, MapTypes, ServerTypes
<1>7. ASSUME NEW s \in Session, RouteLegacyDelete(c, s)
      PROVE  Typed'
  <2>1. CASE ~Alive(notification_stream[s])
    <3>1. ChannelTypes' /\ ChannelInv'
      BY <1>7, <2>1, SameChannel DEF RouteLegacyDelete, ChannelSame
    <3> QED  BY <1>7, <3>1 DEF RouteLegacyDelete, MapTypes, ServerTypes
  <2>2. CASE Alive(notification_stream[s])
    <3> DEFINE carried == [kind |-> "delete", stream |-> notification_stream[s]]
    <3>1. notification_stream[s] \in Exchange
      BY <2>2 DEF MapTypes, Alive, Exchange, NoExchange
    <3>2. carried \in [kind : {"delete"}, stream : Exchange]
      BY <3>1
    <3>3. carried \in Routing
      BY <3>2 DEF Routing
    <3>4. routing' = [routing EXCEPT ![c] = carried] /\ Goto(c, "close")
      BY <1>7, <2>2 DEF RouteLegacyDelete
    <3> HIDE DEF carried
    <3>5. ChannelTypes' /\ ChannelInv'
      BY <1>3, <1>7, <3>2, <3>3, <3>4 DEF RouteLegacyDelete
    <3> QED  BY <1>7, <3>5 DEF RouteLegacyDelete, MapTypes, ServerTypes
  <2> QED  BY <2>1, <2>2
<1>8. ASSUME NEW topics \in SUBSET Filterable, RouteListen(c, topics)
      PROVE  Typed'
  <2>1. ChannelTypes' /\ ChannelInv'
    <3>1. CASE SubscriptionsFull
      <4>1. DrawId /\ UNCHANGED <<channelVars, active_channel_, pc, cast>>
        BY <1>8, <3>1 DEF RouteListen
      <4>2. \A d \in Conn : Placed(d)'
        BY <4>1 DEF ChannelInv, Placed
      <4> QED  BY <4>1, <4>2, DrawChannel DEF ChannelTypes
    <3>2. CASE ~SubscriptionsFull
      BY <1>8, <3>2, CreateChannel DEF RouteListen
    <3> QED  BY <3>1, <3>2
  <2>2. subscriptions_' \subseteq Exchange
    BY <1>8, DrawTypes DEF RouteListen, Create, MapTypes
  <2> QED  BY <1>8, <2>1, <2>2 DEF RouteListen, MapTypes, ServerTypes
<1> QED  BY <1>1, <1>2, <1>4, <1>5, <1>6, <1>7, <1>8 DEF Route

\* Where Enqueue goes on.
LEMMA RoutedPlace ==
    ASSUME Typed, NEW c \in Conn, pc[c] \in {"test", "push"}
    PROVE  /\ Routed(c) \in {"read", "pop", "write"}
           /\ Routed(c) = "read" <=> active_channel_[c] = NoExchange
BY DEF Routed

LEMMA GoesOnTyped ==
    ASSUME Typed, NEW c \in Conn, RouteGoesOn(c)
    PROVE  Typed'
<1> USE DEF Typed, TypeOK, QueueTypes, queueVars, serverVars, mapVars
<1>0. cast[c].step = "none" /\ Placed(c)
  BY DEF RouteGoesOn, Admit, TestRunning, PushIncoming, PushAck, CloseDeleted, ChannelInv, Placed
<1>1. CASE Admit(c)
  <2>0. pc[c] = "admit" /\ routing[c] \in [kind : PostKinds, session : SUBSET Session]
    BY <1>0, <1>1 DEF Admit, Placed
  <2>1. CASE PendingFull
    <3>1. /\ DrawId /\ Goto(c, "read") /\ routing' = [routing EXCEPT ![c] = NotRouting]
          /\ UNCHANGED <<exchangeVars, active_channel_, cast>> /\ UNCHANGED pending_
      BY <1>1, <2>1 DEF Admit
    <3>2. /\ pc' \in [Conn -> Place] /\ routing' \in [Conn -> Routing]
          /\ \A d \in Conn \ {c} : pc'[d] = pc[d] /\ routing'[d] = routing[d]
          /\ pc'[c] = "read"
      BY <3>1 DEF ChannelTypes, Routing
    <3>3. \A d \in Conn : Placed(d)'
      <4>1. active_channel_'[c] = NoExchange /\ cast'[c].step = "none"
        BY <1>0, <2>0, <3>1 DEF Placed
      <4>2. Placed(c)'
        BY <3>2, <4>1 DEF Placed
      <4>3. ASSUME NEW d \in Conn \ {c} PROVE Placed(d)'
        <5>1. Placed(d)
          BY DEF ChannelInv
        <5> QED  BY <3>1, <3>2, <5>1 DEF Placed
      <4> QED  BY <4>2, <4>3
    <3>4. ChannelTypes' /\ ChannelInv'
      BY <3>1, <3>2, <3>3, DrawChannel
    <3> QED  BY <1>1, <3>1, <3>4 DEF Admit, MapTypes, ServerTypes
  <2>2. CASE ~PendingFull
    <3>1. PICK k \in {"initialize", "json", "sse"}, session \in SUBSET Session :
              k = routing[c].kind /\ session = routing[c].session
      BY <2>0 DEF PostKinds, JsonKinds
    <3>2. /\ Create(c, k, session, {}) /\ Goto(c, "test")
          /\ pending_' = pending_ \cup {Created} /\ UNCHANGED cast
      BY <1>1, <2>2, <3>1 DEF Admit
    <3>3. ChannelTypes' /\ ChannelInv'
      <4>1. PICK l \in {"initialize", "json", "sse", "listen", "get"}, q \in {"test", "ack", "write"} :
                l = k /\ q = "test"
        OBVIOUS
      <4>2. /\ Create(c, l, session, {}) /\ Goto(c, q) /\ {} \in SUBSET Filterable
            /\ (q = "ack" => l = "listen") /\ (q = "test" => l \in PostKinds)
            /\ pc[c] \in {"read", "admit"} /\ UNCHANGED cast
        BY <2>0, <3>2, <4>1 DEF PostKinds, JsonKinds
      <4> HIDE DEF Goto, Typed
      <4> QED  BY <4>2, CreateChannel
    <3>4. Created \in Exchange
      BY <3>2, DrawTypes DEF Create
    <3> QED  BY <1>1, <3>2, <3>3, <3>4 DEF Admit, MapTypes, ServerTypes
  <2> QED  BY <2>1, <2>2
<1>2. CASE TestRunning(c)
  <2> DEFINE q == IF Running THEN "push" ELSE Routed(c)
  <2>1. pc[c] = "test" /\ Goto(c, q) /\ q \in Place
    BY <1>2, RoutedPlace DEF TestRunning
  <2>2. Placed(c)'
    BY <1>0, <1>2, <2>1, RoutedPlace DEF TestRunning, Placed, ChannelTypes
  <2>3. ChannelTypes' /\ ChannelInv'
    BY <1>2, <2>1, <2>2, GoChannel DEF TestRunning
  <2> QED  BY <1>2, <2>3 DEF TestRunning, MapTypes, ServerTypes
<1>3. CASE PushIncoming(c)
  <2>1. pc[c] = "push" /\ Goto(c, Routed(c)) /\ Routed(c) \in Place
    BY <1>3, RoutedPlace DEF PushIncoming
  <2>2. Placed(c)'
    BY <1>0, <1>3, <2>1, RoutedPlace DEF PushIncoming, Placed, ChannelTypes
  <2>3. ChannelTypes' /\ ChannelInv'
    BY <1>3, <2>1, <2>2, GoChannel DEF PushIncoming
  <2>4. Append(incoming_, active_channel_[c]) \in Seq(0 .. MaxExchange)
    BY DEF ServerTypes, ChannelTypes
  <2> QED  BY <1>3, <2>3, <2>4 DEF PushIncoming, MapTypes, ServerTypes
<1>4. CASE PushAck(c)
  <2>0. pc[c] = "ack" /\ active_channel_[c] \in Exchange
    BY <1>4, Working DEF PushAck
  <2>1. posted' \in [Conn -> Seq(Task)]
    BY <1>4, <2>0, PushTypes, Letters DEF PushAck
  <2>2. Placed(c)'
    BY <1>0, <1>4, <2>0 DEF PushAck, Placed, ChannelTypes
  <2>3. ChannelTypes' /\ ChannelInv'
    BY <1>4, <2>2, GoChannel DEF PushAck
  <2> QED  BY <1>4, <2>1, <2>3 DEF PushAck, MapTypes, ServerTypes
<1>5. CASE CloseDeleted(c)
  <2>1. posted' \in [Conn -> Seq(Task)] /\ cancelled_' \in [Exchange -> BOOLEAN]
    <3>1. routing[c].stream \in Exchange
      BY <1>0, <1>5 DEF CloseDeleted, Placed
    <3>2. {e \in {routing[c].stream} : Alive(e)} \in SUBSET Exchange
      BY <3>1
    <3> QED  BY <1>5, <3>2, CloseTypes DEF CloseDeleted, ChannelTypes
  <2>2. ChannelTypes' /\ ChannelInv'
    <3>1. /\ pc' \in [Conn -> Place] /\ routing' \in [Conn -> Routing]
          /\ \A d \in Conn \ {c} : pc'[d] = pc[d] /\ routing'[d] = routing[d]
          /\ pc'[c] = "read" /\ UNCHANGED <<active_channel_, exchange_counter_, exchangeVars, cast>>
      BY <1>5 DEF CloseDeleted, ChannelTypes, Routing
    <3>2. Placed(c)'
      BY <1>0, <1>5, <3>1 DEF CloseDeleted, Placed
    <3> QED  BY <3>1, <3>2, KeepChannel
  <2> QED  BY <1>5, <2>1, <2>2 DEF CloseDeleted, MapTypes, ServerTypes
<1> QED  BY <1>1, <1>2, <1>3, <1>4, <1>5 DEF RouteGoesOn

LEMMA CastTyped ==
    ASSUME Typed, NEW k \in Caller, CastStep(k)
    PROVE  Typed'
<1> USE DEF Typed, TypeOK, QueueTypes, MapTypes, queueVars, serverVars, mapVars, Caller
<1>0. cast[k].step # "none" /\ cast[k].msg \in Message /\ cast[k].targets \in SUBSET Exchange
  BY Letters DEF CastStep, CollectStreams, PushTarget, EndCast, ServerTypes
<1>1. CASE CollectStreams(k)
  <2> DEFINE new == [step |-> "push", msg |-> cast[k].msg,
                     targets |-> cast[k].targets \cup StreamTargets]
  <2>1. cast' = [cast EXCEPT ![k] = new]
    BY <1>1 DEF CollectStreams
  <2>2. new \in Cast /\ new.step = "push"
    BY <1>0, StreamsExist DEF Cast
  <2> HIDE DEF new
  <2>3. ChannelTypes' /\ ChannelInv'
    <3>1. \A c \in Conn : cast'[c].step # "none" => cast[c].step # "none"
      BY <1>0, <2>1 DEF ServerTypes
    <3> QED  BY <1>1, <3>1, KeepChannel DEF CollectStreams, ChannelTypes, ChannelInv
  <2>4. cast' \in [Caller -> Cast]
    BY <2>1, <2>2 DEF ServerTypes
  <2> QED  BY <1>1, <2>3, <2>4 DEF CollectStreams, ServerTypes
<1>2. CASE PushTarget(k)
  <2>0. PICK e \in cast[k].targets :
            /\ Push(e, cast[k].msg)
            /\ cast' = [cast EXCEPT ![k] = [step |-> "push", msg |-> @.msg,
                                            targets |-> @.targets \ {e}]]
    BY <1>2 DEF PushTarget
  <2> DEFINE new == [step |-> "push", msg |-> cast[k].msg, targets |-> cast[k].targets \ {e}]
  <2>1. cast' = [cast EXCEPT ![k] = new]
    BY <2>0
  <2>2. new \in Cast /\ new.step = "push"
    BY <1>0 DEF Cast
  <2> HIDE DEF new
  <2>3. ChannelTypes' /\ ChannelInv'
    <3>1. \A c \in Conn : cast'[c].step # "none" => cast[c].step # "none"
      BY <1>0, <2>1 DEF ServerTypes
    <3> QED  BY <1>2, <3>1, KeepChannel DEF PushTarget, ChannelTypes, ChannelInv
  <2>4. posted' \in [Conn -> Seq(Task)]
    BY <1>0, <2>0, PushTypes
  <2> QED  BY <1>2, <2>1, <2>2, <2>3, <2>4 DEF PushTarget, ServerTypes
<1>3. CASE EndCast(k)
  <2>1. ChannelTypes' /\ ChannelInv'
    <3>1. cast' = [cast EXCEPT ![k] = NoCast] /\ NoCast.step = "none"
      BY <1>3 DEF EndCast, NoCast
    <3>2. \A c \in Conn \ {k} : cast'[c] = cast[c] /\ pc'[c] = pc[c]
      BY <1>3, <3>1 DEF EndCast, ServerTypes, ChannelTypes
    <3>3. k \in Conn => pc'[k] = "pop" /\ pc[k] = "cast" /\ cast'[k].step = "none"
      BY <1>0, <1>3, <3>1 DEF EndCast, ServerTypes, ChannelTypes, ChannelInv, Placed
    <3>4. UNCHANGED <<exchange_counter_, channelVars, active_channel_>>
      BY <1>3 DEF EndCast
    <3>5. k \in Conn => Placed(k)'
      BY <3>3, <3>4 DEF ChannelInv, Placed
    <3>6. pc' \in [Conn -> Place] /\ routing' \in [Conn -> Routing]
      BY <1>3, <3>4 DEF EndCast, ChannelTypes
    <3> QED  BY <3>2, <3>4, <3>5, <3>6, KeepChannel
  <2>2. cast' \in [Caller -> Cast]
    BY <1>3 DEF EndCast, ServerTypes, Cast
  <2> QED  BY <1>3, <2>1, <2>2 DEF EndCast, ServerTypes
<1> QED  BY <1>1, <1>2, <1>3 DEF CastStep

\* The head and the rest of a sequence.
LEMMA Rest ==
    ASSUME NEW S, NEW s \in Seq(S), s # <<>>
    PROVE  /\ Head(s) \in S /\ Tail(s) \in Seq(S) /\ Len(s) \in Nat \ {0}
           /\ Head(s) = s[1] /\ Len(Tail(s)) = Len(s) - 1
           /\ \A i \in 1 .. Len(Tail(s)) : Tail(s)[i] = s[i + 1] /\ i + 1 \in 1 .. Len(s)
OBVIOUS

LEMMA Longer ==
    ASSUME NEW S, NEW s \in Seq(S), NEW x \in S
    PROVE  /\ Len(Append(s, x)) = Len(s) + 1 /\ Len(s) \in Nat
           /\ Append(s, x)[Len(Append(s, x))] = x
           /\ \A i \in 1 .. Len(s) : Append(s, x)[i] = s[i]
OBVIOUS

LEMMA RunTaskTyped ==
    ASSUME Typed, NEW c \in Conn, RunTask(c)
    PROVE  Typed'
<1> USE DEF Typed, TypeOK, queueVars, serverVars, mapVars
<1> DEFINE task == Head(posted[c])  e == Head(posted[c]).to
<1>0. task \in Task /\ e \in Exchange /\ Tail(posted[c]) \in Seq(Task)
  BY Letters, Rest DEF RunTask, QueueTypes
<1>1. ChannelTypes' /\ ChannelInv'
  BY SameChannel DEF RunTask, ChannelSame
<1>2. posted' \in [Conn -> Seq(Task)]
  BY <1>0 DEF RunTask, QueueTypes
<1>3. /\ messages_' \in [Exchange -> Seq(Message)]
      /\ closed_' \in [Exchange -> BOOLEAN]
      /\ cancelled_' \in [Exchange -> BOOLEAN]
  <2>1. CASE /\ task.op = "push"
             /\ messages_' = [messages_ EXCEPT ![e] = Append(@, task.msg)]
             /\ UNCHANGED <<closed_, cancelled_>>
    <3>1. task.msg \in Message
      BY <1>0, <2>1, Letters
    <3>2. Append(messages_[e], task.msg) \in Seq(Message)
      BY <1>0, <3>1 DEF QueueTypes
    <3> QED  BY <2>1, <3>2 DEF QueueTypes
  <2>2. CASE /\ closed_' = [closed_ EXCEPT ![e] = TRUE]
             /\ cancelled_' = [cancelled_ EXCEPT ![e] = TRUE]
             /\ UNCHANGED messages_
    BY <2>2 DEF QueueTypes
  <2>3. CASE UNCHANGED <<messages_, closed_, cancelled_>>
    BY <2>3 DEF QueueTypes
  <2>4. CASE closed_' = [closed_ EXCEPT ![e] = TRUE] /\ UNCHANGED <<messages_, cancelled_>>
    BY <2>4 DEF QueueTypes
  <2> QED  BY <2>1, <2>2, <2>3, <2>4, Zenon DEF RunTask
<1> QED  BY <1>1, <1>2, <1>3 DEF RunTask, QueueTypes, MapTypes, ServerTypes

LEMMA CoroutineTyped ==
    ASSUME Typed, NEW c \in Conn,
           TakeMessage(c) \/ TakeNull(c) \/ Finish(c) \/ Deadline(c) \/ WriteEnds(c)
    PROVE  Typed'
<1> USE DEF Typed, TypeOK, queueVars, serverVars, mapVars
<1> DEFINE e == active_channel_[c]
<1>0. /\ pc[c] \in {"pop", "write", "last", "finish"}
      /\ e \in Exchange /\ cast[c].step = "none" /\ Placed(c)
  <2>1. pc[c] \in {"pop", "write", "last", "finish"}
    BY DEF TakeMessage, TakeNull, Finish, Deadline, WriteEnds, Written, WriteFails, Popping
  <2> QED  BY <2>1, Working DEF ChannelInv, Placed
<1>1. ASSUME NEW q \in {"pop", "write", "last", "finish"}, Goto(c, q),
             UNCHANGED <<exchange_counter_, active_channel_, channelVars, cast>>
      PROVE  ChannelTypes' /\ ChannelInv'
  <2>1. Placed(c)'
    BY <1>0, <1>1 DEF Placed, ChannelTypes
  <2> QED  BY <1>1, <2>1, GoChannel
<1>2. CASE TakeMessage(c)
  <2> DEFINE m == Head(messages_[e])
  <2>0. m \in Message /\ Tail(messages_[e]) \in Seq(Message)
    BY <1>0, <1>2, Rest DEF TakeMessage, QueueTypes
  <2>1. /\ messages_' \in [Exchange -> Seq(Message)]
        /\ outcome' \in [Exchange -> {"nothing", "part", "reply", "timeout", "ended"}]
    BY <1>0, <1>2, <2>0 DEF TakeMessage, EndExchange, QueueTypes
  <2>2. cast' \in [Caller -> Cast]
    <3> DEFINE targets == {x \in subscriptions_ : Alive(x) /\ m.what \in filter[x]}
    <3>1. [step |-> "streams", msg |-> m, targets |-> targets] \in Cast
      BY <2>0 DEF Cast, MapTypes
    <3> QED  BY <1>2, <3>1 DEF TakeMessage, BeginCast, ServerTypes
  <2>3. UNCHANGED <<exchange_counter_, active_channel_, channelVars>>
    BY <1>2 DEF TakeMessage
  <2>4. ChannelTypes' /\ ChannelInv'
    <3>1. CASE UNCHANGED cast
      <4>1. \E q \in {"write", "last", "finish"} : Goto(c, q)
        <5>1. CASE IsFinal(m) /\ EndExchange(c, e, "reply")
          BY <5>1 DEF EndExchange
        <5>2. CASE Goto(c, "write")
          BY <5>2
        <5>3. CASE Goto(c, "cast") /\ BeginCast(c, m)
          BY <1>0, <3>1, <5>3 DEF BeginCast, ServerTypes, Caller
        <5> QED  BY <1>2, <5>1, <5>2, <5>3 DEF TakeMessage
      <4> QED  BY <1>1, <2>3, <3>1, <4>1
    <3>2. CASE BeginCast(c, m) /\ Goto(c, "cast") /\ kind[e] \in JsonKinds
      <4>1. \A d \in Conn \ {c} : cast'[d] = cast[d]
        BY <3>2 DEF BeginCast, ServerTypes, Caller
      <4>2. Placed(c)'
        BY <1>0, <2>3, <3>2 DEF Placed, ChannelTypes, Exchange, NoExchange
      <4> QED  BY <2>3, <3>2, <4>1, <4>2, GoChannel
    <3> QED  BY <1>2, <3>1, <3>2 DEF TakeMessage
  <2> QED  BY <1>2, <2>1, <2>2, <2>4 DEF TakeMessage, QueueTypes, MapTypes, ServerTypes
<1>3. ASSUME NEW r \in {"timeout", "ended"}, EndExchange(c, e, r),
             UNCHANGED <<phase, exchange_counter_, active_channel_, channelVars, messages_,
                         closed_, cancelled_, posted, mapVars, serverVars, cast>>
      PROVE  Typed'
  <2>1. ChannelTypes' /\ ChannelInv'
    BY <1>1, <1>3 DEF EndExchange
  <2> QED  BY <1>3, <2>1 DEF EndExchange, QueueTypes, MapTypes, ServerTypes
<1>4. CASE TakeNull(c)
  <2>1. CASE NullEnds(e)
    BY <1>3, <1>4, <2>1 DEF TakeNull
  <2>2. CASE ~NullEnds(e)
    <3>1. ChannelTypes' /\ ChannelInv'
      BY <1>1, <1>4, <2>2 DEF TakeNull
    <3> QED  BY <1>4, <2>2, <3>1 DEF TakeNull, QueueTypes, MapTypes, ServerTypes
  <2> QED  BY <2>1, <2>2
<1>5. CASE Deadline(c)
  BY <1>3, <1>5 DEF Deadline
<1>6. CASE WriteEnds(c)
  <2>1. ChannelTypes' /\ ChannelInv'
    BY <1>1, <1>6 DEF WriteEnds, Written, WriteFails
  <2> QED  BY <1>6, <2>1 DEF WriteEnds, Written, WriteFails, QueueTypes, MapTypes, ServerTypes
<1>7. CASE Finish(c)
  <2>1. posted' \in [Conn -> Seq(Task)] /\ cancelled_' \in [Exchange -> BOOLEAN]
    BY <1>0, <1>7, CloseTypes DEF Finish, ChannelTypes
  <2>2. ChannelTypes' /\ ChannelInv'
    <3>1. /\ active_channel_'[c] = NoExchange /\ pc'[c] \in {"read", "gone"}
          /\ \A d \in Conn \ {c} : active_channel_'[d] = active_channel_[d] /\ pc'[d] = pc[d]
          /\ pc[c] = "finish"
      BY <1>7 DEF Finish, ChannelTypes
    <3>2. active_channel_' \in [Conn -> 0 .. MaxExchange] /\ pc' \in [Conn -> Place]
      BY <1>7 DEF Finish, ChannelTypes, NoExchange
    <3>3. UNCHANGED <<exchange_counter_, channelVars, cast>>
      BY <1>7 DEF Finish
    <3>4. ChannelTypes'
      BY <3>2, <3>3 DEF ChannelTypes
    <3>5. \A d \in Conn : Placed(d)'
      BY <1>0, <3>1, <3>3 DEF ChannelInv, Placed
    <3>6. ChannelInv'
      BY <3>1, <3>3, <3>5 DEF ChannelInv
    <3> QED  BY <3>4, <3>6
  <2> QED  BY <1>7, <2>1, <2>2 DEF Finish, Unregister, QueueTypes, MapTypes, ServerTypes
<1> QED  BY <1>2, <1>4, <1>5, <1>6, <1>7

LEMMA ServerTyped ==
    ASSUME Typed,
           \/ ReadMessage
           \/ \E e \in Exchange : HandlerReturns(e) \/ \E what \in Topic : HandlerNotifies(e, what)
           \/ \E what \in Topic : WriterBroadcasts(what)
    PROVE  Typed'
<1> USE DEF Typed, TypeOK, queueVars, serverVars, mapVars
<1>0. NoExchange \in 0 .. MaxExchange /\ Exchange \subseteq 0 .. MaxExchange
  BY DEF NoExchange, Exchange
<1>1. CASE ReadMessage
  <2>1. Head(incoming_) \in 0 .. MaxExchange /\ Tail(incoming_) \in Seq(0 .. MaxExchange)
    BY <1>1, Rest DEF ReadMessage, ServerTypes
  <2>2. serving' \subseteq Exchange
    <3> DEFINE x == Head(incoming_)
    <3>1. x # NoExchange => x \in Exchange
      BY <2>1 DEF Exchange, NoExchange
    <3>2. serving' = serving \/ (x # NoExchange /\ serving' = serving \cup {x})
      BY <1>1 DEF ReadMessage, Serve
    <3> HIDE DEF x
    <3> QED  BY <3>1, <3>2 DEF ServerTypes
  <2> QED  BY <1>1, <2>1, <2>2, SameChannel
           DEF ReadMessage, PopIncoming, ChannelSame, QueueTypes, MapTypes, ServerTypes
<1>2. ASSUME NEW e \in Exchange, HandlerReturns(e) PROVE Typed'
  <2>1. posted' \in [Conn -> Seq(Task)]
    BY <1>2, PushTypes, Letters DEF HandlerReturns, WriteMessage, QueueTypes
  <2> QED  BY <1>2, <2>1, SameChannel
           DEF HandlerReturns, LeaveServing, ChannelSame, QueueTypes, MapTypes, ServerTypes
<1>3. ASSUME NEW e \in Exchange, NEW what \in Topic, HandlerNotifies(e, what) PROVE Typed'
  <2>1. posted' \in [Conn -> Seq(Task)]
    BY <1>0, <1>3, PushTypes, Letters DEF HandlerNotifies, WriteMessage, QueueTypes
  <2>2. notes' \in 0 .. MaxNotes
    BY <1>3 DEF HandlerNotifies, ServerTypes
  <2> QED  BY <1>3, <2>1, <2>2, SameChannel
           DEF HandlerNotifies, ChannelSame, QueueTypes, MapTypes, ServerTypes
<1>4. ASSUME NEW what \in Topic, WriterBroadcasts(what) PROVE Typed'
  <2>1. notes' \in 0 .. MaxNotes
    BY <1>4 DEF WriterBroadcasts, ServerTypes
  <2> DEFINE new == [step |-> "streams", msg |-> [from |-> NoExchange, what |-> what],
                     targets |-> {x \in subscriptions_ : Alive(x) /\ what \in filter[x]}]
  <2>2. cast' = [cast EXCEPT ![Writer] = new]
    BY <1>4 DEF WriterBroadcasts, BeginCast
  <2>3. new \in Cast
    <3>1. [from |-> NoExchange, what |-> what] \in Message
      BY <1>0, Letters
    <3> HIDE DEF Message
    <3> QED  BY <3>1 DEF Cast, MapTypes
  <2> HIDE DEF new
  <2>4. \A c \in Conn : cast'[c] = cast[c]
    BY <2>2 DEF ServerTypes, Caller
  <2>5. ChannelTypes' /\ ChannelInv'
    <3>1. pc' \in [Conn -> Place] /\ routing' \in [Conn -> Routing]
      BY <1>4 DEF WriterBroadcasts, ChannelTypes
    <3> QED  BY <1>4, <2>4, <3>1, KeepChannel DEF WriterBroadcasts
  <2> QED  BY <1>4, <2>1, <2>2, <2>3, <2>5
           DEF WriterBroadcasts, QueueTypes, MapTypes, ServerTypes
<1> QED  BY <1>1, <1>2, <1>3, <1>4

LEMMA StopTyped ==
    ASSUME Typed, Stop
    PROVE  Typed'
<1> USE DEF Typed, TypeOK, queueVars, serverVars, mapVars
<1>0. ChannelTypes' /\ ChannelInv'
  BY SameChannel DEF Stop, StopRunning, StopRegistered, StopSessions, StopThreads, ChannelSame
<1>1. CASE StopRunning \/ StopThreads
  BY <1>0, <1>1 DEF StopRunning, StopThreads, QueueTypes, MapTypes, ServerTypes
<1>2. CASE StopRegistered
  <2>1. {e \in pending_ \cup subscriptions_ : Alive(e)} \in SUBSET Exchange
    BY DEF MapTypes
  <2>2. posted' \in [Conn -> Seq(Task)] /\ cancelled_' \in [Exchange -> BOOLEAN]
    BY <1>2, <2>1, CloseTypes DEF StopRegistered, ChannelTypes
  <2> QED  BY <1>0, <1>2, <2>2 DEF StopRegistered, QueueTypes, MapTypes, ServerTypes
<1>3. CASE StopSessions
  <2>1. StreamTargets \in SUBSET Exchange
    BY StreamsExist
  <2>2. posted' \in [Conn -> Seq(Task)] /\ cancelled_' \in [Exchange -> BOOLEAN]
    BY <1>3, <2>1, CloseTypes DEF StopSessions, ChannelTypes
  <2> QED  BY <1>0, <1>3, <2>2 DEF StopSessions, QueueTypes, MapTypes, ServerTypes
<1> QED  BY <1>1, <1>2, <1>3 DEF Stop

LEMMA TypedInvariant == Spec => []Typed
<1>1. Init => Typed
  <2> SUFFICES ASSUME Init PROVE Typed
    OBVIOUS
  <2>1. ChannelTypes /\ QueueTypes /\ MapTypes /\ ServerTypes
    BY DEF Init, ChannelTypes, QueueTypes, MapTypes, ServerTypes, NoExchange, Cast, Exchange,
           Routing
  <2>2. ChannelInv
    <3>1. \A c \in Conn : c \in Caller
      BY DEF Caller
    <3> QED  BY <3>1 DEF Init, ChannelInv, Placed, NoCast
  <2> QED  BY <2>1, <2>2 DEF Typed, TypeOK
<1>2. Typed /\ [Next]_vars => Typed'
  <2> SUFFICES ASSUME Typed, [Next]_vars PROVE Typed'
    OBVIOUS
  <2>1. CASE Next
    BY <2>1, RouteTyped, GoesOnTyped, CastTyped, RunTaskTyped, CoroutineTyped, ServerTyped,
       StopTyped DEF Next, Coroutine
  <2>2. CASE UNCHANGED vars
    BY <2>2 DEF vars, queueVars, mapVars, serverVars, Typed, TypeOK, ChannelTypes,
                QueueTypes, MapTypes, ServerTypes, ChannelInv, Placed
  <2> QED  BY <2>1, <2>2
<1> QED  BY <1>1, <1>2, PTL DEF Spec

\* Types: for any connections, sessions, topics and limits the variables keep their
\* types; in particular no step is taken for an exchange that does not exist.
THEOREM TypeCorrect == Spec => []TypeOK
<1>1. Typed => TypeOK
  BY DEF Typed
<1> QED  BY <1>1, TypedInvariant, PTL

(***************************************************************************)
(* What a step does to the exchanges and to the strands.                   *)
(***************************************************************************)

LEMMA Creation ==
    ASSUME Typed, NEW c \in Conn, pc[c] \in {"read", "admit"}, NEW k, NEW session, NEW topics,
           Create(c, k, session, topics)
    PROVE  \E n \in Exchange :
           /\ n = Created /\ kind[n] = "none" /\ ~Alive(n) /\ Alive(n)'
           /\ kind'[n] = k /\ owner'[n] = c /\ filter'[n] = topics /\ session_id'[n] = session
           /\ active_channel_'[c] = n
           /\ \A e \in Exchange \ {n} :
                  /\ kind'[e] = kind[e] /\ owner'[e] = owner[e] /\ filter'[e] = filter[e]
                  /\ session_id'[e] = session_id[e] /\ Alive(e)' = Alive(e)
<1> USE DEF Typed, TypeOK
<1>1. PICK n \in Exchange : n = Created /\ n # NoExchange
  BY DrawTypes DEF Create, DrawId, Exchange, NoExchange
<1>2. kind[n] = "none"
  <2>1. exchange_counter_ \in Nat /\ Created = exchange_counter_ + 1
    BY DEF ChannelTypes, Created
  <2>2. ~(Created <= exchange_counter_)
    BY <2>1
  <2> QED  BY <1>1, <2>2 DEF ChannelInv
<1>3. \A d \in Conn : active_channel_[d] # n
  BY <1>1, <1>2 DEF ChannelInv
<1>4. active_channel_[c] = NoExchange
  BY DEF ChannelInv, Placed
<1>5. /\ \A d \in Conn \ {c} : active_channel_'[d] = active_channel_[d]
      /\ active_channel_'[c] = n
  BY <1>1 DEF Create, ChannelTypes
<1>6. \A e \in Exchange : e # NoExchange
  BY DEF Exchange, NoExchange
<1>7. \A e \in Exchange \ {n} : Alive(e)' = Alive(e)
  BY <1>4, <1>5, <1>6 DEF Alive
<1>8. ~Alive(n) /\ Alive(n)'
  BY <1>1, <1>3, <1>5 DEF Alive
<1>9. /\ kind'[n] = k /\ owner'[n] = c /\ filter'[n] = topics
      /\ session_id'[n] = session
      /\ \A e \in Exchange \ {n} :
             /\ kind'[e] = kind[e] /\ owner'[e] = owner[e] /\ filter'[e] = filter[e]
             /\ session_id'[e] = session_id[e]
  BY <1>1 DEF Create, ChannelTypes
<1> QED  BY <1>1, <1>2, <1>5, <1>7, <1>8, <1>9

LEMMA Ending ==
    ASSUME Typed, NEW c \in Conn, Finish(c)
    PROVE  \E e \in Exchange :
           /\ e = active_channel_[c] /\ Alive(e) /\ ~Alive(e)' /\ cancelled_'[e]
           /\ \A x \in Exchange \ {e} : Alive(x)' = Alive(x)
<1> USE DEF Typed, TypeOK
<1>1. PICK e \in Exchange : e = active_channel_[c] /\ owner[e] = c /\ Alive(e)
  BY Working DEF Finish
<1>2. /\ \A d \in Conn \ {c} : active_channel_'[d] = active_channel_[d]
      /\ active_channel_'[c] = NoExchange
  BY DEF Finish, ChannelTypes
<1>3. \A x \in Exchange : x # NoExchange
  BY DEF Exchange, NoExchange
<1>4. \A d \in Conn \ {c} : active_channel_[d] # e
  BY <1>1, <1>3 DEF ChannelInv
<1>5. cancelled_'[e]
  BY <1>1 DEF Finish, Close
<1>6. ~Alive(e)'
  BY <1>2, <1>3, <1>4 DEF Alive
<1>7. \A x \in Exchange \ {e} : Alive(x)' = Alive(x)
  BY <1>1, <1>2, <1>3 DEF Alive
<1> QED  BY <1>1, <1>5, <1>6, <1>7

\* Steps that leave the exchanges alone: all but those that create one and Finish.
LEMMA SameAlive ==
    ASSUME UNCHANGED active_channel_
    PROVE  \A e : Alive(e)' <=> Alive(e)
BY DEF Alive

\* Live queues are told to close.
LEMMA Closing ==
    ASSUME Typed, NEW Q \in SUBSET Exchange, Close(Q)
    PROVE  /\ \A e \in Exchange : cancelled_'[e] = (cancelled_[e] \/ e \in Q)
           /\ \A c \in Conn :
                  \/ posted'[c] = posted[c]
                  \/ /\ active_channel_[c] \in Q
                     /\ posted'[c] = Append(posted[c], CloseTask(active_channel_[c]))
BY DEF Close

\* A message is posted on the strand of its exchange.
LEMMA Pushing ==
    ASSUME Typed, NEW e \in Exchange, kind[e] # "none", NEW m, Push(e, m)
    PROVE  /\ owner[e] \in Conn /\ posted'[owner[e]] = Append(posted[owner[e]], PushTask(e, m))
           /\ \A c \in Conn \ {owner[e]} : posted'[c] = posted[c]
<1>1. owner[e] \in Conn
  BY DEF Typed, ChannelInv
<1>2. posted \in [Conn -> Seq(Task)]
  BY DEF Typed, TypeOK, QueueTypes
<1>3. posted' = [posted EXCEPT ![owner[e]] = Append(posted[owner[e]], PushTask(e, m))]
  BY DEF Push
<1> QED  BY <1>1, <1>2, <1>3

\* What every step leaves of an exchange, once it has been created.
Kept(e) ==
    /\ kind'[e] = kind[e] /\ owner'[e] = owner[e] /\ filter'[e] = filter[e]
    /\ session_id'[e] = session_id[e]

\* The steps that read a request or create an exchange.
Opens(c) == Route(c) \/ Admit(c)

\* The others.
Beyond ==
    \/ \E c \in Conn : \/ TestRunning(c) \/ PushIncoming(c) \/ PushAck(c) \/ CloseDeleted(c)
                       \/ TakeMessage(c) \/ TakeNull(c) \/ Finish(c)
                       \/ Deadline(c) \/ WriteEnds(c) \/ RunTask(c)
    \/ \E k \in Caller : CastStep(k)
    \/ ReadMessage
    \/ \E e \in Exchange : HandlerReturns(e) \/ \E what \in Topic : HandlerNotifies(e, what)
    \/ \E what \in Topic : WriterBroadcasts(what)
    \/ Stop

LEMMA Parts == Next => Beyond \/ \E c \in Conn : Opens(c)
BY DEF Next, Beyond, Opens, Coroutine, RouteGoesOn

LEMMA OpensKeeps ==
    ASSUME Typed, NEW c \in Conn, Opens(c), NEW e \in Exchange
    PROVE  /\ kind[e] # "none" => Kept(e)
           /\ cancelled_[e] => cancelled_'[e]
           /\ closed_'[e] = closed_[e]
<1> USE DEF Kept, queueVars
<1>1. CASE ReadEnds(c) \/ RouteNotification(c)
  BY <1>1 DEF ReadEnds, RouteNotification
<1>2. ASSUME Admit(c)
      PROVE  kind[e] # "none" => Kept(e)
  BY <1>2, Creation DEF Admit
<1>3. ASSUME NEW k \in {"json", "sse"}, NEW session \in {{}} \cup {{s} : s \in Session},
             RoutePost(c, k, session)
      PROVE  kind[e] # "none" => Kept(e)
  BY <1>3 DEF RoutePost
<1>4. ASSUME NEW s \in Session, RouteInitialize(c, s)
      PROVE  kind[e] # "none" => Kept(e)
  BY <1>4 DEF RouteInitialize
<1>5. ASSUME NEW topics \in SUBSET Filterable, RouteListen(c, topics)
      PROVE  kind[e] # "none" => Kept(e)
  BY <1>5, Creation DEF RouteListen
<1>6. ASSUME NEW s \in Session, RouteLegacyGet(c, s)
      PROVE  kind[e] # "none" => Kept(e)
  BY <1>6, Creation DEF RouteLegacyGet
<1>7. ASSUME NEW s \in Session, RouteLegacyDelete(c, s)
      PROVE  kind[e] # "none" => Kept(e)
  BY <1>7 DEF RouteLegacyDelete
<1>8. cancelled_[e] => cancelled_'[e]
  BY <1>1 DEF Opens, Admit, Route, RoutePost, RouteInitialize, RouteListen, RouteLegacyGet,
              RouteLegacyDelete, ReplaceStream, Close
<1>9. closed_'[e] = closed_[e]
  BY <1>1 DEF Opens, Admit, Route, RoutePost, RouteInitialize, RouteListen, RouteLegacyGet,
              RouteLegacyDelete
<1> QED  BY <1>1, <1>2, <1>3, <1>4, <1>5, <1>6, <1>7, <1>8, <1>9 DEF Opens, Route

LEMMA BeyondKeeps ==
    ASSUME Typed, Beyond, NEW e \in Exchange
    PROVE  /\ Kept(e)
           /\ cancelled_[e] => cancelled_'[e]
           /\ closed_[e] => closed_'[e]
<1>1. ASSUME NEW c \in Conn, \/ TestRunning(c) \/ PushIncoming(c) \/ PushAck(c) \/ CloseDeleted(c)
                             \/ TakeMessage(c) \/ TakeNull(c) \/ Finish(c)
                             \/ Deadline(c) \/ WriteEnds(c)
      PROVE  /\ UNCHANGED <<exchangeVars, closed_>>
             /\ cancelled_[e] => cancelled_'[e]
  BY <1>1, ZenonT(60) DEF TestRunning, PushIncoming, PushAck, CloseDeleted, TakeMessage, TakeNull, Finish,
                Deadline, WriteEnds, Written, WriteFails, queueVars, Close,
                Typed, TypeOK, QueueTypes
<1>2. ASSUME NEW c \in Conn, RunTask(c)
      PROVE  /\ UNCHANGED exchangeVars
             /\ cancelled_[e] => cancelled_'[e]
             /\ closed_[e] => closed_'[e]
  BY <1>2 DEF RunTask, Typed, TypeOK, QueueTypes
<1>3. ASSUME \/ \E k \in Caller : CastStep(k)
             \/ ReadMessage
             \/ \E x \in Exchange : HandlerReturns(x) \/ \E what \in Topic : HandlerNotifies(x, what)
             \/ \E what \in Topic : WriterBroadcasts(what)
      PROVE  UNCHANGED <<exchangeVars, closed_, cancelled_>>
  BY <1>3 DEF CastStep, CollectStreams, PushTarget, EndCast, ReadMessage, HandlerReturns,
              HandlerNotifies, WriterBroadcasts, queueVars
<1>4. ASSUME Stop
      PROVE  /\ UNCHANGED <<exchangeVars, closed_>>
             /\ cancelled_[e] => cancelled_'[e]
  BY <1>4 DEF Stop, StopRunning, StopRegistered, StopSessions, StopThreads, queueVars, Close
<1> QED  BY <1>1, <1>2, <1>3, <1>4 DEF Beyond, Kept

LEMMA Keeps ==
    ASSUME Typed, Next, NEW e \in Exchange
    PROVE  /\ kind[e] # "none" => Kept(e)
           /\ cancelled_[e] => cancelled_'[e]
           /\ closed_[e] => closed_'[e]
BY Parts, OpensKeeps, BeyondKeeps

(***************************************************************************)
(* The maps.                                                               *)
(***************************************************************************)

\* A request has been admitted or refused.
LEMMA AdmitMap ==
    ASSUME Typed, MapInv, NEW c \in Conn, Admit(c)
    PROVE  MapInv'
<1>0. UNCHANGED <<phase, subscriptions_, notification_stream, serving, incoming_>>
  BY DEF Admit, serverVars
<1>1. CASE PendingFull
  <2>1. UNCHANGED <<exchangeVars, active_channel_, pending_>>
    BY <1>1 DEF Admit
  <2> QED  BY <1>0, <2>1, SameAlive DEF MapInv
<1>2. CASE ~PendingFull
  <2>1. /\ Create(c, routing[c].kind, routing[c].session, {})
        /\ pending_' = pending_ \cup {Created}
        /\ routing[c].kind \in PostKinds
    BY <1>2 DEF Admit, Typed, ChannelInv, Placed
  <2>2. PICK n \in Exchange :
           /\ n = Created /\ kind[n] = "none" /\ ~Alive(n) /\ Alive(n)' /\ kind'[n] = routing[c].kind
           /\ \A e \in Exchange \ {n} : kind'[e] = kind[e] /\ Alive(e)' = Alive(e)
    BY <2>1, Creation DEF Admit
  <2>3. kind'[n] \in PostKinds /\ kind'[n] # "listen" /\ kind[n] \notin PostKinds \cup {"get"}
    BY <2>1, <2>2 DEF PostKinds, JsonKinds
  <2>4. /\ \A i \in 1 .. Len(incoming_) : incoming_[i] # NoExchange => incoming_[i] \in Exchange
        /\ \A s \in Session : notification_stream[s] # NoExchange => notification_stream[s] \in Exchange
    BY DEF Typed, TypeOK, ServerTypes, MapTypes, Exchange, NoExchange
  <2>5. \A i \in 1 .. Len(incoming_') : incoming_'[i] # NoExchange =>
            kind'[incoming_'[i]] \in PostKinds
    BY <1>0, <2>2, <2>3, <2>4 DEF MapInv
  <2>6. \A s \in Session : notification_stream'[s] # NoExchange =>
            kind'[notification_stream'[s]] = "get"
    BY <1>0, <2>2, <2>3, <2>4 DEF MapInv
  <2>7. \A e \in serving' : kind'[e] \in PostKinds
    BY <1>0, <2>2, <2>3 DEF MapInv, Typed, TypeOK, ServerTypes
  <2>8. \A e \in pending_' : kind'[e] \in PostKinds /\ Alive(e)'
    BY <2>1, <2>2, <2>3 DEF MapInv, Typed, TypeOK, MapTypes
  <2>9. \A e \in subscriptions_' : kind'[e] = "listen" /\ Alive(e)'
    BY <1>0, <2>1, <2>2, <2>3 DEF MapInv, Typed, TypeOK, MapTypes
  <2>10. phase' \in {"running", "stopping"} => \A e \in Exchange : Alive(e)' =>
           /\ kind'[e] \in PostKinds => e \in pending_'
           /\ kind'[e] = "listen" => e \in subscriptions_'
    BY <1>0, <2>1, <2>2, <2>3 DEF MapInv
  <2> QED  BY <2>5, <2>6, <2>7, <2>8, <2>9, <2>10 DEF MapInv
<1> QED  BY <1>1, <1>2

LEMMA OpensMap ==
    ASSUME Typed, MapInv, NEW c \in Conn, Opens(c)
    PROVE  MapInv'
<1> USE DEF mapVars, serverVars
<1>0. /\ \A i \in 1 .. Len(incoming_) : incoming_[i] # NoExchange => incoming_[i] \in Exchange
      /\ \A s \in Session : notification_stream[s] # NoExchange => notification_stream[s] \in Exchange
      /\ pending_ \subseteq Exchange /\ subscriptions_ \subseteq Exchange /\ serving \subseteq Exchange
  BY DEF Typed, TypeOK, ServerTypes, MapTypes, Exchange, NoExchange
<1>1. CASE ReadEnds(c) \/ RouteNotification(c)
  BY <1>1, SameAlive DEF ReadEnds, RouteNotification, MapInv
<1>2. CASE Admit(c)
  BY <1>2, AdmitMap
<1>3. ASSUME NEW k \in {"json", "sse"}, NEW session \in {{}} \cup {{s} : s \in Session},
             RoutePost(c, k, session)
      PROVE  MapInv'
  BY <1>3, SameAlive DEF RoutePost, MapInv
<1>4. ASSUME NEW s \in Session, RouteInitialize(c, s)
      PROVE  MapInv'
  BY <1>4, SameAlive DEF RouteInitialize, MapInv
<1>5. ASSUME NEW topics \in SUBSET Filterable, RouteListen(c, topics)
      PROVE  MapInv'
  <2>1. CASE SubscriptionsFull
    BY <1>5, <2>1, SameAlive DEF RouteListen, MapInv
  <2>2. CASE ~SubscriptionsFull
    <3>1. PICK n \in Exchange :
             /\ n = Created /\ kind[n] = "none" /\ ~Alive(n) /\ Alive(n)' /\ kind'[n] = "listen"
             /\ \A e \in Exchange \ {n} : kind'[e] = kind[e] /\ Alive(e)' = Alive(e)
      BY <1>5, <2>2, Creation DEF RouteListen
    <3>2. kind'[n] \notin PostKinds /\ kind[n] \notin PostKinds
      BY <3>1 DEF PostKinds, JsonKinds
    <3>3. /\ subscriptions_' = subscriptions_ \cup {n}
          /\ UNCHANGED <<phase, pending_, notification_stream, incoming_, serving>>
      BY <1>5, <2>2, <3>1 DEF RouteListen
    <3> QED  BY <1>0, <3>1, <3>2, <3>3 DEF MapInv
  <2> QED  BY <2>1, <2>2
<1>6. ASSUME NEW s \in Session, RouteLegacyGet(c, s)
      PROVE  MapInv'
  <2>1. PICK n \in Exchange :
           /\ n = Created /\ kind[n] = "none" /\ ~Alive(n) /\ Alive(n)' /\ kind'[n] = "get"
           /\ \A e \in Exchange \ {n} : kind'[e] = kind[e] /\ Alive(e)' = Alive(e)
    BY <1>6, Creation DEF RouteLegacyGet
  <2>2. kind'[n] \notin PostKinds /\ kind[n] \notin PostKinds
    BY <2>1 DEF PostKinds, JsonKinds
  <2>3. /\ notification_stream' = [notification_stream EXCEPT ![s] = n]
        /\ UNCHANGED <<phase, pending_, subscriptions_, incoming_, serving>>
    BY <1>6, <2>1 DEF RouteLegacyGet, ReplaceStream
  <2>4. \A x \in Session : notification_stream'[x] # NoExchange =>
            kind'[notification_stream'[x]] = "get"
    <3>1. \A x \in Session : notification_stream'[x] = n \/ notification_stream'[x] = notification_stream[x]
      BY <2>3 DEF Typed, TypeOK, MapTypes
    <3> QED  BY <1>0, <2>1, <3>1 DEF MapInv
  <2> QED  BY <1>0, <2>1, <2>2, <2>3, <2>4 DEF MapInv
<1>7. ASSUME NEW s \in Session, RouteLegacyDelete(c, s)
      PROVE  MapInv'
  BY <1>7, SameAlive DEF RouteLegacyDelete, MapInv
<1> QED  BY <1>1, <1>2, <1>3, <1>4, <1>5, <1>6, <1>7 DEF Opens, Route

\* A request, or a notification, is queued for Server.
LEMMA Entering ==
    ASSUME Typed, NEW c \in Conn, PushIncoming(c)
    PROVE  /\ Len(incoming_') = Len(incoming_) + 1 /\ Len(incoming_) \in Nat
           /\ incoming_'[Len(incoming_')] = active_channel_[c]
           /\ \A i \in 1 .. Len(incoming_) : incoming_'[i] = incoming_[i]
BY Longer DEF PushIncoming, Typed, TypeOK, ChannelTypes, ServerTypes

LEMMA BeyondMap ==
    ASSUME Typed, MapInv, Beyond
    PROVE  MapInv'
<1> USE DEF mapVars, serverVars
<1>0. ASSUME NEW c \in Conn, PushIncoming(c)
      PROVE  MapInv'
  <2>1. active_channel_[c] # NoExchange => kind[active_channel_[c]] \in PostKinds
    BY <1>0 DEF PushIncoming, Typed, ChannelInv, Placed
  <2>2. \A i \in 1 .. Len(incoming_') :
            i \in 1 .. Len(incoming_) \/ incoming_'[i] = active_channel_[c]
    BY <1>0, Entering
  <2>3. \A i \in 1 .. Len(incoming_') : incoming_'[i] # NoExchange => kind[incoming_'[i]] \in PostKinds
    <3>1. ASSUME NEW i \in 1 .. Len(incoming_'), incoming_'[i] # NoExchange, i \in 1 .. Len(incoming_)
          PROVE  kind[incoming_'[i]] \in PostKinds
      <4>1. incoming_'[i] = incoming_[i]
        BY <1>0, <3>1, Entering
      <4> QED  BY <3>1, <4>1 DEF MapInv
    <3>2. ASSUME NEW i \in 1 .. Len(incoming_'), incoming_'[i] # NoExchange,
                 incoming_'[i] = active_channel_[c]
          PROVE  kind[incoming_'[i]] \in PostKinds
      BY <2>1, <3>2, Zenon
    <3> QED  BY <2>2, <3>1, <3>2, Zenon
  <2>4. UNCHANGED <<kind, active_channel_, phase, serving, pending_, subscriptions_, notification_stream>>
    BY <1>0 DEF PushIncoming
  <2> QED  BY <2>3, <2>4, SameAlive DEF MapInv
<1>1. ASSUME NEW c \in Conn, \/ TestRunning(c) \/ PushAck(c) \/ CloseDeleted(c) \/ TakeMessage(c)
                             \/ TakeNull(c) \/ Deadline(c) \/ WriteEnds(c) \/ RunTask(c)
      PROVE  MapInv'
  BY <1>1, SameAlive DEF TestRunning, PushAck, CloseDeleted, TakeMessage, TakeNull, Deadline, WriteEnds,
                         Written, WriteFails, RunTask, MapInv
<1>2. ASSUME NEW c \in Conn, Finish(c)
      PROVE  MapInv'
  <2>1. PICK e \in Exchange :
           /\ e = active_channel_[c] /\ Alive(e) /\ ~Alive(e)'
           /\ \A x \in Exchange \ {e} : Alive(x)' = Alive(x)
    BY <1>2, Ending
  <2>2. pending_' = pending_ \ {e} /\ subscriptions_' = subscriptions_ \ {e}
    BY <1>2, <2>1 DEF Finish, Unregister
  <2>3. UNCHANGED <<kind, phase, notification_stream, incoming_, serving>>
    BY <1>2 DEF Finish
  <2> QED  BY <2>1, <2>2, <2>3 DEF MapInv, Typed, TypeOK, MapTypes
<1>3. ASSUME NEW k \in Caller, CastStep(k)
      PROVE  MapInv'
  BY <1>3, SameAlive DEF CastStep, CollectStreams, PushTarget, EndCast, MapInv
<1>4. CASE ReadMessage
  <2>1. /\ Head(incoming_) = incoming_[1] /\ 1 \in 1 .. Len(incoming_)
        /\ \A i \in 1 .. Len(incoming_') : incoming_'[i] = incoming_[i + 1] /\ i + 1 \in 1 .. Len(incoming_)
    BY <1>4, Rest DEF ReadMessage, PopIncoming, Typed, TypeOK, ServerTypes
  <2>2. \A e \in serving' : e \in serving \/ (e = Head(incoming_) /\ e # NoExchange)
    BY <1>4 DEF ReadMessage, Serve
  <2>3. UNCHANGED <<kind, active_channel_, phase, notification_stream, pending_, subscriptions_>>
    BY <1>4 DEF ReadMessage
  <2> QED  BY <2>1, <2>2, <2>3, SameAlive DEF MapInv
<1>5. CASE \/ \E e \in Exchange : HandlerReturns(e) \/ \E what \in Topic : HandlerNotifies(e, what)
           \/ \E what \in Topic : WriterBroadcasts(what)
  BY <1>5, SameAlive DEF HandlerReturns, LeaveServing, HandlerNotifies, WriterBroadcasts, MapInv
<1>6. CASE Stop
  BY <1>6, SameAlive DEF Stop, StopRunning, StopRegistered, StopSessions, StopThreads, MapInv
<1> QED  BY <1>0, <1>1, <1>2, <1>3, <1>4, <1>5, <1>6 DEF Beyond

(***************************************************************************)
(* Broadcast and the strands.                                              *)
(***************************************************************************)

LEMMA CastSame ==
    ASSUME Typed, CastInv, Next, UNCHANGED cast
    PROVE  CastInv'
<1>1. \A k \in Caller : cast[k].step # "none" => cast[k].targets \in SUBSET Exchange
  BY Letters DEF Typed, TypeOK, ServerTypes
<1>2. ASSUME NEW k \in Caller, cast[k].step # "none", NEW e \in cast[k].targets
      PROVE  kind'[e] = kind[e] /\ filter'[e] = filter[e]
  <2>1. e \in Exchange /\ kind[e] # "none"
    BY <1>1, <1>2 DEF CastInv
  <2> QED  BY <2>1, Keeps DEF Kept
<1>3. ASSUME NEW k \in Caller, cast[k].step # "none", cast[k].msg.from # NoExchange
      PROVE  cast[k].msg.from \in Exchange /\ kind'[cast[k].msg.from] = "json"
  <2>1. cast[k].msg.from \in Exchange /\ kind[cast[k].msg.from] = "json"
    BY <1>3 DEF CastInv, Public
  <2> QED  BY <2>1, Keeps DEF Kept
<1> QED  BY <1>2, <1>3 DEF CastInv, Public

LEMMA CastSteps ==
    ASSUME Typed, CastInv, MapInv, PostedInv, Next
    PROVE  CastInv'
<1> USE DEF mapVars, serverVars, queueVars
<1>0. cast \in [Caller -> Cast] /\ Conn \subseteq Caller /\ Writer \in Caller /\ NoCast.step = "none"
  BY DEF Typed, TypeOK, ServerTypes, Caller, NoCast
<1>1. ASSUME NEW c \in Conn, TakeMessage(c)
      PROVE  CastInv'
  <2> DEFINE m == Head(messages_[active_channel_[c]])
             targets == {x \in subscriptions_ : Alive(x) /\ m.what \in filter[x]}
             new == [step |-> "streams", msg |-> m, targets |-> targets]
  <2>1. CASE cast' = cast
    BY <2>1, <1>1, CastSame DEF Next, Coroutine
  <2>2. CASE cast' # cast
    <3>1. cast' = [cast EXCEPT ![c] = new] /\ ~IsFinal(m) /\ UNCHANGED <<kind, filter>>
      BY <1>1, <2>2 DEF TakeMessage, BeginCast
    <3>2. \A e \in new.targets : kind[e] = "listen" /\ new.msg.what \in filter[e]
      BY DEF MapInv
    <3>3. ~IsFinal(new.msg)
      BY <3>1
    <3>4. Public(new.msg)
      <4>1. PICK e \in Exchange : e = active_channel_[c] /\ kind[e] \in JsonKinds /\ messages_[e] # <<>>
        BY <1>1, <2>2, Working DEF TakeMessage, Popping
      <4>2. messages_[e] \in Seq(Message) /\ 1 \in 1 .. Len(messages_[e]) /\ m = messages_[e][1]
        BY <4>1 DEF Typed, TypeOK, QueueTypes
      <4>3. Legal(e, m)
        BY <4>2 DEF PostedInv
      <4>4. m.from = e /\ kind[e] = "json"
        BY <3>1, <4>1, <4>3 DEF Legal, JsonKinds, PostKinds
      <4> QED  BY <3>1, <4>4 DEF Public
    <3> HIDE DEF new
    <3> QED  BY <1>0, <3>1, <3>2, <3>3, <3>4 DEF CastInv, Public
  <2> QED  BY <2>1, <2>2
<1>2. ASSUME NEW k \in Caller, CollectStreams(k)
      PROVE  CastInv'
  <2> DEFINE new == [step |-> "push", msg |-> cast[k].msg,
                     targets |-> cast[k].targets \cup StreamTargets]
  <2>1. cast' = [cast EXCEPT ![k] = new] /\ cast[k].step # "none" /\ UNCHANGED <<kind, filter>>
    BY <1>2 DEF CollectStreams
  <2>2. \A e \in StreamTargets : kind[e] = "get"
    BY DEF StreamTargets, Streams, LiveSessions, MapInv, Alive
  <2>3. \A e \in new.targets :
            kind[e] = "get" \/ (kind[e] = "listen" /\ new.msg.what \in filter[e])
    BY <2>1, <2>2 DEF CastInv
  <2>4. ~IsFinal(new.msg) /\ Public(new.msg)
    BY <2>1 DEF CastInv
  <2> HIDE DEF new
  <2> QED  BY <1>0, <2>1, <2>3, <2>4 DEF CastInv, Public
<1>3. ASSUME NEW k \in Caller, PushTarget(k)
      PROVE  CastInv'
  <2>0. PICK e \in cast[k].targets :
            cast' = [cast EXCEPT ![k] = [step |-> "push", msg |-> cast[k].msg,
                                         targets |-> cast[k].targets \ {e}]]
    BY <1>3 DEF PushTarget
  <2> DEFINE new == [step |-> "push", msg |-> cast[k].msg, targets |-> cast[k].targets \ {e}]
  <2>1. cast' = [cast EXCEPT ![k] = new] /\ cast[k].step # "none" /\ UNCHANGED <<kind, filter>>
    BY <1>3, <2>0 DEF PushTarget
  <2>3. \A x \in new.targets :
            kind[x] = "get" \/ (kind[x] = "listen" /\ new.msg.what \in filter[x])
    BY <2>1 DEF CastInv
  <2>4. ~IsFinal(new.msg) /\ Public(new.msg)
    BY <2>1 DEF CastInv
  <2> HIDE DEF new
  <2> QED  BY <1>0, <2>1, <2>3, <2>4 DEF CastInv, Public
<1>4. ASSUME NEW k \in Caller, EndCast(k)
      PROVE  CastInv'
  <2>1. cast' = [cast EXCEPT ![k] = NoCast] /\ UNCHANGED <<kind, filter>>
    BY <1>4 DEF EndCast
  <2> QED  BY <1>0, <2>1 DEF CastInv, Public
<1>5. ASSUME NEW what \in Topic, WriterBroadcasts(what)
      PROVE  CastInv'
  <2> DEFINE new == [step |-> "streams", msg |-> [from |-> NoExchange, what |-> what],
                     targets |-> {x \in subscriptions_ : Alive(x) /\ what \in filter[x]}]
  <2>1. cast' = [cast EXCEPT ![Writer] = new] /\ UNCHANGED <<kind, filter>>
    BY <1>5 DEF WriterBroadcasts, BeginCast
  <2>2. \A e \in new.targets : kind[e] = "listen" /\ new.msg.what \in filter[e]
    BY DEF MapInv
  <2>3. ~IsFinal(new.msg) /\ Public(new.msg)
    BY DEF IsFinal, Public
  <2> HIDE DEF new
  <2> QED  BY <1>0, <2>1, <2>2, <2>3 DEF CastInv, Public
<1>6. CASE UNCHANGED cast
  BY <1>6, CastSame
<1>7. \/ UNCHANGED cast
      \/ \E c \in Conn : TakeMessage(c)
      \/ \E k \in Caller : CollectStreams(k) \/ PushTarget(k) \/ EndCast(k)
      \/ \E what \in Topic : WriterBroadcasts(what)
  <2>1. ASSUME NEW c \in Conn, Opens(c) PROVE UNCHANGED cast
    BY <2>1 DEF Opens, Admit, Route, RoutePost, RouteInitialize, RouteNotification, RouteListen,
                RouteLegacyGet, RouteLegacyDelete, ReadEnds
  <2>2. ASSUME NEW c \in Conn, \/ TestRunning(c) \/ PushIncoming(c) \/ PushAck(c) \/ CloseDeleted(c)
                               \/ TakeNull(c) \/ Finish(c) \/ Deadline(c) \/ WriteEnds(c)
                               \/ RunTask(c)
        PROVE  UNCHANGED cast
    BY <2>2 DEF TestRunning, PushIncoming, PushAck, CloseDeleted, TakeNull, Finish, Deadline, WriteEnds,
                Written, WriteFails, RunTask
  <2>3. ASSUME \/ ReadMessage \/ Stop
               \/ \E e \in Exchange : HandlerReturns(e) \/ \E what \in Topic : HandlerNotifies(e, what)
        PROVE  UNCHANGED cast
    BY <2>3 DEF ReadMessage, HandlerReturns, HandlerNotifies, Stop, StopRunning, StopRegistered,
                StopSessions, StopThreads
  <2> QED  BY <2>1, <2>2, <2>3, Parts DEF Beyond, CastStep
<1> QED  BY <1>1, <1>2, <1>3, <1>4, <1>5, <1>6, <1>7

ByHandler == \E e \in Exchange : HandlerReturns(e) \/ \E what \in Topic : HandlerNotifies(e, what)

\* Task t is posted on the strand of c; only a handler posts for a POST.
Sent(c, t) ==
    /\ t \in Task /\ posted'[c] = Append(posted[c], t)
    /\ kind[t.to] # "none" /\ owner[t.to] = c
    /\ t.op = "push" => Legal(t.to, t.msg)
    /\ t.op = "close" => cancelled_'[t.to]
    /\ t.op = "push" => kind[t.to] \notin PostKinds \/ ByHandler

PostedStep(c) ==
    \/ posted'[c] = posted[c]
    \/ posted[c] # <<>> /\ posted'[c] = Tail(posted[c]) /\ RunTask(c)
    \/ \E t \in Task : Sent(c, t)

LEMMA ClosePosts ==
    ASSUME Typed, NEW Q \in SUBSET Exchange, Close(Q), NEW c \in Conn
    PROVE  PostedStep(c)
<1>1. CASE posted'[c] = posted[c]
  BY <1>1 DEF PostedStep
<1>2. CASE posted'[c] # posted[c]
  <2>1. PICK e \in Exchange : /\ e = active_channel_[c] /\ e \in Q
                              /\ posted'[c] = Append(posted[c], CloseTask(e))
    BY <1>2, Closing
  <2>2. kind[e] # "none" /\ owner[e] = c
    BY <2>1 DEF Typed, ChannelInv, Exchange, NoExchange
  <2>3. cancelled_'[e]
    BY <2>1, Closing
  <2>4. CloseTask(e) \in Task /\ CloseTask(e).to = e /\ CloseTask(e).op = "close"
    BY Letters DEF CloseTask
  <2>5. Sent(c, CloseTask(e))
    BY <2>1, <2>2, <2>3, <2>4 DEF Sent
  <2> QED  BY <2>4, <2>5 DEF PostedStep
<1> QED  BY <1>1, <1>2

LEMMA PushPosts ==
    ASSUME Typed, NEW e \in Exchange, kind[e] # "none", NEW m \in Message, Push(e, m), Legal(e, m),
           kind[e] \notin PostKinds \/ ByHandler, NEW c \in Conn
    PROVE  PostedStep(c)
<1>1. CASE c # owner[e]
  BY <1>1, Pushing DEF PostedStep
<1>2. CASE c = owner[e]
  <2>1. posted'[c] = Append(posted[c], PushTask(e, m))
    BY <1>2, Pushing
  <2>2. /\ PushTask(e, m) \in Task /\ PushTask(e, m).to = e /\ PushTask(e, m).op = "push"
        /\ PushTask(e, m).msg = m
    BY Letters DEF PushTask
  <2>3. Sent(c, PushTask(e, m))
    BY <1>2, <2>1, <2>2 DEF Sent
  <2> QED  BY <2>2, <2>3 DEF PostedStep
<1> QED  BY <1>1, <1>2

LEMMA PostedSteps ==
    ASSUME Typed, CastInv, MapInv, Next, NEW c \in Conn
    PROVE  PostedStep(c)
<1>1. CASE UNCHANGED posted
  BY <1>1 DEF PostedStep
<1>2. ASSUME NEW d \in Conn, CloseDeleted(d) \/ \E s \in Session : RouteLegacyGet(d, s)
      PROVE  PostedStep(c)
  <2>1. CASE CloseDeleted(d)
    <3>1. {e \in {routing[d].stream} : Alive(e)} \in SUBSET Exchange
      BY <2>1 DEF CloseDeleted, Typed, ChannelInv, Placed
    <3> QED  BY <2>1, <3>1, ClosePosts DEF CloseDeleted
  <2>2. ASSUME NEW s \in Session, RouteLegacyGet(d, s)
        PROVE  PostedStep(c)
    <3>1. {e \in {notification_stream[s]} : Alive(e)} \in SUBSET Exchange
      BY DEF Typed, TypeOK, MapTypes, Alive, Exchange, NoExchange
    <3> QED  BY <2>2, <3>1, ClosePosts DEF RouteLegacyGet, ReplaceStream
  <2> QED  BY <1>2, <2>1, <2>2
<1>3. ASSUME NEW d \in Conn, PushAck(d)
      PROVE  PostedStep(c)
  <2>1. PICK e \in Exchange : e = active_channel_[d] /\ kind[e] = "listen"
    BY <1>3, Working DEF PushAck, Typed, ChannelInv, Placed
  <2>2. Push(e, Ack(e)) /\ Ack(e) \in Message
    BY <1>3, <2>1, Letters DEF PushAck
  <2>3. kind[e] \notin PostKinds /\ ~IsFinal(Ack(e)) /\ Ack(e).from = e
    BY <2>1 DEF PostKinds, JsonKinds, IsFinal, Ack
  <2> QED  BY <2>1, <2>2, <2>3, PushPosts DEF Legal
<1>4. ASSUME NEW k \in Caller, PushTarget(k)
      PROVE  PostedStep(c)
  <2>1. cast[k].step # "none" /\ cast[k].msg \in Message /\ cast[k].targets \in SUBSET Exchange
    BY <1>4, Letters DEF PushTarget, Typed, TypeOK, ServerTypes
  <2>2. PICK e \in cast[k].targets : Push(e, cast[k].msg)
    BY <1>4 DEF PushTarget
  <2>3. /\ ~IsFinal(cast[k].msg) /\ Public(cast[k].msg)
        /\ kind[e] = "get" \/ (kind[e] = "listen" /\ cast[k].msg.what \in filter[e])
    BY <2>1, <2>2 DEF CastInv
  <2>4. kind[e] \notin PostKinds /\ kind[e] # "none" /\ e \in Exchange
    BY <2>1, <2>3 DEF PostKinds, JsonKinds
  <2>5. Legal(e, cast[k].msg)
    BY <2>3, <2>4 DEF Legal, PostKinds, JsonKinds
  <2> QED  BY <2>1, <2>2, <2>4, <2>5, PushPosts
<1>5. ASSUME NEW d \in Conn, RunTask(d)
      PROVE  PostedStep(c)
  <2>1. posted[d] # <<>> /\ posted' = [posted EXCEPT ![d] = Tail(posted[d])]
    BY <1>5 DEF RunTask
  <2>2. CASE c = d
    BY <1>5, <2>1, <2>2 DEF PostedStep, Typed, TypeOK, QueueTypes
  <2>3. CASE c # d
    BY <2>1, <2>3 DEF PostedStep, Typed, TypeOK, QueueTypes
  <2> QED  BY <2>2, <2>3
<1>6. ASSUME NEW d \in Conn, Finish(d)
      PROVE  PostedStep(c)
  <2>1. {active_channel_[d]} \in SUBSET Exchange
    BY <1>6, Working DEF Finish
  <2> QED  BY <1>6, <2>1, ClosePosts DEF Finish
<1>7. ASSUME NEW e \in Exchange, NEW m \in Message, m.from = e, e \in serving, ByHandler,
             IsFinal(m) \/ kind[e] # "initialize", WriteMessage(e, m)
      PROVE  PostedStep(c)
  <2>1. CASE UNCHANGED posted
    BY <2>1 DEF PostedStep
  <2>2. CASE Push(e, m)
    <3>1. kind[e] \in PostKinds
      BY <1>7 DEF MapInv
    <3>2. kind[e] # "none" /\ Legal(e, m)
      BY <1>7, <3>1 DEF PostKinds, JsonKinds, Legal
    <3> QED  BY <1>7, <2>2, <3>2, PushPosts
  <2> QED  BY <1>7, <2>1, <2>2 DEF WriteMessage
<1>8. ASSUME NEW e \in Exchange, HandlerReturns(e)
      PROVE  PostedStep(c)
  <2>1. Reply(e) \in Message /\ Reply(e).from = e /\ IsFinal(Reply(e))
    BY Letters DEF Reply, IsFinal
  <2>2. ByHandler
    BY <1>8 DEF ByHandler
  <2> QED  BY <1>1, <1>7, <1>8, <2>1, <2>2 DEF HandlerReturns
<1>9. ASSUME NEW e \in Exchange, NEW what \in Topic, HandlerNotifies(e, what)
      PROVE  PostedStep(c)
  <2>1. [from |-> e, what |-> what] \in Message
    BY Letters DEF Exchange
  <2>2. ByHandler
    BY <1>9 DEF ByHandler
  <2> QED  BY <1>7, <1>9, <2>1, <2>2 DEF HandlerNotifies
<1>10. CASE StopRegistered \/ StopSessions
  <2>1. {e \in pending_ \cup subscriptions_ : Alive(e)} \in SUBSET Exchange
    BY DEF Typed, TypeOK, MapTypes
  <2> QED  BY <1>10, <2>1, StreamsExist, ClosePosts DEF StopRegistered, StopSessions
<1>11. \/ UNCHANGED posted
       \/ \E d \in Conn : CloseDeleted(d) \/ \E s \in Session : RouteLegacyGet(d, s)
       \/ \E d \in Conn : PushAck(d) \/ RunTask(d) \/ Finish(d)
       \/ \E k \in Caller : PushTarget(k)
       \/ \E e \in Exchange : HandlerReturns(e) \/ \E what \in Topic : HandlerNotifies(e, what)
       \/ StopRegistered \/ StopSessions
  <2>1. ASSUME NEW d \in Conn, Opens(d)
        PROVE  UNCHANGED posted \/ \E s \in Session : RouteLegacyGet(d, s)
    BY <2>1 DEF Opens, Admit, Route, RoutePost, RouteInitialize, RouteNotification, RouteListen,
                RouteLegacyDelete, ReadEnds
  <2>2. ASSUME NEW d \in Conn, \/ TestRunning(d) \/ PushIncoming(d) \/ TakeMessage(d) \/ TakeNull(d)
                               \/ Deadline(d) \/ WriteEnds(d)
        PROVE  UNCHANGED posted
    BY <2>2 DEF TestRunning, PushIncoming, TakeMessage, TakeNull, Deadline, WriteEnds, Written, WriteFails
  <2>3. ASSUME \/ \E k \in Caller : CollectStreams(k) \/ EndCast(k)
               \/ ReadMessage \/ StopRunning \/ StopThreads
               \/ \E what \in Topic : WriterBroadcasts(what)
        PROVE  UNCHANGED posted
    BY <2>3 DEF CollectStreams, EndCast, ReadMessage, StopRunning, StopThreads, WriterBroadcasts
  <2> QED  BY <2>1, <2>2, <2>3, Parts DEF Beyond, CastStep, Stop
<1> QED  BY <1>1, <1>2, <1>3, <1>4, <1>5, <1>6, <1>8, <1>9, <1>10, <1>11

\* The tasks of a strand after a step: those before it, and the one that was posted.
LEMMA PostedAfter ==
    ASSUME Typed, NEW c \in Conn, PostedStep(c), NEW i \in 1 .. Len(posted'[c])
    PROVE  \/ \E j \in 1 .. Len(posted[c]) : posted'[c][i] = posted[c][j]
           \/ \E t \in Task : Sent(c, t) /\ posted'[c][i] = t
<1>0. posted[c] \in Seq(Task)
  BY DEF Typed, TypeOK, QueueTypes
<1>1. CASE posted'[c] = posted[c]
  BY <1>1
<1>2. CASE posted[c] # <<>> /\ posted'[c] = Tail(posted[c])
  BY <1>0, <1>2, Rest
<1>3. ASSUME NEW t \in Task, Sent(c, t)
      PROVE  \/ \E j \in 1 .. Len(posted[c]) : posted'[c][i] = posted[c][j]
             \/ \E u \in Task : Sent(c, u) /\ posted'[c][i] = u
  <2>1. posted'[c] = Append(posted[c], t)
    BY <1>3 DEF Sent
  <2>2. posted'[c][i] = t \/ (i \in 1 .. Len(posted[c]) /\ posted'[c][i] = posted[c][i])
    BY <1>0, <2>1
  <2> QED  BY <1>3, <2>2
<1> QED  BY <1>1, <1>2, <1>3 DEF PostedStep

LEMMA LegalKept ==
    ASSUME Typed, Next, NEW e \in Exchange, kind[e] # "none", NEW m
    PROVE  /\ Legal(e, m) => Legal(e, m)'
           /\ \A c : \A t \in Task : t.to = e /\ Fitting(c, t) => Fitting(c, t)'
           /\ \A c : \A t \in Task : t.to = e /\ Sent(c, t) => Fitting(c, t)'
<1>1. Kept(e) /\ (cancelled_[e] => cancelled_'[e])
  BY Keeps
<1>2. \A x : Legal(e, x) => Legal(e, x)'
  BY <1>1, Keeps DEF Legal, Public, Kept, Ack, IsFinal
<1> QED  BY <1>1, <1>2 DEF Fitting, Sent, Kept

\* The queue of e grows by the task its strand runs, and shrinks by what its
\* coroutine takes.
MessageStep(e) ==
    \/ messages_'[e] = messages_[e]
    \/ /\ messages_[e] # <<>> /\ messages_'[e] = Tail(messages_[e])
       /\ \E c \in Conn : TakeMessage(c) /\ active_channel_[c] = e
    \/ \E c \in Conn :
          /\ RunTask(c) /\ posted[c] # <<>> /\ Head(posted[c]).op = "push" /\ Head(posted[c]).to = e
          /\ messages_'[e] = Append(messages_[e], Head(posted[c]).msg)
          /\ Len(messages_[e]) < MaxQueued

LEMMA MessageSteps ==
    ASSUME Typed, Next, NEW e \in Exchange
    PROVE  MessageStep(e)
<1>0. messages_ \in [Exchange -> Seq(Message)]
  BY DEF Typed, TypeOK, QueueTypes
<1>1. ASSUME NEW c \in Conn, TakeMessage(c)
      PROVE  MessageStep(e)
  <2>1. CASE active_channel_[c] = e
    BY <1>0, <1>1, <2>1 DEF TakeMessage, MessageStep
  <2>2. CASE active_channel_[c] # e
    <3>1. PICK x, q : x # e /\ messages_' = [messages_ EXCEPT ![x] = q]
      BY <1>1, <2>2, Zenon DEF TakeMessage
    <3>2. messages_'[e] = messages_[e]
      BY <1>0, <3>1
    <3> QED  BY <3>2 DEF MessageStep
  <2> QED  BY <2>1, <2>2
<1>2. ASSUME NEW c \in Conn, RunTask(c)
      PROVE  MessageStep(e)
  <2> DEFINE t == Head(posted[c])
  <2>1. \/ /\ posted[c] # <<>> /\ t.op = "push" /\ Len(messages_[t.to]) < MaxQueued
           /\ messages_' = [messages_ EXCEPT ![t.to] = Append(messages_[t.to], t.msg)]
        \/ UNCHANGED messages_
    BY <1>2 DEF RunTask
  <2>2. CASE t.to = e
    BY <1>0, <1>2, <2>1, <2>2 DEF MessageStep
  <2>3. CASE t.to # e
    BY <1>0, <2>1, <2>3 DEF MessageStep
  <2> QED  BY <2>2, <2>3, Zenon
<1>3. CASE UNCHANGED messages_
  BY <1>3 DEF MessageStep
<1>4. UNCHANGED messages_ \/ \E c \in Conn : TakeMessage(c) \/ RunTask(c)
  <2> USE DEF queueVars
  <2>1. ASSUME NEW c \in Conn, Opens(c) PROVE UNCHANGED messages_
    BY <2>1 DEF Opens, Admit, Route, RoutePost, RouteInitialize, RouteNotification, RouteListen,
                RouteLegacyGet, RouteLegacyDelete, ReadEnds
  <2>2. ASSUME NEW c \in Conn, \/ TestRunning(c) \/ PushIncoming(c) \/ PushAck(c) \/ CloseDeleted(c)
                               \/ TakeNull(c) \/ Finish(c) \/ Deadline(c) \/ WriteEnds(c)
        PROVE  UNCHANGED messages_
    BY <2>2 DEF TestRunning, PushIncoming, PushAck, CloseDeleted, TakeNull, Finish, Deadline, WriteEnds,
                Written, WriteFails
  <2>3. ASSUME \/ ReadMessage \/ Stop \/ \E k \in Caller : CastStep(k)
               \/ \E x \in Exchange : HandlerReturns(x) \/ \E what \in Topic : HandlerNotifies(x, what)
               \/ \E what \in Topic : WriterBroadcasts(what)
        PROVE  UNCHANGED messages_
    BY <2>3 DEF ReadMessage, HandlerReturns, HandlerNotifies, WriterBroadcasts, Stop, StopRunning,
                StopRegistered, StopSessions, StopThreads, CastStep, CollectStreams, PushTarget, EndCast
  <2> QED  BY <2>1, <2>2, <2>3, Parts DEF Beyond
<1> QED  BY <1>1, <1>2, <1>3, <1>4

LEMMA PostedNext ==
    ASSUME Typed, CastInv, MapInv, PostedInv, Next
    PROVE  PostedInv'
<1>1. ASSUME NEW c \in Conn, NEW i \in 1 .. Len(posted'[c])
      PROVE  Fitting(c, posted[c][i])'
  <2>0. posted[c] \in Seq(Task)
    BY DEF Typed, TypeOK, QueueTypes
  <2>1. PICK t \in Task : posted'[c][i] = t /\ (Fitting(c, t) \/ Sent(c, t))
    BY <2>0, PostedSteps, PostedAfter DEF PostedInv
  <2>2. t.to \in Exchange /\ kind[t.to] # "none"
    BY <2>1, Letters DEF Fitting, Sent
  <2>3. Fitting(c, t)'
    BY <2>1, <2>2, LegalKept
  <2> QED  BY <2>1, <2>3 DEF Fitting, Legal, Public, Ack, IsFinal
<1>2. ASSUME NEW e \in Exchange, NEW i \in 1 .. Len(messages_'[e])
      PROVE  kind'[e] # "none" /\ Legal(e, messages_[e][i])'
  <2>0. messages_[e] \in Seq(Message)
    BY DEF Typed, TypeOK, QueueTypes
  <2>1. PICK m : m = messages_'[e][i] /\ Legal(e, m) /\ kind[e] # "none"
    <3>1. CASE messages_'[e] = messages_[e]
      BY <3>1 DEF PostedInv
    <3>2. CASE messages_[e] # <<>> /\ messages_'[e] = Tail(messages_[e])
      BY <2>0, <3>2, Rest DEF PostedInv
    <3>3. ASSUME NEW c \in Conn, posted[c] # <<>>, Head(posted[c]).op = "push",
                 Head(posted[c]).to = e,
                 messages_'[e] = Append(messages_[e], Head(posted[c]).msg)
          PROVE  Legal(e, messages_'[e][i]) /\ kind[e] # "none"
      <4>1. posted[c] \in Seq(Task)
        BY DEF Typed, TypeOK, QueueTypes
      <4>2. Fitting(c, Head(posted[c]))
        BY <3>3, <4>1, Rest DEF PostedInv
      <4>3. Legal(e, Head(posted[c]).msg) /\ kind[e] # "none"
        BY <3>3, <4>2 DEF Fitting
      <4>4. \/ messages_'[e][i] = Head(posted[c]).msg
            \/ i \in 1 .. Len(messages_[e]) /\ messages_'[e][i] = messages_[e][i]
        BY <2>0, <3>3
      <4> QED  BY <4>3, <4>4 DEF PostedInv
    <3> QED  BY <3>1, <3>2, <3>3, MessageSteps DEF MessageStep
  <2>2. Legal(e, m)' /\ kind'[e] # "none"
    BY <2>1, LegalKept, Keeps DEF Kept
  <2> QED  BY <2>1, <2>2 DEF Legal, Public, Ack, IsFinal
<1> QED  BY <1>1, <1>2 DEF PostedInv

(***************************************************************************)
(* Limits, cancellation, Stop.                                             *)
(***************************************************************************)

LEMMA Finite == ASSUME NEW S \in SUBSET Exchange PROVE IsFiniteSet(S) /\ Cardinality(S) \in Nat
<1>1. IsFiniteSet(Exchange)
  BY FS_Interval DEF Exchange
<1> QED  BY <1>1, FS_Subset, FS_CardinalityType

LEMMA Fewer == ASSUME NEW S \in SUBSET Exchange, NEW R \in SUBSET S
               PROVE  Cardinality(R) <= Cardinality(S)
BY Finite, FS_Subset

LEMMA OneMore == ASSUME NEW S \in SUBSET Exchange, NEW e \in Exchange, ~(Cardinality(S) >= MaxPending)
                 PROVE  Cardinality(S \cup {e}) <= MaxPending
<1>1. IsFiniteSet(S) /\ Cardinality(S) \in Nat
  BY Finite
<1>2. Cardinality(S \cup {e}) = Cardinality(S) \/ Cardinality(S \cup {e}) = Cardinality(S) + 1
  BY <1>1, FS_AddElement, Zenon
<1>3. Cardinality(S \cup {e}) \in Nat
  BY Finite
<1> QED  BY <1>1, <1>2, <1>3

LEMMA MapsGrow ==
    ASSUME Typed, Next
    PROVE  /\ \/ pending_' \subseteq pending_
              \/ ~PendingFull /\ \E e \in Exchange : pending_' = pending_ \cup {e}
           /\ \/ subscriptions_' \subseteq subscriptions_
              \/ ~SubscriptionsFull /\ \E e \in Exchange : subscriptions_' = subscriptions_ \cup {e}
<1> USE DEF mapVars
<1>1. ASSUME NEW c \in Conn, Admit(c)
      PROVE  /\ \/ pending_' \subseteq pending_
                \/ ~PendingFull /\ \E e \in Exchange : pending_' = pending_ \cup {e}
             /\ UNCHANGED subscriptions_
  <2>1. CASE PendingFull
    BY <1>1, <2>1 DEF Admit
  <2>2. CASE ~PendingFull
    BY <1>1, <2>2, DrawTypes DEF Admit, Create, Typed, TypeOK
  <2> QED  BY <2>1, <2>2
<1>2. ASSUME NEW c \in Conn, Route(c)
      PROVE  /\ UNCHANGED pending_
             /\ \/ UNCHANGED subscriptions_
                \/ ~SubscriptionsFull /\ \E e \in Exchange : subscriptions_' = subscriptions_ \cup {e}
  <2>1. ASSUME NEW topics, RouteListen(c, topics)
        PROVE  /\ UNCHANGED pending_
               /\ \/ UNCHANGED subscriptions_
                  \/ ~SubscriptionsFull /\ \E e \in Exchange : subscriptions_' = subscriptions_ \cup {e}
    <3>1. CASE SubscriptionsFull
      BY <2>1, <3>1 DEF RouteListen
    <3>2. CASE ~SubscriptionsFull
      BY <2>1, <3>2, DrawTypes DEF RouteListen, Create, Typed, TypeOK
    <3> QED  BY <3>1, <3>2
  <2>2. ASSUME NEW s, RouteInitialize(c, s) \/ RouteLegacyGet(c, s) \/ RouteLegacyDelete(c, s)
        PROVE  UNCHANGED <<pending_, subscriptions_>>
    BY <2>2 DEF RouteInitialize, RouteLegacyGet, RouteLegacyDelete
  <2>3. ASSUME \/ RouteNotification(c) \/ ReadEnds(c)
               \/ \E k, session : RoutePost(c, k, session)
        PROVE  UNCHANGED <<pending_, subscriptions_>>
    BY <2>3 DEF RouteNotification, ReadEnds, RoutePost
  <2> QED  BY <1>2, <2>1, <2>2, <2>3 DEF Route
<1>3. ASSUME NEW c \in Conn, \/ TestRunning(c) \/ PushIncoming(c) \/ PushAck(c) \/ CloseDeleted(c)
                             \/ TakeMessage(c) \/ TakeNull(c) \/ Finish(c)
                             \/ Deadline(c) \/ WriteEnds(c) \/ RunTask(c)
      PROVE  pending_' \subseteq pending_ /\ subscriptions_' \subseteq subscriptions_
  BY <1>3 DEF TestRunning, PushIncoming, PushAck, CloseDeleted, TakeMessage, TakeNull, Finish, Unregister,
              Deadline, WriteEnds, Written, WriteFails, RunTask
<1>4. ASSUME \/ \E k \in Caller : CastStep(k)
             \/ ReadMessage
             \/ \E e \in Exchange : HandlerReturns(e) \/ \E what \in Topic : HandlerNotifies(e, what)
             \/ \E what \in Topic : WriterBroadcasts(what)
             \/ Stop
      PROVE  pending_' \subseteq pending_ /\ subscriptions_' \subseteq subscriptions_
  BY <1>4 DEF CastStep, CollectStreams, PushTarget, EndCast, ReadMessage, HandlerReturns,
              HandlerNotifies, WriterBroadcasts, Stop, StopRunning, StopRegistered, StopSessions, StopThreads
<1> QED  BY <1>1, <1>2, <1>3, <1>4, Parts DEF Opens, Beyond

LEMMA BoundedNext ==
    ASSUME Typed, Bounded, Next
    PROVE  Bounded'
<1>0. pending_ \in SUBSET Exchange /\ subscriptions_ \in SUBSET Exchange
  BY DEF Typed, TypeOK, MapTypes
<1>1. Cardinality(pending_') <= MaxPending
  <2>1. CASE pending_' \subseteq pending_
    <3>1. Cardinality(pending_') <= Cardinality(pending_) /\ Cardinality(pending_) <= MaxPending
      BY <1>0, <2>1, Fewer DEF Bounded
    <3>2. pending_' \in SUBSET Exchange
      BY <1>0, <2>1
    <3> QED  BY <1>0, <3>1, <3>2, Finite
  <2>2. CASE ~PendingFull /\ \E e \in Exchange : pending_' = pending_ \cup {e}
    BY <1>0, <2>2, OneMore DEF PendingFull
  <2> QED  BY <2>1, <2>2, MapsGrow
<1>2. Cardinality(subscriptions_') <= MaxPending
  <2>1. CASE subscriptions_' \subseteq subscriptions_
    <3>1. Cardinality(subscriptions_') <= Cardinality(subscriptions_) /\ Cardinality(subscriptions_) <= MaxPending
      BY <1>0, <2>1, Fewer DEF Bounded
    <3>2. subscriptions_' \in SUBSET Exchange
      BY <1>0, <2>1
    <3> QED  BY <1>0, <3>1, <3>2, Finite
  <2>2. CASE ~SubscriptionsFull /\ \E e \in Exchange : subscriptions_' = subscriptions_ \cup {e}
    BY <1>0, <2>2, OneMore DEF SubscriptionsFull
  <2> QED  BY <2>1, <2>2, MapsGrow
<1>3. ASSUME NEW e \in Exchange PROVE Len(messages_'[e]) <= MaxQueued
  <2>0. messages_[e] \in Seq(Message) /\ Len(messages_[e]) <= MaxQueued
    BY DEF Typed, TypeOK, QueueTypes, Bounded
  <2>1. CASE messages_'[e] = messages_[e]
    BY <2>0, <2>1
  <2>2. CASE messages_[e] # <<>> /\ messages_'[e] = Tail(messages_[e])
    BY <2>0, <2>2, Rest
  <2>3. ASSUME NEW x, messages_'[e] = Append(messages_[e], x), Len(messages_[e]) < MaxQueued
        PROVE  Len(messages_'[e]) <= MaxQueued
    BY <2>0, <2>3
  <2> QED  BY <2>1, <2>2, <2>3, MessageSteps DEF MessageStep
<1> QED  BY <1>1, <1>2, <1>3 DEF Bounded

LEMMA OverNext ==
    ASSUME Typed, PostedInv, OverIsCancelled, Next
    PROVE  OverIsCancelled'
<1>1. ASSUME NEW e \in Exchange, closed_'[e]
      PROVE  cancelled_'[e]
  <2>1. CASE closed_[e]
    BY <2>1, Keeps DEF OverIsCancelled
  <2>2. ASSUME NEW c \in Conn, RunTask(c), ~closed_[e]
        PROVE  cancelled_'[e]
    <3>1. posted[c] \in Seq(Task) /\ posted[c] # <<>>
      BY <2>2 DEF RunTask, Typed, TypeOK, QueueTypes
    <3>2. Fitting(c, Head(posted[c])) /\ Head(posted[c]) \in Task
      BY <3>1, Rest DEF PostedInv
    <3>3. CASE Head(posted[c]).op = "close"
      <4>1. Head(posted[c]).to = e
        BY <1>1, <2>2, <3>3 DEF RunTask, Typed, TypeOK, QueueTypes
      <4> QED  BY <3>2, <3>3, <4>1, Keeps DEF Fitting
    <3>4. CASE Head(posted[c]).op = "push"
      BY <1>1, <2>2, <3>4 DEF RunTask, Typed, TypeOK, QueueTypes
    <3> QED  BY <3>2, <3>3, <3>4, Letters
  <2>3. UNCHANGED closed_ \/ \E c \in Conn : RunTask(c)
    <3> USE DEF queueVars
    <3>1. ASSUME NEW c \in Conn, Opens(c) PROVE UNCHANGED closed_
      BY <3>1 DEF Opens, Admit, Route, RoutePost, RouteInitialize, RouteNotification, RouteListen,
                  RouteLegacyGet, RouteLegacyDelete, ReadEnds
    <3>2. ASSUME NEW c \in Conn, \/ TestRunning(c) \/ PushIncoming(c) \/ PushAck(c) \/ CloseDeleted(c)
                                 \/ TakeMessage(c) \/ TakeNull(c) \/ Finish(c)
                                 \/ Deadline(c) \/ WriteEnds(c)
          PROVE  UNCHANGED closed_
      BY <3>2 DEF TestRunning, PushIncoming, PushAck, CloseDeleted, TakeMessage, TakeNull, Finish,
                  Deadline, WriteEnds, Written, WriteFails
    <3>3. ASSUME \/ ReadMessage \/ Stop \/ \E k \in Caller : CastStep(k)
                 \/ \E x \in Exchange : HandlerReturns(x) \/ \E what \in Topic : HandlerNotifies(x, what)
                 \/ \E what \in Topic : WriterBroadcasts(what)
          PROVE  UNCHANGED closed_
      BY <3>3 DEF ReadMessage, HandlerReturns, HandlerNotifies, WriterBroadcasts, Stop, StopRunning,
                  StopRegistered, StopSessions, StopThreads, CastStep, CollectStreams, PushTarget, EndCast
    <3> QED  BY <3>1, <3>2, <3>3, Parts DEF Beyond
  <2> QED  BY <1>1, <2>1, <2>2, <2>3
<1>2. ASSUME NEW e \in Exchange, kind'[e] # "none", ~Alive(e)'
      PROVE  cancelled_'[e]
  <2>1. CASE kind[e] # "none" /\ ~Alive(e)
    BY <2>1, Keeps DEF OverIsCancelled
  <2>2. ASSUME NEW c \in Conn, Finish(c)
        PROVE  cancelled_'[e]
    <3>1. UNCHANGED kind
      BY <2>2 DEF Finish
    <3> QED  BY <1>2, <2>1, <2>2, <3>1, Ending
  <2>3. ASSUME NEW c \in Conn, NEW k, NEW session, NEW topics, Create(c, k, session, topics),
               pc[c] \in {"read", "admit"}
        PROVE  cancelled_'[e]
    BY <1>2, <2>1, <2>3, Creation
  <2>4. CASE UNCHANGED <<kind, active_channel_>>
    BY <1>2, <2>1, <2>4, SameAlive
  <2>5. \/ UNCHANGED <<kind, active_channel_>>
        \/ \E c \in Conn : Finish(c)
        \/ \E c \in Conn : pc[c] \in {"read", "admit"} /\ \E k, session, topics : Create(c, k, session, topics)
    <3>1. ASSUME NEW c \in Conn, Opens(c)
          PROVE  \/ UNCHANGED <<kind, active_channel_>>
                 \/ pc[c] \in {"read", "admit"} /\ \E k, session, topics : Create(c, k, session, topics)
      <4>1. ASSUME Admit(c)
            PROVE  \/ UNCHANGED <<kind, active_channel_>>
                   \/ pc[c] = "admit" /\ \E q, ss, topics : Create(c, q, ss, topics)
        BY <4>1 DEF Admit
      <4>2. ASSUME NEW topics, RouteListen(c, topics)
            PROVE  \/ UNCHANGED <<kind, active_channel_>>
                   \/ pc[c] = "read" /\ \E q, ss, tt : Create(c, q, ss, tt)
        BY <4>2 DEF RouteListen
      <4>3. ASSUME NEW s, RouteLegacyGet(c, s)
            PROVE  pc[c] = "read" /\ \E q, ss, tt : Create(c, q, ss, tt)
        BY <4>3 DEF RouteLegacyGet
      <4>4. ASSUME \/ RouteNotification(c) \/ ReadEnds(c)
                   \/ \E s \in Session : RouteInitialize(c, s) \/ RouteLegacyDelete(c, s)
                   \/ \E k, session : RoutePost(c, k, session)
            PROVE  UNCHANGED <<kind, active_channel_>>
        BY <4>4 DEF RouteNotification, ReadEnds, RouteInitialize, RouteLegacyDelete, RoutePost
      <4> QED  BY <3>1, <4>1, <4>2, <4>3, <4>4 DEF Opens, Route
    <3>2. ASSUME NEW c \in Conn, \/ TestRunning(c) \/ PushIncoming(c) \/ PushAck(c) \/ CloseDeleted(c)
                                 \/ TakeMessage(c) \/ TakeNull(c) \/ Deadline(c) \/ WriteEnds(c)
                                 \/ RunTask(c)
          PROVE  UNCHANGED <<kind, active_channel_>>
      BY <3>2 DEF TestRunning, PushIncoming, PushAck, CloseDeleted, TakeMessage, TakeNull, Deadline,
                  WriteEnds, Written, WriteFails, RunTask
    <3>3. ASSUME \/ ReadMessage \/ Stop \/ \E k \in Caller : CastStep(k)
                 \/ \E x \in Exchange : HandlerReturns(x) \/ \E what \in Topic : HandlerNotifies(x, what)
                 \/ \E what \in Topic : WriterBroadcasts(what)
          PROVE  UNCHANGED <<kind, active_channel_>>
      BY <3>3 DEF ReadMessage, HandlerReturns, HandlerNotifies, WriterBroadcasts, Stop, StopRunning,
                  StopRegistered, StopSessions, StopThreads, CastStep, CollectStreams, PushTarget, EndCast
    <3> QED  BY <3>1, <3>2, <3>3, Parts DEF Beyond
  <2> QED  BY <2>2, <2>3, <2>4, <2>5
<1> QED  BY <1>1, <1>2 DEF OverIsCancelled

\* Server has e, or will: it is in its queue, in process, or past the test of running_.
AtServer(e) ==
    \/ e \in serving
    \/ \E i \in 1 .. Len(incoming_) : incoming_[i] = e
    \/ \E c \in Conn : pc[c] = "push" /\ active_channel_[c] = e

\* A coroutine that goes on is where it goes to, and moves no other.
LEMMA Moved ==
    ASSUME Typed, NEW k \in Conn, NEW q, Goto(k, q)
    PROVE  pc'[k] = q
BY DEF Typed, TypeOK, ChannelTypes

LEMMA Elsewhere ==
    ASSUME Typed, NEW c \in Conn, NEW k \in Conn, k # c, NEW q, Goto(k, q)
    PROVE  pc'[c] = pc[c]
BY DEF Typed, TypeOK, ChannelTypes

\* A Broadcast moves no coroutine but the one that has called it, at its end.
LEMMA CastMoves ==
    ASSUME NEW k \in Caller, CastStep(k)
    PROVE  /\ UNCHANGED <<active_channel_, outcome>>
           /\ UNCHANGED pc \/ (k \in Conn /\ cast[k].step = "push" /\ Goto(k, "pop"))
<1> USE DEF queueVars
<1>1. CASE CollectStreams(k)
  BY <1>1 DEF CollectStreams
<1>2. CASE PushTarget(k)
  BY <1>2 DEF PushTarget
<1>3. CASE EndCast(k)
  BY <1>3 DEF EndCast
<1> QED  BY <1>1, <1>2, <1>3 DEF CastStep

\* Only what Route does on c takes c into Enqueue, or from its test to its push.
LEMMA EnqueuePlace ==
    ASSUME Typed, Next, NEW c \in Conn, pc'[c] \in {"test", "push"}, ~Opens(c), ~TestRunning(c)
    PROVE  pc'[c] = pc[c] /\ active_channel_'[c] = active_channel_[c]
<1> USE DEF Typed, TypeOK, ChannelTypes
<1>1. ASSUME NEW d \in Conn, Opens(d), d # c
      PROVE  pc'[c] = pc[c] /\ active_channel_'[c] = active_channel_[c]
  <2>1. \/ UNCHANGED <<pc, active_channel_>>
        \/ \E q \in Place : /\ Goto(d, q)
                            /\ \A x \in Conn \ {d} : active_channel_'[x] = active_channel_[x]
    BY <1>1 DEF Opens, Admit, Route, RoutePost, RouteInitialize, RouteNotification, RouteListen,
                RouteLegacyGet, RouteLegacyDelete, ReadEnds, Create
  <2> QED  BY <1>1, <2>1
<1>2. ASSUME NEW d \in Conn, TestRunning(d), d # c
      PROVE  pc'[c] = pc[c] /\ active_channel_'[c] = active_channel_[c]
  BY <1>2 DEF TestRunning
<1>3. ASSUME NEW d \in Conn, \/ PushIncoming(d) \/ PushAck(d) \/ CloseDeleted(d) \/ TakeMessage(d)
                             \/ TakeNull(d) \/ Finish(d) \/ Deadline(d) \/ WriteEnds(d)
      PROVE  pc'[c] = pc[c] /\ active_channel_'[c] = active_channel_[c]
  <2>1. \E q \in {"read", "pop", "write", "cast", "last", "finish", "gone"} :
            /\ Goto(d, q)
            /\ \A x \in Conn \ {d} : active_channel_'[x] = active_channel_[x]
    BY <1>3, RoutedPlace DEF PushIncoming, PushAck, CloseDeleted, TakeMessage, TakeNull, Finish, Deadline,
             WriteEnds, Written, WriteFails, EndExchange
  <2> QED  BY <2>1
<1>4. ASSUME NEW k \in Caller, CastStep(k)
      PROVE  pc'[c] = pc[c] /\ active_channel_'[c] = active_channel_[c]
  <2>1. CASE UNCHANGED pc
    BY <1>4, <2>1, CastMoves
  <2>2. CASE k \in Conn /\ Goto(k, "pop")
    <3>1. pc'[k] = "pop"
      BY <2>2, Moved
    <3>2. k # c
      BY <3>1
    <3>3. pc'[c] = pc[c]
      BY <2>2, <3>2, Elsewhere
    <3> QED  BY <1>4, <3>3, CastMoves
  <2> QED  BY <1>4, <2>1, <2>2, CastMoves
<1>5. ASSUME \/ ReadMessage \/ Stop \/ \E d \in Conn : RunTask(d)
             \/ \E x \in Exchange : HandlerReturns(x) \/ \E what \in Topic : HandlerNotifies(x, what)
             \/ \E what \in Topic : WriterBroadcasts(what)
      PROVE  UNCHANGED <<pc, active_channel_>>
  BY <1>5 DEF RunTask, ReadMessage, HandlerReturns, HandlerNotifies, WriterBroadcasts, Stop, StopRunning,
              StopRegistered, StopSessions, StopThreads
<1>6. ASSUME NEW d \in Conn, Opens(d) \/ TestRunning(d)
      PROVE  d # c
  BY <1>6
<1> HIDE DEF Typed, Goto
<1> QED  BY <1>1, <1>2, <1>3, <1>4, <1>5, <1>6, Parts DEF Beyond

\* What leads to the push of Enqueue: the test of running_.
LEMMA PushPlace ==
    ASSUME Typed, Next, NEW c \in Conn, pc'[c] = "push"
    PROVE  /\ pc[c] = "push" \/ (TestRunning(c) /\ phase = "running")
           /\ active_channel_'[c] = active_channel_[c]
<1> USE DEF Typed, TypeOK, ChannelTypes
<1>1. ~Opens(c)
  BY DEF Opens, Admit, Route, RoutePost, RouteInitialize, RouteNotification, RouteListen,
         RouteLegacyGet, RouteLegacyDelete, ReadEnds
<1>2. CASE TestRunning(c)
  BY <1>2, RoutedPlace DEF TestRunning, Running
<1> QED  BY <1>1, <1>2, EnqueuePlace

\* A request comes to Enqueue once, when it is admitted.
LEMMA UnsentNext ==
    ASSUME Typed, Next, NEW e \in Exchange, kind[e] # "none", Unsent(e)'
    PROVE  Unsent(e)
<1> USE DEF Typed, TypeOK, ChannelTypes
<1>1. PICK c \in Conn : pc'[c] \in {"test", "push"} /\ active_channel_'[c] = e
  BY DEF Unsent
<1>2. CASE Admit(c)
  BY <1>1, <1>2, Creation DEF Admit
<1>3. CASE RouteNotification(c)
  BY <1>1, <1>3 DEF RouteNotification, ChannelInv, Placed, Exchange, NoExchange
<1>4. CASE Opens(c) /\ ~Admit(c) /\ ~RouteNotification(c)
  BY <1>1, <1>4 DEF Opens, Route, RoutePost, RouteInitialize, RouteListen, RouteLegacyGet,
                    RouteLegacyDelete, ReadEnds
<1>5. CASE TestRunning(c)
  BY <1>1, <1>5 DEF TestRunning, Unsent
<1>6. CASE ~Opens(c) /\ ~TestRunning(c)
  BY <1>1, <1>6, EnqueuePlace DEF Unsent
<1> QED  BY <1>2, <1>3, <1>4, <1>5, <1>6

\* Once running_ is FALSE Server gets nothing new.
LEMMA NothingNew ==
    ASSUME Typed, Next, phase # "running", NEW e \in Exchange, AtServer(e)'
    PROVE  AtServer(e)
<1> USE DEF serverVars
<1>1. CASE \E c \in Conn : pc'[c] = "push" /\ active_channel_'[c] = e
  BY <1>1, PushPlace DEF AtServer
<1>2. CASE e \in serving' \/ \E i \in 1 .. Len(incoming_') : incoming_'[i] = e
  <2>1. CASE ReadMessage
    <3>1. /\ Head(incoming_) = incoming_[1] /\ 1 \in 1 .. Len(incoming_)
          /\ \A i \in 1 .. Len(incoming_') : incoming_'[i] = incoming_[i + 1] /\ i + 1 \in 1 .. Len(incoming_)
      BY <2>1, Rest DEF ReadMessage, PopIncoming, Typed, TypeOK, ServerTypes
    <3>2. \A x \in serving' : x \in serving \/ x = Head(incoming_)
      BY <2>1 DEF ReadMessage, Serve
    <3> QED  BY <1>2, <3>1, <3>2 DEF AtServer
  <2>2. ASSUME NEW c \in Conn, PushIncoming(c)
        PROVE  AtServer(e)
    <3>1. pc[c] = "push" /\ UNCHANGED serving
      BY <2>2 DEF PushIncoming
    <3>2. ASSUME NEW i \in 1 .. Len(incoming_'), incoming_'[i] = e
          PROVE  active_channel_[c] = e \/ \E j \in 1 .. Len(incoming_) : incoming_[j] = e
      BY <2>2, <3>2, Entering
    <3> QED  BY <1>2, <3>1, <3>2 DEF AtServer
  <2>3. ASSUME NEW c \in Conn, Opens(c)
        PROVE  UNCHANGED <<incoming_, serving>>
    BY <2>3 DEF Opens, Admit, Route, RoutePost, RouteInitialize, RouteNotification, RouteListen,
                RouteLegacyGet, RouteLegacyDelete, ReadEnds
  <2>4. ASSUME NEW c \in Conn, \/ TestRunning(c) \/ PushAck(c) \/ CloseDeleted(c) \/ TakeMessage(c)
                               \/ TakeNull(c) \/ Finish(c) \/ Deadline(c) \/ WriteEnds(c) \/ RunTask(c)
        PROVE  UNCHANGED <<incoming_, serving>>
    BY <2>4 DEF TestRunning, PushAck, CloseDeleted, TakeMessage, TakeNull, Finish, Deadline, WriteEnds,
                Written, WriteFails, RunTask
  <2>5. ASSUME \/ Stop \/ \E k \in Caller : CastStep(k)
               \/ \E x \in Exchange : HandlerReturns(x) \/ \E what \in Topic : HandlerNotifies(x, what)
               \/ \E what \in Topic : WriterBroadcasts(what)
        PROVE  UNCHANGED incoming_ /\ serving' \subseteq serving
    BY <2>5 DEF HandlerReturns, LeaveServing, HandlerNotifies, WriterBroadcasts, Stop, StopRunning,
                StopRegistered, StopSessions, StopThreads, CastStep, CollectStreams, PushTarget, EndCast
  <2> QED  BY <1>2, <2>1, <2>2, <2>3, <2>4, <2>5, Parts DEF Beyond, AtServer
<1> QED  BY <1>1, <1>2 DEF AtServer

\* What Server has, or will have, is the request of a POST.
LEMMA ServerHas ==
    ASSUME Typed, MapInv, NEW e \in Exchange, AtServer(e)
    PROVE  kind[e] \in PostKinds
BY DEF AtServer, MapInv, Typed, ChannelInv, Placed, Exchange, NoExchange

\* Only Stop changes its phase.
LEMMA PhaseSteps ==
    ASSUME Next
    PROVE  phase' = phase \/ Stop
<1>1. ASSUME NEW c \in Conn, Opens(c) PROVE phase' = phase
  BY <1>1 DEF Opens, Admit, Route, RoutePost, RouteInitialize, RouteNotification, RouteListen,
              RouteLegacyGet, RouteLegacyDelete, ReadEnds
<1>2. ASSUME NEW c \in Conn, \/ TestRunning(c) \/ PushIncoming(c) \/ PushAck(c) \/ CloseDeleted(c)
                             \/ TakeMessage(c) \/ TakeNull(c) \/ Finish(c)
                             \/ Deadline(c) \/ WriteEnds(c) \/ RunTask(c)
      PROVE  phase' = phase
  BY <1>2 DEF TestRunning, PushIncoming, PushAck, CloseDeleted, TakeMessage, TakeNull, Finish, Deadline,
              WriteEnds, Written, WriteFails, RunTask
<1>3. ASSUME \/ ReadMessage \/ \E k \in Caller : CastStep(k)
             \/ \E x \in Exchange : HandlerReturns(x) \/ \E what \in Topic : HandlerNotifies(x, what)
             \/ \E what \in Topic : WriterBroadcasts(what)
      PROVE  phase' = phase
  BY <1>3 DEF ReadMessage, HandlerReturns, HandlerNotifies, WriterBroadcasts, CastStep, CollectStreams,
              PushTarget, EndCast
<1> QED  BY <1>1, <1>2, <1>3, Parts DEF Beyond

LEMMA StopNext ==
    ASSUME Typed, Typed', MapInv, OverIsCancelled, StopReachesWorkers, Next
    PROVE  StopReachesWorkers'
<1>0. StopReachesWorkers <=>
          (phase \notin {"running", "stopping"} => \A e \in Exchange : AtServer(e) => cancelled_[e])
  BY DEF Typed, TypeOK, ServerTypes, ChannelTypes, AtServer, StopReachesWorkers, Exchange, NoExchange
<1>1. ASSUME phase' \notin {"running", "stopping"}, NEW e \in Exchange, AtServer(e)'
      PROVE  cancelled_'[e]
  <2>1. CASE phase \notin {"running", "stopping"}
    BY <1>0, <1>1, <2>1, NothingNew, Keeps
  <2>2. CASE phase \in {"running", "stopping"}
    <3>1. StopRegistered
      BY <1>1, <2>2, PhaseSteps DEF Stop, StopRunning, StopSessions, StopThreads
    <3>2. kind[e] \in PostKinds
      <4>1. AtServer(e)
        BY <1>1, <3>1, NothingNew DEF StopRegistered
      <4> QED  BY <4>1, ServerHas
    <3>3. CASE Alive(e)
      <4>1. e \in {x \in pending_ \cup subscriptions_ : Alive(x)}
        BY <2>2, <3>2, <3>3 DEF MapInv
      <4> QED  BY <3>1, <4>1 DEF StopRegistered, Close
    <3>4. CASE ~Alive(e)
      BY <3>2, <3>4, Keeps DEF OverIsCancelled, PostKinds, JsonKinds
    <3> QED  BY <3>3, <3>4
  <2> QED  BY <2>1, <2>2
<1>2. StopReachesWorkers' <=>
          (phase' \notin {"running", "stopping"} => \A e \in Exchange : AtServer(e)' => cancelled_'[e])
  BY DEF Typed, TypeOK, ServerTypes, ChannelTypes, AtServer, StopReachesWorkers, Exchange, NoExchange
<1> QED  BY <1>1, <1>2

\* A DELETE that has taken a stream off its session goes on to close it.
LEMMA ClosersGoOn ==
    ASSUME Typed, Next, NEW c \in Conn, pc[c] = "close", ~CloseDeleted(c)
    PROVE  pc'[c] = "close" /\ routing'[c] = routing[c]
<1> USE DEF Typed, TypeOK, ChannelTypes
<1>1. ASSUME NEW d \in Conn, Opens(d)
      PROVE  pc'[c] = "close" /\ routing'[c] = routing[c]
  <2>1. d # c
    BY <1>1 DEF Opens, Admit, Route, RoutePost, RouteInitialize, RouteNotification, RouteListen,
                RouteLegacyGet, RouteLegacyDelete, ReadEnds
  <2>2. /\ UNCHANGED pc \/ \E q : Goto(d, q)
        /\ UNCHANGED routing \/ \E x : routing' = [routing EXCEPT ![d] = x]
    BY <1>1 DEF Opens, Admit, Route, RoutePost, RouteInitialize, RouteNotification, RouteListen,
                RouteLegacyGet, RouteLegacyDelete, ReadEnds, Create
  <2> QED  BY <2>1, <2>2
<1>2. ASSUME NEW d \in Conn, \/ TestRunning(d) \/ PushIncoming(d) \/ PushAck(d) \/ CloseDeleted(d)
                             \/ TakeMessage(d) \/ TakeNull(d) \/ Finish(d) \/ Deadline(d) \/ WriteEnds(d)
      PROVE  pc'[c] = "close" /\ routing'[c] = routing[c]
  <2>1. d # c
    BY <1>2 DEF TestRunning, PushIncoming, PushAck, TakeMessage, TakeNull, Popping, Finish, Deadline,
                WriteEnds, Written, WriteFails
  <2>2. pc'[c] = pc[c]
    BY <1>2, <2>1 DEF TestRunning, PushIncoming, PushAck, CloseDeleted, TakeMessage, TakeNull, Finish,
                      Deadline, WriteEnds, Written, WriteFails, EndExchange
  <2>3. routing'[c] = routing[c]
    BY <1>2, <2>1 DEF TestRunning, PushIncoming, PushAck, CloseDeleted, TakeMessage, TakeNull, Finish,
                      Deadline, WriteEnds, Written, WriteFails
  <2> QED  BY <2>2, <2>3
<1>3. ASSUME NEW k \in Caller, CastStep(k)
      PROVE  pc'[c] = "close" /\ routing'[c] = routing[c]
  <2>1. k # c /\ UNCHANGED routing
    BY <1>3 DEF CastStep, CollectStreams, PushTarget, EndCast, ChannelInv, Placed
  <2>2. CASE UNCHANGED pc
    BY <2>1, <2>2
  <2>3. CASE Goto(k, "pop")
    BY <2>1, <2>3, Elsewhere
  <2> QED  BY <1>3, <2>2, <2>3, CastMoves
<1>4. ASSUME \/ ReadMessage \/ Stop \/ \E d \in Conn : RunTask(d)
             \/ \E x \in Exchange : HandlerReturns(x) \/ \E what \in Topic : HandlerNotifies(x, what)
             \/ \E what \in Topic : WriterBroadcasts(what)
      PROVE  UNCHANGED <<pc, routing>>
  BY <1>4 DEF RunTask, ReadMessage, HandlerReturns, HandlerNotifies, WriterBroadcasts, Stop, StopRunning,
              StopRegistered, StopSessions, StopThreads
<1> QED  BY <1>1, <1>2, <1>3, <1>4, Parts DEF Beyond

\* The stream of a session, and one that is about to be closed.
Current(e) == \E s \in Session : /\ sessions_[s] = "live" /\ s \in session_id[e]
                                 /\ notification_stream[s] = e
Doomed(e) == \E c \in Conn : pc[c] = "close" /\ routing[c].stream = e

\* What a step makes of the stream of a session that stays open.
LEMMA CurrentNext ==
    ASSUME Typed, Next, NEW e \in Exchange, Current(e), kind[e] = "get", Alive(e), Alive(e)',
           ~cancelled_'[e]
    PROVE  Current(e)' \/ Doomed(e)'
<1> USE DEF mapVars
<1>0. /\ sessions_ \in [Session -> {"fresh", "live", "gone"}]
      /\ notification_stream \in [Session -> 0 .. MaxExchange]
  BY DEF Typed, TypeOK, MapTypes
<1>1. PICK x \in Session : sessions_[x] = "live" /\ x \in session_id[e] /\ notification_stream[x] = e
  BY DEF Current
<1>2. session_id'[e] = session_id[e]
  BY Keeps DEF Kept
<1>3. ASSUME NEW c \in Conn, NEW s \in Session, RouteInitialize(c, s)
      PROVE  Current(e)'
  <2>1. sessions_'[x] = "live" /\ UNCHANGED notification_stream
    BY <1>0, <1>1, <1>3 DEF RouteInitialize
  <2> QED  BY <1>1, <1>2, <2>1 DEF Current
<1>4. ASSUME NEW c \in Conn, NEW s \in Session, RouteLegacyGet(c, s)
      PROVE  Current(e)'
  <2>1. /\ notification_stream' = [notification_stream EXCEPT ![s] = Created]
        /\ UNCHANGED sessions_
        /\ Close({y \in {notification_stream[s]} : Alive(y)})
    BY <1>4 DEF RouteLegacyGet, ReplaceStream
  <2>2. x # s
    BY <1>1, <2>1 DEF Close
  <2> QED  BY <1>0, <1>1, <1>2, <2>1, <2>2 DEF Current
<1>5. ASSUME NEW c \in Conn, NEW s \in Session, RouteLegacyDelete(c, s)
      PROVE  Current(e)' \/ Doomed(e)'
  <2>1. CASE x = s
    <3>1. pc'[c] = "close" /\ routing'[c].stream = e
      BY <1>1, <1>5, <2>1 DEF RouteLegacyDelete, Typed, TypeOK, ChannelTypes
    <3> QED  BY <3>1 DEF Doomed
  <2>2. CASE x # s
    <3>1. sessions_'[x] = "live" /\ UNCHANGED notification_stream
      BY <1>0, <1>1, <1>5, <2>2 DEF RouteLegacyDelete
    <3> QED  BY <1>1, <1>2, <3>1 DEF Current
  <2> QED  BY <2>1, <2>2
<1>6. CASE StopSessions
  <2>1. e \in StreamTargets
    BY <1>1 DEF StreamTargets, Streams, LiveSessions
  <2> QED  BY <1>6, <2>1 DEF StopSessions, Close
<1>7. CASE UNCHANGED <<sessions_, notification_stream>>
  BY <1>1, <1>2, <1>7 DEF Current
<1>8. \/ UNCHANGED <<sessions_, notification_stream>>
      \/ \E c \in Conn, s \in Session : RouteInitialize(c, s) \/ RouteLegacyGet(c, s) \/ RouteLegacyDelete(c, s)
      \/ StopSessions
  <2>1. ASSUME NEW c \in Conn, Opens(c),
               ~\E s \in Session : RouteInitialize(c, s) \/ RouteLegacyGet(c, s) \/ RouteLegacyDelete(c, s)
        PROVE  UNCHANGED <<sessions_, notification_stream>>
    BY <2>1 DEF Opens, Admit, Route, RoutePost, RouteNotification, RouteListen, ReadEnds
  <2>2. ASSUME NEW c \in Conn, \/ TestRunning(c) \/ PushIncoming(c) \/ PushAck(c) \/ CloseDeleted(c)
                               \/ TakeMessage(c) \/ TakeNull(c) \/ Finish(c)
                               \/ Deadline(c) \/ WriteEnds(c) \/ RunTask(c)
        PROVE  UNCHANGED <<sessions_, notification_stream>>
    BY <2>2 DEF TestRunning, PushIncoming, PushAck, CloseDeleted, TakeMessage, TakeNull, Finish, Deadline,
                WriteEnds, Written, WriteFails, RunTask
  <2>3. ASSUME \/ ReadMessage \/ StopRunning \/ StopRegistered \/ StopThreads
               \/ \E k \in Caller : CastStep(k)
               \/ \E y \in Exchange : HandlerReturns(y) \/ \E what \in Topic : HandlerNotifies(y, what)
               \/ \E what \in Topic : WriterBroadcasts(what)
        PROVE  UNCHANGED <<sessions_, notification_stream>>
    BY <2>3 DEF ReadMessage, HandlerReturns, HandlerNotifies, WriterBroadcasts, StopRunning,
                StopRegistered, StopThreads, CastStep, CollectStreams, PushTarget, EndCast
  <2> QED  BY <2>1, <2>2, <2>3, Parts DEF Beyond, Stop
<1> QED  BY <1>3, <1>4, <1>5, <1>6, <1>7, <1>8

\* A new stream is the current one of its session; the other steps create none.
LEMMA NewStream ==
    ASSUME Typed, Next, NEW e \in Exchange, kind'[e] = "get", Alive(e)', ~(kind[e] = "get" /\ Alive(e))
    PROVE  Current(e)'
<1>1. ASSUME NEW c \in Conn, NEW s \in Session, RouteLegacyGet(c, s)
      PROVE  Current(e)'
  <2>1. PICK n \in Exchange :
           /\ n = Created /\ session_id'[n] = {s}
           /\ \A x \in Exchange \ {n} : kind'[x] = kind[x] /\ Alive(x)' = Alive(x)
    BY <1>1, Creation DEF RouteLegacyGet
  <2>2. e = n
    BY <2>1
  <2>3. notification_stream'[s] = n /\ sessions_'[s] = "live"
    BY <1>1, <2>1 DEF RouteLegacyGet, ReplaceStream, Typed, TypeOK, MapTypes
  <2> QED  BY <2>1, <2>2, <2>3 DEF Current
<1>2. ASSUME NEW c \in Conn, Opens(c), ~\E s \in Session : RouteLegacyGet(c, s)
      PROVE  FALSE
  <2>1. CASE UNCHANGED <<kind, active_channel_>>
    BY <2>1, SameAlive
  <2>2. ASSUME NEW k \in PostKinds \cup {"listen"}, NEW session, NEW topics,
               Create(c, k, session, topics), pc[c] \in {"read", "admit"}
        PROVE  FALSE
    BY <2>2, Creation DEF PostKinds, JsonKinds
  <2>3. CASE Admit(c)
    BY <2>1, <2>2, <2>3 DEF Admit, Typed, ChannelInv, Placed
  <2>4. ASSUME NEW topics \in SUBSET Filterable, RouteListen(c, topics)
        PROVE  FALSE
    BY <2>1, <2>2, <2>4 DEF RouteListen
  <2>5. CASE \/ RouteNotification(c) \/ ReadEnds(c)
             \/ \E s \in Session : RouteInitialize(c, s) \/ RouteLegacyDelete(c, s)
             \/ \E k, session : RoutePost(c, k, session)
    BY <2>1, <2>5 DEF RouteNotification, ReadEnds, RouteInitialize, RouteLegacyDelete, RoutePost
  <2> QED  BY <1>2, <2>3, <2>4, <2>5 DEF Opens, Route
<1>3. ASSUME NEW c \in Conn, Finish(c)
      PROVE  FALSE
  <2>1. UNCHANGED kind
    BY <1>3 DEF Finish
  <2> QED  BY <1>3, <2>1, Ending
<1>4. ASSUME NEW c \in Conn, \/ TestRunning(c) \/ PushIncoming(c) \/ PushAck(c) \/ CloseDeleted(c)
                             \/ TakeMessage(c) \/ TakeNull(c) \/ Deadline(c) \/ WriteEnds(c)
                             \/ RunTask(c)
      PROVE  FALSE
  <2>1. UNCHANGED <<kind, active_channel_>>
    BY <1>4 DEF TestRunning, PushIncoming, PushAck, CloseDeleted, TakeMessage, TakeNull, Deadline,
                WriteEnds, Written, WriteFails, RunTask
  <2> QED  BY <2>1, SameAlive
<1>5. ASSUME \/ ReadMessage \/ Stop \/ \E k \in Caller : CastStep(k)
             \/ \E x \in Exchange : HandlerReturns(x) \/ \E what \in Topic : HandlerNotifies(x, what)
             \/ \E what \in Topic : WriterBroadcasts(what)
      PROVE  FALSE
  <2>1. UNCHANGED <<kind, active_channel_>>
    BY <1>5 DEF ReadMessage, HandlerReturns, HandlerNotifies, WriterBroadcasts, Stop, StopRunning,
                StopRegistered, StopSessions, StopThreads, CastStep, CollectStreams, PushTarget, EndCast
  <2> QED  BY <2>1, SameAlive
<1> QED  BY <1>1, <1>2, <1>3, <1>4, <1>5, Parts DEF Beyond

LEMMA StreamNext ==
    ASSUME Typed, OneStreamPerSession, Next
    PROVE  OneStreamPerSession'
<1> SUFFICES ASSUME NEW e \in Exchange, kind'[e] = "get", Alive(e)', ~cancelled_'[e]
             PROVE  Current(e)' \/ Doomed(e)'
  BY DEF OneStreamPerSession, LiveSessions, Current, Doomed
<1>1. CASE ~(kind[e] = "get" /\ Alive(e))
  BY <1>1, NewStream
<1>2. CASE kind[e] = "get" /\ Alive(e)
  <2>1. Current(e) \/ Doomed(e)
    BY <1>2, Keeps DEF OneStreamPerSession, LiveSessions, Current, Doomed
  <2>2. ASSUME NEW c \in Conn, pc[c] = "close", routing[c].stream = e
        PROVE  Doomed(e)'
    <3>1. ~CloseDeleted(c)
      BY <1>2, <2>2 DEF CloseDeleted, Close
    <3> QED  BY <2>2, <3>1, ClosersGoOn DEF Doomed
  <2> QED  BY <1>2, <2>1, <2>2, CurrentNext DEF Doomed
<1> QED  BY <1>1, <1>2

(***************************************************************************)
(* One answer, and the last of its messages.                               *)
(***************************************************************************)

LEMMA PostedSeq ==
    ASSUME Typed
    PROVE  /\ \A c \in Conn : posted[c] \in Seq(Task)
           /\ \A c \in Conn : \A i \in 1 .. Len(posted[c]) : posted[c][i] \in Task
           /\ \A e \in Exchange : messages_[e] \in Seq(Message)
           /\ incoming_ \in Seq(0 .. MaxExchange)
BY DEF Typed, TypeOK, QueueTypes, ServerTypes

\* An answer on a strand is a push of the final message.
LEMMA AnswerIsPush ==
    ASSUME Typed, NEW e \in Exchange, NEW c \in Conn, NEW i
    PROVE  AnswerPosted(e, c, i) => PushPosted(e, c, i)
BY DEF AnswerPosted, PushPosted, PushTask

\* A step that brings nothing to e: what is on the way was on the way before.
Quiet(e) ==
    /\ messages_'[e] = messages_[e]
    /\ outcome'[e] = "reply" => outcome[e] = "reply"
    /\ Unsent(e)' => Unsent(e)
    /\ \A i \in 1 .. Len(incoming_') :
           incoming_'[i] = e => i \in 1 .. Len(incoming_) /\ incoming_[i] = e
    /\ e \in serving' => e \in serving
    /\ \A c \in Conn : \E d \in {0, 1} : \A i \in 1 .. Len(posted'[c]) :
           posted'[c][i].op = "push" /\ posted'[c][i].to = e =>
               i + d \in 1 .. Len(posted[c]) /\ posted[c][i + d] = posted'[c][i]

LEMMA QuietStep ==
    ASSUME Typed, NEW e \in Exchange, OneAnswer(e), Quiet(e)
    PROVE  OneAnswer(e)'
<1>0. ASSUME NEW c \in Conn
      PROVE  \E d \in {0, 1} : \A i \in 1 .. Len(posted'[c]) : PushPosted(e, c, i)' =>
                 /\ i + d \in 1 .. Len(posted[c]) /\ PushPosted(e, c, i + d)
                 /\ AnswerPosted(e, c, i)' => AnswerPosted(e, c, i + d)
  <2>1. PICK d \in {0, 1} : \A i \in 1 .. Len(posted'[c]) :
           posted'[c][i].op = "push" /\ posted'[c][i].to = e =>
               i + d \in 1 .. Len(posted[c]) /\ posted[c][i + d] = posted'[c][i]
    BY DEF Quiet
  <2>2. ASSUME NEW i \in 1 .. Len(posted'[c]), PushPosted(e, c, i)'
        PROVE  /\ i + d \in 1 .. Len(posted[c]) /\ PushPosted(e, c, i + d)
               /\ AnswerPosted(e, c, i)' => AnswerPosted(e, c, i + d)
    BY <2>1, <2>2 DEF PushPosted, AnswerPosted, PushTask, Reply
  <2> QED  BY <2>2
<1>1. ASSUME NEW c \in Conn, NEW i \in 1 .. Len(posted'[c]), AnswerPosted(e, c, i)'
      PROVE  PushPosted(e, c, i)'
  BY <1>1 DEF AnswerPosted, PushPosted, PushTask
<1>2. ASSUME NEW c \in Conn, \A j \in 1 .. Len(posted[c]) : ~PushPosted(e, c, j)
      PROVE  \A j \in 1 .. Len(posted'[c]) : ~PushPosted(e, c, j)'
  BY <1>0, <1>2
<1>3. Unanswered(e) => Unanswered(e)'
  <2> SUFFICES ASSUME Unanswered(e) PROVE Unanswered(e)'
    OBVIOUS
  <2>1. \A i \in 1 .. Len(messages_'[e]) : ~AnswerQueued(e, i)'
    BY DEF Quiet, Unanswered, AnswerQueued
  <2>2. ASSUME NEW c \in Conn, NEW i \in 1 .. Len(posted'[c]) PROVE ~AnswerPosted(e, c, i)'
    BY <1>0, <1>1 DEF Unanswered
  <2> QED  BY <2>1, <2>2 DEF Unanswered, Quiet
<1>4. \A i, j \in 1 .. Len(incoming_') : incoming_'[i] = e /\ incoming_'[j] = e => i = j
  BY DEF Quiet, OneAnswer
<1>5. /\ Unsent(e)' => ~Requested(e)'
      /\ Unsent(e)' \/ Requested(e)' => e \notin serving' /\ Unanswered(e)'
  <2>1. (Requested(e)' => Requested(e)) /\ (Unsent(e)' => Unsent(e)) /\ (e \in serving' => e \in serving)
    BY DEF Quiet, Requested
  <2> QED  BY <1>3, <2>1 DEF OneAnswer
<1>6. e \in serving' => Unanswered(e)'
  BY <1>3 DEF Quiet, OneAnswer
<1>7. \A i \in 1 .. Len(messages_'[e]) : AnswerQueued(e, i)' =>
           /\ i = Len(messages_'[e]) /\ outcome'[e] # "reply"
           /\ \A c \in Conn : \A j \in 1 .. Len(posted'[c]) : ~PushPosted(e, c, j)'
  <2> SUFFICES ASSUME NEW i \in 1 .. Len(messages_'[e]), AnswerQueued(e, i)'
               PROVE  /\ i = Len(messages_'[e]) /\ outcome'[e] # "reply"
                      /\ \A c \in Conn : \A j \in 1 .. Len(posted'[c]) : ~PushPosted(e, c, j)'
    OBVIOUS
  <2>1. i \in 1 .. Len(messages_[e]) /\ AnswerQueued(e, i)
    BY DEF Quiet, AnswerQueued
  <2> QED  BY <1>2, <2>1 DEF OneAnswer, Quiet
<1>8. ASSUME NEW c \in Conn, NEW i \in 1 .. Len(posted'[c]), AnswerPosted(e, c, i)'
      PROVE  /\ outcome'[e] # "reply"
             /\ \A j \in 1 .. Len(posted'[c]) : i < j => ~PushPosted(e, c, j)'
  <2>1. PICK d \in {0, 1} : \A j \in 1 .. Len(posted'[c]) : PushPosted(e, c, j)' =>
                 /\ j + d \in 1 .. Len(posted[c]) /\ PushPosted(e, c, j + d)
                 /\ AnswerPosted(e, c, j)' => AnswerPosted(e, c, j + d)
    BY <1>0
  <2>2. i + d \in 1 .. Len(posted[c]) /\ AnswerPosted(e, c, i + d)
    BY <1>1, <1>8, <2>1
  <2>3. /\ outcome[e] # "reply"
        /\ \A j \in 1 .. Len(posted[c]) : i + d < j => ~PushPosted(e, c, j)
    BY <2>2 DEF OneAnswer
  <2>4. \A j \in 1 .. Len(posted'[c]) : i < j => i + d < j + d
    OBVIOUS
  <2> QED  BY <2>1, <2>3, <2>4 DEF Quiet
<1>9. outcome'[e] = "reply" =>
           /\ Len(messages_'[e]) = 0
           /\ \A c \in Conn : \A j \in 1 .. Len(posted'[c]) : ~PushPosted(e, c, j)'
  BY <1>2 DEF Quiet, OneAnswer
<1> QED  BY <1>4, <1>5, <1>6, <1>7, <1>8, <1>9 DEF OneAnswer

\* A request that has just been admitted.
LEMMA FreshAnswer ==
    ASSUME Typed, PostedInv, MapInv, AnswerInv, NEW e \in Exchange, kind[e] = "none",
           UNCHANGED <<messages_, posted, outcome, serving, incoming_>>
    PROVE  OneAnswer(e)'
<1>1. e \notin serving
  BY DEF MapInv, PostKinds, JsonKinds
<1>2. \A i \in 1 .. Len(incoming_) : incoming_[i] # e
  BY DEF MapInv, PostKinds, JsonKinds, Exchange, NoExchange
<1>3. \A c \in Conn : \A i \in 1 .. Len(posted[c]) : ~PushPosted(e, c, i) /\ ~AnswerPosted(e, c, i)
  BY AnswerIsPush DEF PostedInv, Fitting, PushPosted
<1>4. \A i \in 1 .. Len(messages_[e]) : FALSE
  BY DEF PostedInv
<1>5. outcome[e] = "nothing"
  BY DEF AnswerInv
<1>6. Unanswered(e)'
  BY <1>3, <1>4, <1>5 DEF Unanswered, AnswerPosted, AnswerQueued
<1>7. \A i \in 1 .. Len(incoming_') : incoming_'[i] # e
  BY <1>2
<1>8. \A c \in Conn : \A i \in 1 .. Len(posted'[c]) : ~PushPosted(e, c, i)' /\ ~AnswerPosted(e, c, i)'
  BY <1>3 DEF PushPosted, AnswerPosted
<1> QED  BY <1>1, <1>4, <1>5, <1>6, <1>7, <1>8 DEF OneAnswer, Requested

\* A request is queued for Server by its coroutine.
LEMMA QueuedAnswer ==
    ASSUME Typed, NEW e \in Exchange, OneAnswer(e), NEW c \in Conn, PushIncoming(c), active_channel_[c] = e
    PROVE  OneAnswer(e)'
<1> USE DEF queueVars
<1>1. Unsent(e) /\ ~Requested(e) /\ e \notin serving /\ Unanswered(e)
  BY DEF PushIncoming, Unsent, OneAnswer
<1>2. /\ UNCHANGED <<messages_, posted, outcome, serving, active_channel_>> /\ Goto(c, Routed(c))
      /\ Routed(c) \notin {"test", "push"}
  BY RoutedPlace DEF PushIncoming
<1>3. \A d \in Conn \ {c} : active_channel_[d] # e
  BY DEF Typed, ChannelInv, Exchange, NoExchange
<1>4. ~Unsent(e)'
  BY <1>2, <1>3 DEF Unsent, Typed, TypeOK, ChannelTypes
<1>5. \A i \in 1 .. Len(incoming_') : incoming_'[i] = e => i = Len(incoming_')
  BY <1>1, Entering DEF Requested
<1>6. Unanswered(e)'
  BY <1>1, <1>2 DEF Unanswered, AnswerQueued, AnswerPosted
<1>7. /\ \A i \in 1 .. Len(messages_'[e]) : ~AnswerQueued(e, i)'
      /\ \A d \in Conn : \A i \in 1 .. Len(posted'[d]) : ~AnswerPosted(e, d, i)'
      /\ outcome'[e] # "reply"
  BY <1>6 DEF Unanswered
<1> QED  BY <1>1, <1>2, <1>4, <1>5, <1>6, <1>7 DEF OneAnswer

\* A handler sends a message to e: nothing of e has been answered yet.
LEMMA HandlerAnswer ==
    ASSUME Typed, MapInv, NEW e \in Exchange, OneAnswer(e), e \in serving,
           NEW m \in Message, m.from = e, Push(e, m) \/ UNCHANGED posted,
           IsFinal(m) => serving' = serving \ {e},
           serving' \subseteq serving, UNCHANGED <<messages_, outcome, incoming_, pc, active_channel_>>
    PROVE  OneAnswer(e)'
<1>1. /\ Unanswered(e) /\ \A i \in 1 .. Len(incoming_) : incoming_[i] # e
      /\ ~Unsent(e)' /\ (Unsent(e)' <=> Unsent(e)) /\ ~Requested(e)'
  BY DEF OneAnswer, Unsent, Requested
<1>2. CASE UNCHANGED posted
  <2>1. \A c \in Conn : \A i \in 1 .. Len(posted'[c]) :
            i + 0 \in 1 .. Len(posted[c]) /\ posted[c][i + 0] = posted'[c][i]
    BY <1>2, PostedSeq
  <2>2. Quiet(e)
    BY <1>1, <2>1 DEF Quiet
  <2> QED  BY <2>2, QuietStep
<1>3. CASE Push(e, m)
  <2> DEFINE o == owner[e]  last == Len(posted[owner[e]]) + 1
  <2>0. kind[e] # "none"
    BY DEF MapInv, PostKinds, JsonKinds
  <2>1. /\ o \in Conn /\ posted'[o] = Append(posted[o], PushTask(e, m))
        /\ \A c \in Conn \ {o} : posted'[c] = posted[c]
    BY <1>3, <2>0, Pushing
  <2>2. \A c \in Conn : \A i \in 1 .. Len(posted'[c]) :
            \/ i \in 1 .. Len(posted[c]) /\ posted'[c][i] = posted[c][i]
            \/ c = o /\ i = last /\ posted'[c][i] = PushTask(e, m)
    <3> TAKE c \in Conn
    <3>1. CASE c # o
      BY <2>1, <3>1
    <3>2. CASE c = o
      <4>1. posted[c] \in Seq(Task) /\ posted'[c] = Append(posted[c], PushTask(e, m))
        BY <2>1, <3>2, PostedSeq
      <4>2. \A i \in 1 .. Len(posted'[c]) :
                \/ i \in 1 .. Len(posted[c]) /\ posted'[c][i] = posted[c][i]
                \/ i = Len(posted[c]) + 1 /\ posted'[c][i] = PushTask(e, m)
        BY <4>1
      <4> QED  BY <3>2, <4>2
    <3> QED  BY <3>1, <3>2
  <2>3. Len(posted'[o]) = last /\ last \in Nat
    BY <2>1, PostedSeq
  <2>4. \A c \in Conn : \A i \in 1 .. Len(posted'[c]) : AnswerPosted(e, c, i)' =>
            c = o /\ i = last /\ IsFinal(m)
    <3>1. PushTask(e, m) = PushTask(e, Reply(e)) => m = Reply(e)
      BY DEF PushTask
    <3> QED  BY <1>1, <2>2, <3>1 DEF Unanswered, AnswerPosted, IsFinal, Reply
  <2>5. \A i \in 1 .. Len(messages_'[e]) : ~AnswerQueued(e, i)'
    BY <1>1 DEF Unanswered, AnswerQueued
  <2>6. outcome'[e] # "reply"
    BY <1>1 DEF Unanswered
  <2>7. e \in serving' => Unanswered(e)'
    BY <2>4, <2>5, <2>6 DEF Unanswered
  <2>8. \A c \in Conn : \A i, j \in 1 .. Len(posted'[c]) : AnswerPosted(e, c, i)' => ~(i < j)
    BY <2>3, <2>4
  <2> QED  BY <1>1, <2>5, <2>6, <2>7, <2>8 DEF OneAnswer
<1> QED  BY <1>2, <1>3

\* The strand takes a message of e into its queue.
LEMMA EnterAnswer ==
    ASSUME Typed, PostedInv, NEW e \in Exchange, kind[e] \in PostKinds, OneAnswer(e),
           NEW c \in Conn, posted[c] # <<>>, posted' = [posted EXCEPT ![c] = Tail(posted[c])],
           Head(posted[c]).op = "push", Head(posted[c]).to = e,
           messages_'[e] = Append(messages_[e], Head(posted[c]).msg),
           UNCHANGED <<outcome, incoming_, serving, pc, active_channel_>>
    PROVE  OneAnswer(e)'
<1> DEFINE t == Head(posted[c])
<1>0. /\ posted[c] \in Seq(Task) /\ messages_[e] \in Seq(Message) /\ 1 \in 1 .. Len(posted[c])
      /\ t = posted[c][1] /\ t \in Task /\ t.msg \in Message
  BY PostedSeq, Rest, Letters
<1>1. PushPosted(e, c, 1) /\ Fitting(c, t)
  BY <1>0 DEF PushPosted, PostedInv
<1>2. owner[e] = c /\ t.msg.from = e
  BY <1>1 DEF Fitting, Legal
<1>3. IsFinal(t.msg) => AnswerPosted(e, c, 1)
  <2>1. IsFinal(t.msg) => t.msg = Reply(e)
    BY <1>0, <1>2 DEF IsFinal, Message, Reply
  <2>2. t = PushTask(e, t.msg)
    BY <1>0, Letters DEF Task, PushTask
  <2> QED  BY <1>0, <2>1, <2>2 DEF AnswerPosted
<1>4. /\ \A i \in 1 .. Len(messages_[e]) : ~AnswerQueued(e, i)
      /\ outcome[e] # "reply"
  BY <1>0, <1>1 DEF OneAnswer
<1>5. /\ Len(messages_'[e]) = Len(messages_[e]) + 1 /\ Len(messages_[e]) \in Nat
      /\ \A i \in 1 .. Len(messages_'[e]) : AnswerQueued(e, i)' =>
             i = Len(messages_'[e]) /\ IsFinal(t.msg)
  BY <1>0, <1>4 DEF AnswerQueued
<1>6. \A i \in 1 .. Len(posted'[c]) : i + 1 \in 1 .. Len(posted[c]) /\ posted'[c][i] = posted[c][i + 1]
  BY <1>0, Rest DEF Typed, TypeOK, QueueTypes
<1>7. \A d \in Conn : \A i \in 1 .. Len(posted'[d]) :
          d # c => posted'[d] = posted[d] /\ ~PushPosted(e, d, i)
  BY <1>2 DEF PostedInv, Fitting, PushPosted, Typed, TypeOK, QueueTypes
<1>8. \A d \in Conn : \A i \in 1 .. Len(posted'[d]) :
          /\ PushPosted(e, d, i)' => d = c /\ PushPosted(e, c, i + 1)
          /\ AnswerPosted(e, d, i)' => d = c /\ AnswerPosted(e, c, i + 1)
  <2>1. \A d \in Conn : \A i \in 1 .. Len(posted'[d]) : AnswerPosted(e, d, i)' => PushPosted(e, d, i)'
    BY DEF AnswerPosted, PushPosted, PushTask
  <2>2. \A d \in Conn : \A i \in 1 .. Len(posted'[d]) : PushPosted(e, d, i)' => d = c
    BY <1>7 DEF PushPosted
  <2>3. \A i \in 1 .. Len(posted'[c]) :
            /\ PushPosted(e, c, i)' => PushPosted(e, c, i + 1)
            /\ AnswerPosted(e, c, i)' => AnswerPosted(e, c, i + 1)
    BY <1>6 DEF PushPosted, AnswerPosted
  <2> QED  BY <2>1, <2>2, <2>3
<1>9. IsFinal(t.msg) => \A d \in Conn : \A i \in 1 .. Len(posted'[d]) : ~PushPosted(e, d, i)'
  <2> SUFFICES ASSUME IsFinal(t.msg), NEW d \in Conn, NEW i \in 1 .. Len(posted'[d]), PushPosted(e, d, i)'
               PROVE  FALSE
    OBVIOUS
  <2>1. d = c /\ PushPosted(e, c, i + 1)
    BY <1>8
  <2>2. i + 1 \in 1 .. Len(posted[c]) /\ 1 < i + 1
    BY <1>6, <2>1
  <2> QED  BY <1>0, <1>3, <2>1, <2>2 DEF OneAnswer
<1>10. Unanswered(e) => ~IsFinal(t.msg)
  BY <1>0, <1>3 DEF Unanswered
<1>11. Unanswered(e) => Unanswered(e)'
  <2> SUFFICES ASSUME Unanswered(e) PROVE Unanswered(e)'
    OBVIOUS
  <2>1. \A i \in 1 .. Len(messages_'[e]) : ~AnswerQueued(e, i)'
    BY <1>5, <1>10
  <2>2. \A d \in Conn : \A i \in 1 .. Len(posted'[d]) : ~AnswerPosted(e, d, i)'
    BY <1>6, <1>8 DEF Unanswered
  <2> QED  BY <2>1, <2>2 DEF Unanswered
<1>12. \A i \in 1 .. Len(messages_'[e]) : AnswerQueued(e, i)' =>
           /\ i = Len(messages_'[e]) /\ outcome'[e] # "reply"
           /\ \A d \in Conn : \A j \in 1 .. Len(posted'[d]) : ~PushPosted(e, d, j)'
  BY <1>4, <1>5, <1>9
<1>13. ASSUME NEW d \in Conn, NEW i \in 1 .. Len(posted'[d]), AnswerPosted(e, d, i)'
       PROVE  /\ outcome'[e] # "reply"
              /\ \A j \in 1 .. Len(posted'[d]) : i < j => ~PushPosted(e, d, j)'
  <2>1. d = c /\ AnswerPosted(e, c, i + 1) /\ i + 1 \in 1 .. Len(posted[c])
    BY <1>6, <1>8, <1>13
  <2>2. \A j \in 1 .. Len(posted[c]) : i + 1 < j => ~PushPosted(e, c, j)
    BY <2>1 DEF OneAnswer
  <2>3. \A j \in 1 .. Len(posted'[d]) : i < j => i + 1 < j + 1 /\ j + 1 \in 1 .. Len(posted[c])
    BY <1>6, <2>1
  <2>4. \A j \in 1 .. Len(posted'[d]) : PushPosted(e, d, j)' => PushPosted(e, c, j + 1)
    BY <1>8
  <2> QED  BY <1>4, <2>2, <2>3, <2>4
<1>14. outcome'[e] # "reply"
  BY <1>4
<1>15. \A i, j \in 1 .. Len(incoming_') : incoming_'[i] = e /\ incoming_'[j] = e => i = j
  BY DEF OneAnswer
<1>16. /\ Unsent(e)' => ~Requested(e)'
       /\ Unsent(e)' \/ Requested(e)' => e \notin serving' /\ Unanswered(e)'
       /\ e \in serving' => Unanswered(e)'
  BY <1>11 DEF OneAnswer, Unsent, Requested
<1> QED  BY <1>12, <1>13, <1>14, <1>15, <1>16 DEF OneAnswer

\* The coroutine takes a message of e: the answer, or one before it.
LEMMA TakeAnswer ==
    ASSUME Typed, NEW e \in Exchange, OneAnswer(e), messages_[e] # <<>>,
           messages_'[e] = Tail(messages_[e]),
           IsFinal(Head(messages_[e])) \/ outcome'[e] # "reply" \/ outcome'[e] = outcome[e],
           Unsent(e)' => Unsent(e), UNCHANGED <<posted, incoming_, serving>>
    PROVE  OneAnswer(e)'
<1>0. /\ messages_[e] \in Seq(Message) /\ Head(messages_[e]) = messages_[e][1]
      /\ Len(messages_[e]) \in Nat \ {0} /\ Len(Tail(messages_[e])) = Len(messages_[e]) - 1
      /\ Tail(messages_[e]) \in Seq(Message)
      /\ \A i \in 1 .. Len(messages_'[e]) :
             messages_'[e][i] = messages_[e][i + 1] /\ i + 1 \in 1 .. Len(messages_[e])
  BY PostedSeq, Rest
<1>1. CASE IsFinal(Head(messages_[e]))
  <2>1. /\ Len(messages_[e]) = 1
        /\ \A c \in Conn : \A j \in 1 .. Len(posted[c]) : ~PushPosted(e, c, j)
        /\ ~Unanswered(e)
    <3>1. AnswerQueued(e, 1) /\ 1 \in 1 .. Len(messages_[e])
      BY <1>0, <1>1 DEF AnswerQueued
    <3> QED  BY <3>1 DEF OneAnswer, Unanswered
  <2>2. Len(messages_'[e]) = 0 /\ \A i \in 1 .. Len(messages_'[e]) : FALSE
    BY <1>0, <2>1
  <2>3. \A c \in Conn : \A j \in 1 .. Len(posted'[c]) : ~PushPosted(e, c, j)' /\ ~AnswerPosted(e, c, j)'
    BY <2>1 DEF PushPosted, AnswerPosted, PushTask
  <2>4. e \notin serving' /\ ~Unsent(e)' /\ ~Requested(e)'
    BY <2>1 DEF OneAnswer, Requested
  <2> QED  BY <2>2, <2>3, <2>4 DEF OneAnswer, Requested
<1>2. CASE ~IsFinal(Head(messages_[e]))
  <2>0. outcome[e] # "reply" /\ outcome'[e] # "reply"
    BY <1>0, <1>2 DEF OneAnswer
  <2>1. \A i \in 1 .. Len(messages_'[e]) : AnswerQueued(e, i)' => AnswerQueued(e, i + 1)
    BY <1>0 DEF AnswerQueued
  <2>2. \A c \in Conn : \A j \in 1 .. Len(posted'[c]) :
            /\ j \in 1 .. Len(posted[c])
            /\ PushPosted(e, c, j)' <=> PushPosted(e, c, j)
            /\ AnswerPosted(e, c, j)' <=> AnswerPosted(e, c, j)
    BY DEF PushPosted, AnswerPosted
  <2>3. Unanswered(e) => Unanswered(e)'
    BY <1>0, <2>0, <2>1, <2>2 DEF Unanswered
  <2>4. \A i \in 1 .. Len(messages_'[e]) : AnswerQueued(e, i)' =>
           /\ i = Len(messages_'[e]) /\ outcome'[e] # "reply"
           /\ \A c \in Conn : \A j \in 1 .. Len(posted'[c]) : ~PushPosted(e, c, j)'
    BY <1>0, <2>0, <2>1, <2>2 DEF OneAnswer
  <2>5. \A c \in Conn : \A i \in 1 .. Len(posted'[c]) : AnswerPosted(e, c, i)' =>
           /\ outcome'[e] # "reply"
           /\ \A j \in 1 .. Len(posted'[c]) : i < j => ~PushPosted(e, c, j)'
    BY <2>0, <2>2 DEF OneAnswer
  <2>6. \A i, j \in 1 .. Len(incoming_') : incoming_'[i] = e /\ incoming_'[j] = e => i = j
    BY DEF OneAnswer
  <2>7. /\ Unsent(e)' => ~Requested(e)'
        /\ Unsent(e)' \/ Requested(e)' => e \notin serving' /\ Unanswered(e)'
        /\ e \in serving' => Unanswered(e)'
    BY <2>3 DEF OneAnswer, Requested
  <2> QED  BY <2>0, <2>4, <2>5, <2>6, <2>7 DEF OneAnswer
<1> QED  BY <1>1, <1>2

\* Server reads a message: it may be the request of e.
LEMMA ReadAnswer ==
    ASSUME Typed, NEW e \in Exchange, OneAnswer(e), ReadMessage
    PROVE  OneAnswer(e)'
<1> USE DEF queueVars
<1>0. /\ Head(incoming_) = incoming_[1] /\ 1 \in 1 .. Len(incoming_)
      /\ Len(incoming_') = Len(incoming_) - 1 /\ Len(incoming_) \in Nat
      /\ \A i \in 1 .. Len(incoming_') : incoming_'[i] = incoming_[i + 1] /\ i + 1 \in 1 .. Len(incoming_)
  BY Rest, PostedSeq DEF ReadMessage, PopIncoming
<1>1. e \in serving' => e \in serving \/ incoming_[1] = e
  BY <1>0 DEF ReadMessage, Serve
<1>2. UNCHANGED <<messages_, outcome, posted>>
  BY DEF ReadMessage
<1>3. Unanswered(e)' <=> Unanswered(e)
  BY <1>2 DEF Unanswered, AnswerQueued, AnswerPosted
<1>4. Unsent(e)' <=> Unsent(e)
  BY DEF ReadMessage, Unsent
<1>5. \A i, j \in 1 .. Len(incoming_') : incoming_'[i] = e /\ incoming_'[j] = e => i = j
  BY <1>0 DEF OneAnswer
<1>6. Requested(e)' => ~Unsent(e)' /\ e \notin serving' /\ Unanswered(e)'
  <2> SUFFICES ASSUME NEW i \in 1 .. Len(incoming_'), incoming_'[i] = e
               PROVE  ~Unsent(e)' /\ e \notin serving' /\ Unanswered(e)'
    BY DEF Requested
  <2>1. i + 1 \in 1 .. Len(incoming_) /\ incoming_[i + 1] = e /\ i + 1 # 1
    BY <1>0
  <2>2. Requested(e) /\ incoming_[1] # e
    BY <1>0, <2>1 DEF Requested, OneAnswer
  <2> QED  BY <1>1, <1>3, <1>4, <2>2 DEF OneAnswer
<1>7. Unsent(e)' => e \notin serving' /\ Unanswered(e)'
  <2>1. incoming_[1] = e => Requested(e)
    BY <1>0 DEF Requested
  <2> QED  BY <1>1, <1>3, <1>4, <2>1 DEF OneAnswer
<1>8. e \in serving' => Unanswered(e)'
  BY <1>0, <1>1, <1>3 DEF OneAnswer, Requested
<1>9. \A c \in Conn : \A j \in 1 .. Len(posted'[c]) :
          /\ PushPosted(e, c, j)' <=> PushPosted(e, c, j)
          /\ AnswerPosted(e, c, j)' <=> AnswerPosted(e, c, j)
  BY <1>2 DEF PushPosted, AnswerPosted
<1>10. \A i \in 1 .. Len(messages_'[e]) : AnswerQueued(e, i)' <=> AnswerQueued(e, i)
  BY <1>2 DEF AnswerQueued
<1> QED  BY <1>2, <1>5, <1>6, <1>7, <1>8, <1>9, <1>10 DEF OneAnswer

LEMMA QuietTasks ==
    ASSUME Typed, NEW e \in Exchange, NEW c \in Conn,
           \/ posted'[c] = posted[c]
           \/ posted[c] # <<>> /\ posted'[c] = Tail(posted[c])
           \/ \E t \in Task : posted'[c] = Append(posted[c], t) /\ ~(t.op = "push" /\ t.to = e)
    PROVE  \E d \in {0, 1} : \A i \in 1 .. Len(posted'[c]) :
               posted'[c][i].op = "push" /\ posted'[c][i].to = e =>
                   i + d \in 1 .. Len(posted[c]) /\ posted[c][i + d] = posted'[c][i]
<1>0. posted[c] \in Seq(Task)
  BY PostedSeq
<1>1. CASE posted'[c] = posted[c]
  <2>1. \A i \in 1 .. Len(posted'[c]) : i + 0 \in 1 .. Len(posted[c]) /\ posted[c][i + 0] = posted'[c][i]
    BY <1>0, <1>1
  <2> QED  BY <2>1
<1>2. CASE posted[c] # <<>> /\ posted'[c] = Tail(posted[c])
  BY <1>0, <1>2, Rest
<1>3. ASSUME NEW t \in Task, posted'[c] = Append(posted[c], t), ~(t.op = "push" /\ t.to = e)
      PROVE  \E d \in {0, 1} : \A i \in 1 .. Len(posted'[c]) :
                 posted'[c][i].op = "push" /\ posted'[c][i].to = e =>
                     i + d \in 1 .. Len(posted[c]) /\ posted[c][i + d] = posted'[c][i]
  <2>1. \A i \in 1 .. Len(posted'[c]) :
            \/ posted'[c][i] = t
            \/ i + 0 \in 1 .. Len(posted[c]) /\ posted[c][i + 0] = posted'[c][i]
    BY <1>0, <1>3
  <2> QED  BY <1>3, <2>1
<1> QED  BY <1>1, <1>2, <1>3

LEMMA HandlerSteps ==
    ASSUME Typed, MapInv, ByHandler, NEW e \in Exchange, OneAnswer(e)
    PROVE  OneAnswer(e)'
<1> USE DEF queueVars
<1>1. ASSUME NEW x \in Exchange, x \in serving, NEW m \in Message, m.from = x, x # e,
             WriteMessage(x, m) \/ UNCHANGED posted, serving' \subseteq serving,
             UNCHANGED <<messages_, outcome, incoming_, pc, active_channel_>>
      PROVE  OneAnswer(e)'
  <2>1. kind[x] # "none"
    BY <1>1 DEF MapInv, PostKinds, JsonKinds
  <2>2. ASSUME NEW c \in Conn
        PROVE  \/ posted'[c] = posted[c]
               \/ \E t \in Task : posted'[c] = Append(posted[c], t) /\ ~(t.op = "push" /\ t.to = e)
    <3>1. PushTask(x, m) \in Task /\ PushTask(x, m).to = x
      BY <1>1, Letters DEF PushTask
    <3>2. UNCHANGED posted \/ Push(x, m)
      BY <1>1 DEF WriteMessage
    <3>3. CASE Push(x, m) /\ c = owner[x]
      BY <1>1, <2>1, <3>1, <3>3, Pushing
    <3>4. CASE Push(x, m) /\ c # owner[x]
      BY <1>1, <2>1, <3>4, Pushing
    <3> QED  BY <3>2, <3>3, <3>4
  <2>3. Quiet(e)
    BY <1>1, <2>2, QuietTasks DEF Quiet, Unsent
  <2> QED  BY <2>3, QuietStep
<1>2. ASSUME NEW x \in Exchange, HandlerReturns(x)
      PROVE  OneAnswer(e)'
  <2>1. /\ x \in serving /\ serving' = serving \ {x}
        /\ UNCHANGED <<messages_, outcome, incoming_, pc, active_channel_>>
        /\ WriteMessage(x, Reply(x)) \/ UNCHANGED posted
        /\ Push(x, Reply(x)) \/ UNCHANGED posted
    BY <1>2 DEF HandlerReturns, LeaveServing, WriteMessage
  <2>2. Reply(x) \in Message /\ Reply(x).from = x
    BY Letters DEF Reply
  <2>3. CASE x = e
    BY <2>1, <2>2, <2>3, HandlerAnswer
  <2>4. CASE x # e
    BY <1>1, <2>1, <2>2, <2>4
  <2> QED  BY <2>3, <2>4
<1>3. ASSUME NEW x \in Exchange, NEW what \in Topic, HandlerNotifies(x, what)
      PROVE  OneAnswer(e)'
  <2> DEFINE m == [from |-> x, what |-> what]
  <2>1. /\ x \in serving /\ UNCHANGED <<messages_, outcome, incoming_, serving, pc, active_channel_>>
        /\ WriteMessage(x, m) /\ (Push(x, m) \/ UNCHANGED posted)
    BY <1>3 DEF HandlerNotifies, WriteMessage
  <2>2. m \in Message /\ m.from = x /\ ~IsFinal(m)
    BY Letters DEF Exchange, IsFinal
  <2> HIDE DEF m
  <2>3. CASE x = e
    BY <2>1, <2>2, <2>3, HandlerAnswer
  <2>4. CASE x # e
    BY <1>1, <2>1, <2>2, <2>4
  <2> QED  BY <2>3, <2>4
<1> QED  BY <1>2, <1>3 DEF ByHandler

\* What every step but those of a handler leaves on the strands.
LEMMA QuietPosted ==
    ASSUME Typed, CastInv, MapInv, Next, ~ByHandler, NEW e \in Exchange, kind[e] \in PostKinds, NEW c \in Conn
    PROVE  \E d \in {0, 1} : \A i \in 1 .. Len(posted'[c]) :
               posted'[c][i].op = "push" /\ posted'[c][i].to = e =>
                   i + d \in 1 .. Len(posted[c]) /\ posted[c][i + d] = posted'[c][i]
<1>1. \/ posted'[c] = posted[c]
      \/ posted[c] # <<>> /\ posted'[c] = Tail(posted[c])
      \/ \E t \in Task : posted'[c] = Append(posted[c], t) /\ ~(t.op = "push" /\ t.to = e)
  BY PostedSteps DEF PostedStep, Sent
<1> QED  BY <1>1, QuietTasks

\* The outcome of an exchange is set by its coroutine.
LEMMA OutcomeSteps ==
    ASSUME Typed, Next, NEW e \in Exchange
    PROVE  \/ outcome'[e] = outcome[e]
           \/ \E c \in Conn : TakeMessage(c) /\ active_channel_[c] = e
           \/ kind[e] # "none" /\ outcome'[e] # "reply" /\ messages_'[e] = messages_[e]
<1> USE DEF queueVars
<1>0. outcome \in [Exchange -> {"nothing", "part", "reply", "timeout", "ended"}]
  BY DEF Typed, TypeOK, QueueTypes
<1>1. ASSUME NEW c \in Conn, TakeMessage(c)
      PROVE  outcome'[e] = outcome[e] \/ active_channel_[c] = e
  BY <1>0, <1>1 DEF TakeMessage, EndExchange
<1>2. ASSUME NEW c \in Conn, TakeNull(c) \/ Deadline(c) \/ WriteFails(c)
      PROVE  \/ outcome'[e] = outcome[e]
             \/ kind[e] # "none" /\ outcome'[e] # "reply" /\ messages_'[e] = messages_[e]
  <2>1. active_channel_[c] \in Exchange /\ kind[active_channel_[c]] # "none"
    BY <1>2, Working DEF TakeNull, Deadline, WriteFails, Popping
  <2> QED  BY <1>0, <1>2, <2>1 DEF TakeNull, Deadline, WriteFails, EndExchange
<1>3. ASSUME NEW c \in Conn, Opens(c) PROVE UNCHANGED outcome
  BY <1>3 DEF Opens, Admit, Route, RoutePost, RouteInitialize, RouteNotification, RouteListen,
              RouteLegacyGet, RouteLegacyDelete, ReadEnds
<1>4. ASSUME NEW c \in Conn, \/ TestRunning(c) \/ PushIncoming(c) \/ PushAck(c) \/ CloseDeleted(c)
                             \/ Written(c) \/ Finish(c) \/ RunTask(c)
      PROVE  UNCHANGED outcome
  BY <1>4 DEF TestRunning, PushIncoming, PushAck, CloseDeleted, Written, Finish, RunTask
<1>5. ASSUME \/ ReadMessage \/ Stop \/ \E k \in Caller : CastStep(k)
             \/ \E x \in Exchange : HandlerReturns(x) \/ \E what \in Topic : HandlerNotifies(x, what)
             \/ \E what \in Topic : WriterBroadcasts(what)
      PROVE  UNCHANGED outcome
  BY <1>5 DEF ReadMessage, HandlerReturns, HandlerNotifies, WriterBroadcasts, Stop, StopRunning,
              StopRegistered, StopSessions, StopThreads, CastStep, CollectStreams, PushTarget, EndCast
<1> QED  BY <1>1, <1>2, <1>3, <1>4, <1>5, Parts DEF Beyond, WriteEnds

\* What Server has of e it had before, unless the coroutine of e queues it.
LEMMA IncomingSteps ==
    ASSUME Typed, Next, ~ReadMessage, NEW e \in Exchange,
           \A c \in Conn : ~(PushIncoming(c) /\ active_channel_[c] = e)
    PROVE  /\ \A i \in 1 .. Len(incoming_') :
                  incoming_'[i] = e => i \in 1 .. Len(incoming_) /\ incoming_[i] = e
           /\ e \in serving' => e \in serving
<1> USE DEF serverVars
<1>1. ASSUME NEW c \in Conn, PushIncoming(c)
      PROVE  /\ UNCHANGED serving
             /\ \A i \in 1 .. Len(incoming_') :
                  incoming_'[i] = e => i \in 1 .. Len(incoming_) /\ incoming_[i] = e
  <2>1. UNCHANGED serving /\ active_channel_[c] # e
    BY <1>1 DEF PushIncoming
  <2> QED  BY <1>1, <2>1, Entering
<1>2. ASSUME NEW c \in Conn, Opens(c)
      PROVE  UNCHANGED <<incoming_, serving>>
  BY <1>2 DEF Opens, Admit, Route, RoutePost, RouteInitialize, RouteNotification, RouteListen,
              RouteLegacyGet, RouteLegacyDelete, ReadEnds
<1>3. ASSUME NEW c \in Conn, \/ TestRunning(c) \/ PushAck(c) \/ CloseDeleted(c) \/ TakeMessage(c)
                             \/ TakeNull(c) \/ Finish(c) \/ Deadline(c) \/ WriteEnds(c) \/ RunTask(c)
      PROVE  UNCHANGED <<incoming_, serving>>
  BY <1>3 DEF TestRunning, PushAck, CloseDeleted, TakeMessage, TakeNull, Finish, Deadline, WriteEnds,
              Written, WriteFails, RunTask
<1>4. ASSUME \/ Stop \/ \E k \in Caller : CastStep(k)
             \/ \E x \in Exchange : HandlerReturns(x) \/ \E what \in Topic : HandlerNotifies(x, what)
             \/ \E what \in Topic : WriterBroadcasts(what)
      PROVE  UNCHANGED incoming_ /\ serving' \subseteq serving
  BY <1>4 DEF HandlerReturns, LeaveServing, HandlerNotifies, WriterBroadcasts, Stop, StopRunning,
              StopRegistered, StopSessions, StopThreads, CastStep, CollectStreams, PushTarget, EndCast
<1> QED  BY <1>1, <1>2, <1>3, <1>4, Parts DEF Beyond

LEMMA AnswerNext ==
    ASSUME Typed, CastInv, PostedInv, MapInv, AnswerInv, Next
    PROVE  AnswerInv'
<1>1. ASSUME NEW e \in Exchange, kind'[e] = "none"
      PROVE  outcome'[e] = "nothing"
  <2>1. kind[e] = "none"
    BY <1>1, Keeps DEF Kept
  <2>2. ASSUME NEW c \in Conn, TakeMessage(c), active_channel_[c] = e
        PROVE  FALSE
    BY <2>1, <2>2, Working DEF TakeMessage, Popping
  <2> QED  BY <2>1, <2>2, OutcomeSteps DEF AnswerInv
<1>2. ASSUME NEW e \in Exchange, kind'[e] \in PostKinds, kind[e] = "none"
      PROVE  OneAnswer(e)'
  <2>1. PICK c \in Conn : Opens(c)
    <3>1. CASE Beyond
      BY <1>2, <3>1, BeyondKeeps DEF Kept, PostKinds, JsonKinds
    <3> QED  BY <3>1, Parts
  <2> USE DEF serverVars, queueVars, channelVars
  <2>2. CASE Admit(c)
    <3>1. UNCHANGED <<messages_, posted, outcome, serving, incoming_>>
      BY <2>2 DEF Admit
    <3> QED  BY <1>2, <3>1, FreshAnswer
  <2>3. ASSUME NEW topics \in SUBSET Filterable, RouteListen(c, topics)
        PROVE  FALSE
    <3>1. CASE SubscriptionsFull
      BY <1>2, <2>3, <3>1 DEF RouteListen, PostKinds, JsonKinds
    <3>2. CASE ~SubscriptionsFull
      BY <1>2, <2>3, <3>2, Creation DEF RouteListen, PostKinds, JsonKinds
    <3> QED  BY <3>1, <3>2
  <2>4. ASSUME NEW s \in Session, RouteLegacyGet(c, s)
        PROVE  FALSE
    BY <1>2, <2>4, Creation DEF RouteLegacyGet, PostKinds, JsonKinds
  <2>5. ASSUME \/ ReadEnds(c) \/ RouteNotification(c)
               \/ \E k \in {"json", "sse"}, session \in {{}} \cup {{s} : s \in Session} :
                      RoutePost(c, k, session)
               \/ \E s \in Session : RouteInitialize(c, s) \/ RouteLegacyDelete(c, s)
        PROVE  FALSE
    BY <1>2, <2>5 DEF ReadEnds, RouteNotification, RoutePost, RouteInitialize, RouteLegacyDelete,
                      PostKinds, JsonKinds
  <2> QED  BY <2>1, <2>2, <2>3, <2>4, <2>5 DEF Opens, Route
<1>3. ASSUME NEW e \in Exchange, kind[e] \in PostKinds
      PROVE  OneAnswer(e)'
  <2>0. OneAnswer(e) /\ kind[e] # "none"
    BY <1>3 DEF AnswerInv, PostKinds, JsonKinds
  <2>1. CASE ByHandler
    BY <2>0, <2>1, HandlerSteps
  <2>2. CASE ReadMessage
    BY <2>0, <2>2, ReadAnswer
  <2>3. ASSUME NEW c \in Conn, TakeMessage(c), active_channel_[c] = e
        PROVE  OneAnswer(e)'
    <3>1. /\ messages_[e] # <<>> /\ messages_'[e] = Tail(messages_[e])
          /\ UNCHANGED <<posted, incoming_, serving>>
      BY <2>3 DEF TakeMessage, serverVars, Typed, TypeOK, QueueTypes
    <3>2. IsFinal(Head(messages_[e])) \/ outcome'[e] # "reply" \/ outcome'[e] = outcome[e]
      BY <2>3 DEF TakeMessage, Typed, TypeOK, QueueTypes
    <3> QED  BY <2>0, <3>1, <3>2, TakeAnswer, UnsentNext
  <2>4. ASSUME NEW c \in Conn, RunTask(c), posted[c] # <<>>, Head(posted[c]).op = "push",
               Head(posted[c]).to = e, messages_'[e] = Append(messages_[e], Head(posted[c]).msg)
        PROVE  OneAnswer(e)'
    <3>1. /\ posted' = [posted EXCEPT ![c] = Tail(posted[c])]
          /\ UNCHANGED <<outcome, incoming_, serving, pc, active_channel_>>
      BY <2>4 DEF RunTask, serverVars
    <3> QED  BY <1>3, <2>0, <2>4, <3>1, EnterAnswer
  <2>5. ASSUME NEW c \in Conn, PushIncoming(c), active_channel_[c] = e
        PROVE  OneAnswer(e)'
    BY <2>0, <2>5, QueuedAnswer
  <2>6. CASE /\ ~ByHandler /\ ~ReadMessage /\ messages_'[e] = messages_[e]
             /\ \A c \in Conn : active_channel_[c] = e => ~TakeMessage(c) /\ ~PushIncoming(c)
    <3>1. outcome'[e] = "reply" => outcome[e] = "reply"
      BY <2>6, OutcomeSteps
    <3>2. /\ \A i \in 1 .. Len(incoming_') :
                 incoming_'[i] = e => i \in 1 .. Len(incoming_) /\ incoming_[i] = e
          /\ e \in serving' => e \in serving
      BY <2>6, IncomingSteps
    <3>3. Quiet(e)
      BY <1>3, <2>0, <2>6, <3>1, <3>2, UnsentNext, QuietPosted DEF Quiet
    <3> QED  BY <2>0, <3>3, QuietStep
  <2> QED  BY <2>1, <2>2, <2>3, <2>4, <2>5, <2>6, MessageSteps DEF MessageStep
<1>4. ASSUME NEW e \in Exchange, kind'[e] \in PostKinds
      PROVE  OneAnswer(e)'
  <2>1. CASE kind[e] = "none"
    BY <1>2, <1>4, <2>1
  <2>2. CASE kind[e] # "none"
    BY <1>3, <1>4, <2>2, Keeps DEF Kept
  <2> QED  BY <2>1, <2>2
<1> QED  BY <1>1, <1>4 DEF AnswerInv

(***************************************************************************)
(* The theorems.                                                           *)
(***************************************************************************)

LEMMA InitInv ==
    ASSUME Init
    PROVE  IInv
<1>1. ChannelInv
  <2>1. \A c \in Conn : c \in Caller
    BY DEF Caller
  <2> QED  BY <2>1 DEF Init, ChannelInv, Placed, NoCast
<1>2. \A c \in Conn : \A i \in 1 .. Len(posted[c]) : FALSE
  BY DEF Init
<1>3. \A e \in Exchange : Len(messages_[e]) = 0 /\ \A i \in 1 .. Len(messages_[e]) : FALSE
  BY DEF Init
<1>4. \A i \in 1 .. Len(incoming_) : FALSE
  BY DEF Init
<1>5. \A e \in Exchange : kind[e] = "none" /\ ~Alive(e)
  BY DEF Init, Alive, Exchange, NoExchange
<1>6. CastInv /\ PostedInv
  BY <1>2, <1>3 DEF Init, CastInv, NoCast, PostedInv
<1>7. MapInv
  BY <1>4, <1>5 DEF Init, MapInv
<1>8. AnswerInv
  BY <1>5 DEF Init, AnswerInv, PostKinds, JsonKinds
<1>9. Bounded
  <2>1. Cardinality({}) = 0
    BY FS_EmptySet
  <2> QED  BY <1>3, <2>1 DEF Init, Bounded
<1>10. OverIsCancelled /\ StopReachesWorkers /\ OneStreamPerSession
  BY <1>5 DEF Init, OverIsCancelled, StopReachesWorkers, OneStreamPerSession
<1> QED  BY <1>1, <1>6, <1>7, <1>8, <1>9, <1>10 DEF IInv

LEMMA SameInv ==
    ASSUME IInv, UNCHANGED vars
    PROVE  IInv'
<1> USE DEF IInv, vars, channelVars, queueVars, mapVars, serverVars
<1>1. ChannelInv' /\ CastInv'
  BY DEF ChannelInv, Placed, CastInv, Public
<1>2. PostedInv' /\ MapInv'
  BY SameAlive DEF PostedInv, Fitting, Legal, Public, MapInv
<1>3. AnswerInv'
  BY DEF AnswerInv, OneAnswer, Unsent, Requested, Unanswered, AnswerQueued, AnswerPosted, PushPosted
<1>4. Bounded' /\ OverIsCancelled'
  BY SameAlive DEF Bounded, OverIsCancelled
<1>5. StopReachesWorkers' /\ OneStreamPerSession'
  BY SameAlive DEF StopReachesWorkers, OneStreamPerSession, LiveSessions
<1> QED  BY <1>1, <1>2, <1>3, <1>4, <1>5

\* The invariant: what is on its way to an exchange, who may still answer it and
\* what the maps hold fit together, whatever clients, handlers and Stop do.
THEOREM Invariant == Spec => []IInv
<1>1. Init => IInv
  BY InitInv
<1>2. Typed /\ Typed' /\ IInv /\ [Next]_vars => IInv'
  <2> SUFFICES ASSUME Typed, Typed', IInv, [Next]_vars PROVE IInv'
    OBVIOUS
  <2>1. CASE Next
    <3>1. ChannelInv'
      BY DEF Typed
    <3> QED  BY <2>1, <3>1, CastSteps, PostedNext, OpensMap, BeyondMap, AnswerNext, BoundedNext, OverNext,
                StopNext, StreamNext, Parts DEF IInv
  <2>2. CASE UNCHANGED vars
    BY <2>2, SameInv
  <2> QED  BY <2>1, <2>2
<1> QED  BY <1>1, <1>2, TypedInvariant, PTL DEF Spec

\* Isolation: no message of one exchange reaches the client of another POST.
THEOREM Isolated == Spec => []PostIsolated
<1>1. Typed /\ IInv => PostIsolated
  <2> SUFFICES ASSUME Typed, IInv, NEW e \in Exchange, kind[e] \in PostKinds, NEW m \in Coming(e)
               PROVE  m.from = e
    BY DEF PostIsolated
  <2> QED  BY DEF IInv, PostedInv, Fitting, Legal, Coming, Queued, Tasks
<1> QED  BY <1>1, TypedInvariant, Invariant, PTL

\* Between exchanges: no stream gets an answer, or a notification of a POST other
\* than one that is answered with JSON (WriteJson:289, Broadcast:937-966).
THEOREM Crossings == Spec => []OnlyJsonCrosses
<1>1. Typed /\ IInv => OnlyJsonCrosses
  <2> SUFFICES ASSUME Typed, IInv, NEW e \in Exchange, kind[e] \in {"listen", "get"},
                      NEW m \in Coming(e)
               PROVE  ~IsFinal(m) /\ (m.from \notin {NoExchange, e} => kind[m.from] = "json")
    BY DEF OnlyJsonCrosses
  <2>1. Legal(e, m)
    BY DEF IInv, PostedInv, Fitting, Coming, Queued, Tasks
  <2> QED  BY <2>1 DEF Legal, Public, PostKinds, JsonKinds
<1> QED  BY <1>1, TypedInvariant, Invariant, PTL

\* Filtering: a subscription gets its acknowledgement and what its filter names.
THEOREM Filtered == Spec => []FilterRespected
<1>1. Typed /\ IInv => FilterRespected
  <2> SUFFICES ASSUME Typed, IInv, NEW e \in Exchange, kind[e] = "listen", NEW m \in Coming(e)
               PROVE  m = Ack(e) \/ m.what \in filter[e]
    BY DEF FilterRespected
  <2> QED  BY DEF IInv, PostedInv, Fitting, Legal, Coming, Queued, Tasks
<1> QED  BY <1>1, TypedInvariant, Invariant, PTL

\* Registration: the maps hold the exchanges that are served, no more and no less.
THEOREM Registered == Spec => []RegisteredIffServed
<1>1. Typed /\ IInv => RegisteredIffServed
  BY DEF Typed, TypeOK, MapTypes, IInv, MapInv, RegisteredIffServed
<1> QED  BY <1>1, TypedInvariant, Invariant, PTL

\* Limits: no map and no queue grows beyond its bound.
THEOREM Limited == Spec => []Bounded
<1>1. IInv => Bounded
  BY DEF IInv
<1> QED  BY <1>1, Invariant, PTL

\* Cancellation: an exchange that is over is marked as such.
THEOREM CancelledWhenOver == Spec => []OverIsCancelled
<1>1. IInv => OverIsCancelled
  BY DEF IInv
<1> QED  BY <1>1, Invariant, PTL

\* Stop: after the maps are cleared no request is still answerable.
THEOREM StopKnown == Spec => []StopReachesWorkers
<1>1. IInv => StopReachesWorkers
  BY DEF IInv
<1> QED  BY <1>1, Invariant, PTL

\* Streams: a GET stream that is open is the one of a session that exists.
THEOREM OneStream == Spec => []OneStreamPerSession
<1>1. IInv => OneStreamPerSession
  BY DEF IInv
<1> QED  BY <1>1, Invariant, PTL

\* The answer comes last: nothing of a request follows its final message.
THEOREM AnswerLast == Spec => []ReplyIsLast
<1>1. Typed /\ IInv => ReplyIsLast
  <2> SUFFICES ASSUME Typed, IInv, NEW e \in Exchange, kind[e] \in PostKinds
               PROVE  /\ \A i \in 1 .. Len(messages_[e]) : IsFinal(messages_[e][i]) =>
                             i = Len(messages_[e]) /\ \A m \in Coming(e) : m \in Queued(e)
                      /\ \A i, j \in 1 .. Len(posted[owner[e]]) :
                             posted[owner[e]][i] = PushTask(e, Reply(e)) /\ i < j
                                 /\ posted[owner[e]][j].to = e => posted[owner[e]][j] = CloseTask(e)
                      /\ outcome[e] = "reply" => Coming(e) = {}
    BY DEF ReplyIsLast
  <2>0. OneAnswer(e) /\ owner[e] \in Conn
    BY DEF IInv, AnswerInv, ChannelInv, PostKinds, JsonKinds
  <2>1. (\A c \in Conn : \A j \in 1 .. Len(posted[c]) : ~PushPosted(e, c, j)) => Coming(e) = Queued(e)
    BY DEF Coming, Tasks, PushPosted
  <2>2. \A i \in 1 .. Len(messages_[e]) : IsFinal(messages_[e][i]) =>
            i = Len(messages_[e]) /\ \A m \in Coming(e) : m \in Queued(e)
    BY <2>0, <2>1 DEF OneAnswer, AnswerQueued
  <2>3. ASSUME NEW i \in 1 .. Len(posted[owner[e]]), NEW j \in 1 .. Len(posted[owner[e]]),
               posted[owner[e]][i] = PushTask(e, Reply(e)), i < j, posted[owner[e]][j].to = e
        PROVE  posted[owner[e]][j] = CloseTask(e)
    <3>1. ~PushPosted(e, owner[e], j)
      BY <2>0, <2>3 DEF OneAnswer, AnswerPosted
    <3>2. posted[owner[e]][j] \in Task /\ posted[owner[e]][j].op = "close"
      BY <2>0, <2>3, <3>1, PostedSeq, Letters DEF PushPosted
    <3> QED  BY <2>3, <3>2 DEF Task, CloseTask
  <2>4. outcome[e] = "reply" => Coming(e) = {}
    <3> SUFFICES ASSUME outcome[e] = "reply" PROVE Coming(e) = {}
      OBVIOUS
    <3>1. Coming(e) = Queued(e) /\ Len(messages_[e]) = 0
      BY <2>0, <2>1 DEF OneAnswer
    <3> QED  BY <3>1 DEF Queued
  <2> QED  BY <2>2, <2>3, <2>4
<1> QED  BY <1>1, TypedInvariant, Invariant, PTL

LEMMA AtMostOne ==
    ASSUME NEW S, \A x, y \in S : x = y
    PROVE  /\ S = {} => Cardinality(S) = 0
           /\ S # {} => Cardinality(S) = 1
<1>1. S = {} => Cardinality(S) = 0
  BY FS_EmptySet
<1>2. ASSUME S # {} PROVE Cardinality(S) = 1
  <2>1. PICK x \in S : S = {x}
    BY <1>2
  <2> QED  BY <2>1, FS_Singleton
<1> QED  BY <1>1, <1>2

\* One answer: whatever its handler, the time-outs and Stop do, a request has at
\* most one thing that answers it.
THEOREM AnswersOnce == Spec => []AnsweredOnce
<1>1. Typed /\ IInv => AnsweredOnce
  <2> SUFFICES ASSUME Typed, IInv, NEW e \in Exchange
               PROVE  AnswerTokens(e) <= 1
    BY DEF AnsweredOnce
  <2> DEFINE A == {i \in 1 .. Len(incoming_) : incoming_[i] = e}
             B == {x \in serving : x = e}
             C == {i \in 1 .. Len(messages_[e]) : IsFinal(messages_[e][i])}
             D == UNION {{<<c, i>> : i \in {j \in 1 .. Len(posted[c]) :
                             posted[c][j] = PushTask(e, Reply(e))}} : c \in Conn}
  <2>0. \A c \in Conn : \A i \in 1 .. Len(posted[c]) : AnswerPosted(e, c, i) =>
            owner[e] = c /\ kind[e] \in PostKinds
    BY DEF AnswerPosted, PushTask, Reply, IInv, PostedInv, Fitting, Legal, IsFinal
  <2>1. \A p \in D : \E c \in Conn : \E i \in 1 .. Len(posted[c]) : p = <<c, i>> /\ AnswerPosted(e, c, i)
    BY DEF AnswerPosted
  <2>2. CASE kind[e] \in PostKinds
    <3>0. OneAnswer(e)
      BY <2>2 DEF IInv, AnswerInv
    <3>1. /\ \A x, y \in A : x = y
          /\ \A x, y \in B : x = y
          /\ \A x, y \in C : x = y
      BY <3>0 DEF OneAnswer, AnswerQueued
    <3>2. ASSUME NEW p \in D, NEW q \in D PROVE p = q
      <4>1. PICK c \in Conn, i \in Nat : /\ i \in 1 .. Len(posted[c]) /\ p = <<c, i>>
                                         /\ AnswerPosted(e, c, i)
        BY <2>1
      <4>2. PICK d \in Conn, j \in Nat : /\ j \in 1 .. Len(posted[d]) /\ q = <<d, j>>
                                         /\ AnswerPosted(e, d, j)
        BY <2>1
      <4>3. c = d /\ PushPosted(e, c, i) /\ PushPosted(e, c, j)
        BY <2>0, <4>1, <4>2, AnswerIsPush
      <4>4. ~(i < j) /\ ~(j < i)
        BY <3>0, <4>1, <4>2, <4>3 DEF OneAnswer
      <4> QED  BY <4>1, <4>2, <4>3, <4>4
    <3>3. /\ A # {} => B = {} /\ C = {} /\ D = {} /\ outcome[e] # "reply"
          /\ B # {} => C = {} /\ D = {} /\ outcome[e] # "reply"
      <4>1. Unanswered(e) => C = {} /\ D = {} /\ outcome[e] # "reply"
        BY <2>1 DEF Unanswered, AnswerQueued
      <4>2. A # {} => Requested(e)
        BY DEF Requested
      <4> QED  BY <3>0, <4>1, <4>2 DEF OneAnswer
    <3>4. C # {} => D = {} /\ outcome[e] # "reply"
      BY <2>1, <3>0, AnswerIsPush DEF OneAnswer, AnswerQueued
    <3>5. D # {} => outcome[e] # "reply"
      BY <2>1, <3>0 DEF OneAnswer
    <3> HIDE DEF A, B, C, D
    <3>6. /\ A = {} => Cardinality(A) = 0
          /\ A # {} => Cardinality(A) = 1
          /\ B = {} => Cardinality(B) = 0
          /\ B # {} => Cardinality(B) = 1
          /\ C = {} => Cardinality(C) = 0
          /\ C # {} => Cardinality(C) = 1
          /\ D = {} => Cardinality(D) = 0
          /\ D # {} => Cardinality(D) = 1
      BY <3>1, <3>2, AtMostOne
    <3>7. Cardinality(A) + Cardinality(B) + Cardinality(C) + Cardinality(D)
             + (IF outcome[e] = "reply" THEN 1 ELSE 0) <= 1
      BY <3>3, <3>4, <3>5, <3>6
    <3> QED  BY <3>7 DEF AnswerTokens, A, B, C, D
  <2>3. CASE kind[e] \notin PostKinds
    <3>1. A = {} /\ B = {}
      BY <2>3 DEF IInv, MapInv, Exchange, NoExchange
    <3>2. C = {}
      BY <2>3 DEF IInv, PostedInv, Legal
    <3>3. D = {}
      BY <2>0, <2>1, <2>3
    <3> HIDE DEF A, B, C, D
    <3>4. Cardinality(A) = 0 /\ Cardinality(B) = 0 /\ Cardinality(C) = 0 /\ Cardinality(D) = 0
      BY <3>1, <3>2, <3>3, FS_EmptySet
    <3>5. Cardinality(A) + Cardinality(B) + Cardinality(C) + Cardinality(D)
             + (IF outcome[e] = "reply" THEN 1 ELSE 0) <= 1
      BY <3>4
    <3> QED  BY <3>5 DEF AnswerTokens, A, B, C, D
  <2> QED  BY <2>2, <2>3
<1> QED  BY <1>1, TypedInvariant, Invariant, PTL

(***************************************************************************)
(* The transport is the exchange service.                                  *)
(***************************************************************************)

\* A coroutine that has not left the loop of its exchange has not ended it.
Looping == {"test", "push", "ack", "pop", "cast", "write"}

Waiting == \A c \in Conn : pc[c] \in Looping /\ active_channel_[c] # NoExchange =>
               outcome[active_channel_[c]] \in {"nothing", "part"}

LEMMA OpensWaits ==
    ASSUME Typed, AnswerInv, Waiting, NEW c \in Conn, Opens(c)
    PROVE  Waiting'
<1> USE DEF queueVars
<1>0. pc[c] \in {"read", "admit"} /\ active_channel_[c] = NoExchange /\ UNCHANGED outcome
  <2>1. pc[c] \in {"read", "admit"} /\ UNCHANGED outcome
    BY DEF Opens, Admit, Route, RoutePost, RouteInitialize, RouteNotification, RouteListen,
           RouteLegacyGet, RouteLegacyDelete, ReadEnds
  <2> QED  BY <2>1 DEF Typed, ChannelInv, Placed
<1>1. ASSUME NEW k, NEW session, NEW topics, Create(c, k, session, topics), NEW q, Goto(c, q)
      PROVE  Waiting'
  <2>1. outcome[active_channel_'[c]] = "nothing"
    BY <1>0, <1>1, Creation DEF AnswerInv
  <2>2. \A d \in Conn \ {c} : active_channel_'[d] = active_channel_[d] /\ pc'[d] = pc[d]
    BY <1>1 DEF Create, Typed, TypeOK, ChannelTypes
  <2> QED  BY <1>0, <2>1, <2>2 DEF Waiting
<1>2. ASSUME UNCHANGED active_channel_, UNCHANGED pc \/ \E q \in Place : Goto(c, q)
      PROVE  Waiting'
  <2>1. \A d \in Conn \ {c} : pc'[d] = pc[d]
    BY <1>2 DEF Typed, TypeOK, ChannelTypes
  <2> QED  BY <1>0, <1>2, <2>1 DEF Waiting
<1>3. CASE Admit(c)
  <2>1. CASE PendingFull
    BY <1>2, <1>3, <2>1 DEF Admit
  <2>2. CASE ~PendingFull
    BY <1>1, <1>3, <2>2 DEF Admit
  <2> QED  BY <2>1, <2>2
<1>4. ASSUME NEW topics \in SUBSET Filterable, RouteListen(c, topics)
      PROVE  Waiting'
  <2>1. CASE SubscriptionsFull
    BY <1>2, <1>4, <2>1 DEF RouteListen
  <2>2. CASE ~SubscriptionsFull
    BY <1>1, <1>4, <2>2 DEF RouteListen
  <2> QED  BY <2>1, <2>2
<1>5. ASSUME NEW s \in Session, RouteLegacyGet(c, s)
      PROVE  Waiting'
  BY <1>1, <1>5 DEF RouteLegacyGet
<1>6. ASSUME \/ ReadEnds(c) \/ RouteNotification(c)
             \/ \E k \in {"json", "sse"}, session \in {{}} \cup {{s} : s \in Session} :
                    RoutePost(c, k, session)
             \/ \E s \in Session : RouteInitialize(c, s) \/ RouteLegacyDelete(c, s)
      PROVE  Waiting'
  <2>1. UNCHANGED active_channel_ /\ (UNCHANGED pc \/ \E q \in Place : Goto(c, q))
    BY <1>6 DEF ReadEnds, RouteNotification, RoutePost, RouteInitialize, RouteLegacyDelete
  <2> QED  BY <1>2, <2>1
<1> QED  BY <1>3, <1>4, <1>5, <1>6 DEF Opens, Route

LEMMA BeyondWaits ==
    ASSUME Typed, Waiting, Beyond
    PROVE  Waiting'
<1> USE DEF queueVars
<1>0. /\ pc \in [Conn -> Place]
      /\ outcome \in [Exchange -> {"nothing", "part", "reply", "timeout", "ended"}]
      /\ active_channel_ \in [Conn -> 0 .. MaxExchange]
  BY DEF Typed, TypeOK, ChannelTypes, QueueTypes
<1>1. \A c, d \in Conn : c # d /\ active_channel_[c] # NoExchange => active_channel_[c] # active_channel_[d]
  BY DEF Typed, ChannelInv
<1>2. ASSUME NEW c \in Conn, NEW q \in Place, Goto(c, q), UNCHANGED <<active_channel_, outcome>>,
             q \in Looping => pc[c] \in Looping
      PROVE  Waiting'
  BY <1>0, <1>2 DEF Waiting
<1>3. ASSUME NEW c \in Conn, active_channel_[c] \in Exchange, UNCHANGED active_channel_,
             NEW q \in Place, Goto(c, q),
             NEW r, outcome' = [outcome EXCEPT ![active_channel_[c]] = r],
             q \in Looping => r \in {"nothing", "part"}
      PROVE  Waiting'
  <2>1. outcome'[active_channel_[c]] = r /\ pc'[c] = q
    BY <1>0, <1>3
  <2>2. \A d \in Conn \ {c} : pc'[d] = pc[d]
    BY <1>0, <1>3
  <2>3. \A d \in Conn \ {c} : active_channel_[d] # NoExchange =>
            outcome'[active_channel_[d]] = outcome[active_channel_[d]]
    BY <1>0, <1>1, <1>3
  <2> QED  BY <1>3, <2>1, <2>2, <2>3 DEF Waiting
<1>4. ASSUME NEW c \in Conn, NEW r, EndExchange(c, active_channel_[c], r), Popping(c),
             UNCHANGED active_channel_
      PROVE  Waiting'
  <2>1. active_channel_[c] \in Exchange
    BY <1>4, Working DEF Popping
  <2>2. PICK q \in {"finish", "last"} : Goto(c, q)
    BY <1>4 DEF EndExchange
  <2>3. q \in Place /\ q \notin Looping /\ outcome' = [outcome EXCEPT ![active_channel_[c]] = r]
    BY <1>4 DEF EndExchange, Looping
  <2> QED  BY <1>3, <1>4, <2>1, <2>2, <2>3
<1>5. ASSUME NEW c \in Conn, TakeMessage(c)
      PROVE  Waiting'
  <2>1. Popping(c) /\ UNCHANGED active_channel_ /\ active_channel_[c] \in Exchange
    BY <1>5, Working DEF TakeMessage, Popping
  <2>2. CASE EndExchange(c, active_channel_[c], "reply")
    BY <1>4, <2>1, <2>2
  <2>3. CASE Goto(c, "cast") /\ UNCHANGED outcome
    BY <1>2, <2>1, <2>3 DEF Popping, Looping
  <2>4. CASE outcome' = [outcome EXCEPT ![active_channel_[c]] = "part"] /\ Goto(c, "write")
    BY <1>3, <2>1, <2>4
  <2> QED  BY <1>5, <2>2, <2>3, <2>4 DEF TakeMessage
<1>6. ASSUME NEW c \in Conn, TakeNull(c)
      PROVE  Waiting'
  <2>1. Popping(c) /\ UNCHANGED active_channel_
    BY <1>6 DEF TakeNull
  <2>2. CASE NullEnds(active_channel_[c])
    BY <1>4, <1>6, <2>1, <2>2 DEF TakeNull
  <2>3. CASE ~NullEnds(active_channel_[c])
    BY <1>2, <1>6, <2>1, <2>3 DEF TakeNull, Popping, Looping
  <2> QED  BY <2>2, <2>3
<1>7. ASSUME NEW c \in Conn, Deadline(c)
      PROVE  Waiting'
  BY <1>4, <1>7 DEF Deadline
<1>8. ASSUME NEW c \in Conn, WriteEnds(c)
      PROVE  Waiting'
  <2>1. CASE Written(c)
    <3>1. CASE pc[c] = "write"
      BY <1>2, <2>1, <3>1 DEF Written, Looping
    <3>2. CASE pc[c] # "write"
      BY <1>2, <2>1, <3>2 DEF Written, Looping
    <3> QED  BY <3>1, <3>2
  <2>2. CASE WriteFails(c)
    <3>1. active_channel_[c] \in Exchange
      BY <2>2, Working DEF WriteFails
    <3> QED  BY <1>3, <2>2, <3>1 DEF WriteFails, Looping
  <2> QED  BY <1>8, <2>1, <2>2 DEF WriteEnds
<1>9. ASSUME NEW c \in Conn, Finish(c)
      PROVE  Waiting'
  <2>1. /\ pc'[c] \in {"read", "gone"} /\ UNCHANGED outcome
        /\ \A d \in Conn \ {c} : pc'[d] = pc[d] /\ active_channel_'[d] = active_channel_[d]
    BY <1>0, <1>9 DEF Finish
  <2> QED  BY <2>1 DEF Waiting, Looping
<1>10. ASSUME NEW c \in Conn, TestRunning(c) \/ PushIncoming(c) \/ PushAck(c) \/ CloseDeleted(c)
       PROVE  Waiting'
  <2>1. PICK q \in Place : Goto(c, q) /\ UNCHANGED <<active_channel_, outcome>>
    BY <1>10, RoutedPlace DEF TestRunning, PushIncoming, PushAck, CloseDeleted
  <2>2. pc[c] \in Looping \/ pc'[c] = "read"
    BY <1>0, <1>10 DEF TestRunning, PushIncoming, PushAck, CloseDeleted, Looping
  <2>3. q \in Looping => pc[c] \in Looping
    BY <1>0, <2>1, <2>2 DEF Looping
  <2> QED  BY <1>2, <2>1, <2>3
<1>11. ASSUME NEW k \in Caller, CastStep(k)
       PROVE  Waiting'
  <2>1. UNCHANGED <<outcome, active_channel_>>
    BY <1>11, CastMoves
  <2>2. CASE UNCHANGED pc
    BY <2>1, <2>2 DEF Waiting
  <2>3. CASE k \in Conn /\ cast[k].step = "push" /\ Goto(k, "pop")
    <3>1. pc[k] = "cast"
      BY <2>3 DEF Typed, ChannelInv, Placed
    <3> QED  BY <1>2, <2>1, <2>3, <3>1 DEF Looping
  <2> QED  BY <1>11, <2>2, <2>3, CastMoves
<1>12. ASSUME \/ \E c \in Conn : RunTask(c)
              \/ ReadMessage \/ Stop
              \/ \E x \in Exchange : HandlerReturns(x) \/ \E what \in Topic : HandlerNotifies(x, what)
              \/ \E what \in Topic : WriterBroadcasts(what)
       PROVE  UNCHANGED <<pc, active_channel_, outcome>>
  <2>1. ASSUME NEW c \in Conn, RunTask(c) PROVE UNCHANGED <<pc, active_channel_, outcome>>
    BY <2>1 DEF RunTask
  <2>2. ASSUME NEW x \in Exchange, HandlerReturns(x) \/ \E what \in Topic : HandlerNotifies(x, what)
        PROVE  UNCHANGED <<pc, active_channel_, outcome>>
    BY <2>2 DEF HandlerReturns, HandlerNotifies
  <2>3. ASSUME ReadMessage \/ Stop \/ \E what \in Topic : WriterBroadcasts(what)
        PROVE  UNCHANGED <<pc, active_channel_, outcome>>
    BY <2>3 DEF ReadMessage, WriterBroadcasts, Stop, StopRunning, StopRegistered, StopSessions, StopThreads
  <2> QED  BY <1>12, <2>1, <2>2, <2>3
<1>13. UNCHANGED <<pc, active_channel_, outcome>> => Waiting'
  BY DEF Waiting
<1> HIDE DEF Waiting, Goto
<1> QED  BY <1>5, <1>6, <1>7, <1>8, <1>9, <1>10, <1>11, <1>12, <1>13 DEF Beyond

\* A request is ended once: its coroutine does not wait for what is over.
THEOREM EndedOnce == Spec => []Waiting
<1>1. Init => Waiting
  BY DEF Init, Waiting
<1>2. Typed /\ IInv /\ Waiting /\ [Next]_vars => Waiting'
  <2> SUFFICES ASSUME Typed, IInv, Waiting, [Next]_vars PROVE Waiting'
    OBVIOUS
  <2>1. CASE Next
    BY <2>1, OpensWaits, BeyondWaits, Parts DEF IInv
  <2>2. CASE UNCHANGED vars
    BY <2>2 DEF vars, queueVars, Waiting
  <2> QED  BY <2>1, <2>2
<1> QED  BY <1>1, <1>2, TypedInvariant, Invariant, PTL DEF Spec

\* The final message of e is in its queue.
HasAnswer(e) == \E i \in 1 .. Len(messages_[e]) : AnswerQueued(e, i)

\* What a request has come to, and whose answer has come for it.
Verdict(e) ==
    IF kind[e] \notin PostKinds THEN "new"
    ELSE IF outcome[e] = "reply" THEN "answered"
    ELSE IF outcome[e] \in {"nothing", "part"} /\ phase # "stopped" THEN "open"
    ELSE "failed"

Come(e) == IF Verdict(e) = "answered" \/ (Verdict(e) = "open" /\ HasAnswer(e)) THEN e ELSE NoExchange

\* No answer but its own can be in the queue of a request.
LEMMA Mapped ==
    Typed /\ IInv => /\ Status = [e \in Exchange |-> Verdict(e)]
                     /\ Given = [e \in Exchange |-> Come(e)]
<1> SUFFICES ASSUME Typed, IInv
             PROVE  /\ Status = [e \in Exchange |-> Verdict(e)]
                    /\ Given = [e \in Exchange |-> Come(e)]
  OBVIOUS
<1>1. Status = [e \in Exchange |-> Verdict(e)]
  BY DEF Status, Verdict
<1>2. ASSUME NEW e \in Exchange PROVE Given[e] = Come(e)
  <2>1. Status[e] = Verdict(e)
    BY <1>1
  <2>2. Given[e] = IF Status[e] = "answered" THEN e
                   ELSE IF Status[e] = "open" /\ (\E m \in Queued(e) : IsFinal(m))
                        THEN (CHOOSE m \in Queued(e) : IsFinal(m)).from
                        ELSE NoExchange
    BY DEF Given
  <2>3. HasAnswer(e) <=> \E m \in Queued(e) : IsFinal(m)
    BY DEF HasAnswer, AnswerQueued, Queued
  <2>4. Verdict(e) = "open" => \A m \in Queued(e) : m.from = e
    BY DEF IInv, PostedInv, Legal, Queued, Verdict
  <2>5. (\E m \in Queued(e) : IsFinal(m)) => (CHOOSE m \in Queued(e) : IsFinal(m)) \in Queued(e)
    OBVIOUS
  <2> QED  BY <2>1, <2>2, <2>3, <2>4, <2>5 DEF Come
<1> QED  BY <1>1, <1>2 DEF Given

LEMMA MappedNext ==
    Typed' /\ IInv' => /\ Status' = [e \in Exchange |-> Verdict(e)']
                       /\ Given' = [e \in Exchange |-> Come(e)']
<1>1. (Typed /\ IInv => /\ Status = [e \in Exchange |-> Verdict(e)]
                        /\ Given = [e \in Exchange |-> Come(e)])'
  BY Mapped, PTL
<1> QED  BY <1>1

LEMMA RefinesInit == Init => Exchanges!Init
<1> SUFFICES ASSUME Init PROVE Exchanges!Init
  OBVIOUS
<1>1. \A e \in Exchange : kind[e] \notin PostKinds
  BY DEF Init, PostKinds, JsonKinds
<1>2. Status = [e \in Exchange |-> "new"]
  BY <1>1 DEF Status
<1>3. Given = [e \in Exchange |-> NoExchange]
  BY <1>2 DEF Given
<1> QED  BY <1>2, <1>3 DEF Exchanges!Init

\* Nothing is seen of a step after which every request is where it was.
Unseen(e) == Verdict(e)' = Verdict(e) /\ Come(e)' = Come(e)

LEMMA RefinesStutter ==
    ASSUME Typed, IInv, Typed', IInv', \A e \in Exchange : Unseen(e)
    PROVE  UNCHANGED (Exchanges!vars)
<1>1. Status' = Status /\ Given' = Given
  <2>1. /\ Status = [e \in Exchange |-> Verdict(e)]
        /\ Given = [e \in Exchange |-> Come(e)]
    BY Mapped
  <2>2. /\ Status' = [e \in Exchange |-> Verdict(e)']
        /\ Given' = [e \in Exchange |-> Come(e)']
    BY MappedNext
  <2> HIDE DEF Status, Given, Verdict, Come
  <2> QED  BY <2>1, <2>2 DEF Unseen
<1> QED  BY <1>1 DEF Exchanges!vars

\* One request moves, and its answer stays where it is or comes for it.
LEMMA RefinesMove ==
    ASSUME Typed, IInv, Typed', IInv', NEW n \in Exchange, \A e \in Exchange \ {n} : Unseen(e),
           \/ Verdict(n) = "new" /\ Verdict(n)' = "open" /\ Come(n)' = Come(n)
           \/ Verdict(n) = "open" /\ Verdict(n)' = "answered" /\ Come(n) = n /\ Come(n)' = n
           \/ Verdict(n) = "open" /\ Verdict(n)' = "open" /\ Come(n) = NoExchange /\ Come(n)' = n
    PROVE  Exchanges!Next
<1>1. /\ Status = [e \in Exchange |-> Verdict(e)]
      /\ Given = [e \in Exchange |-> Come(e)]
  BY Mapped
<1>2. /\ Status' = [e \in Exchange |-> Verdict(e)']
      /\ Given' = [e \in Exchange |-> Come(e)']
  BY MappedNext
<1>3. /\ Status' = [Status EXCEPT ![n] = Verdict(n)']
      /\ Given' = [Given EXCEPT ![n] = Come(n)']
      /\ Status[n] = Verdict(n) /\ Given[n] = Come(n)
  BY <1>1, <1>2 DEF Unseen
<1>4. CASE Verdict(n) = "new" /\ Verdict(n)' = "open" /\ Come(n)' = Come(n)
  <2>1. Given' = Given
    BY <1>1, <1>3, <1>4
  <2>2. Exchanges!Open(n)
    BY <1>3, <1>4, <2>1 DEF Exchanges!Open, Exchanges!Move
  <2> QED  BY <2>2 DEF Exchanges!Next
<1>5. CASE Verdict(n) = "open" /\ Verdict(n)' = "answered" /\ Come(n) = n /\ Come(n)' = n
  <2>1. Given' = Given
    BY <1>1, <1>3, <1>5
  <2>2. Exchanges!Deliver(n)
    BY <1>3, <1>5, <2>1 DEF Exchanges!Deliver, Exchanges!Move
  <2> QED  BY <2>2 DEF Exchanges!Next
<1>6. CASE Verdict(n) = "open" /\ Verdict(n)' = "open" /\ Come(n) = NoExchange /\ Come(n)' = n
  <2>1. Status' = Status
    BY <1>1, <1>3, <1>6
  <2>2. Exchanges!Reply(n)
    BY <1>3, <1>6, <2>1 DEF Exchanges!Reply
  <2> QED  BY <2>2 DEF Exchanges!Next
<1> QED  BY <1>4, <1>5, <1>6

\* Requests fail, one or all that are open: what has come for them is lost.
LEMMA RefinesFail ==
    ASSUME Typed, IInv, Typed', IInv', NEW rs \in SUBSET Exchange, rs # {},
           \A e \in Exchange \ rs : Unseen(e),
           \A e \in rs : Verdict(e) \in {"new", "open"} /\ Verdict(e)' = "failed"
    PROVE  Exchanges!Next
<1>1. /\ Status = [e \in Exchange |-> Verdict(e)]
      /\ Given = [e \in Exchange |-> Come(e)]
  BY Mapped
<1>2. /\ Status' = [e \in Exchange |-> Verdict(e)']
      /\ Given' = [e \in Exchange |-> Come(e)']
  BY MappedNext
<1>3. \A e \in rs : Come(e)' = NoExchange
  BY DEF Come
<1> HIDE DEF Status, Given, Verdict, Come
<1>4. Status' = [e \in Exchange |-> IF e \in rs THEN "failed" ELSE Status[e]]
  BY <1>1, <1>2 DEF Unseen
<1>5. Given' = [e \in Exchange |-> IF e \in rs THEN NoExchange ELSE Given[e]]
  BY <1>1, <1>2, <1>3 DEF Unseen
<1>6. \A e \in rs : Status[e] \in {"new", "open"}
  BY <1>1
<1>7. \E lost \in SUBSET rs :
          Given' = [e \in Exchange |-> IF e \in lost THEN NoExchange ELSE Given[e]]
  <2>1. rs \in SUBSET rs
    OBVIOUS
  <2> QED  BY <1>5, <2>1
<1>8. Exchanges!Fail(rs)
  BY <1>4, <1>6, <1>7, Zenon DEF Exchanges!Fail
<1> QED  BY <1>8, Zenon DEF Exchanges!Next

\* What decides on where a request is.
LEMMA SameSeen ==
    ASSUME NEW e, kind'[e] = kind[e], outcome'[e] = outcome[e],
           phase' = "stopped" <=> phase = "stopped",
           HasAnswer(e)' <=> HasAnswer(e)
    PROVE  Unseen(e)
BY DEF Unseen, Verdict, Come

\* A request is read, and opened when it is admitted.
LEMMA OpensMoves ==
    ASSUME Typed, IInv, NEW c \in Conn, Opens(c)
    PROVE  \/ \A e \in Exchange : Unseen(e)
           \/ \E n \in Exchange :
                  /\ \A e \in Exchange \ {n} : Unseen(e)
                  /\ Verdict(n) = "new"
                  /\ (Verdict(n)' = "open" /\ Come(n)' = Come(n)) \/ Verdict(n)' = "failed"
<1> USE DEF queueVars
<1>0. UNCHANGED <<outcome, messages_, phase>> /\ pc[c] \in {"read", "admit"}
  BY DEF Opens, Admit, Route, RoutePost, RouteInitialize, RouteNotification, RouteListen, RouteLegacyGet,
         RouteLegacyDelete, ReadEnds
<1>1. \A e \in Exchange : kind'[e] = kind[e] => Unseen(e)
  BY <1>0, SameSeen DEF HasAnswer, AnswerQueued
<1>2. CASE \E k, session, topics : Create(c, k, session, topics)
  <2>1. PICK n \in Exchange : /\ kind[n] = "none"
                              /\ \A e \in Exchange \ {n} : kind'[e] = kind[e]
    BY <1>0, <1>2, Creation
  <2>2. kind[n] \notin PostKinds /\ outcome'[n] = "nothing" /\ ~HasAnswer(n) /\ ~HasAnswer(n)'
    BY <1>0, <2>1 DEF PostKinds, JsonKinds, IInv, AnswerInv, PostedInv, HasAnswer, AnswerQueued
  <2>3. Verdict(n) = "new" /\ Come(n) = NoExchange
    BY <2>2 DEF Verdict, Come
  <2>4. CASE kind'[n] \in PostKinds
    <3>1. Verdict(n)' = (IF phase # "stopped" THEN "open" ELSE "failed") /\ Come(n)' = NoExchange
      BY <1>0, <2>2, <2>4 DEF Verdict, Come
    <3> QED  BY <1>1, <2>1, <2>3, <3>1
  <2>5. CASE kind'[n] \notin PostKinds
    <3>1. Verdict(n)' = "new" /\ Come(n)' = NoExchange
      BY <2>5 DEF Verdict, Come
    <3>2. Unseen(n)
      BY <2>3, <3>1 DEF Unseen
    <3> QED  BY <1>1, <2>1, <3>2
  <2> QED  BY <2>4, <2>5
<1>3. CASE UNCHANGED kind
  BY <1>1, <1>3
<1>4. \/ UNCHANGED kind
      \/ \E k, session, topics : Create(c, k, session, topics)
  BY DEF Opens, Admit, Route, RoutePost, RouteInitialize, RouteNotification, RouteListen, RouteLegacyGet,
         RouteLegacyDelete, ReadEnds
<1> QED  BY <1>2, <1>3, <1>4

\* The coroutine takes a message: the answer is delivered, any other one leaves
\* the answer behind it where it is.
LEMMA TakeMoves ==
    ASSUME Typed, IInv, Waiting, NEW c \in Conn, TakeMessage(c)
    PROVE  \/ \A e \in Exchange : Unseen(e)
           \/ \E n \in Exchange :
                  /\ \A e \in Exchange \ {n} : Unseen(e)
                  /\ Verdict(n) = "open" /\ Verdict(n)' = "answered" /\ Come(n) = n /\ Come(n)' = n
<1>0. PICK n \in Exchange :
          /\ n = active_channel_[c] /\ kind[n] # "none" /\ outcome[n] \in {"nothing", "part"}
          /\ phase # "stopped" /\ UNCHANGED <<phase, kind>>
  BY Working DEF TakeMessage, Popping, Waiting, Looping, Exchange, NoExchange
<1>1. /\ outcome \in [Exchange -> {"nothing", "part", "reply", "timeout", "ended"}]
      /\ messages_ \in [Exchange -> Seq(Message)]
  BY DEF Typed, TypeOK, QueueTypes
<1>2. /\ messages_[n] \in Seq(Message) /\ messages_[n] # <<>>
      /\ messages_' = [messages_ EXCEPT ![n] = Tail(messages_[n])]
  BY <1>0, <1>1 DEF TakeMessage
<1>3. \A e \in Exchange \ {n} : Unseen(e)
  <2>1. \A e \in Exchange \ {n} : outcome'[e] = outcome[e] /\ messages_'[e] = messages_[e]
    BY <1>0, <1>1, <1>2 DEF TakeMessage, EndExchange
  <2> QED  BY <1>0, <2>1, SameSeen DEF HasAnswer, AnswerQueued
<1>4. /\ 1 \in 1 .. Len(messages_[n]) /\ Head(messages_[n]) = messages_[n][1]
      /\ Len(Tail(messages_[n])) = Len(messages_[n]) - 1
      /\ \A i \in 1 .. Len(Tail(messages_[n])) :
             Tail(messages_[n])[i] = messages_[n][i + 1] /\ i + 1 \in 1 .. Len(messages_[n])
  BY <1>2, Rest
<1>5. CASE IsFinal(Head(messages_[n]))
  <2>1. outcome'[n] = "reply"
    BY <1>0, <1>1, <1>5 DEF TakeMessage, EndExchange
  <2>2. AnswerQueued(n, 1) /\ HasAnswer(n)
    BY <1>4, <1>5 DEF AnswerQueued, HasAnswer
  <2>3. kind[n] \in PostKinds
    BY <1>0, <1>4, <1>5 DEF IInv, PostedInv, Legal
  <2>4. Verdict(n) = "open" /\ Come(n) = n
    BY <1>0, <2>2, <2>3 DEF Verdict, Come
  <2>5. Verdict(n)' = "answered" /\ Come(n)' = n
    BY <1>0, <2>1, <2>3 DEF Verdict, Come
  <2> QED  BY <1>0, <1>3, <2>4, <2>5
<1>6. CASE ~IsFinal(Head(messages_[n]))
  <2>1. outcome'[n] \in {"nothing", "part"}
    BY <1>0, <1>1, <1>6 DEF TakeMessage
  <2>2. HasAnswer(n)' <=> HasAnswer(n)
    <3>1. ~AnswerQueued(n, 1)
      BY <1>4, <1>6 DEF AnswerQueued
    <3>2. messages_'[n] = Tail(messages_[n])
      BY <1>0, <1>1, <1>2
    <3>3. \A i \in 1 .. Len(messages_'[n]) :
              /\ i + 1 \in 1 .. Len(messages_[n])
              /\ AnswerQueued(n, i)' <=> AnswerQueued(n, i + 1)
      BY <1>0, <1>4, <3>2 DEF AnswerQueued, TakeMessage
    <3>4. \A i \in 1 .. Len(messages_[n]) : i # 1 =>
              i - 1 \in 1 .. Len(messages_'[n]) /\ (i - 1) + 1 = i
      BY <1>2, <1>4, <3>2
    <3>5. HasAnswer(n)' => HasAnswer(n)
      BY <3>3 DEF HasAnswer
    <3>6. ASSUME NEW i \in 1 .. Len(messages_[n]), AnswerQueued(n, i) PROVE HasAnswer(n)'
      <4>1. i - 1 \in 1 .. Len(messages_'[n]) /\ (i - 1) + 1 = i
        BY <3>1, <3>4, <3>6
      <4>2. AnswerQueued(n, i - 1)'
        BY <3>3, <3>6, <4>1
      <4> QED  BY <4>1, <4>2 DEF HasAnswer
    <3> QED  BY <3>5, <3>6 DEF HasAnswer
  <2>3. Unseen(n)
    BY <1>0, <2>1, <2>2 DEF Unseen, Verdict, Come
  <2> QED  BY <1>3, <2>3
<1> QED  BY <1>5, <1>6

\* A message enters its queue: the answer of a request that is open has come.
LEMMA EnterMoves ==
    ASSUME Typed, IInv, NEW c \in Conn, RunTask(c)
    PROVE  \/ \A e \in Exchange : Unseen(e)
           \/ \E n \in Exchange :
                  /\ \A e \in Exchange \ {n} : Unseen(e)
                  /\ Verdict(n) = "open" /\ Verdict(n)' = "open"
                  /\ Come(n) = NoExchange /\ Come(n)' = n
<1> DEFINE t == Head(posted[c])
<1>0. PICK n \in Exchange :
          /\ n = t.to /\ t \in Task
          /\ UNCHANGED <<phase, kind, outcome>> /\ phase # "stopped"
          /\ messages_ \in [Exchange -> Seq(Message)]
  BY PostedSeq, Rest, Letters DEF RunTask, StrandFree, Typed, TypeOK, QueueTypes
<1>1. CASE UNCHANGED messages_
  BY <1>0, <1>1, SameSeen DEF HasAnswer, AnswerQueued
<1>2. CASE t.op = "push" /\ messages_' = [messages_ EXCEPT ![n] = Append(messages_[n], t.msg)]
  <2>1. \A e \in Exchange \ {n} : Unseen(e)
    BY <1>0, <1>2, SameSeen DEF HasAnswer, AnswerQueued
  <2>2. /\ t.msg \in Message /\ messages_[n] \in Seq(Message)
        /\ messages_'[n] = Append(messages_[n], t.msg)
    BY <1>0, <1>2, Letters
  <2>3. /\ Len(messages_'[n]) = Len(messages_[n]) + 1 /\ Len(messages_[n]) \in Nat
        /\ messages_'[n][Len(messages_'[n])] = t.msg
        /\ \A i \in 1 .. Len(messages_[n]) : messages_'[n][i] = messages_[n][i]
    BY <2>2, Longer
  <2>4. HasAnswer(n)' <=> HasAnswer(n) \/ IsFinal(t.msg)
    <3>1. \A i \in 1 .. Len(messages_[n]) :
              i \in 1 .. Len(messages_'[n]) /\ (AnswerQueued(n, i)' <=> AnswerQueued(n, i))
      BY <2>3 DEF AnswerQueued, IsFinal
    <3>2. PICK k \in 1 .. Len(messages_'[n]) :
              /\ k = Len(messages_'[n])
              /\ \A i \in 1 .. Len(messages_'[n]) : i \in 1 .. Len(messages_[n]) \/ i = k
      <4>1. PICK k \in Nat : k = Len(messages_'[n])
        BY <2>3
      <4>2. k \in 1 .. k
        BY <2>3, <4>1
      <4>3. \A i \in 1 .. k : i \in 1 .. Len(messages_[n]) \/ i = k
        BY <2>3, <4>1
      <4> QED  BY <4>1, <4>2, <4>3
    <3>3. AnswerQueued(n, k)' <=> IsFinal(t.msg)
      BY <2>3, <3>2 DEF AnswerQueued, IsFinal
    <3>4. ASSUME HasAnswer(n) \/ IsFinal(t.msg) PROVE HasAnswer(n)'
      BY <3>1, <3>3, <3>4 DEF HasAnswer
    <3>5. ASSUME HasAnswer(n)' PROVE HasAnswer(n) \/ IsFinal(t.msg)
      BY <3>1, <3>2, <3>3, <3>5 DEF HasAnswer
    <3> QED  BY <3>4, <3>5
  <2>5. CASE HasAnswer(n)' <=> HasAnswer(n)
    BY <1>0, <2>1, <2>5, SameSeen
  <2>6. CASE HasAnswer(n)' /\ ~HasAnswer(n)
    <3>1. CASE Verdict(n) = "open"
      <4>1. Verdict(n)' = "open"
        BY <1>0, <3>1 DEF Verdict
      <4>2. Come(n) = NoExchange /\ Come(n)' = n
        BY <2>6, <3>1, <4>1 DEF Come
      <4> QED  BY <1>0, <2>1, <3>1, <4>1, <4>2
    <3>2. CASE Verdict(n) # "open"
      <4>1. Verdict(n)' = Verdict(n)
        BY <1>0 DEF Verdict
      <4>2. Unseen(n)
        BY <3>2, <4>1 DEF Come, Unseen
      <4> QED  BY <2>1, <4>2
    <3> QED  BY <3>1, <3>2
  <2> QED  BY <2>4, <2>5, <2>6
<1>3. \/ UNCHANGED messages_
      \/ t.op = "push" /\ messages_' = [messages_ EXCEPT ![n] = Append(messages_[n], t.msg)]
  <2>1. \/ /\ t.op = "push" /\ ~closed_[t.to] /\ Len(messages_[t.to]) < MaxQueued
           /\ messages_' = [messages_ EXCEPT ![t.to] = Append(messages_[t.to], t.msg)]
        \/ UNCHANGED messages_
    BY DEF RunTask
  <2>2. CASE UNCHANGED messages_
    BY <2>2
  <2>3. CASE /\ t.op = "push"
             /\ messages_' = [messages_ EXCEPT ![t.to] = Append(messages_[t.to], t.msg)]
    <3>1. t.to = n
      BY <1>0
    <3> HIDE DEF t
    <3> QED  BY <2>3, <3>1
  <2> QED  BY <2>1, <2>2, <2>3, Zenon
<1> QED  BY <1>1, <1>2, <1>3

\* An exchange ends without an answer: if it is a request it fails.
LEMMA EndMoves ==
    ASSUME Typed, IInv, Waiting, NEW c \in Conn, TakeNull(c) \/ Deadline(c) \/ WriteFails(c)
    PROVE  \/ \A e \in Exchange : Unseen(e)
           \/ \E n \in Exchange :
                  /\ \A e \in Exchange \ {n} : Unseen(e)
                  /\ Verdict(n) = "open" /\ Verdict(n)' = "failed"
<1>0. PICK n \in Exchange :
          /\ n = active_channel_[c] /\ outcome[n] \in {"nothing", "part"} /\ phase # "stopped"
          /\ UNCHANGED <<phase, kind, messages_>>
  BY Working DEF TakeNull, Deadline, WriteFails, Popping, Waiting, Looping, Exchange, NoExchange
<1>1. UNCHANGED outcome \/ \E r \in {"timeout", "ended"} : outcome' = [outcome EXCEPT ![n] = r]
  BY <1>0 DEF TakeNull, Deadline, WriteFails, EndExchange
<1>2. outcome \in [Exchange -> {"nothing", "part", "reply", "timeout", "ended"}]
  BY DEF Typed, TypeOK, QueueTypes
<1>3. /\ outcome'[n] \in {"timeout", "ended"} \/ UNCHANGED outcome
      /\ \A e \in Exchange \ {n} : outcome'[e] = outcome[e]
  BY <1>0, <1>1, <1>2
<1>4. \A e \in Exchange \ {n} : Unseen(e)
  BY <1>0, <1>3, SameSeen DEF HasAnswer, AnswerQueued
<1>5. CASE kind[n] \in PostKinds /\ outcome'[n] \in {"timeout", "ended"}
  <2>1. Verdict(n) = "open" /\ Verdict(n)' = "failed"
    BY <1>0, <1>3, <1>5 DEF Verdict
  <2> QED  BY <1>0, <1>4, <2>1
<1>6. CASE kind[n] \notin PostKinds
  <2>1. Verdict(n) = "new" /\ Verdict(n)' = "new"
    BY <1>0, <1>6 DEF Verdict
  <2>2. Unseen(n)
    BY <2>1 DEF Unseen, Come
  <2> QED  BY <1>4, <2>2
<1>7. CASE UNCHANGED outcome
  BY <1>0, <1>7, SameSeen DEF HasAnswer, AnswerQueued
<1> QED  BY <1>3, <1>5, <1>6, <1>7

\* The threads stop: what is open stays without an answer.
LEMMA StopMoves ==
    ASSUME Typed, IInv, Stop
    PROVE  \/ \A e \in Exchange : Unseen(e)
           \/ \E rs \in SUBSET Exchange :
                  /\ rs # {} /\ \A e \in Exchange \ rs : Unseen(e)
                  /\ \A e \in rs : Verdict(e) = "open" /\ Verdict(e)' = "failed"
<1>0. UNCHANGED <<kind, outcome, messages_>>
  BY DEF Stop, StopRunning, StopRegistered, StopSessions, StopThreads, queueVars
<1>1. CASE phase' # "stopped"
  <2>1. phase # "stopped"
    BY DEF Stop, StopRunning, StopRegistered, StopSessions, StopThreads
  <2> QED  BY <1>0, <1>1, <2>1, SameSeen DEF HasAnswer, AnswerQueued
<1>2. CASE phase' = "stopped"
  <2> DEFINE rs == {e \in Exchange : Verdict(e) = "open"}
  <2>1. \A e \in rs : Verdict(e)' = "failed"
    BY <1>0, <1>2 DEF Verdict
  <2>2. ASSUME NEW e \in Exchange \ rs PROVE Unseen(e)
    <3>1. Verdict(e)' = Verdict(e)
      BY <1>0, <1>2, <2>2 DEF Verdict
    <3> QED  BY <2>2, <3>1 DEF Unseen, Come
  <2>3. CASE rs = {}
    BY <2>2, <2>3
  <2>4. CASE rs # {}
    BY <2>1, <2>2, <2>4
  <2> QED  BY <2>3, <2>4
<1> QED  BY <1>1, <1>2

LEMMA RefinesStep ==
    Typed /\ IInv /\ Waiting /\ Typed' /\ IInv' /\ [Next]_vars => [Exchanges!Next]_(Exchanges!vars)
<1> SUFFICES ASSUME Typed, IInv, Waiting, Typed', IInv', [Next]_vars
             PROVE  [Exchanges!Next]_(Exchanges!vars)
  OBVIOUS
<1>1. CASE \A e \in Exchange : Unseen(e)
  BY <1>1, RefinesStutter
<1>2. ASSUME NEW n \in Exchange, \A e \in Exchange \ {n} : Unseen(e),
             Verdict(n) \in {"new", "open"}, Verdict(n)' = "failed"
      PROVE  Exchanges!Next
  <2>1. {n} \in SUBSET Exchange /\ {n} # {}
    OBVIOUS
  <2>2. \A e \in {n} : Verdict(e) \in {"new", "open"} /\ Verdict(e)' = "failed"
    BY <1>2
  <2> QED  BY <1>2, <2>1, <2>2, RefinesFail
<1>3. ASSUME NEW c \in Conn, Opens(c)
      PROVE  [Exchanges!Next]_(Exchanges!vars)
  BY <1>1, <1>2, <1>3, OpensMoves, RefinesMove
<1>4. ASSUME NEW c \in Conn, TakeMessage(c)
      PROVE  [Exchanges!Next]_(Exchanges!vars)
  BY <1>1, <1>4, TakeMoves, RefinesMove
<1>5. ASSUME NEW c \in Conn, RunTask(c)
      PROVE  [Exchanges!Next]_(Exchanges!vars)
  BY <1>1, <1>5, EnterMoves, RefinesMove
<1>6. ASSUME NEW c \in Conn, TakeNull(c) \/ Deadline(c) \/ WriteFails(c)
      PROVE  [Exchanges!Next]_(Exchanges!vars)
  BY <1>1, <1>2, <1>6, EndMoves
<1>7. CASE Stop
  BY <1>1, <1>7, StopMoves, RefinesFail
<1>8. ASSUME UNCHANGED <<phase, kind, outcome, messages_>>
      PROVE  [Exchanges!Next]_(Exchanges!vars)
  <2>1. \A e \in Exchange : Unseen(e)
    BY <1>8, SameSeen DEF HasAnswer, AnswerQueued
  <2> QED  BY <1>1, <2>1
<1>9. ASSUME \/ \E c \in Conn : \/ TestRunning(c) \/ PushIncoming(c) \/ PushAck(c) \/ CloseDeleted(c)
                                \/ Written(c) \/ Finish(c)
             \/ \E k \in Caller : CastStep(k)
             \/ ReadMessage
             \/ \E e \in Exchange : HandlerReturns(e) \/ \E what \in Topic : HandlerNotifies(e, what)
             \/ \E what \in Topic : WriterBroadcasts(what)
      PROVE  UNCHANGED <<phase, kind, outcome, messages_>>
  BY <1>9 DEF TestRunning, PushIncoming, PushAck, CloseDeleted, Written, Finish, CastStep, CollectStreams,
              PushTarget, EndCast, ReadMessage, HandlerReturns, HandlerNotifies, WriterBroadcasts, queueVars
<1>10. UNCHANGED vars => UNCHANGED <<phase, kind, outcome, messages_>>
  BY DEF vars, queueVars
<1> QED  BY <1>3, <1>4, <1>5, <1>6, <1>7, <1>8, <1>9, <1>10, Parts DEF Beyond, WriteEnds

\* Apart from liveness, the transport is the exchange service: every request is
\* answered once, by its own answer and as long as it is open, or fails, whatever
\* connections are used again, handlers do late, and Stop interrupts.
THEOREM Refinement == Spec => Exchanges!Spec
BY RefinesInit, RefinesStep, TypedInvariant, Invariant, EndedOnce, PTL DEF Spec, Exchanges!Spec
==============================================================================
