--------------------------- MODULE HttpStreamProofs ---------------------------
(***************************************************************************)
(* Theorems about HttpStream, for any pool, any requests and any limits.   *)
(* Some hold for any ids; those about registration and about whose answer  *)
(* it is hold when no two requests have the same id, which nothing in the  *)
(* code makes sure of.                                                     *)
(***************************************************************************)
EXTENDS HttpStream, HttpServerProofs

USE RequestAssumption, JobsAssumption

-----------------------------------------------------------------------------
(* Types *)

\* A worker has a request exactly while it is in HandlePostMessage.
Posting ==
    \A w \in Worker : IF pc[w] \in Handling THEN post[w] \in Request
                                            ELSE post[w] = NoRequest

\* Server has one exactly while it works on it.
Working == IF main \in {"busy", "stream"} THEN handling \in Request
                                          ELSE handling = NoRequest

Typed == TypeOK /\ Posting /\ Working

\* What a step leaves alone that is not about requests.
Elsewhere ==
    /\ UNCHANGED <<exchangeVars, incoming_messages_, handling, post, outcome>>
    /\ \/ main' = main
       \/ main \notin {"busy", "stream"} /\ main' \notin {"busy", "stream"}
    /\ \A w \in Worker : \/ pc'[w] = pc[w]
                         \/ pc[w] \notin Handling /\ pc'[w] \notin Handling

LEMMA ElsewhereTyped ==
    ASSUME Typed, Elsewhere PROVE Posting' /\ Working'
BY DEF Typed, Posting, Working, Elsewhere

\* The steps that have nothing to do with a request.
LifeStep == StartTransport \/ StartReturns \/ ListenReturns \/ StopBegins
            \/ StopListening \/ StopJoins \/ ByServer(Listen \/ Accept)

StreamStep(w) == ReceiveGet(w) \/ ProviderStep(w) \/ ReceiveDelete(w)

PoolStep(w) == ByServer(WorkerStep(w) \/ Leave(w))

LEMMA LifeElsewhere ==
    ASSUME Typed, LifeStep PROVE Elsewhere
BY DEF Typed, TypeOK, LifeStep, StartTransport, StartReturns, ListenReturns, BindFails,
       JoinWorkers, StopBegins, StopListening, CloseListener, StopJoins, Elsewhere, ByServer,
       Listen, Accept,
       serverVars, sessionVars, exchangeVars, streamVars, readerVars

LEMMA StreamElsewhere ==
    ASSUME Typed, NEW w \in Worker, StreamStep(w) PROVE Elsewhere
<1> USE DEF Typed, TypeOK, ServerTypeOK, Elsewhere, Handling, serverVars, exchangeVars, readerVars
<1>1. CASE ReceiveGet(w)
  BY <1>1 DEF ReceiveGet, Goto
<1>2. CASE Terminate(w)
  BY <1>2 DEF Terminate, CloseSocket
<1>3. CASE PopNotification(w)
  BY <1>3 DEF PopNotification
<1>4. CASE ReceiveDelete(w)
  BY <1>4 DEF ReceiveDelete
<1> QED BY <1>1, <1>2, <1>3, <1>4 DEF StreamStep, ProviderStep

LEMMA PoolElsewhere ==
    ASSUME Typed, NEW w \in Worker, PoolStep(w) PROVE Elsewhere
<1> USE DEF Typed, TypeOK, ServerTypeOK, Elsewhere, Handling, exchangeVars, readerVars,
            PoolStep, ByServer
<1>1. CASE TakeJob(w)
  BY <1>1 DEF TakeJob, Goto
<1>2. CASE KeepAliveEnds(w) \/ StreamStops(w) \/ StreamLost(w)
  BY <1>2 DEF KeepAliveEnds, StreamStops, StreamLost, CloseSocket
<1>3. CASE Leave(w)
  BY <1>3 DEF Leave, serverVars
<1> QED BY <1>1, <1>2, <1>3 DEF WorkerStep
\* The variables of httplib keep their types.
LEMMA ServerTyped ==
    ASSUME Typed, Next PROVE ServerTypeOK(Handling)'
<1>0. ServerTypeOK(Handling)
  BY DEF Typed, TypeOK
<1>1. ASSUME NEW w \in Worker, ServerStep(w) PROVE ServerTypeOK(Handling)'
  BY <1>0, <1>1, ServerStepType
<1>2. ASSUME NEW w \in Worker, UNCHANGED serverVars,
             \/ \E place \in {"idle", "keep", "sse"} \cup Handling : Goto(w, place)
             \/ CloseSocket(w)
      PROVE  ServerTypeOK(Handling)'
  BY <1>0, <1>2, GotoType, CloseSocketType
<1>3. ASSUME UNCHANGED <<serverVars, pc, left>> PROVE ServerTypeOK(Handling)'
  BY <1>0, <1>3 DEF ServerTypeOK, serverVars
<1>4. CASE StartTransport
  BY <1>0, <1>4 DEF StartTransport, ServerTypeOK
<1>5. CASE ListenReturns \/ StopListening
  BY <1>0, <1>5 DEF ListenReturns, StopListening, ServerTypeOK, BindFails, JoinWorkers,
                    CloseListener
<1>6. CASE StartReturns \/ StopBegins \/ StopJoins \/ StopReleases \/ ReadMessage
           \/ NoAnswer \/ WriteAnswer \/ StreamAnswer \/ Notify
  BY <1>3, <1>6 DEF StartReturns, StopBegins, StopJoins, StopReleases, ReadMessage,
                    NoAnswer, WriteAnswer, StreamAnswer, Notify
<1>7. CASE ByServer(Listen \/ Accept)
  <2>1. CASE Listen
    BY <1>0, <2>1 DEF Listen, ServerTypeOK
  <2>2. CASE Accept
    BY <1>0, <2>2 DEF Accept, ServerTypeOK
  <2> QED BY <1>7, <2>1, <2>2 DEF ByServer
<1>8. ASSUME NEW w \in Worker, ByServer(WorkerStep(w) \/ Leave(w))
      PROVE  ServerTypeOK(Handling)'
  BY <1>1, <1>8 DEF ByServer, ServerStep
<1>9. ASSUME NEW w \in Worker, NEW p \in Request, ReceivePost(w, p)
      PROVE  ServerTypeOK(Handling)'
  BY <1>2, <1>3, <1>9 DEF ReceivePost, Handle, Handling
<1>10. ASSUME NEW w \in Worker, PostStep(w) PROVE ServerTypeOK(Handling)'
  BY <1>2, <1>3, <1>10 DEF PostStep, PushIncoming, GetAnswer, TimeOut, EraseTimedOut,
                           Respond, Handling
<1>11. ASSUME NEW w \in Worker, StreamStep(w) PROVE ServerTypeOK(Handling)'
  BY <1>2, <1>3, <1>11 DEF StreamStep, ProviderStep, ReceiveGet, Terminate, PopNotification,
                           ReceiveDelete
<1> QED
  BY <1>4, <1>5, <1>6, <1>7, <1>8, <1>9, <1>10, <1>11 DEF Next, StopStep, StreamStep
\* Type correctness needs to know where a request is.
LEMMA Typing == Typed /\ [Next]_vars => Typed'
<1> SUFFICES ASSUME Typed, [Next]_vars PROVE Typed'
  OBVIOUS
<1>0. CASE UNCHANGED vars
  BY <1>0 DEF Typed, TypeOK, ServerTypeOK, Posting, Working, vars, serverVars, sessionVars,
              exchangeVars, streamVars, readerVars
<1> SUFFICES ASSUME Next PROVE Typed'
  BY <1>0
<1>s. ServerTypeOK(Handling)'
  BY ServerTyped
<1>1. CASE LifeStep
  <2>1. Elsewhere
    BY <1>1, LifeElsewhere
  <2>2. TypeOK'
    BY <1>1, <1>s DEF Typed, TypeOK, LifeStep, StartTransport, StartReturns, ListenReturns,
         StopBegins, StopListening, StopJoins, ByServer, sessionVars, exchangeVars, streamVars,
         readerVars
  <2> QED
    BY <2>1, <2>2, ElsewhereTyped DEF Typed
<1>2. ASSUME NEW w \in Worker, StreamStep(w) PROVE Typed'
  <2>1. Elsewhere
    BY <1>2, StreamElsewhere
  <2>2. TypeOK'
    <3> USE <1>s DEF Typed, TypeOK, sessionVars, exchangeVars, streamVars, readerVars
    <3>1. CASE PopNotification(w)
      <4>1. Tail(sse_notifications_) \in Seq({"note"} \cup Request)
        BY <3>1 DEF PopNotification
      <4> QED BY <3>1, <4>1 DEF PopNotification
    <3>2. CASE ReceiveGet(w) \/ Terminate(w) \/ ReceiveDelete(w)
      BY <3>2 DEF ReceiveGet, Terminate, ReceiveDelete
    <3> QED BY <1>2, <3>1, <3>2 DEF StreamStep, ProviderStep
  <2> QED
    BY <2>1, <2>2, ElsewhereTyped DEF Typed
<1>3. ASSUME NEW w \in Worker, PoolStep(w) PROVE Typed'
  <2>1. Elsewhere
    BY <1>3, PoolElsewhere
  <2>2. TypeOK'
    BY <1>3, <1>s DEF Typed, TypeOK, PoolStep, ByServer, sessionVars, exchangeVars,
                      streamVars, readerVars
  <2> QED
    BY <2>1, <2>2, ElsewhereTyped DEF Typed
<1>4. ASSUME NEW w \in Worker, NEW p \in Request, ReceivePost(w, p) PROVE Typed'
  <2> USE <1>4, <1>s DEF Typed, TypeOK, ReceivePost, sessionVars, streamVars, readerVars
  <2>1. TypeOK'
    <3>1. CASE Handle(w, p)
      BY <3>1 DEF Handle, Emplace
    <3>2. CASE outcome' = [outcome EXCEPT ![p] = "failed"] /\ UNCHANGED <<pc, left, post, sessionVars, pending_requests_>>
      BY <3>2
    <3> QED BY <3>1, <3>2
  <2>2. Posting' /\ Working'
    BY DEF Handle, Posting, Working, ServerTypeOK, Goto, Handling
  <2> QED BY <2>1, <2>2
<1>5. ASSUME NEW w \in Worker, PostStep(w) PROVE Typed'
  <2> USE <1>s DEF Typed, TypeOK, ServerTypeOK, Posting, Working, Handling, Goto, Respond, sessionVars,
                   exchangeVars, streamVars, readerVars
  <2>1. CASE PushIncoming(w)
    <3>1. post[w] \in Request
      BY <2>1 DEF PushIncoming
    <3> QED BY <2>1, <3>1 DEF PushIncoming
  <2>2. CASE GetAnswer(w)
    BY <2>2 DEF GetAnswer
  <2>3. CASE TimeOut(w)
    BY <2>3 DEF TimeOut
  <2>4. CASE EraseTimedOut(w)
    BY <2>4 DEF EraseTimedOut, Erase
  <2> QED BY <1>5, <2>1, <2>2, <2>3, <2>4 DEF PostStep
<1>6. CASE StopReleases
  BY <1>6, <1>s DEF StopReleases, Typed, TypeOK, Posting, Working, sessionVars, streamVars,
                    readerVars
<1>7. CASE ReadMessage \/ NoAnswer
  <2> USE <1>s DEF Typed, TypeOK, Posting, Working, sessionVars, exchangeVars, streamVars
  <2>1. CASE ReadMessage
    <3>1. Head(incoming_messages_) \in Request /\ Tail(incoming_messages_) \in Seq(Request)
      BY <2>1 DEF ReadMessage
    <3> QED BY <2>1, <3>1 DEF ReadMessage
  <2>2. CASE NoAnswer
    BY <2>2 DEF NoAnswer
  <2> QED BY <1>7, <2>1, <2>2
<1>8. CASE WriteAnswer
  BY <1>8, <1>s DEF WriteAnswer, Resolve, Typed, TypeOK, Posting, Working, sessionVars,
                    exchangeVars, streamVars
<1>9. CASE StreamAnswer \/ Notify
  <2> USE <1>s DEF Typed, TypeOK, Posting, Working, sessionVars, exchangeVars, readerVars
  <2>1. ASSUME NEW m \in {"note"} \cup Request, ToStream(m)
        PROVE  sse_notifications_' \in Seq({"note"} \cup Request)
    BY <2>1 DEF ToStream
  <2>2. CASE StreamAnswer
    <3>1. handling \in Request
      BY <2>2 DEF StreamAnswer
    <3> QED BY <2>1, <2>2, <3>1 DEF StreamAnswer
  <2>3. CASE Notify
    BY <2>1, <2>3 DEF Notify
  <2> QED BY <1>9, <2>2, <2>3
<1> QED
  BY <1>1, <1>2, <1>3, <1>4, <1>5, <1>6, <1>7, <1>8, <1>9 DEF Next, StopStep, LifeStep, StreamStep, PoolStep

LEMMA InitTyped == Init => Typed
<1> SUFFICES ASSUME Init PROVE Typed
  OBVIOUS
<1>1. ServerTypeOK(Handling)
  BY ServerInitType DEF Init
<1>2. incoming_messages_ \in Seq(Request) /\ sse_notifications_ \in Seq({"note"} \cup Request)
  BY DEF Init
<1>3. TypeOK
  BY <1>1, <1>2 DEF Init, TypeOK
<1>4. Posting /\ Working
  BY DEF Init, ServerInit, Posting, Working, Handling
<1> QED BY <1>3, <1>4 DEF Typed

\* Every variable keeps its type, whatever the ids are.
THEOREM TypeCorrect == Spec => []TypeOK
<1>1. Typed => TypeOK
  BY DEF Typed
<1> QED
  BY <1>1, InitTyped, Typing, PTL DEF Spec

-----------------------------------------------------------------------------
(* Requests and their answers *)

DistinctIds == \A p, q \in Request : IdOf[p] = IdOf[q] => p = q

\* No two workers have the same request, and the open requests are those that
\* workers have.
Apart == \A v, w \in Worker : post[v] = post[w] /\ post[v] # NoRequest => v = w
Held  == \A p \in Request : outcome[p] = "open" <=> \E w \in Worker : post[w] = p

\* A promise is kept with the right answer, and nothing is answered without it.
OwnPromise == \A p \in Request : promise[p] \in {NoRequest, p}
AnsweredBy == \A p \in Request : outcome[p] = "answered" => promise[p] = p

\* On its way to Server a request is in one place, once.
Pushing(p) == \E w \in Worker : post[w] = p /\ pc[w] = "push"
InQueue(p) == \E i \in 1 .. Len(incoming_messages_) : incoming_messages_[i] = p

QueueOnce == \A i, j \in 1 .. Len(incoming_messages_) :
                 incoming_messages_[i] = incoming_messages_[j] => i = j
OnePlace  == \A p \in Request : /\ ~(Pushing(p) /\ InQueue(p))
                                /\ ~(Pushing(p) /\ handling = p)
                                /\ ~(InQueue(p) /\ handling = p)

\* It is nowhere before it was sent and after it was answered.
Nowhere(p) == ~Pushing(p) /\ ~InQueue(p) /\ handling # p
Spent  == \A p \in Request : promise[p] # NoRequest => Nowhere(p)
Unsent == \A p \in Request : outcome[p] = "unsent" => promise[p] = NoRequest /\ Nowhere(p)

\* What is about to go to a stream is late.
LateOnly == main = "stream" => outcome[handling] = "failed"

\* With Posting, the test of pc in RegisteredIffWaiting is a test of post.
Registration ==
    \A j \in Id, p \in Request :
        pending_requests_[j] = p <=>
            IdOf[p] = j /\ promise[p] = NoRequest /\ \E w \in Worker : post[w] = p

Holders == Apart /\ Held /\ OwnPromise /\ AnsweredBy
Places  == QueueOnce /\ OnePlace /\ Spent /\ Unsent
Books   == Holders /\ Places /\ Registration /\ LateOnly

LEMMA ElsewhereBooks ==
    ASSUME Typed, Typed', Books, Elsewhere PROVE Books'
<1> USE DEF Elsewhere, exchangeVars
<1>1. Holders'
  BY DEF Books, Holders, Apart, Held, OwnPromise, AnsweredBy
<1>2. \A p \in Request : (Pushing(p))' <=> Pushing(p)
  BY DEF Pushing, Handling
<1>3. \A p \in Request : (InQueue(p))' <=> InQueue(p)
  BY DEF InQueue
<1>4. Places'
  BY <1>2, <1>3 DEF Books, Places, QueueOnce, OnePlace, Spent, Unsent, Nowhere
<1>5. Registration'
  BY DEF Books, Registration
<1>6. LateOnly'
  BY DEF Books, LateOnly
<1> QED BY <1>1, <1>4, <1>5, <1>6 DEF Books
LEMMA ReceiveBooks ==
    ASSUME DistinctIds, Typed, Books, NEW w \in Worker, NEW p \in Request, ReceivePost(w, p)
    PROVE  Books'
<1> USE DEF Books, Typed, TypeOK, ServerTypeOK, ReceivePost, readerVars
<1>1. /\ post[w] = NoRequest /\ promise[p] = NoRequest /\ Nowhere(p)
      /\ ~ \E v \in Worker : post[v] = p
  BY DEF Posting, Handling, Places, Unsent, Holders, Held
<1>2. CASE Handle(w, p)
  <2> USE <1>1, <1>2 DEF Handle, Goto
  <2>1. Holders'
    BY DEF Holders, Apart, Held, OwnPromise, AnsweredBy
  <2>2. \A q \in Request : /\ (Pushing(q))' <=> Pushing(q) \/ q = p
                           /\ (InQueue(q))' <=> InQueue(q)
    BY DEF Pushing, InQueue, Posting, Handling
  <2>3. Places'
    BY <2>2 DEF Places, QueueOnce, OnePlace, Spent, Unsent, Nowhere
  <2>4. pending_requests_[IdOf[p]] = NoRequest
    BY DEF Registration, DistinctIds
  <2>5. pending_requests_' = [pending_requests_ EXCEPT ![IdOf[p]] = p]
    BY <2>4 DEF Emplace
  <2>6. Registration'
    BY <2>5 DEF Registration, DistinctIds
  <2>7. LateOnly'
    BY DEF LateOnly, Working, Nowhere
  <2> QED BY <2>1, <2>3, <2>6, <2>7
<1>3. CASE /\ outcome' = [outcome EXCEPT ![p] = "failed"]
           /\ UNCHANGED <<pc, left, post, sessionVars, pending_requests_>>
  <2>1. Holders'
    BY <1>1, <1>3 DEF Holders, Apart, Held, OwnPromise, AnsweredBy
  <2>2. Places' /\ Registration'
    BY <1>3 DEF Places, QueueOnce, OnePlace, Spent, Unsent, Nowhere, Pushing, InQueue, Registration
  <2>3. LateOnly'
    BY <1>3 DEF LateOnly, Working
  <2> QED BY <2>1, <2>2, <2>3
<1> QED BY <1>2, <1>3

LEMMA PushBooks ==
    ASSUME Typed, Books, NEW w \in Worker, PushIncoming(w) PROVE Books'
<1> USE DEF Books, Typed, TypeOK, ServerTypeOK, PushIncoming, exchangeVars
<1>1. post[w] \in Request /\ Pushing(post[w])
  BY DEF Posting, Handling, Pushing
<1>2. Holders' /\ Registration' /\ LateOnly'
  BY DEF Holders, Apart, Held, OwnPromise, AnsweredBy, Registration, LateOnly
<1>3. \A q \in Request : /\ (Pushing(q))' <=> Pushing(q) /\ q # post[w]
                         /\ (InQueue(q))' <=> InQueue(q) \/ q = post[w]
  BY <1>1 DEF Pushing, InQueue, Goto, Holders, Apart
<1>4. QueueOnce'
  BY <1>1 DEF Places, QueueOnce, OnePlace, InQueue
<1>5. Places'
  BY <1>1, <1>3, <1>4 DEF Places, OnePlace, Spent, Unsent, Nowhere
<1> QED BY <1>2, <1>5

LEMMA RespondBooks ==
    ASSUME DistinctIds, Typed, Books, NEW w \in Worker, GetAnswer(w) \/ EraseTimedOut(w)
    PROVE  Books'
<1> USE DEF Books, Typed, TypeOK, ServerTypeOK, readerVars
<1>1. /\ post[w] \in Request /\ pc[w] # "push"
      /\ post' = [post EXCEPT ![w] = NoRequest]
      /\ pc' = [pc EXCEPT ![w] = "keep"]
      /\ UNCHANGED <<promise, incoming_messages_, main, handling>>
      /\ \/ outcome' = [outcome EXCEPT ![post[w]] = "answered"] /\ promise[post[w]] = post[w]
         \/ outcome' = [outcome EXCEPT ![post[w]] = "failed"]
  <2>1. CASE GetAnswer(w)
    BY <2>1 DEF GetAnswer, Respond, Goto, exchangeVars, Posting, Handling, Holders, OwnPromise
  <2>2. CASE EraseTimedOut(w)
    BY <2>2 DEF EraseTimedOut, Respond, Goto, Posting, Handling
  <2> QED BY <2>1, <2>2
<1>2. \A q \in Request : (\E v \in Worker : post'[v] = q)
                   <=> (\E v \in Worker : post[v] = q) /\ q # post[w]
  BY <1>1 DEF Holders, Apart
<1>3. Holders'
  BY <1>1, <1>2 DEF Holders, Apart, Held, OwnPromise, AnsweredBy
<1>4. \A q \in Request : /\ (Pushing(q))' <=> Pushing(q)
                         /\ (InQueue(q))' <=> InQueue(q)
  BY <1>1 DEF Pushing, InQueue
<1>5. Places'
  BY <1>1, <1>4 DEF Places, QueueOnce, OnePlace, Spent, Unsent, Nowhere
<1>6. Registration'
  <2>1. CASE GetAnswer(w)
    BY <1>1, <1>2, <2>1 DEF GetAnswer, Registration, exchangeVars
  <2>2. CASE EraseTimedOut(w)
    BY <1>1, <1>2, <2>2 DEF EraseTimedOut, Erase, Registration, DistinctIds
  <2> QED BY <2>1, <2>2
<1>7. LateOnly'
  BY <1>1 DEF LateOnly, Holders, Held, Working
<1> QED BY <1>3, <1>5, <1>6, <1>7

LEMMA TimeOutBooks ==
    ASSUME Typed, Books, NEW w \in Worker, TimeOut(w) PROVE Books'
<1> USE DEF Books, Typed, TypeOK, ServerTypeOK, TimeOut, exchangeVars, readerVars
<1>1. Holders' /\ Registration' /\ LateOnly'
  BY DEF Holders, Apart, Held, OwnPromise, AnsweredBy, Registration, LateOnly
<1>2. \A q \in Request : /\ (Pushing(q))' <=> Pushing(q)
                         /\ (InQueue(q))' <=> InQueue(q)
  BY DEF Pushing, InQueue, Goto
<1>3. Places'
  BY <1>2 DEF Places, QueueOnce, OnePlace, Spent, Unsent, Nowhere
<1> QED BY <1>1, <1>3

LEMMA ReadBooks ==
    ASSUME Typed, Books, ReadMessage PROVE Books'
<1> USE DEF Books, Typed, TypeOK, ReadMessage, exchangeVars
<1>1. Holders' /\ Registration' /\ LateOnly'
  BY DEF Holders, Apart, Held, OwnPromise, AnsweredBy, Registration, LateOnly
<1>2. Len(incoming_messages_) > 0 /\ incoming_messages_[1] = handling' /\ handling' \in Request
  OBVIOUS
<1>3. \A q \in Request : /\ (Pushing(q))' <=> Pushing(q)
                         /\ (InQueue(q))' <=> InQueue(q) /\ q # handling'
  <2>1. ASSUME NEW q \in Request PROVE (Pushing(q))' <=> Pushing(q)
    BY DEF Pushing
  <2>2. ASSUME NEW q \in Request, (InQueue(q))' PROVE InQueue(q) /\ q # handling'
    <3>1. PICK i \in 1 .. Len(Tail(incoming_messages_)) : Tail(incoming_messages_)[i] = q
      BY <2>2 DEF InQueue
    <3>2. i + 1 \in 1 .. Len(incoming_messages_) /\ incoming_messages_[i + 1] = q
      BY <3>1, <1>2
    <3>3. i + 1 # 1 /\ 1 \in 1 .. Len(incoming_messages_)
      BY <1>2, <3>1
    <3> QED BY <1>2, <3>2, <3>3 DEF InQueue, Places, QueueOnce
  <2>3. ASSUME NEW q \in Request, InQueue(q), q # handling' PROVE (InQueue(q))'
    <3>1. PICK i \in 1 .. Len(incoming_messages_) : incoming_messages_[i] = q
      BY <2>3 DEF InQueue
    <3>2. i - 1 \in 1 .. Len(Tail(incoming_messages_)) /\ Tail(incoming_messages_)[i - 1] = q
      BY <2>3, <3>1, <1>2
    <3> QED BY <3>2 DEF InQueue
  <2> QED BY <2>1, <2>2, <2>3
<1>4. QueueOnce'
  BY DEF Places, QueueOnce
<1>5. InQueue(handling')
  BY <1>2 DEF InQueue
<1>6. handling = NoRequest
  BY DEF Working
<1>7. Places'
  BY <1>2, <1>3, <1>4, <1>5, <1>6 DEF Places, OnePlace, Spent, Unsent, Nowhere
<1> QED BY <1>1, <1>7

\* Server is done with a message, whether it was answered or not.
LEMMA DoneBooks ==
    ASSUME DistinctIds, Typed, Books, NoAnswer \/ WriteAnswer \/ StreamAnswer PROVE Books'
<1> USE DEF Books, Typed, TypeOK
<1>1. /\ handling \in Request
      /\ UNCHANGED <<pc, post, outcome, incoming_messages_>>
      /\ \/ UNCHANGED exchangeVars
         \/ pending_requests_[IdOf[handling]] # NoRequest /\ Resolve(handling) /\ handling' = NoRequest
      /\ \/ handling' = NoRequest /\ main' = "read"
         \/ /\ handling' = handling /\ main' = "stream" /\ UNCHANGED exchangeVars
            /\ pending_requests_[IdOf[handling]] = NoRequest
  BY DEF NoAnswer, WriteAnswer, StreamAnswer, Working
<1>2. \A q \in Request : /\ (Pushing(q))' <=> Pushing(q)
                         /\ (InQueue(q))' <=> InQueue(q)
  BY <1>1 DEF Pushing, InQueue
<1>3. ~Pushing(handling) /\ ~InQueue(handling) /\ promise[handling] = NoRequest
      /\ outcome[handling] # "unsent"
  BY <1>1 DEF Places, OnePlace, Spent, Unsent, Nowhere
<1>4. CASE UNCHANGED exchangeVars
  <2>1. Holders' /\ Registration'
    BY <1>1, <1>4 DEF Holders, Apart, Held, OwnPromise, AnsweredBy, Registration, exchangeVars
  <2>2. Places'
    BY <1>1, <1>2, <1>4 DEF Places, QueueOnce, OnePlace, Spent, Unsent, Nowhere, exchangeVars
  <2>3. LateOnly'
    BY <1>1, <1>3 DEF LateOnly, Registration, Holders, Held, AnsweredBy
  <2> QED BY <2>1, <2>2, <2>3
<1>5. CASE pending_requests_[IdOf[handling]] # NoRequest /\ Resolve(handling) /\ handling' = NoRequest
  <2>1. pending_requests_[IdOf[handling]] = handling
    BY <1>1, <1>5 DEF Registration, DistinctIds
  <2>2. /\ promise' = [promise EXCEPT ![handling] = handling]
        /\ pending_requests_' = [pending_requests_ EXCEPT ![IdOf[handling]] = NoRequest]
    BY <1>5, <2>1 DEF Resolve
  <2>3. Holders'
    BY <1>1, <2>2 DEF Holders, Apart, Held, OwnPromise, AnsweredBy
  <2>4. Places'
    BY <1>1, <1>2, <1>3, <1>5, <2>2 DEF Places, QueueOnce, OnePlace, Spent, Unsent, Nowhere
  <2>5. Registration'
    BY <1>1, <2>2 DEF Registration, DistinctIds
  <2>6. LateOnly'
    BY <1>1, <1>5 DEF LateOnly
  <2> QED BY <2>3, <2>4, <2>5, <2>6
<1> QED BY <1>1, <1>4, <1>5
-----------------------------------------------------------------------------
(* Stop *)

\* Stop has joined the thread that listens only after it was over, and when it is
\* over nobody is in the server.
Down == /\ EmptyWhenOver
        /\ main = "new" => listener = "none"
        /\ stop = "joined" => listener = "over"

\* A step of a worker that is not idle, in a handler.
HandlerStep(w) == StreamStep(w) \/ PostStep(w) \/ \E p \in Request : ReceivePost(w, p)

LEMMA HandlerDown ==
    ASSUME Typed, Down, NEW w \in Worker, HandlerStep(w) PROVE Down'
<1>1. pc[w] # "idle" /\ UNCHANGED <<serverVars, main, stop>>
  BY DEF HandlerStep, StreamStep, ProviderStep, ReceiveGet, Terminate, PopNotification,
         ReceiveDelete, PostStep, PushIncoming, GetAnswer, TimeOut, EraseTimedOut, ReceivePost,
         readerVars
<1>2. listener = "accepting"
  BY <1>1 DEF Down, EmptyWhenOver, Unattended
<1> QED
  BY <1>1, <1>2 DEF Down, EmptyWhenOver, serverVars

LEMMA DownStep == Typed /\ Down /\ [Next]_vars => Down'
<1> SUFFICES ASSUME Typed, Down, [Next]_vars PROVE Down'
  OBVIOUS
<1>0. CASE UNCHANGED vars
  BY <1>0 DEF Down, EmptyWhenOver, Unattended, vars, serverVars, readerVars
<1>1. CASE StartTransport
  BY <1>1 DEF Down, EmptyWhenOver, Unattended, StartTransport
<1>2. CASE ListenReturns \/ StopListening \/ ByServer(Listen \/ Accept)
  BY <1>2 DEF Down, EmptyWhenOver, Unattended, ListenReturns, BindFails, JoinWorkers,
              StopListening, CloseListener, ByServer, Listen, Accept, readerVars, Typed, TypeOK
<1>3. CASE StartReturns \/ StopBegins \/ StopJoins \/ StopReleases \/ ReadMessage \/ NoAnswer
           \/ WriteAnswer \/ StreamAnswer \/ Notify
  BY <1>3 DEF Down, EmptyWhenOver, Unattended, StartReturns, StopBegins, StopJoins,
              StopReleases, ReadMessage, NoAnswer, WriteAnswer, StreamAnswer, Notify,
              serverVars, readerVars
<1>4. ASSUME NEW w \in Worker, HandlerStep(w) PROVE Down'
  BY <1>4, HandlerDown
<1>5. ASSUME NEW w \in Worker, ByServer(WorkerStep(w) \/ Leave(w)) PROVE Down'
  <2>1. EmptyWhenOver'
    BY <1>5, ServerStepEmpty DEF ByServer, ServerStep, Typed, TypeOK, Down
  <2>2. UNCHANGED <<listener, main, stop>>
    BY <1>5 DEF ByServer, WorkerStep, TakeJob, KeepAliveEnds, StreamStops, StreamLost, Leave,
                serverVars, readerVars
  <2> QED BY <2>1, <2>2 DEF Down
<1> QED
  BY <1>0, <1>1, <1>2, <1>3, <1>4, <1>5 DEF Next, StopStep, HandlerStep, StreamStep

-----------------------------------------------------------------------------
(* What holds when ids are shared: clients number their requests from 1, and  *)
(* the transport tells requests apart by id alone.  The steps of Books with   *)
(* one direction of Registration and without Places.                          *)

\* An entry belongs to a handler that has no answer yet.
Entries == \A j \in Id, p \in Request :
               pending_requests_[j] = p =>
                   IdOf[p] = j /\ promise[p] = NoRequest /\ \E w \in Worker : post[w] = p

SharedPromise  == \A p \in Request : promise[p] \in {NoRequest} \cup SameId[p]
SharedAnswered == \A p \in Request : outcome[p] = "answered" => promise[p] # NoRequest
Blank          == \A p \in Request : outcome[p] = "unsent" => promise[p] = NoRequest

Shared == Apart /\ Held /\ Entries /\ SharedPromise /\ SharedAnswered /\ Blank

LEMMA SharedElsewhere ==
    ASSUME Shared, Elsewhere PROVE Shared'
BY DEF Elsewhere, exchangeVars, Shared, Apart, Held, Entries, SharedPromise, SharedAnswered, Blank

\* The steps of a handler that leave the maps and the promises alone.
LEMMA SharedSame ==
    ASSUME Shared, UNCHANGED <<exchangeVars, post, outcome>> PROVE Shared'
BY DEF exchangeVars, Shared, Apart, Held, Entries, SharedPromise, SharedAnswered, Blank

LEMMA SharedReceive ==
    ASSUME Typed, Shared, NEW w \in Worker, NEW p \in Request, ReceivePost(w, p) PROVE Shared'
<1> USE DEF Typed, TypeOK, ServerTypeOK, ReceivePost, Shared
<1>1. /\ post[w] = NoRequest /\ promise[p] = NoRequest
      /\ ~ \E v \in Worker : post[v] = p
  BY DEF Posting, Handling, Held, Blank
<1>2. CASE Handle(w, p)
  <2> USE <1>1, <1>2 DEF Handle, Goto
  <2>1. Apart' /\ Held' /\ SharedPromise' /\ SharedAnswered' /\ Blank'
    BY DEF Apart, Held, SharedPromise, SharedAnswered, Blank
  <2>2. Entries'
    BY DEF Entries, Emplace
  <2> QED BY <2>1, <2>2
<1>3. CASE /\ outcome' = [outcome EXCEPT ![p] = "failed"]
           /\ UNCHANGED <<pc, left, post, sessionVars, pending_requests_>>
  BY <1>1, <1>3 DEF Apart, Held, Entries, SharedPromise, SharedAnswered, Blank
<1> QED BY <1>2, <1>3

LEMMA SharedRespond ==
    ASSUME Typed, Shared, NEW w \in Worker, GetAnswer(w) \/ EraseTimedOut(w) PROVE Shared'
<1> USE DEF Typed, TypeOK, ServerTypeOK, Shared
<1>1. /\ post[w] \in Request
      /\ post' = [post EXCEPT ![w] = NoRequest]
      /\ UNCHANGED promise
      /\ \/ outcome' = [outcome EXCEPT ![post[w]] = "answered"] /\ promise[post[w]] # NoRequest
         \/ outcome' = [outcome EXCEPT ![post[w]] = "failed"]
      /\ \A j \in Id : pending_requests_'[j] \in {pending_requests_[j], NoRequest}
      /\ promise[post[w]] # NoRequest \/ pending_requests_'[IdOf[post[w]]] = NoRequest
  <2>1. CASE GetAnswer(w)
    BY <2>1 DEF GetAnswer, Respond, exchangeVars, Posting, Handling
  <2>2. CASE EraseTimedOut(w)
    BY <2>2 DEF EraseTimedOut, Erase, Respond, Posting, Handling
  <2> QED BY <2>1, <2>2
<1>2. \A q \in Request : (\E v \in Worker : post'[v] = q)
                   <=> (\E v \in Worker : post[v] = q) /\ q # post[w]
  BY <1>1 DEF Apart
<1>3. Apart' /\ Held' /\ SharedPromise' /\ SharedAnswered' /\ Blank'
  BY <1>1, <1>2 DEF Apart, Held, SharedPromise, SharedAnswered, Blank
<1>4. Entries'
  BY <1>1, <1>2 DEF Entries
<1> QED BY <1>3, <1>4

\* Write gives the answer to a handler with the id of the answer.
LEMMA SharedWrite ==
    ASSUME Typed, Shared, WriteAnswer
    PROVE  /\ Shared'
           /\ \/ UNCHANGED <<promise, outcome>>
              \/ \E p \in Request :
                     /\ outcome[p] = "open" /\ promise[p] = NoRequest /\ UNCHANGED outcome
                     /\ handling \in SameId[p] /\ promise' = [promise EXCEPT ![p] = handling]
<1> USE DEF Typed, TypeOK, Shared
<1>1. CASE UNCHANGED exchangeVars
  BY <1>1, SharedSame DEF WriteAnswer, exchangeVars
<1>2. CASE pending_requests_[IdOf[handling]] # NoRequest /\ Resolve(handling)
  <2> DEFINE p == pending_requests_[IdOf[handling]]
  <2>1. handling \in Request /\ p \in Request /\ UNCHANGED <<post, outcome>>
    BY <1>2 DEF WriteAnswer, Working
  <2>2. IdOf[p] = IdOf[handling] /\ promise[p] = NoRequest /\ outcome[p] = "open"
    BY <2>1 DEF Entries, Held
  <2>3. /\ promise' = [promise EXCEPT ![p] = handling]
        /\ pending_requests_' = [pending_requests_ EXCEPT ![IdOf[handling]] = NoRequest]
    BY <1>2 DEF Resolve
  <2> HIDE DEF p
  <2>4. Apart' /\ Held' /\ SharedPromise' /\ SharedAnswered' /\ Blank'
    BY <2>1, <2>2, <2>3 DEF Apart, Held, SharedPromise, SharedAnswered, Blank, SameId
  <2>5. Entries'
    BY <2>1, <2>2, <2>3 DEF Entries
  <2>6. handling \in SameId[p]
    BY <2>1, <2>2 DEF SameId
  <2> QED BY <2>1, <2>2, <2>3, <2>4, <2>5, <2>6
<1> QED BY <1>1, <1>2 DEF WriteAnswer

LEMMA NobodyWaits ==
    ASSUME Typed, Shared, Down, stop = "joined"
    PROVE  \A i \in Id : pending_requests_[i] = NoRequest
<1>1. \A w \in Worker : post[w] = NoRequest
  BY DEF Down, EmptyWhenOver, Unattended, Typed, Posting, Handling
<1> QED
  BY <1>1 DEF Shared, Entries, Typed, TypeOK

LEMMA ReleasesNothing ==
    ASSUME Typed, Shared, Down, StopReleases PROVE Elsewhere
<1>1. \A i \in Id : pending_requests_[i] = NoRequest
  BY NobodyWaits DEF StopReleases
<1> QED
  BY <1>1 DEF StopReleases, Elsewhere, exchangeVars, readerVars, Typed, TypeOK

LEMMA SharedStep == Typed /\ Shared /\ Down /\ [Next]_vars => Shared'
<1> SUFFICES ASSUME Typed, Shared, Down, [Next]_vars PROVE Shared'
  OBVIOUS
<1>0. CASE UNCHANGED vars \/ ReadMessage \/ NoAnswer \/ StreamAnswer \/ Notify
  BY <1>0, SharedSame DEF vars, ReadMessage, NoAnswer, StreamAnswer, Notify, exchangeVars
<1>1. CASE LifeStep
  BY <1>1, LifeElsewhere, SharedElsewhere
<1>2. ASSUME NEW w \in Worker, StreamStep(w) \/ PoolStep(w) PROVE Shared'
  BY <1>2, StreamElsewhere, PoolElsewhere, SharedElsewhere
<1>3. CASE StopReleases
  BY <1>3, ReleasesNothing, SharedElsewhere
<1>4. ASSUME NEW w \in Worker, NEW p \in Request, ReceivePost(w, p) PROVE Shared'
  BY <1>4, SharedReceive
<1>5. ASSUME NEW w \in Worker, PostStep(w) PROVE Shared'
  <2>1. CASE PushIncoming(w) \/ TimeOut(w)
    BY <2>1, SharedSame DEF PushIncoming, TimeOut, exchangeVars
  <2> QED BY <1>5, <2>1, SharedRespond DEF PostStep
<1>6. CASE WriteAnswer
  BY <1>6, SharedWrite
<1> QED
  BY <1>0, <1>1, <1>2, <1>3, <1>4, <1>5, <1>6 DEF Next, StopStep, LifeStep, StreamStep, PoolStep

\* The invariant that needs no assumption on ids: an entry belongs to a waiting
\* handler of its id, and what a promise is given is an answer with that id.
THEOREM SharedInvariant == Spec => [](Typed /\ Shared /\ Down)
<1>1. Init => Typed /\ Shared /\ Down
  <2>1. Init => Shared
    BY DEF Init, Shared, Apart, Held, Entries, SharedPromise, SharedAnswered, Blank
  <2>2. Init => Down
    BY DEF Init, ServerInit, Down, EmptyWhenOver, Unattended
  <2> QED BY <2>1, <2>2, InitTyped
<1>2. Typed /\ Shared /\ Down /\ [Next]_vars => (Typed /\ Shared /\ Down)'
  BY Typing, SharedStep, DownStep
<1> QED
  BY <1>1, <1>2, PTL DEF Spec

\* The loop of Stop that releases promises never finds one, whatever the ids are.
THEOREM ReleaseIsIdle == Spec => []NobodyReleased
<1>1. Typed /\ Shared /\ Down => NobodyReleased
  BY NobodyWaits DEF NobodyReleased
<1> QED
  BY <1>1, SharedInvariant, PTL

-----------------------------------------------------------------------------
(* The invariant *)

IInv == Typed /\ Shared /\ Down /\ Books /\ OnlyLateAnswersStream

\* The outcome of a request is set by its worker,
LEMMA WhoEnds ==
    ASSUME [Next]_vars
    PROVE  \/ UNCHANGED outcome
           \/ \E w \in Worker : \/ \E p \in Request : ReceivePost(w, p)
                                \/ GetAnswer(w) \/ EraseTimedOut(w)
BY DEF Next, vars, StartTransport, StartReturns, StopBegins, StopStep, StopListening, StopJoins,
     StopReleases, ListenReturns, ByServer, PostStep, PushIncoming, TimeOut, ReceiveGet,
     ProviderStep, Terminate, PopNotification, ReceiveDelete, ReadMessage, NoAnswer,
     WriteAnswer, StreamAnswer, Notify

\* its promise by Server and by Stop.
LEMMA WhoPromises ==
    ASSUME [Next]_vars PROVE UNCHANGED promise \/ StopReleases \/ WriteAnswer
BY DEF Next, vars, exchangeVars, StartTransport, StartReturns, StopBegins, StopStep,
       StopListening, StopJoins, ListenReturns, ByServer, PostStep, PushIncoming, GetAnswer,
       EraseTimedOut, TimeOut, ReceivePost, ReceiveGet, ProviderStep, Terminate, PopNotification,
       ReceiveDelete, ReadMessage, NoAnswer, StreamAnswer, Notify

\* A request that has failed stays so.
LEMMA FailedForGood ==
    ASSUME Typed, Books, [Next]_vars
    PROVE  \A p \in Request : outcome[p] = "failed" => outcome'[p] = "failed"
<1> USE DEF Typed, TypeOK
<1>1. CASE UNCHANGED outcome
  BY <1>1
<1>2. ASSUME NEW w \in Worker, NEW p \in Request, ReceivePost(w, p)
      PROVE  \E result \in {"open", "failed"} :
                 outcome[p] = "unsent" /\ outcome' = [outcome EXCEPT ![p] = result]
  BY <1>2 DEF ReceivePost, Handle
<1>3. ASSUME NEW w \in Worker, GetAnswer(w) \/ EraseTimedOut(w)
      PROVE  \E result \in {"answered", "failed"} :
                 /\ post[w] \in Request /\ outcome[post[w]] = "open"
                 /\ outcome' = [outcome EXCEPT ![post[w]] = result]
  BY <1>3 DEF GetAnswer, EraseTimedOut, Respond, Posting, Handling, Books, Holders, Held
<1>4. \/ UNCHANGED outcome
      \/ \E w \in Worker : \/ \E p \in Request : ReceivePost(w, p)
                           \/ GetAnswer(w) \/ EraseTimedOut(w)
  BY WhoEnds
<1> QED BY <1>1, <1>2, <1>3, <1>4

LEMMA LateStep ==
    ASSUME Typed, Books, OnlyLateAnswersStream, [Next]_vars PROVE OnlyLateAnswersStream'
<1> USE DEF Typed, TypeOK
<1>1. \A p \in Request : outcome[p] = "failed" => outcome'[p] = "failed"
  BY FailedForGood
<1>2. \/ UNCHANGED sse_notifications_
      \/ sse_notifications_ # <<>> /\ sse_notifications_' = Tail(sse_notifications_)
      \/ \E m \in {"note"} \cup Request :
             /\ m # "note" => outcome[m] = "failed"
             /\ sse_notifications_' = Append(sse_notifications_, m)
  <2>1. CASE StreamAnswer
    BY <2>1 DEF StreamAnswer, ToStream, Books, LateOnly, Working
  <2>2. CASE Notify
    BY <2>2 DEF Notify, ToStream
  <2>3. ASSUME NEW w \in Worker, PopNotification(w)
        PROVE  sse_notifications_ # <<>> /\ sse_notifications_' = Tail(sse_notifications_)
    BY <2>3 DEF PopNotification
  <2>4. \/ UNCHANGED sse_notifications_ \/ StreamAnswer \/ Notify
        \/ \E w \in Worker : PopNotification(w)
    BY DEF Next, vars, streamVars, StartTransport, StartReturns, StopBegins, StopStep,
           StopListening, StopJoins, StopReleases, ListenReturns, ByServer, PostStep, PushIncoming,
           GetAnswer, EraseTimedOut, TimeOut, ReceivePost, ReceiveGet, ProviderStep, Terminate,
           ReceiveDelete, ReadMessage, NoAnswer, WriteAnswer
  <2> QED BY <2>1, <2>2, <2>3, <2>4
<1>3. \A i \in 1 .. Len(sse_notifications_) : sse_notifications_[i] \in {"note"} \cup Request
  OBVIOUS
<1>4. CASE sse_notifications_ # <<>> /\ sse_notifications_' = Tail(sse_notifications_)
  <2>1. \A i \in 1 .. Len(sse_notifications_') :
            /\ i + 1 \in 1 .. Len(sse_notifications_)
            /\ sse_notifications_'[i] = sse_notifications_[i + 1]
    BY <1>4
  <2> QED BY <1>1, <1>3, <2>1 DEF OnlyLateAnswersStream
<1>5. ASSUME NEW m \in {"note"} \cup Request, m # "note" => outcome[m] = "failed",
             sse_notifications_' = Append(sse_notifications_, m)
      PROVE  OnlyLateAnswersStream'
  <2>1. \A i \in 1 .. Len(sse_notifications_') :
            \/ i \in 1 .. Len(sse_notifications_) /\ sse_notifications_'[i] = sse_notifications_[i]
            \/ sse_notifications_'[i] = m
    BY <1>5
  <2> QED BY <1>1, <1>3, <1>5, <2>1 DEF OnlyLateAnswersStream
<1>6. CASE UNCHANGED sse_notifications_
  BY <1>1, <1>3, <1>6 DEF OnlyLateAnswersStream
<1> QED BY <1>2, <1>4, <1>5, <1>6

LEMMA BooksStep == DistinctIds /\ Typed /\ Shared /\ Books /\ Down /\ Typed' /\ [Next]_vars => Books'
<1> SUFFICES ASSUME DistinctIds, Typed, Shared, Books, Down, Typed', [Next]_vars PROVE Books'
  OBVIOUS
<1>0. CASE UNCHANGED vars \/ Notify
  BY <1>0, ElsewhereBooks DEF Elsewhere, vars, Notify, exchangeVars, readerVars
<1>1. CASE LifeStep
  BY <1>1, LifeElsewhere, ElsewhereBooks
<1>2. ASSUME NEW w \in Worker, StreamStep(w) \/ PoolStep(w) PROVE Books'
  BY <1>2, StreamElsewhere, PoolElsewhere, ElsewhereBooks
<1>3. CASE StopReleases
  BY <1>3, ReleasesNothing, ElsewhereBooks
<1>4. ASSUME NEW w \in Worker, NEW p \in Request, ReceivePost(w, p) PROVE Books'
  BY <1>4, ReceiveBooks
<1>5. ASSUME NEW w \in Worker, PostStep(w) PROVE Books'
  BY <1>5, PushBooks, RespondBooks, TimeOutBooks DEF PostStep
<1>6. CASE ReadMessage \/ NoAnswer \/ WriteAnswer \/ StreamAnswer
  BY <1>6, ReadBooks, DoneBooks
<1> QED
  BY <1>0, <1>1, <1>2, <1>3, <1>4, <1>5, <1>6 DEF Next, StopStep, LifeStep, StreamStep, PoolStep

LEMMA InitIInv == Init => IInv
<1> SUFFICES ASSUME Init PROVE IInv
  OBVIOUS
<1>1. Typed
  BY InitTyped
<1>2. Books
  BY DEF Init, Books, Holders, Apart, Held, OwnPromise, AnsweredBy, Registration, Places,
         QueueOnce, OnePlace, Spent, Unsent, Nowhere, Pushing, InQueue, LateOnly
<1>3. Down
  BY DEF Init, ServerInit, Down, EmptyWhenOver, Unattended
<1>4. OnlyLateAnswersStream
  BY DEF Init, OnlyLateAnswersStream
<1>5. Shared
  BY DEF Init, Shared, Apart, Held, Entries, SharedPromise, SharedAnswered, Blank
<1> QED BY <1>1, <1>2, <1>3, <1>4, <1>5 DEF IInv

\* The invariant holds for distinct ids.
THEOREM Invariant == ASSUME DistinctIds PROVE Spec => []IInv
<1>1. IInv /\ [Next]_vars => IInv'
  BY DistinctIds, Typing, SharedStep, BooksStep, DownStep, LateStep DEF IInv
<1> QED
  BY <1>1, InitIInv, PTL DEF Spec
-----------------------------------------------------------------------------
(* What follows *)

\* Registration and waiting agree: property of the run, for distinct ids.
THEOREM RegisteredWhileWaiting == ASSUME DistinctIds PROVE Spec => []RegisteredIffWaiting
<1>1. IInv => RegisteredIffWaiting
  BY DEF IInv, Books, Registration, RegisteredIffWaiting, Typed, Posting, Handling
<1> QED
  BY <1>1, Invariant, PTL

\* Of the answers, only those that come too late go to a stream.
THEOREM LateAnswersStream == ASSUME DistinctIds PROVE Spec => []OnlyLateAnswersStream
<1>1. IInv => OnlyLateAnswersStream
  BY DEF IInv
<1> QED
  BY <1>1, Invariant, PTL

\* A client gets the answer to its own request, if the ids are distinct.
THEOREM AnswersOwned == ASSUME DistinctIds PROVE Spec => []OwnAnswer
<1>1. IInv => OwnAnswer
  BY DEF IInv, Books, Holders, AnsweredBy, OwnAnswer
<1> QED
  BY <1>1, Invariant, PTL

-----------------------------------------------------------------------------
(* Promises and the refinement of Exchange, for any ids *)

\* Where promise and outcome stay, the service does.
LEMMA RefinesStutter ==
    UNCHANGED <<promise, outcome>> => UNCHANGED Exchanges!vars
BY DEF Exchanges!vars, Status, Given

\* What becomes of the promise and the outcome of a request: refused or sent,
\* answered or timed out by its worker, given its answer by Server.
LEMMA Fates ==
    ASSUME Typed, Shared, Down, [Next]_vars
    PROVE  \/ UNCHANGED <<promise, outcome>>
           \/ \E p \in Request, result \in {"open", "failed"} :
                  /\ outcome[p] = "unsent" /\ UNCHANGED promise
                  /\ outcome' = [outcome EXCEPT ![p] = result]
           \/ \E p \in Request, result \in {"answered", "failed"} :
                  /\ outcome[p] = "open" /\ UNCHANGED promise
                  /\ outcome' = [outcome EXCEPT ![p] = result]
                  /\ result = "answered" => promise[p] # NoRequest
           \/ \E p \in Request :
                  /\ outcome[p] = "open" /\ promise[p] = NoRequest /\ UNCHANGED outcome
                  /\ handling \in SameId[p] /\ promise' = [promise EXCEPT ![p] = handling]
<1>1. ASSUME NEW w \in Worker, NEW p \in Request, ReceivePost(w, p)
      PROVE  /\ outcome[p] = "unsent" /\ UNCHANGED promise
             /\ \E result \in {"open", "failed"} : outcome' = [outcome EXCEPT ![p] = result]
  BY <1>1 DEF ReceivePost, Handle
<1>2. ASSUME NEW w \in Worker, GetAnswer(w) \/ EraseTimedOut(w)
      PROVE  /\ post[w] \in Request /\ outcome[post[w]] = "open" /\ UNCHANGED promise
             /\ \E result \in {"answered", "failed"} :
                    /\ outcome' = [outcome EXCEPT ![post[w]] = result]
                    /\ result = "answered" => promise[post[w]] # NoRequest
  <2>1. post[w] \in Request /\ outcome[post[w]] = "open"
    BY <1>2 DEF GetAnswer, EraseTimedOut, Typed, Posting, Handling, Shared, Held
  <2>2. CASE GetAnswer(w)
    BY <2>1, <2>2 DEF GetAnswer, Respond, exchangeVars
  <2>3. CASE EraseTimedOut(w)
    BY <2>1, <2>3 DEF EraseTimedOut, Respond
  <2> QED BY <1>2, <2>1, <2>2, <2>3
<1>3. CASE StopReleases
  BY <1>3, ReleasesNothing DEF Elsewhere, exchangeVars
<1>4. CASE WriteAnswer
  BY <1>4, SharedWrite
<1> QED
  BY <1>1, <1>2, <1>3, <1>4, WhoEnds, WhoPromises

\* A promise is set once: std::promise throws when it is given a second value, and
\* what threw would be the Write of Server.
PromiseSetOnce ==
    [][\A p \in Request : promise[p] # NoRequest => promise'[p] = promise[p]]_vars

\* No promise is given a second value, although Write finds promises by an id that
\* several requests may have, and Stop releases what it finds.
THEOREM SetOnce == Spec => PromiseSetOnce
<1>1. Typed /\ Shared /\ Down /\ [Next]_vars
          => [\A p \in Request : promise[p] # NoRequest => promise'[p] = promise[p]]_vars
  <2> SUFFICES ASSUME Typed, Shared, Down, [Next]_vars, NEW p \in Request, promise[p] # NoRequest
               PROVE  promise'[p] = promise[p]
    OBVIOUS
  <2> QED BY Fates DEF Typed, TypeOK
<1> QED
  BY <1>1, SharedInvariant, PTL DEF Spec, PromiseSetOnce

LEMMA RefinesInit == Init => Exchanges!Init
BY DEF Init, Exchanges!Init, Status, Given

LEMMA RefinesStep == Typed /\ Shared /\ Down /\ [Next]_vars => [Exchanges!Next]_(Exchanges!vars)
<1> SUFFICES ASSUME Typed, Shared, Down, [Next]_vars
             PROVE  [Exchanges!Next]_(Exchanges!vars)
  OBVIOUS
<1> USE DEF Typed, TypeOK
<1>0. \A p \in Request : /\ Given[p] = promise[p]
                         /\ Status[p] = IF outcome[p] = "unsent" THEN "new" ELSE outcome[p]
                         /\ promise[p] \in {NoRequest} \cup SameId[p]
                         /\ NoRequest \notin SameId[p] /\ SameId[p] \subseteq Request
  BY DEF Given, Status, Shared, SharedPromise, SameId
<1>1. CASE UNCHANGED <<promise, outcome>>
  BY <1>1, RefinesStutter
<1>2. ASSUME NEW p \in Request, NEW result \in {"open", "failed", "answered"},
             UNCHANGED promise, outcome' = [outcome EXCEPT ![p] = result]
      PROVE  /\ Given' = Given
             /\ Status' = [Status EXCEPT ![p] = result]
             /\ Status' = [r \in Request |-> IF r \in {p} THEN result ELSE Status[r]]
  BY <1>2 DEF Given, Status
<1>3. ASSUME NEW p \in Request, Status[p] \in {"new", "open"}, Given' = Given,
             Status' = [r \in Request |-> IF r \in {p} THEN "failed" ELSE Status[r]]
      PROVE  Exchanges!Next
  <2>1. Given' = [r \in Request |-> IF r \in {} THEN NoRequest ELSE Given[r]]
    BY <1>3 DEF Given
  <2>2. \E lost \in SUBSET {p} :
            Given' = [r \in Request |-> IF r \in lost THEN NoRequest ELSE Given[r]]
    <3>1. {} \in SUBSET {p}
      OBVIOUS
    <3> HIDE DEF Given
    <3> QED BY <2>1, <3>1
  <2>3. \A r \in {p} : Status[r] \in {"new", "open"}
    BY <1>3
  <2>4. Exchanges!Fail({p})
    BY <1>3, <2>2, <2>3, Zenon DEF Exchanges!Fail
  <2>5. {p} \in SUBSET Request
    OBVIOUS
  <2> QED BY <2>4, <2>5, Zenon DEF Exchanges!Next
<1>4. ASSUME NEW p \in Request, NEW result \in {"open", "failed"}, outcome[p] = "unsent",
             UNCHANGED promise, outcome' = [outcome EXCEPT ![p] = result]
      PROVE  Exchanges!Next
  <2>1. Status[p] = "new"
    BY <1>0, <1>4
  <2>2. CASE result = "open"
    <3>1. Exchanges!Open(p)
      BY <1>2, <1>4, <2>1, <2>2 DEF Exchanges!Open, Exchanges!Move
    <3> QED BY <3>1 DEF Exchanges!Next
  <2>3. CASE result = "failed"
    BY <1>2, <1>3, <1>4, <2>1, <2>3
  <2> QED BY <2>2, <2>3
<1>5. ASSUME NEW p \in Request, NEW result \in {"answered", "failed"}, outcome[p] = "open",
             UNCHANGED promise, outcome' = [outcome EXCEPT ![p] = result],
             result = "answered" => promise[p] # NoRequest
      PROVE  Exchanges!Next
  <2>1. Status[p] = "open"
    BY <1>0, <1>5
  <2>2. CASE result = "answered"
    <3>1. Given[p] \in SameId[p]
      BY <1>0, <1>5, <2>2
    <3>2. Exchanges!Deliver(p)
      BY <1>2, <1>5, <2>1, <2>2, <3>1 DEF Exchanges!Deliver, Exchanges!Move
    <3> QED BY <3>2 DEF Exchanges!Next
  <2>3. CASE result = "failed"
    BY <1>2, <1>3, <1>5, <2>1, <2>3
  <2> QED BY <2>2, <2>3
<1>6. ASSUME NEW p \in Request, outcome[p] = "open", promise[p] = NoRequest, UNCHANGED outcome,
             handling \in SameId[p], promise' = [promise EXCEPT ![p] = handling]
      PROVE  Exchanges!Next
  <2>1. handling # Released
    BY <1>0, <1>6
  <2>2. Given' = [Given EXCEPT ![p] = handling] /\ Status' = Status
    BY <1>6, <2>1 DEF Given, Status
  <2>3. Exchanges!Reply(p)
    BY <1>0, <1>6, <2>2 DEF Exchanges!Reply
  <2> QED BY <2>3 DEF Exchanges!Next
<1> QED
  BY <1>1, <1>4, <1>5, <1>6, Fates

\* Apart from liveness, the transport is the exchange service, with answers that fit
\* by their id: it holds for any ids, those of concurrent clients included.
THEOREM Refinement == Spec => Exchanges!Spec
<1>1. Typed /\ Shared /\ Down /\ [Next]_vars => [Exchanges!Next]_(Exchanges!vars)
  BY RefinesStep
<1> QED
  BY <1>1, RefinesInit, SharedInvariant, PTL DEF Spec, Exchanges!Spec

\* The strict service: the only answer that fits a request is its own.
StrictExchanges == INSTANCE Exchange WITH
    None <- NoRequest, Answers <- [p \in Request |-> {p}],
    status <- Status, answer <- Given

\* With distinct ids the transport is the strict service: whatever time-outs, late
\* answers, streams and Stop do, a request is answered at most once, by the answer
\* that was written for it and for no other, or fails, and nothing reaches it later.
THEOREM StrictRefinement == ASSUME DistinctIds PROVE Spec => StrictExchanges!Spec
<1>1. SameId = [p \in Request |-> {p}]
  BY DEF DistinctIds, SameId
<1>2. Exchanges!Init => StrictExchanges!Init
  BY DEF Exchanges!Init, StrictExchanges!Init
<1>3. [Exchanges!Next]_(Exchanges!vars) => [StrictExchanges!Next]_(StrictExchanges!vars)
  <2>1. ASSUME NEW p \in Request
        PROVE  /\ Exchanges!Open(p) => StrictExchanges!Open(p)
               /\ Exchanges!Reply(p) => StrictExchanges!Reply(p)
               /\ Exchanges!Deliver(p) => StrictExchanges!Deliver(p)
    BY <1>1 DEF Exchanges!Open, Exchanges!Reply, Exchanges!Deliver, Exchanges!Move,
                StrictExchanges!Open, StrictExchanges!Reply, StrictExchanges!Deliver,
                StrictExchanges!Move
  <2>2. ASSUME NEW rs \in SUBSET Request, Exchanges!Fail(rs)
        PROVE  StrictExchanges!Fail(rs)
    BY <2>2 DEF Exchanges!Fail, StrictExchanges!Fail
  <2> QED
    BY <2>1, <2>2 DEF Exchanges!Next, Exchanges!vars, StrictExchanges!Next,
                      StrictExchanges!vars
<1> QED
  BY <1>2, <1>3, Refinement, PTL DEF Exchanges!Spec, StrictExchanges!Spec
===============================================================================
