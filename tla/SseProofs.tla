------------------------------- MODULE SseProofs -------------------------------
(***************************************************************************)
(* Theorems about Sse, for any pool and any limits.                        *)
(***************************************************************************)
EXTENDS Sse, HttpServerProofs, FiniteSetTheorems

USE JobsAssumption, MessagesAssumption

-----------------------------------------------------------------------------
(* The steps, by what they do to the server *)

LifeStep == StartTransport \/ StartReturns \/ ListenReturns \/ StopBegins \/ StopStep \/ Crash
            \/ ByServer(Listen \/ Accept)

ReadStep == ReadMessage \/ ReadNothing \/ ReadTests \/ ReadSleeps \/ Answer \/ Notify

PoolStep(w) == ByServer(WorkerStep(w) \/ Leave(w))

OwnStep(w) == ReceiveGet(w) \/ ReceivePost(w) \/ HandlerStep(w)

LEMMA StepCases ==
    ASSUME Next
    PROVE  LifeStep \/ ReadStep \/ \E w \in Worker : PoolStep(w) \/ OwnStep(w)
BY DEF Next, LifeStep, ReadStep, PoolStep, OwnStep

\* A step of a handler leaves the server alone, and its worker was not idle.
LEMMA OwnServer ==
    ASSUME ServerTypeOK(Handling), NEW w \in Worker, OwnStep(w)
    PROVE  /\ UNCHANGED <<serverVars, server_running_, stop>> /\ pc[w] # "idle"
           /\ ServerTypeOK(Handling)'
<1>1. /\ UNCHANGED <<serverVars, server_running_, stop>> /\ pc[w] # "idle"
      /\ \/ UNCHANGED <<pc, left>>
         \/ \E place \in {"idle", "keep", "sse"} \cup Handling : Goto(w, place)
         \/ CloseSocket(w)
  BY DEF OwnStep, HandlerStep, ReceiveGet, ReceivePost, Activate, PopMessage, Deactivate,
         Disconnect, PushIncoming, NotifyReader, Handling
<1>2. UNCHANGED <<pc, left>> => ServerTypeOK(Handling)'
  BY <1>1 DEF ServerTypeOK, serverVars
<1> QED
  BY <1>1, <1>2, GotoType, CloseSocketType

-----------------------------------------------------------------------------
(* Types *)

LEMMA LifeTyped == ASSUME TypeOK, LifeStep PROVE TypeOK'
<1> USE DEF TypeOK, ServerTypeOK
<1>1. CASE StartTransport \/ StartReturns
  BY <1>1 DEF StartTransport, StartReturns, serverVars, streamVars
<1>2. CASE ListenReturns
  BY <1>2 DEF ListenReturns, BindFails, JoinWorkers, streamVars, readVars
<1>3. CASE StopBegins
  BY <1>3 DEF StopBegins, serverVars, readVars
<1>4. CASE StopListening
  BY <1>4 DEF StopListening, CloseListener, streamVars, readVars
<1>5. CASE StopFrees \/ StopJoins \/ StopNotifies \/ Crash
  BY <1>5 DEF StopFrees, StopJoins, StopNotifies, Crash, StopMoves, Wake, serverVars, streamVars
<1>6. CASE ByServer(Listen)
  BY <1>6 DEF ByServer, Listen, streamVars, readVars
<1>7. CASE ByServer(Accept)
  BY <1>7 DEF ByServer, Accept, streamVars, readVars
<1> QED
  BY <1>1, <1>2, <1>3, <1>4, <1>5, <1>6, <1>7 DEF LifeStep, StopStep, ByServer

LEMMA ReadTyped == ASSUME TypeOK, ReadStep PROVE TypeOK'
<1> USE DEF TypeOK, ServerTypeOK
<1>1. CASE ReadMessage
  BY <1>1 DEF ReadMessage, serverVars, streamVars
<1>2. CASE ReadNothing \/ ReadTests \/ ReadSleeps
  BY <1>2 DEF ReadNothing, ReadTests, ReadSleeps, serverVars, streamVars
<1>3. ASSUME Send PROVE /\ outgoing_messages_' \in 0 .. MaxMessages
                        /\ UNCHANGED <<serverVars, pc, left, server_running_, client_connected_,
                                       sse_active_, abandoned, incoming_messages_, stop>>
  BY <1>3 DEF Send
<1>4. CASE Answer \/ Notify
  BY <1>3, <1>4 DEF Answer, Notify, serverVars, streamVars
<1> QED
  BY <1>1, <1>2, <1>4 DEF ReadStep

LEMMA OwnTyped ==
    ASSUME TypeOK, NEW w \in Worker, OwnStep(w),
           PushIncoming(w) => incoming_messages_ < MaxMessages
    PROVE  TypeOK'
<1>1. ServerTypeOK(Handling)' /\ UNCHANGED <<server_running_, stop>>
  BY OwnServer DEF TypeOK
<1> USE <1>1 DEF TypeOK
<1>2. CASE PushIncoming(w)
  BY <1>2 DEF PushIncoming, streamVars
<1>3. CASE ReceiveGet(w) \/ ReceivePost(w)
  BY <1>3 DEF ReceiveGet, ReceivePost, streamVars, readVars
<1>6. CASE Activate(w) \/ Deactivate(w)
  BY <1>6 DEF Activate, Deactivate, streamVars, readVars
<1>4. CASE PopMessage(w)
  BY <1>4 DEF PopMessage, readVars
<1>5. CASE Disconnect(w) \/ NotifyReader(w)
  BY <1>5 DEF Disconnect, NotifyReader, Wake, streamVars
<1> QED
  BY <1>2, <1>3, <1>4, <1>5, <1>6 DEF OwnStep, HandlerStep

\* The messages that are counted on their way find room in the queue.
Posters == {w \in Worker : pc[w] = "post"}

Room == incoming_messages_ + Cardinality(Posters) <= MaxMessages

LEMMA PostersFinite == IsFiniteSet(Posters) /\ Cardinality(Posters) \in Nat
BY WorkerAssumption, FS_Subset, FS_CardinalityType DEF Posters

\* A step that moves nobody to or from this place.
LEMMA SameRoom ==
    ASSUME TypeOK, Room, incoming_messages_' <= incoming_messages_, incoming_messages_' \in Nat,
           \A w \in Worker : pc'[w] = "post" <=> pc[w] = "post"
    PROVE  Room'
<1>1. Posters' = Posters
  BY DEF Posters
<1>2. Cardinality(Posters') = Cardinality(Posters)
  BY <1>1
<1> QED
  BY <1>2, PostersFinite DEF Room, TypeOK

LEMMA ReceiveRoom ==
    ASSUME TypeOK, Room, NEW w \in Worker, ReceivePost(w) PROVE Room'
<1>1. Posters' = Posters \cup {w} /\ w \notin Posters
  BY DEF Posters, ReceivePost, Goto, TypeOK, ServerTypeOK
<1>2. Cardinality(Posters \cup {w}) = Cardinality(Posters) + 1
  BY <1>1, PostersFinite, FS_AddElement
<1>3. incoming_messages_ + Cardinality(Posters) < MaxMessages
  BY DEF ReceivePost, OnTheWay, Posters
<1>4. incoming_messages_' = incoming_messages_ /\ Cardinality(Posters') = Cardinality(Posters) + 1
  BY <1>1, <1>2 DEF ReceivePost, readVars
<1> QED
  BY <1>3, <1>4, PostersFinite DEF Room, TypeOK

LEMMA PushRoom ==
    ASSUME TypeOK, Room, NEW w \in Worker, PushIncoming(w)
    PROVE  Room' /\ incoming_messages_ < MaxMessages
<1>0. pc[w] = "post" /\ DOMAIN pc = Worker /\ pc' = [pc EXCEPT ![w] = "notify"]
  BY DEF PushIncoming, Goto, TypeOK, ServerTypeOK
<1>1. Posters' = Posters \ {w} /\ w \in Posters
  BY <1>0 DEF Posters
<1>2. Cardinality(Posters \ {w}) = Cardinality(Posters) - 1
  BY <1>1, PostersFinite, FS_RemoveElement
<1>3. Cardinality(Posters') = Cardinality(Posters) - 1
  BY <1>1, <1>2
<1>4. Cardinality(Posters) # 0
  BY <1>1, PostersFinite, FS_EmptySet
<1> QED
  BY <1>3, <1>4, PostersFinite DEF Room, TypeOK, PushIncoming

\* The number of messages is within its bound.
LEMMA Typing == TypeOK /\ Room /\ [Next]_vars => TypeOK' /\ Room'
<1> SUFFICES ASSUME TypeOK, Room, [Next]_vars PROVE TypeOK' /\ Room'
  OBVIOUS
<1> USE DEF TypeOK, ServerTypeOK
<1>0. CASE UNCHANGED vars
  BY <1>0, SameRoom DEF vars, serverVars, streamVars, readVars
<1>1. CASE LifeStep
  <2>1. TypeOK'
    BY <1>1, LifeTyped
  <2>2. UNCHANGED <<pc, incoming_messages_>>
    BY <1>1 DEF LifeStep, StartTransport, StartReturns, ListenReturns, BindFails, JoinWorkers,
         StopBegins, StopStep, StopListening, CloseListener, StopFrees, StopJoins, StopNotifies,
         Crash, StopMoves, ByServer, Listen, Accept, readVars
  <2> QED BY <2>1, <2>2, SameRoom
<1>2. CASE ReadStep
  <2>1. TypeOK'
    BY <1>2, ReadTyped
  <2>2. UNCHANGED pc
    BY <1>2 DEF ReadStep, ReadMessage, ReadNothing, ReadTests, ReadSleeps, Answer, Notify, Send,
                serverVars
  <2>3. incoming_messages_' \in {incoming_messages_, incoming_messages_ - 1}
    BY <1>2 DEF ReadStep, ReadMessage, ReadNothing, ReadTests, ReadSleeps, Answer, Notify, Send,
                readVars
  <2> QED BY <2>1, <2>2, <2>3, SameRoom
<1>3. ASSUME NEW w \in Worker, PoolStep(w) PROVE TypeOK' /\ Room'
  <2>1. ServerTypeOK(Handling)'
    BY <1>3, ServerStepType DEF PoolStep, ByServer, ServerStep
  <2>2. TypeOK'
    BY <1>3, <2>1 DEF PoolStep, ByServer, readVars
  <2>3. \A v \in Worker : pc'[v] = "post" <=> pc[v] = "post"
    BY <1>3 DEF PoolStep, ByServer, WorkerStep, TakeJob, KeepAliveEnds, StreamStops, StreamLost,
                Leave, CloseSocket, Goto
  <2>4. UNCHANGED incoming_messages_
    BY <1>3 DEF PoolStep, ByServer, readVars
  <2> QED BY <2>2, <2>3, <2>4, SameRoom
<1>4. ASSUME NEW w \in Worker, OwnStep(w) PROVE TypeOK' /\ Room'
  <2>1. TypeOK'
    BY <1>4, OwnTyped, PushRoom
  <2>2. CASE PushIncoming(w) \/ ReceivePost(w)
    BY <2>1, <2>2, PushRoom, ReceiveRoom
  <2>3. CASE ReceiveGet(w) \/ Activate(w) \/ PopMessage(w) \/ Deactivate(w) \/ Disconnect(w)
             \/ NotifyReader(w)
    <3>1. \A v \in Worker : pc'[v] = "post" <=> pc[v] = "post"
      BY <2>3 DEF ReceiveGet, Activate, PopMessage, Deactivate, Disconnect, NotifyReader, Goto,
                  CloseSocket
    <3>2. UNCHANGED incoming_messages_
      BY <2>3 DEF ReceiveGet, Activate, PopMessage, Deactivate, Disconnect, NotifyReader, readVars
    <3> QED BY <2>1, <3>1, <3>2, SameRoom
  <2> QED BY <1>4, <2>2, <2>3 DEF OwnStep, HandlerStep
<1> QED
  BY <1>0, <1>1, <1>2, <1>3, <1>4, StepCases

LEMMA InitTyped == Init => TypeOK /\ Room
<1> SUFFICES ASSUME Init PROVE TypeOK /\ Room
  OBVIOUS
<1>1. ServerTypeOK(Handling)
  BY ServerInitType DEF Init
<1>2. TypeOK
  <2>1. 0 \in 0 .. MaxMessages
    BY MessagesAssumption
  <2>2. /\ server_running_ \in BOOLEAN /\ abandoned \in BOOLEAN
        /\ client_connected_ \in BOOLEAN /\ sse_active_ \in BOOLEAN
    BY DEF Init
  <2>3. /\ incoming_messages_ \in 0 .. MaxMessages
        /\ outgoing_messages_ \in 0 .. MaxMessages
    BY <2>1 DEF Init
  <2>4. reader = "new" /\ stop = "none"
    BY DEF Init
  <2> QED BY <1>1, <2>2, <2>3, <2>4 DEF TypeOK
<1>3. Posters = {}
  BY DEF Init, ServerInit, Posters
<1>4. Cardinality(Posters) = 0
  BY <1>3, FS_EmptySet
<1> QED BY <1>2, <1>4 DEF Init, Room

\* Every variable keeps its type, and the queues their bounds.
THEOREM TypeCorrect == Spec => []TypeOK
BY InitTyped, Typing, PTL DEF Spec

-----------------------------------------------------------------------------
(* The flags *)

\* Before the transport has started there is no client, and nobody in the server.
Quiet == reader = "new" => /\ listener = "none" /\ Unattended
                           /\ ~client_connected_

FlagsInv == TypeOK /\ Quiet /\ AcceptsForAStream

LEMMA FlagsStep == FlagsInv /\ [Next]_vars /\ TypeOK' => FlagsInv'
<1> SUFFICES ASSUME FlagsInv, [Next]_vars, TypeOK' PROVE Quiet' /\ AcceptsForAStream'
  BY DEF FlagsInv
<1> USE DEF FlagsInv, TypeOK, ServerTypeOK, Quiet, AcceptsForAStream, Unattended
<1>0. CASE UNCHANGED vars
  BY <1>0 DEF vars, serverVars, streamVars, readVars
<1>1. CASE LifeStep
  <2>1. CASE StartTransport \/ StartReturns \/ ListenReturns
    BY <1>1, <2>1 DEF StartTransport, StartReturns, ListenReturns, BindFails, JoinWorkers,
                serverVars, streamVars, readVars
  <2>3. CASE ByServer(Listen \/ Accept)
    <3>1. (abandoned => abandoned')
          /\ UNCHANGED <<pc, server_running_, client_connected_, sse_active_, reader>>
      BY <2>3 DEF ByServer, Listen, Accept, readVars
    <3>2. reader = "new" => listener' = "none" /\ jobs_' = jobs_
      BY <2>3 DEF ByServer, Listen, Accept, readVars
    <3> QED BY <3>1, <3>2
  <2>2. CASE StopBegins \/ StopStep \/ Crash
    BY <2>2 DEF StopBegins, StopStep, StopListening, CloseListener, StopFrees, StopJoins,
                StopNotifies, Crash, StopMoves, Wake, serverVars, streamVars, readVars
  <2> QED BY <1>1, <2>1, <2>2, <2>3 DEF LifeStep
<1>2. CASE ReadStep
  <2>1. reader # "new" => reader' # "new"
    BY <1>2 DEF ReadStep, ReadMessage, ReadNothing, ReadTests, ReadSleeps, Answer, Notify
  <2>2. UNCHANGED <<listener, jobs_, pc, server_running_, client_connected_, sse_active_, abandoned>>
    BY <1>2 DEF ReadStep, ReadMessage, ReadNothing, ReadTests, ReadSleeps, Answer, Notify, Send,
                serverVars, streamVars
  <2> QED BY <2>1, <2>2
<1>3. ASSUME NEW w \in Worker, PoolStep(w) PROVE Quiet' /\ AcceptsForAStream'
  <2>1. reader # "new" /\ UNCHANGED <<reader, server_running_, client_connected_, sse_active_>>
    BY <1>3 DEF PoolStep, ByServer, WorkerStep, TakeJob, KeepAliveEnds, StreamStops, StreamLost,
                Leave, readVars
  <2>2. \A v \in Worker : pc[v] \in {"get", "head", "terminate"} => pc'[v] = pc[v]
    BY <1>3 DEF PoolStep, ByServer, WorkerStep, TakeJob, KeepAliveEnds, StreamStops, StreamLost,
                Leave, CloseSocket, Goto
  <2>3. abandoned' = (abandoned \/ \E v \in Worker : pc[v] = "sse" /\ pc'[v] # "sse")
    BY <1>3 DEF PoolStep, ByServer
  <2>4. ASSUME NEW v \in Worker, pc[v] \in {"get", "head", "sse", "terminate"}
        PROVE  abandoned' \/ pc'[v] \in {"get", "head", "sse", "terminate"}
    BY <2>2, <2>3, <2>4
  <2> QED BY <2>1, <2>2, <2>3, <2>4
<1>4. ASSUME NEW w \in Worker, OwnStep(w) PROVE Quiet' /\ AcceptsForAStream'
  <2>1. reader # "new" /\ reader' # "new" /\ UNCHANGED server_running_
    BY <1>4, OwnServer DEF OwnStep, HandlerStep, ReceiveGet, ReceivePost, Activate, PopMessage,
         Deactivate, Disconnect, PushIncoming, NotifyReader, Wake, readVars
  <2>2. AcceptsForAStream'
    <3>1. CASE ReceiveGet(w) \/ Deactivate(w)
      BY <3>1 DEF ReceiveGet, Deactivate, Goto, Handling
    <3>2. CASE Activate(w)
      <4>1. sse_active_' /\ (abandoned' \/ pc'[w] = "sse")
        BY <3>2 DEF Activate, Goto
      <4> QED BY <4>1
    <3>4. CASE Disconnect(w)
      BY <3>4 DEF Disconnect
    <3>3. CASE ReceivePost(w) \/ PopMessage(w) \/ PushIncoming(w) \/ NotifyReader(w)
      BY <3>3 DEF ReceivePost, PopMessage, PushIncoming, NotifyReader, Goto, streamVars
    <3> QED BY <1>4, <3>1, <3>2, <3>3, <3>4 DEF OwnStep, HandlerStep
  <2> QED BY <2>1, <2>2
<1> QED
  BY <1>0, <1>1, <1>2, <1>3, <1>4, StepCases

\* While the server runs, POSTs are accepted only if a stream is there, comes or goes,
\* or was abandoned by httplib or opened with HEAD since the flag was cleared; and only
\* if the streams go on.
THEOREM AcceptedForStreams == Spec => []AcceptsForAStream
<1>1. Init => FlagsInv /\ Room
  BY InitTyped DEF Init, ServerInit, FlagsInv, Quiet, AcceptsForAStream, Unattended
<1>2. FlagsInv /\ Room /\ [Next]_vars => FlagsInv' /\ Room'
  BY FlagsStep, Typing DEF FlagsInv
<1>3. FlagsInv => AcceptsForAStream
  BY DEF FlagsInv
<1> QED
  BY <1>1, <1>2, <1>3, PTL DEF Spec

-----------------------------------------------------------------------------
(* The reader *)

\* Between its test and its sleep the reader holds the mutex: no message comes.
WakeInv == /\ TypeOK /\ NoLostWakeup
           /\ reader = "waits" => incoming_messages_ = 0

LEMMA WakeStep == WakeInv /\ [Next]_vars /\ TypeOK' => WakeInv'
<1> SUFFICES ASSUME WakeInv, [Next]_vars, TypeOK' PROVE WakeInv'
  OBVIOUS
<1> USE DEF WakeInv, TypeOK, ServerTypeOK, NoLostWakeup
<1>1. ASSUME UNCHANGED <<pc, incoming_messages_>>, reader' = reader \/ reader' \notin {"waits", "asleep"}
      PROVE  WakeInv'
  BY <1>1
<1>2. CASE UNCHANGED vars \/ LifeStep
  BY <1>1, <1>2 DEF vars, LifeStep, StartTransport, StartReturns, ListenReturns, BindFails,
       JoinWorkers, StopBegins, StopStep, StopListening, CloseListener, StopFrees, StopJoins,
       StopNotifies, Crash, StopMoves, Wake, ByServer, Listen, Accept, readVars
<1>3. CASE ReadStep
  <2>1. CASE ReadMessage \/ ReadTests \/ ReadSleeps
    BY <2>1 DEF ReadMessage, ReadTests, ReadSleeps
  <2>2. CASE ReadNothing \/ Answer \/ Notify
    BY <1>1, <2>2 DEF ReadNothing, Answer, Notify, Send
  <2> QED BY <1>3, <2>1, <2>2 DEF ReadStep
<1>4. ASSUME NEW w \in Worker, PoolStep(w) PROVE WakeInv'
  <2>1. \A v \in Worker : pc[v] = "notify" => pc'[v] = "notify"
    BY <1>4 DEF PoolStep, ByServer, WorkerStep, TakeJob, KeepAliveEnds, StreamStops, StreamLost,
                Leave, CloseSocket, Goto
  <2> QED BY <1>4, <2>1 DEF PoolStep, ByServer, readVars
<1>5. ASSUME NEW w \in Worker, OwnStep(w) PROVE WakeInv'
  <2>1. CASE PushIncoming(w)
    BY <2>1 DEF PushIncoming, Goto
  <2>2. CASE NotifyReader(w) \/ Disconnect(w)
    BY <2>2 DEF NotifyReader, Disconnect, Wake
  <2>3. CASE ReceiveGet(w) \/ ReceivePost(w) \/ Activate(w) \/ PopMessage(w) \/ Deactivate(w)
    BY <2>3 DEF ReceiveGet, ReceivePost, Activate, PopMessage, Deactivate, Goto, readVars
  <2> QED BY <1>5, <2>1, <2>2, <2>3 DEF OwnStep, HandlerStep
<1> QED
  BY <1>2, <1>3, <1>4, <1>5, StepCases

\* No notification of a message is lost.
THEOREM WakeupKept == Spec => []NoLostWakeup
<1>1. Init => WakeInv /\ Room
  BY InitTyped DEF Init, WakeInv, NoLostWakeup
<1>2. WakeInv /\ Room /\ [Next]_vars => WakeInv' /\ Room'
  BY WakeStep, Typing DEF WakeInv
<1>3. WakeInv => NoLostWakeup
  BY DEF WakeInv
<1> QED
  BY <1>1, <1>2, <1>3, PTL DEF Spec
===============================================================================
