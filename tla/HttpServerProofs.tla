--------------------------- MODULE HttpServerProofs ---------------------------
(***************************************************************************)
(* What the steps of HttpServer keep, whatever the handlers are.           *)
(***************************************************************************)
EXTENDS HttpServer, TLAPS

ServerStep(w) == WorkerStep(w) \/ Leave(w) \/ Listen \/ BindFails \/ Accept
                 \/ JoinWorkers \/ CloseListener

\* Until a thread listens, and after it has returned, there is nobody in the
\* server: no connection waits and every worker is idle.
Unattended == jobs_ = 0 /\ \A w \in Worker : pc[w] = "idle"

EmptyWhenOver == listener # "accepting" => Unattended

\* The steps of httplib keep the types of its variables.
LEMMA ServerStepType ==
    ASSUME NEW places, ServerTypeOK(places), NEW w \in Worker, ServerStep(w)
    PROVE  ServerTypeOK(places)'
<1> USE JobsAssumption DEF ServerTypeOK
<1>1. CASE TakeJob(w)
  BY <1>1 DEF TakeJob, Goto
<1>2. CASE KeepAliveEnds(w) \/ StreamStops(w) \/ StreamLost(w)
  BY <1>2 DEF KeepAliveEnds, StreamStops, StreamLost, CloseSocket, serverVars
<1>3. CASE Leave(w)
  BY <1>3 DEF Leave, serverVars
<1>4. CASE Accept
  BY <1>4 DEF Accept
<1>5. CASE Listen \/ BindFails \/ JoinWorkers \/ CloseListener
  BY <1>5 DEF Listen, BindFails, JoinWorkers, CloseListener
<1> QED BY <1>1, <1>2, <1>3, <1>4, <1>5 DEF ServerStep, WorkerStep

\* They let nobody into a server that does not listen.
LEMMA ServerStepEmpty ==
    ASSUME NEW places, ServerTypeOK(places), EmptyWhenOver, NEW w \in Worker, ServerStep(w)
    PROVE  EmptyWhenOver'
<1> USE DEF ServerTypeOK, EmptyWhenOver, Unattended
<1>1. CASE TakeJob(w)
  BY <1>1 DEF TakeJob, Goto
<1>2. CASE KeepAliveEnds(w) \/ StreamStops(w) \/ StreamLost(w)
  BY <1>2 DEF KeepAliveEnds, StreamStops, StreamLost, CloseSocket, serverVars
<1>3. CASE Leave(w)
  BY <1>3 DEF Leave, serverVars
<1>4. CASE Accept
  BY <1>4 DEF Accept
<1>5. CASE Listen \/ BindFails \/ JoinWorkers \/ CloseListener
  BY <1>5 DEF Listen, BindFails, JoinWorkers, CloseListener
<1> QED BY <1>1, <1>2, <1>3, <1>4, <1>5 DEF ServerStep, WorkerStep

\* A handler moves its worker to one of its places.
LEMMA GotoType ==
    ASSUME NEW places, ServerTypeOK(places), NEW w \in Worker,
           NEW place \in {"idle", "keep", "sse"} \cup places,
           Goto(w, place), UNCHANGED serverVars
    PROVE  ServerTypeOK(places)'
BY DEF ServerTypeOK, Goto, serverVars

LEMMA CloseSocketType ==
    ASSUME NEW places, ServerTypeOK(places), NEW w \in Worker,
           CloseSocket(w), UNCHANGED serverVars
    PROVE  ServerTypeOK(places)'
BY DEF ServerTypeOK, CloseSocket, serverVars
LEMMA ServerInitType ==
    ASSUME NEW places, ServerInit PROVE ServerTypeOK(places)
<1>1. jobs_ \in 0 .. MaxJobs
  BY JobsAssumption DEF ServerInit
<1>2. pc \in [Worker -> {"idle", "keep", "sse"} \cup places]
  BY DEF ServerInit
<1> QED
  BY <1>1, <1>2 DEF ServerInit, ServerTypeOK
===============================================================================
