------------------------------ MODULE HttpServer ------------------------------
(***************************************************************************)
(* httplib::Server as the two older transports use it: one thread accepts  *)
(* connections and queues them, a pool of workers takes them, and a worker *)
(* stays with its connection, for one request after the other, until the   *)
(* connection is over.  A worker in a long handler or in a stream serves   *)
(* nobody else.                                                            *)
(*                                                                         *)
(* Nothing but its worker tells one connection from another, so the queue  *)
(* is the number of connections in it.  What the handlers do belongs to    *)
(* the transports: they extend this module with places of their own in pc. *)
(***************************************************************************)
EXTENDS Naturals, Sequences, FiniteSets

CONSTANTS Worker,      \* the threads of ThreadPool
          MaxJobs      \* bound of the model: connections that wait for a worker

ASSUME WorkerAssumption == IsFiniteSet(Worker)
ASSUME JobsAssumption   == MaxJobs \in Nat

VARIABLES
    listener,          \* the thread in Server::listen
    svr_sock_,         \* the listening socket is open
    jobs_,             \* accepted connections that no worker has taken
    pc,                \* what a worker does: "idle", "keep" (in keep_alive), "sse" (in
                       \* the loop that writes a stream) or a handler
    left               \* workers in a stream whose client has left

serverVars == <<listener, svr_sock_, jobs_>>

ServerTypeOK(places) ==
    /\ listener \in {"none", "starting", "accepting", "over"}
    /\ svr_sock_ \in BOOLEAN
    /\ jobs_ \in 0 .. MaxJobs
    /\ pc \in [Worker -> {"idle", "keep", "sse"} \cup places]
    /\ left \subseteq Worker

ServerInit ==
    /\ listener = "none"
    /\ svr_sock_ = FALSE
    /\ jobs_ = 0
    /\ pc = [w \in Worker |-> "idle"]
    /\ left = {}

Goto(w, place) == pc' = [pc EXCEPT ![w] = place] /\ UNCHANGED left

-----------------------------------------------------------------------------
(* The thread that listens *)

\* bind_to_port and the beginning of listen_internal, or listen returns false.
Listen ==
    /\ listener = "starting"
    /\ listener' = "accepting" /\ svr_sock_' = TRUE
    /\ UNCHANGED <<jobs_, pc, left>>

BindFails ==
    /\ listener = "starting"
    /\ listener' = "over"
    /\ UNCHANGED <<svr_sock_, jobs_, pc, left>>

\* max_queued_requests_ is 0: every connection finds a place in the queue.
Accept ==
    /\ listener = "accepting" /\ svr_sock_
    /\ jobs_ < MaxJobs
    /\ jobs_' = jobs_ + 1
    /\ UNCHANGED <<listener, svr_sock_, pc, left>>

\* The socket is closed: ThreadPool::shutdown joins the workers, which first serve
\* what is queued, and listen returns.
JoinWorkers ==
    /\ listener = "accepting" /\ ~svr_sock_
    /\ jobs_ = 0 /\ \A w \in Worker : pc[w] = "idle"
    /\ listener' = "over"
    /\ UNCHANGED <<svr_sock_, jobs_, pc, left>>

\* Server::stop; when is_running_ is false there is no socket either.
CloseListener ==
    /\ svr_sock_' = FALSE
    /\ UNCHANGED <<listener, jobs_, pc, left>>

-----------------------------------------------------------------------------
(* The workers *)

\* Mutant: woken without a reason, a worker does not look at the queue again.
TakeJobUnchecked(w) ==
    /\ pc[w] = "idle"
    /\ jobs_' = jobs_ - 1
    /\ Goto(w, "keep")
    /\ UNCHANGED <<listener, svr_sock_>>

TakeJob(w) ==
    /\ pc[w] = "idle" /\ jobs_ > 0
    /\ jobs_' = jobs_ - 1
    /\ Goto(w, "keep")
    /\ UNCHANGED <<listener, svr_sock_>>

\* process_and_close_socket returns.
CloseSocket(w) ==
    /\ pc' = [pc EXCEPT ![w] = "idle"]
    /\ left' = left \ {w}

\* Mutant: no time-out between two requests of a connection.
KeepAliveForever(w) ==
    /\ pc[w] = "keep" /\ ~svr_sock_
    /\ CloseSocket(w)
    /\ UNCHANGED serverVars

\* keep_alive returns false: five seconds without a request, the client has left,
\* the server socket is closed; or the answer said that the connection closes.
KeepAliveEnds(w) ==
    /\ pc[w] = "keep"
    /\ CloseSocket(w)
    /\ UNCHANGED serverVars

\* The client of a stream closes its end; in other places the server would not
\* notice before it is back in keep_alive.
Leave(w) ==
    /\ pc[w] = "sse"
    /\ left' = left \cup {w}
    /\ UNCHANGED <<serverVars, pc>>

-----------------------------------------------------------------------------
(* write_content_without_length: the loop a content provider is called in     *)

\* is_shutting_down: the loop ends.  The end of the connection is the end of the
\* stream, so its client sends nothing more, and keep_alive returns false.
StreamStops(w) ==
    /\ pc[w] = "sse" /\ ~svr_sock_
    /\ CloseSocket(w)
    /\ UNCHANGED serverVars

\* wait_writable sees that the client has left: the provider is not asked.
StreamLost(w) ==
    /\ pc[w] = "sse" /\ w \in left
    /\ CloseSocket(w)
    /\ UNCHANGED serverVars

WorkerStep(w) == TakeJob(w) \/ KeepAliveEnds(w) \/ StreamStops(w) \/ StreamLost(w)
==============================================================================
