# mcp_server in TLA+

A verification project for `mcp_server`, a server for the Model Context Protocol with
plugins that are loaded and replaced while it runs. It has TLA+ modules of its core and of its
three HTTP transports, TLC configurations that check them on small instances, and proofs, checked by
TLAPS, of the safety of each of them for all values of the constants. `src/` below is the repository.

## The system

    clients ──HTTP──> StreamableTransport ──TransportMessage──> Server ──request──> plugins
       <─ResponseQueue per exchange──   <──WriteMessage/Write──   <──SendNotification──
                                                                    ^ PluginsLoader (watcher)
    clients ──HTTP──> httplib::Server ──handlers──> HttpStream or SSE ──Read──> Server
       <──answer of the POST, or event stream──        <──Write──

| component | state | operations | hard behaviours |
|---|---|---|---|
| `ResponseQueue` (StreamableTransport.cpp:100-172) | `messages_`, `queued_bytes_`, `closed_`, `cancelled_`, the timer `wake_` | `Push`, `Close` (any thread), `PopFor` (the connection) | both only post to a strand; the timer may fire before a push cancels it; two limits close the queue |
| `StreamableTransport` (the rest of the file) | `pending_`, `subscriptions_`, `sessions_`, `incoming_`, a coroutine per connection | `Route*`, `WriteJson`, `WriteSse`, `Broadcast`, `ReadMessage`, `WriteMessage`, `Stop` | io threads, workers and the writer thread in the same maps; time-outs against late answers; `Stop` against all |
| `Server` (Server.cpp) | `transport_`, `isStopping_`, `isCleaned_`, `in_flight`, `notification_queue_`, `output_mutex_`, a thread-local exchange id | `Connect`, `ProcessMessage`, `SendNotification`, `WriterLoop`, `Stop`, `RequestStop` | up to N tasks and the writer on one transport; `Stop` from the signal handler, in the middle of anything |
| `PluginsLoader` (PluginsLoader.cpp) | `m_plugins`, `m_failedPlugins`, the staging directory, shared_ptrs | `LoadPlugins`, `ScanForChanges`, `GetPluginsSnapshot`, `StopWatching`, `UnloadPlugins` | files change at any step; requests hold entries that the watcher replaces |
| `HttpStream` (HttpStreamTransport.cpp) | `incoming_messages_`, `pending_requests_` (promises by JSON-RPC id), `sse_notifications_`, flags | `HandlePostMessage`, `HandleGetSSE`, `HandleDeleteSession`, `Read`, `Write`, `Start`, `Stop` | a handler waits up to 30 s in a pool thread; equal ids; late answers; `Stop` joins before it releases |
| `SSE` (SseTransport.cpp) | `incoming_messages_`, `outgoing_messages_`, `client_connected_`, `sse_active_` | `HandleSSEConnection`, `HandlePostMessage`, `Read`, `Write`, `Start`, `Stop` | all streams share two flags that are not stored together; `Stop` frees the server before it joins |
| `httplib::Server` (vendored, the parts these two stand on) | listening socket, queue of connections, pool | `listen`, `stop`, `keep_alive`, `write_content_without_length` | a worker stays with its connection: streams and waiting handlers use up the pool |
| `main` (main.cpp) | the signal flag | wiring, `stop_handler` | a handler that does the whole shutdown |
| `Stdio` transport, plugins, builders, other vendored libraries | | | not modelled, see the end |

How they interact: the transport's io threads put messages into `incoming_`; the main thread
(`Connect`) takes them and hands each to a task; the task calls the handler, which takes a
snapshot of the plugins and calls into one; its answer goes back through `WriteMessage`,
which finds the exchange's queue by its id and posts on the strand of its connection. A
notification goes the same way when a handler sends it, and through `notification_queue_`, the
writer thread and `Broadcast` when anybody else does, the watcher of the loader for instance. With
an older transport the main thread handles one message after the other, and `Write` either fulfils the
promise of a waiting POST (`HttpStream`) or puts the message in the one queue that all event streams share.

What makes each component correct, in the order of importance:
the queue loses nothing, keeps the order, and never leaves a reader asleep; an exchange gets
its own answer, once and last, and ends; a subscription gets what its filter names; `Stop`
reaches who must know and returns; tasks keep to their slots and their exchange, and do not outlive the
transport; writes do not mix; plugins in use stay alive while their files change, what runs is what the
fingerprint says, and the list comes to agree with the directory.

## Modules

| module | models | lines of the code |
|---|---|---|
| `Mailbox` | abstract: a bounded FIFO box that answers every question of its reader | what `ResponseQueue` promises |
| `ResponseQueue` | one queue: its strand, its timer, the reader, other threads | StreamableTransport.cpp:100-172 |
| `StreamableTransport` | connections, exchanges, maps, sessions, `Broadcast`, `Stop`, and Server seen from here | StreamableTransport.cpp:174-994 |
| `Server` | main thread, tasks, writer, other notifiers, `Stop` with two callers | Server.cpp, main.cpp:27-35 |
| `PluginsLoader` | loader, watcher, requests and the directory | PluginsLoader.cpp, PluginsLoader.h |
| `HttpServer` | the thread that listens, the pool, keep-alive, the loop around a content provider | httplib.h, the parts used |
| `Exchange` | abstract: a request is open, then answered by an answer that fits it, or failed, once | what `StreamableTransport` and `HttpStream` promise |
| `HttpStream` | EXTENDS `HttpServer`: handlers, promises, event stream, `Read`, `Write`, `Stop` | HttpStreamTransport.cpp |
| `Sse` | EXTENDS `HttpServer`: streams, flags, the sleep of `Read`, `Stop` | SseTransport.cpp |
| `*Proofs` | the theorems about the module of that name | |
| `MC*` | the same with the constants for TLC | |

The modules meet at named places. `StreamableTransport` uses of the queue what
`ResponseQueue` is shown to do: a message is returned oldest first, and null only when the queue is
empty. It shows the server's side by what tasks do to the transport (`ReadMessage`,
`HandlerNotifies`, `HandlerReturns`, `WriterBroadcasts`). `Server` sees the transport as
external: it gives messages, marks them cancelled (`Cancel`), and closes. `PluginsLoader` sees
a request as a snapshot that is held and let go (`Serve`). `HttpStream` and `Sse` add their own places
to the program counter of a worker of `HttpServer`, and see Server as a thread that reads, and answers or not.

### State and actions against the code

*ResponseQueue.* `strand` is the sequence of tasks posted on the executor: pushes, closes
and completions of the timer. `Push`, `Close` and `Leave` post; `RunPush`, `RunClose` and
`RunResume` are the posted lambdas and the coroutine after its `co_await`; `Expire` is the timer.
A completion is a task itself, so that others run between the timer and the coroutine. After each answer of
`PopFor` the `reader` is `writing` (or `ending`, if it found the queue closed) until `Written`: the writes of `WriteSse` have no
time-out, so the model does not say that they end.

*StreamableTransport.* `pc[c]` is where the coroutine of connection `c` is: `read` (Run's
read), then the places of `Route` between one lock and the next, `pop` (`PopFor` in `WriteJson` or `WriteSse`),
`cast` (in `Broadcast`), `write` and `last` (in a write of `WriteSse`, which may never end), `finish`
(lines 267-270), `gone`. A POST with an id is four steps: the look at its session (`RoutePost`, or `RouteInitialize`, which makes
one), `admit` (`pending_mutex_`: a place in `pending_`, or 503), `test` (`running_`, with no lock) and `push` (`incoming_mutex_`,
whatever has become of `running_`). A subscription is two, the second being `ack`, and a DELETE is two: the session
leaves the map, then, at `close`, its stream is closed. `routing[c]` is what `Route` carries from one to the next.
`active_channel_` holds the one shared pointer that keeps a queue;
`Alive` is what `weak_ptr::lock` answers. `posted[c]` is the strand. `Broadcast` is three
steps, one for each mutex and one for each push; `Stop` is four (`phase`), and runs between any of these.

*Server.* `main` is the place in `Connect`, `stage[m]` that in `ProcessMessage`, `writer`
that in `WriterLoop`, `stopper[c]` that in `Stop` for each of its callers. A condition
variable is the two steps `TestQueue`, which leaves a thread "falling" with the mutex held, and
`FallAsleep`; only a sleeping writer is woken (`WakeWriter`). `handler = "running"` means that
the signal handler has interrupted the main thread, which does nothing until it is over.

*PluginsLoader.* `phase` is the place in `LoadPlugins` or `ScanForChanges`, `load` that in
`CreatePluginInstance`. A file's fingerprint is a stamp that grows with every edit, the content
is the stamp and what loading it ends in (`gives`): an instance of a type, a failure, or an exception out of `CreatePlugin` or
`Initialize`, which no one catches before the end of the whole scan, or of `LoadPlugins` (`LoadThrows`).
A staging copy has a number of its own (`nth`, the clock in its name), and so has the entry that runs it: the list is a set of
such entries, and two instances of one unchanged file are two of them. Its order and the names of plugins are left out.
`alive` are the entries not destroyed yet; every step that drops shared pointers destroys the entries that
nobody else holds, and their staging copies. Two variables are history, not state of the code: `broken`, the copies that failed
half way, and `tried`, the stamp that was read by the call whose failure is recorded.

*HttpServer.* `pc[w]` is what worker `w` does: `idle`, `keep` (in `keep_alive`, between two requests of
its connection), `sse` (in the loop that calls a content provider), or a place in a handler. `jobs_` counts the accepted
connections that nobody serves, `left` are the streams whose client has gone.

`Exchange` is what both transports with requests promise. Which answers fit a request is its constant `Answers`: in
`StreamableTransport`, which finds a queue by a number drawn once, only its own; in `HttpStream`, which finds a promise by
the id that the client chose, every answer with that id. The mapping (`Status`, `Given`) says of a request
what its client has been sent, and whose answer is in its queue or promise.

*HttpStream.* `HandlePostMessage` is `push` (registered, not in the queue yet), `wait` (in `wait_for`) and
`erase` (timed out, `pending_mutex_` not taken yet): between the last two the answer can still come. `pending_requests_`
maps an id to the request whose promise is there, `promise` is what a promise was given, `outcome` what the client
got. `Write` of an answer without an entry is two steps, because it takes another mutex (`main = "stream"`).
`stop` counts the steps of `Stop`: flags, `server_->stop()`, join, release.

*Sse.* The handlers store their two flags in two steps (`get`, `terminate`); a POST pushes under the mutex and notifies
after it (`post`, `notify`); `Read` tests, keeps the mutex, and sleeps (`waits`, `asleep`). `Stop` also has the step that frees
the server (`freed`): what the threads in it do from then on is either as before or `Crash`. `abandoned` is history: since
`client_connected_` was cleared last, a stream has ended without its `terminate`, or a HEAD has set the flags and opened no stream.

### Abstractions worth knowing

- HTTP statuses, headers, the wording of answers and everything refused before a state
  changes are left out. An `initialize` without an id, which makes a session and is answered 202, is left out.
- A session token and an exchange id are never drawn twice (`MakeToken`, a counter).
- The 1 MiB limit is in `ResponseQueue`; `StreamableTransport` has the limit of messages only.
- Deadlines and time-outs may come at any time: no clock is modelled.
- `StreamableTransport`: `WriteMessage` looks a queue up under `pending_mutex_` and pushes after it; that is one step, because a
  push that comes after the Close of its queue is dropped on the strand, as if nothing had been found. The write of a JSON
  response, which has a deadline, is part of the step that ends the exchange.
- `Server`: `SendNotification` of a handler without an exchange pushes and wakes in one step;
  that of other threads (`Notifier*`) in three. In a handler the test of `isStopping_`, that of `transport_` and the use of it are
  one step: that a signal handler resets the pointer between them is shown where the writer does the same (`NeverCrashes`).
- `PluginsLoader`: the listing of a directory is one step, with what it holds at that moment;
  two writes of a file never have the same mtime and size; what loading a content ends in (an instance, a failure, an exception)
  does not change from one attempt to the next. Of the errors of the file system there are a missing file and a copy that fails
  half way; those of the directory iterator in `LoadPlugins`, and exceptions that are no `std::exception`, are left out.
- `HttpServer`: connections in the queue are a number, for only the worker that serves one tells it from another; a
  failing `accept` is left out.
- `HttpStream`, `Sse`: the 100 ms that `Start` sleeps are taken to be enough; `Stop` is called by one thread;
  a POST without an id (in `HttpStream` it only passes through the queue), pings and the endpoint event are left out. In
  `HttpStream` the sleep of `Read` is left out (it polls, and a `Read` that returns nothing is no step of the model), and the
  erase of a timed-out entry is one step with the 504 that follows (237-239), a local of the handler; in `Sse` a
  message is a number in a queue.
- A worker of `HttpServer` has its request at once: one that trickles in is not modelled. A failed bind is, but not the destructor
  that then meets a joinable thread.

## Runs

Deadlock is not checked except for `response_queue`, whose `Done` marks the proper end: in the
others the program may stop (`Stop`, exit, unloading), and there every bound on reads, ids and edits ends a behaviour.

| run | question | bounds | states |
|---|---|---|---|
| `response_queue` | is the queue a mailbox; no lost wake-up, bytes accounted for; delivery (liveness) | 2 messages, 3 bytes, sizes 1 and 2, 4 pushes, 1 close | 11 k |
| `posts` | isolation, one answer, answer last, filters, registration, `Stop` | 2 connections, 2 exchanges, 1 place in each map and queue, 1 notification | 1.13 M |
| `reuse` | keep-alive after a time-out: does the transport implement `Exchange`, every request ending (liveness) | 1 connection, 3 exchanges, 1 notification | 179 k |
| `streams` | one stream per session | 2 connections, 1 session, 3 exchanges | 2.02 M |
| `server_tasks` | scope, tasks against the transport's end; every message ends, those that wait for a slot or for the front too (liveness) | 2 slots, 3 messages of one kind, 1 notification | 337 k |
| `server_queue` | order and delivery of notifications (liveness) | 1 thread, 2 messages of 4 kinds, 2 notifications, 1 SIGINT | 320 k |
| `plugins` | list, entries, copies, announcements; the list converges (liveness) | 2 paths, 2 types, 1 request, 3 edits of the directory, 2 copies of one content, 1 copy that fails half way | 553 k |
| `http_stream` | does the transport implement `Exchange`; registration, late answers, release; `Stop` returns, the pool's queue moves on (liveness) | 2 workers, 1 waiting connection, 2 requests with their own ids, 1 notification | 130 k |
| `sse` | POSTs accepted for a stream, lost wake-ups; `Stop` returns (liveness) | 2 workers, 1 waiting connection, 2 messages in a queue or on the way to it | 143 k |
| `sessions_isolated`, `server_stop`, `http_ids` | what the documents and comments say and the code does not do | as small as shows it | |

Why the bounds are enough. Every limit of the code (256 messages, 1 MiB, 1024 exchanges,
N slots) is a constant and is lowered until the runs meet it and go one beyond it. Every
race in the list of hazards is between two actors (three with the mutex): the runs have two
connections, two tasks or a task and a writer, two callers of `Stop`, two workers of the pool. A late answer needs
two exchanges of one connection, a replaced stream three exchanges (initialize and two GETs), a file that returns three
edits, a second instance of an unchanged file two copies of it; three messages fill two slots with one more waiting; two workers are a stream and a POST, two streams that replace one another, or two POSTs that wait. A counter that only grows
(ids, notes, edits, reads) is bounded in the guard that names it. The safety properties of these runs are proved without
bounds as well (below), so that what depends on the bounds is liveness.

Every property of a passing run has a mutant, kept beside the definition it changes and marked
as such: a limit that is off by one, a flag set by the strand instead of the caller, a
slot counted late, a copy left behind, a thread that is detached and not joined, an entry that stays after
the time-out, and so on. TLC finds the property violated by the mutant.

### Fairness

`ResponseQueue`: the io threads run posted tasks, timers expire, and the coroutine asks
again or leaves once it has written. That a write ends is not assumed: `WriteSse` calls `expires_never` (318), so a client that
stops reading holds the coroutine for good. `Delivered` promises of every message that it enters or finds the queue closed, and
only under `ClientReads`, that the reader is never for ever in a write, that it is handed over. `StreamableTransport`:
the same for strands, coroutines and `Broadcast`, which is straight-line code, and
strong fairness of `Deadline`, which the loop of `WriteSse` tests between two writes: the clock goes on. `FairSpec` adds
`ClientsRead`, the same assumption about clients, as a formula of its own: without it an SSE POST stays open for ever and its
coroutine with it. `WriteJson` starts another 60 s after each notification (290), so that a JSON exchange ends rests on handlers
that send finitely many of them, which the model has from `MaxNotes`. Nothing is assumed of Server, of handlers otherwise or of
`Stop`. `Server`: main, tasks, writer and the callers of `Stop` run, and handlers return;
nobody has to send, to close or to stop. `PluginsLoader`: the loading thread and the
watcher run (the watcher's sleep ends); nobody has to edit the directory or stop the program, and
`Converges` is about a watcher that stays on, a directory that comes to hold no plugin that throws, and records of failure that are of
what was tried; the last two are conditions because the code needs them (disagreements 6 and below). `HttpStream`: the workers run, the 30 s and the five seconds of
`keep_alive` pass, and a `Stop` that has begun goes on when it can; nothing is assumed of clients, and Server neither has to
read nor to answer. `Sse`: the same, and a thread that is about to sleep does. All of this but `Deadline` is weak fairness of
what the operating system schedules, with one more exception, in `Sse`: `KeepAliveEnds` is strongly fair, because POSTs may
follow one another on a connection without a pause, each disabling the time-out, and what ends the connection then is
`keep_alive_max_count_`, 100 requests, which the model does not count. In `HttpStream` the number of requests is bounded and weak
fairness is enough.

### Disagreements with the documents

Checked, as runs that are expected to be violated (`PROJECT.json`, findings):

1. `sessions_isolated`: a notification of a JSON POST goes to the streams of all sessions. Nothing else of a request does:
   `Crossings` proves it.
2. `server_stop`: `Stop` may wait for ever for a writer that missed its wake-up.
3. `http_ids`: of two clients of `HttpStream` that use the same JSON-RPC id, one gets the other's answer
   (HttpStreamTransport.cpp:98-105, 224).

Refuted by TLC in the same way, with a configuration but not on the list of runs:

4. `AckFirst` (`MCAckFirst.cfg`, with `MCStreamableTransport`): a subscription can get a notification before its acknowledgement
   (StreamableTransport.cpp:690).
5. `NeverCrashes` (`MCServerCrash.cfg`, with `MCServer`): the writer may use `transport_` after `Stop` reset it (Server.cpp:229).
   `CrashInStop` proves that, without a signal, nobody else does.
6. `ChangedIsRetried` (`MCPluginsRetry.cfg`, with `MCPluginsLoader`): a file repaired at the wrong moment is recorded as failing and not
   loaded until it changes again (PluginsLoader.cpp:303): the fingerprint that is recorded is not that of what was tried.

Met while modelling, without a run:

- StreamableTransport.cpp:711: a request routed during `Stop` has its queue registered after the maps were cleared, and
  nobody closes it (the Streamable HTTP document, section 5, says Stop closes the queues); no worker gets it
  (`StopReachesWorkers`). Line 649: an `initialize` refused with 503 has already made its session, whose token the client
  never learns. Line 932: `incoming_` has no limit for messages without an id. Line 456: `Stop` notifies
  `incoming_cv_` without `incoming_mutex_`, so a `ReadMessage` between its test and its sleep misses it.
- PluginsLoader.cpp:288: the record of a failed file that is deleted stays while the scan has nothing else to do
  (the hot-plug document, section 10). Lines 36-41: a copy that fails half way leaves its part in the staging directory, and nobody
  removes it (`NoStrayCopy` and `UnloadedForGood` say that nothing else stays). Lines 102 and 108: a plugin whose `CreatePlugin`
  or `Initialize` throws is not recorded as failing; the exception ends the whole scan (390), or `LoadPlugins` (163), with
  what it had loaded, and so does every later scan: while the file is there no other plugin is loaded, updated or removed.
- StreamableTransport.cpp:318: a client that stops reading an event stream holds its coroutine and its place in the maps until
  `Stop`, the deadline of the stream notwithstanding (see Fairness). Line 768: between the erase of a session and the Close of
  its stream a `Broadcast` finds neither, and the stream is open without a session (`OneStreamPerSession` allows just that).
- main.cpp:27-35: the signal handler calls `Stop` and `exit` and not `RequestStop` (section 11 of the same), so it may end the
  program with the writer running, or wait for a mutex that the interrupted main thread holds; and `RequestStop` would not wake a
  `Connect` that is in `ReadMessage` (Server.cpp:113-117).
- HttpStreamTransport.cpp:107: a late answer goes to the event stream, whoever has it open, and not away. Lines 284-330: a stream that
  ends outside its provider, or a HEAD, leaves `sse_stream_active_` set, and the queue grows for nobody until a stream comes.
  Line 20: a failed bind clears `server_running_`, so that `Stop` returns at once and the thread is never joined.
- SseTransport.cpp:126-137: a stream that httplib drops without calling `terminate` (httplib.h:4693), and a HEAD, leave both
  flags set with no stream: POSTs are accepted and their answers wait for a client that may never come. `AcceptsForAStream` says that
  these are the only ways to get there. The flags may also disagree the other way, for good: `sse_active_` without
  `client_connected_` when a stream begins while another ends, and then POSTs are refused (503) with a stream open. A message
  is taken off the queue before it is written, and is lost when the write fails; `Read` leaves queued messages unread once
  the server has stopped. The endpoint event is behind a `thread_local` flag, so only the first stream of each pool thread is sent
  it. Line 91: `Stop` frees the server before it joins the thread that runs in it, and notifies `Read` without the mutex.

## Proofs

Each of the four modules about the queue, the Streamable transport, `Server` and the loader has one
inductive invariant, `IInv`; those about the older transports have smaller ones (`Typed`, `Books`, `Room`, `FlagsInv`, `WakeInv`). The
properties follow from them. Every safety property that a run checks is a theorem. TLC
has checked the invariants before they were proved.

*ResponseQueueProofs* (all limits, sizes and numbers of calls are naturals, nothing more). `NoGap` alone is not
inductive: that the next message enters in order needs to know which pushes still wait on the strand. `IInv`
adds that (`StrandInv`: while the queue is open they are exactly the ones after the last that
entered, in order), that the timer is armed only with nothing to return, that whoever posts a close has set the flag
before, and that a suspended reader has one way to be resumed (`OneResumption`). From it `Gapless`, `CancellationVisible`,
`ResumedOnce`, `WakeupKept` (a suspended reader with something to return has its timer not armed, hence
a completion on the strand) and `HonestNull`, an action property. `Refinement`: `Spec => MailboxSpec!Spec`; an entering push is `Accept`
because `NoGap` and `StrandInv` give it the next number, a closing one is `Shut`, the turns of `PopFor` are `Take`,
`Refuse` and `Ask`. `BytesExact` is about a sum over a sequence (`FoldLeft`): its value for every queue needs
induction over the length, and the library's induction theorem takes an operator. The induction is stated with sets instead: the order of the
naturals below a bound is well founded, so a non-empty set of counterexamples has a least one (`WFMin`), and
`Induction` says that a set with 0 that is closed under successor holds all naturals. With it the recursive function behind the
fold is shown to exist and to be the fold (`FoldIsTotal`), hence what `Append` and `Tail` do to the sum (`BytesAppend`, `BytesTail`).

*StreamableProofs* (any connections, sessions, topics and limits; `ConnAssumption`: the writer thread is not a connection).
Types need `ChannelInv`, which ties the place of a coroutine to the exchange it serves (`Placed`). `PostedInv` says
what may be on its way to an exchange (`Legal`): the messages of a POST are its own, a subscription's are its acknowledgement or
named in its filter; `CastInv` says it of the targets of a `Broadcast` under way, which were collected under a mutex released
since. `MapInv`: the maps hold exactly the exchanges that are served until `Stop` clears them. `AnswerInv`: the request of a
POST is on its way to `incoming_` (`Unsent`), in it, in process or answered, and the answer is the last of its messages, on the strand, in the queue, or at the client; this
is what makes `AnsweredOnce`, a count, true, and `ReplyIsLast`. All safety properties of the module
are proved: `Isolated`, `Filtered`, `Registered`, `StopKnown`, `AnswerLast`, `AnswersOnce`, `OneStream`, and `Limited`,
`CancelledWhenOver` and `Crossings` (`Bounded`, `OverIsCancelled` and `OnlyJsonCrosses`, which no run lists). `Crossings` is the
other side of `sessions_isolated`: the streams of clients get no answer, and of what belongs to requests only what `WriteJson`
broadcasts. `StopKnown` is inductive because it speaks of the coroutine between the test of `running_` and the push as well: what
`Stop` clears before that push is cancelled when it is queued, and what is registered later meets a `running_` that is
clear. `OneStream` has the DELETE that has not closed its stream yet as its second case. For `Crossings` `Legal` and `CastInv` also say where a message on its way to a stream comes from (`Public`).
`Refinement`: `Spec => Exchanges!Spec`. `Legal` makes the final message in the queue of a request its own, so that `Given` does
not depend on which message is chosen; a step then moves one request (`RouteMoves`, `TakeMoves`, `EnterMoves`, `EndMoves`),
fails all that are open (`StopMoves`), or is not seen. That a time-out is a failure of a request that is still open, and not of
one already answered, needs one more invariant, `Waiting`: `EndedOnce`.

*ServerProofs* (any concurrency, kinds, bounds). `IInv` says where a message in process comes from (the main thread is at it, or
`Connect` holds its future), that a thread's slot has the exchange of the message it handles, that who writes owns
`output_mutex_`, that who stops has set `isCleaned_` first, and that what was written, what is in the writer's hand and what is queued
are in increasing order. Theorems: `TransportLast`, `OwnExchange`, `InOrder`, and `OneWriter`, `OneStop`, `Limited`
(`WritesOneAtATime`, `StoppedOnce`, `WithinConcurrency`, which no run lists). `CrashInStop`, an action property, says how far
`NeverCrashes` is from true: it needs `EndInv`, that a `Stop` that is over has seen the writer end, and that the one which leaves
at once has met another.

*PluginsLoaderProofs* (any non-empty finite set of paths, any types, requests, edits). Stamps only grow. Hence an
entry is never younger than the file at its path, and one that has left the list, or is about to be replaced, is
older: a copy under way is never the copy of an entry that lives (`CallInv`), and this is why destroying an entry removes no copy but its
own (`NoStrayCopy`), and why no path has two entries of one content, which as copies of their own could well exist (`EntryInv`). Theorems: `OneInstance`, `FingerprintOfContent`, `UseIsSafe`, `StagingExact`, `ClientsKnow`,
`NothingLeft`, and `OldIsKept`, an action property: an update neither takes a plugin away nor goes back to an older content.

*HttpServerProofs* has lemmas about the pool that the next two share: its steps keep its types and bring nobody into a
server that does not listen (`EmptyWhenOver`).

*HttpStreamProofs*. Ids are chosen by clients, and two of them may use the same at the same time. What holds nevertheless
follows from `Shared`: an entry belongs to a handler that waits under its id and whose promise is not set, and a promise is given
only answers with that id. Hence for any ids: types, `SetOnce` (no `set_value` on a promise that has a
value, which would throw), `ReleaseIsIdle` (`Stop` has nobody left to release after its join), and `Refinement`, the
safety part of `Exchange` with the answers that fit by their id. `DistinctIds` is assumed by `Invariant`,
`RegisteredWhileWaiting` (an entry is that of the handler that waits), `LateAnswersStream` and `AnswersOwned`, in their
statements and not as an assumption of the module: the code does not make sure of it, and `http_ids` shows what is lost without it.
With it `StrictRefinement` holds: the transport is the service in which the only answer that fits is the request's own.

*SseProofs* (the workers are a finite set). `TypeCorrect` needs the room that messages on their way keep in the
queue; `AcceptedForStreams` and `WakeupKept` are inductive with the order of the stores and the mutex that `Read` holds.

Only model-checked: everything with fairness (`Delivered`, `NotificationsWritten`, `MessagesEnd`, `Converges`,
`StopReturns` of both transports, `QueueMovesOn`, and the fair parts of `ImplementsMailbox` and
`ImplementsExchange`), which the prover cannot do.

## Not modelled

`ConnectAsync`/`StopAsync` and the asynchronous half of `ITransport`: nothing in the program calls them. `Stdio`: blocking reads and
writes with no state of their own; it is `Server` with a concurrency of 1. In the Streamable transport accepting connections, a second
`Start` (which would serve nobody: `ioc_` is not restarted) and the condition variable of `ReadMessage`. Option
parsing, JSON builders, the sample plugins, and the vendored headers but for the parts of httplib that are in `HttpServer`; these
headers are most of the lines of the repository.

## Plan

Done: the modules above, with the proofs of their safety properties. What could follow:

1. `ReadMessage` of the Streamable transport with its condition variable, composed with `Stop` and
   `RequestStop` of Server.
2. `ServerAsync` for `ConnectAsync` and `StopAsync`.
