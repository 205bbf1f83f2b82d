------------------------------ MODULE Server ------------------------------
(***************************************************************************)
(* kisscpp::Server over its IoServicePool, from the constructor to the     *)
(* return of run().  Each io_service has one thread, which runs the        *)
(* handlers queued on it.  The stop signals, the log signal and the        *)
(* acceptor are given io_services in turn, so in a pool of one or two the  *)
(* acceptor shares the thread of the stop signals.  handle_accept() serves *)
(* the connection itself: it blocks until the client sends a line or       *)
(* closes, and only then accepts the next.                                 *)
(***************************************************************************)
EXTENDS Integers, Sequences, FiniteSets

CONSTANTS PoolSize,       \* io_service_pool_size
          Clients,
          SilentClients,  \* whether a client may connect and never send
          MaxHups         \* bound: SIGHUPs

\* What the constants are taken to be.
Bounds == PoolSize \in Nat \ {0} /\ SilentClients \in BOOLEAN /\ MaxHups \in Nat

VARIABLES
  runPc,             \* "constructed", "running", "returned": run()
  queue,             \* the handlers queued on each io_service
  thread,            \* what each thread does: "none", "idle", or the client it reads from
  stopped,           \* the io_services that were stopped
  next_io_service_,  \* the pool's turn
  accepting,         \* whether an async_accept is in progress
  backlog,           \* clients connected and not accepted, in order
  client,            \* each client: "out", "connected", "sent", "left", "answered"
  stopSignal,        \* "no", "raised", "handled": SIGINT, SIGTERM, SIGQUIT
  hups, reopens,     \* SIGHUPs raised, and calls of set2ReOpen()
  reopenWaits        \* whether log_reopen_signals_ has an async_wait in progress

vars == <<runPc, queue, thread, stopped, next_io_service_, accepting, backlog, client,
          stopSignal, hups, reopens, reopenWaits>>

Services == 0 .. PoolSize - 1

\* get_io_service(): one after the other.
NextService(i) == IF i + 1 = PoolSize THEN 0 ELSE i + 1

StopService == 0
ReopenService == NextService(StopService)
AcceptService == NextService(ReopenService)

StopHandler == <<"handle_stop">>
ReopenHandler == <<"handle_log_reopen">>
AcceptHandler(c) == <<"handle_accept", c>>
AcceptError == <<"handle_accept">>
Handlers == {StopHandler, ReopenHandler, AcceptError} \cup {AcceptHandler(c) : c \in Clients}

TypeOK ==
  /\ runPc \in {"constructed", "running", "returned"}
  /\ \A i \in Services : \A n \in DOMAIN queue[i] : queue[i][n] \in Handlers
  /\ thread \in [Services -> {"none", "idle"} \cup Clients]
  /\ stopped \subseteq Services /\ next_io_service_ \in Services
  /\ accepting \in BOOLEAN /\ reopenWaits \in BOOLEAN
  /\ client \in [Clients -> {"out", "connected", "sent", "left", "answered"}]
  /\ \A n \in DOMAIN backlog : backlog[n] \in Clients /\ client[backlog[n]] # "out"
  /\ stopSignal \in {"no", "raised", "handled"} /\ reopens <= hups /\ hups \in 0 .. MaxHups

\* The constructor has run: three io_services were handed out, and a fourth to
\* the connection that start_accept() made; the waits for signals are set.
Init ==
  /\ runPc = "constructed" /\ queue = [i \in Services |-> <<>>]
  /\ thread = [i \in Services |-> "none"] /\ stopped = {}
  /\ next_io_service_ = NextService(NextService(AcceptService)) /\ accepting = TRUE
  /\ backlog = <<>> /\ client = [c \in Clients |-> "out"]
  /\ stopSignal = "no" /\ hups = 0 /\ reopens = 0 /\ reopenWaits = TRUE

Queue(i, handler) == queue' = [queue EXCEPT ![i] = Append(@, handler)]

---------------------------------------------------------------------------
(* Clients and signals *)

ClientMoves(c, from, to) == client[c] = from /\ client' = [client EXCEPT ![c] = to]

Connect(c) ==
  /\ ClientMoves(c, "out", "connected") /\ backlog' = Append(backlog, c)
  /\ UNCHANGED <<runPc, queue, thread, stopped, next_io_service_, accepting,
                 stopSignal, hups, reopens, reopenWaits>>

SendOrLeave(c) ==
  /\ ClientMoves(c, "connected", "sent") \/ ClientMoves(c, "connected", "left")
  /\ UNCHANGED <<runPc, queue, thread, stopped, next_io_service_, accepting, backlog,
                 stopSignal, hups, reopens, reopenWaits>>

RaiseStop ==
  /\ stopSignal = "no" /\ stopSignal' = "raised" /\ Queue(StopService, StopHandler)
  /\ UNCHANGED <<runPc, thread, stopped, next_io_service_, accepting, backlog, client,
                 hups, reopens, reopenWaits>>

\* A signal completes the wait in progress; with none, it is kept for the next.
RaiseHup ==
  /\ hups < MaxHups /\ hups' = hups + 1
  /\ IF reopenWaits THEN Queue(ReopenService, ReopenHandler) ELSE UNCHANGED queue
  /\ reopenWaits' = FALSE
  /\ UNCHANGED <<runPc, thread, stopped, next_io_service_, accepting, backlog, client,
                 stopSignal, reopens>>

\* The kernel completes the accept in progress, or it fails.
AcceptCompletes ==
  /\ accepting /\ accepting' = FALSE
  /\ \/ /\ backlog # <<>> /\ backlog' = Tail(backlog)
        /\ Queue(AcceptService, AcceptHandler(Head(backlog)))
     \/ Queue(AcceptService, AcceptError) /\ UNCHANGED backlog
  /\ UNCHANGED <<runPc, thread, stopped, next_io_service_, client,
                 stopSignal, hups, reopens, reopenWaits>>

---------------------------------------------------------------------------
(* The threads *)

\* IoServicePool::run(): a thread for each io_service.
Run ==
  /\ runPc = "constructed" /\ runPc' = "running" /\ thread' = [i \in Services |-> "idle"]
  /\ UNCHANGED <<queue, stopped, next_io_service_, accepting, backlog, client,
                 stopSignal, hups, reopens, reopenWaits>>

Handles(i, handler) ==
  /\ thread[i] = "idle" /\ i \notin stopped /\ queue[i] # <<>> /\ Head(queue[i]) = handler
  /\ queue' = [queue EXCEPT ![i] = Tail(@)]

\* IoServicePool::stop().
StopAllButLast == Services \ {PoolSize - 1}
StopAll == Services

HandleStop(i) ==
  /\ Handles(i, StopHandler) /\ stopped' = StopAll /\ stopSignal' = "handled"
  /\ UNCHANGED <<runPc, thread, next_io_service_, accepting, backlog, client, hups, reopens, reopenWaits>>

\* Server::stop(), called by the application.
Stop ==
  /\ stopped' = StopAll /\ stopSignal # "handled" /\ stopSignal' = "handled"
  /\ UNCHANGED <<runPc, queue, thread, next_io_service_, accepting, backlog, client, hups, reopens, reopenWaits>>

HandleLogReopenIgnored(i) ==
  /\ Handles(i, ReopenHandler)
  /\ UNCHANGED <<runPc, thread, stopped, next_io_service_, accepting, backlog, client, stopSignal, hups, reopens, reopenWaits>>

HandleLogReopen(i) ==
  /\ Handles(i, ReopenHandler) /\ reopens' = reopens + 1
  /\ UNCHANGED <<runPc, thread, stopped, next_io_service_, accepting, backlog, client, stopSignal, hups, reopenWaits>>

\* start_accept(): a new connection, on the next io_service.
StartAccept == accepting' = TRUE /\ next_io_service_' = NextService(next_io_service_)

\* handle_accept() with an error.
HandleAcceptErrorAndEnd(i) ==
  /\ Handles(i, AcceptError)
  /\ UNCHANGED <<runPc, thread, stopped, next_io_service_, accepting, backlog, client, stopSignal, hups, reopens, reopenWaits>>

HandleAcceptError(i) ==
  /\ Handles(i, AcceptError) /\ StartAccept
  /\ UNCHANGED <<runPc, thread, stopped, backlog, client, stopSignal, hups, reopens, reopenWaits>>

\* handle_accept() with a connection: start() begins to read.
HandleAccept(i, c) ==
  /\ Handles(i, AcceptHandler(c)) /\ thread' = [thread EXCEPT ![i] = c]
  /\ UNCHANGED <<runPc, stopped, next_io_service_, accepting, backlog, client, stopSignal, hups, reopens, reopenWaits>>

\* start() answers, or its read failed; handle_accept() accepts the next.
ConnectionServed(i, c) ==
  /\ thread[i] = c /\ client[c] \in {"sent", "left"}
  /\ client' = [client EXCEPT ![c] = IF @ = "sent" THEN "answered" ELSE @]
  /\ thread' = [thread EXCEPT ![i] = "idle"] /\ StartAccept
  /\ UNCHANGED <<runPc, queue, stopped, backlog, stopSignal, hups, reopens, reopenWaits>>

\* io_service::run() returns once it is stopped and no handler is running.
ThreadEnds(i) ==
  /\ runPc = "running" /\ i \in stopped /\ thread[i] = "idle" /\ thread' = [thread EXCEPT ![i] = "none"]
  /\ UNCHANGED <<runPc, queue, stopped, next_io_service_, accepting, backlog, client, stopSignal, hups, reopens, reopenWaits>>

\* IoServicePool::run() joins its threads.
Joined == \A i \in Services : thread[i] = "none"

RunReturns ==
  /\ runPc = "running" /\ Joined /\ runPc' = "returned"
  /\ UNCHANGED <<queue, thread, stopped, next_io_service_, accepting, backlog, client, stopSignal, hups, reopens, reopenWaits>>

Thread(i) ==
  \/ HandleStop(i) \/ HandleLogReopen(i) \/ HandleAcceptError(i) \/ ThreadEnds(i)
  \/ \E c \in Clients : HandleAccept(i, c) \/ ConnectionServed(i, c)

Next ==
  \/ \E c \in Clients : Connect(c) \/ SendOrLeave(c)
  \/ RaiseStop \/ RaiseHup \/ AcceptCompletes
  \/ Run \/ Stop \/ RunReturns
  \/ \E i \in Services : Thread(i)

Spec == Init /\ [][Next]_vars

\* The threads run, the kernel accepts a connection that waits (now and then it
\* may fail to), and clients that are not silent send or close.
Fairness ==
  /\ WF_vars(Run) /\ WF_vars(RunReturns) /\ \A i \in Services : WF_vars(Thread(i))
  /\ SF_vars(AcceptCompletes /\ backlog' # backlog)
  /\ SilentClients \/ \A c \in Clients : WF_vars(SendOrLeave(c))
FairSpec == Spec /\ Fairness

---------------------------------------------------------------------------
(* Properties *)

\* A signal to stop, or a call of stop(), makes run() return.
StopEndsRun == stopSignal # "no" ~> runPc = "returned"

\* Every client that sends a request is answered, unless the server stops:
\* clients that leave and accepts that fail do not end the accepting.
EveryClientAnswered == \A c \in Clients : client[c] = "sent" ~> client[c] = "answered" \/ stopSignal # "no"

\* Every SIGHUP makes the log be reopened, unless the server stops.
EveryHupReopens == \A n \in 1 .. MaxHups : hups = n ~> reopens >= n \/ stopSignal # "no"
==========================================================================
