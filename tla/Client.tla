------------------------------ MODULE Client ------------------------------
(***************************************************************************)
(* kisscpp::client: the constructor makes one request, on an io_service of *)
(* its own.  It arms a timer, then connects, writes and reads, each step   *)
(* started by the handler of the one before; a handler that throws ends    *)
(* the constructor.  Completed operations wait in the io_service's queue,  *)
(* so the timer's handler may be queued behind the handler of the reply.   *)
(* The caller repeats a request that failed with RetryableCommsFailure,    *)
(* with the same request tree, and the server may still be busy with the   *)
(* request of an earlier attempt.                                          *)
(***************************************************************************)
EXTENDS Integers, Sequences, FiniteSets

CONSTANT MaxAttempts   \* bound: requests the caller makes

VARIABLES
  pc,          \* the constructor: "idle", "running", or how it ended
  attempt,     \* the number of this request
  op,          \* the operation of the chain that is in progress
  ready,       \* completed operations whose handlers have not run: <<name, error>>
  timer,       \* timeout_timer_: "waiting" or "off"
  socket_,     \* whether it is open
  response_,   \* the tree read from the server
  wire,        \* what each attempt's connection brought the server
  reply,       \* what the server answered to each attempt
  executed,    \* the attempts whose request a handler of the server carried out
  timedOut     \* history: the attempts that handle_timeout() ended

client == <<pc, attempt, op, ready, timer, socket_, response_>>
server == <<wire, reply, executed>>
vars == <<client, server, timedOut>>

Attempts == 1 .. MaxAttempts

\* A reply: its kcm-sts ("none" if absent), and whether it has a kcm-erm.
Refusals == {"APPLICATION_BUSY", "APPLICATION_SHUTING_DOWN"}
Statuses == {"SUCCESS", "COMMAND_NOT_SUPPORTED", "UNKNOWN", "none"} \cup Refusals
Replies == [sts : Statuses, erm : BOOLEAN]
Garbage == [sts |-> "not json", erm |-> FALSE]
NoReply == [sts |-> "no reply", erm |-> FALSE]

Ended == {"returned", "RetryableCommsFailure", "PerminantCommsFailure", "other exception"}

TypeOK ==
  /\ pc \in {"idle", "running"} \cup Ended /\ attempt \in 0 .. MaxAttempts
  /\ op \in {"none", "connect", "write", "read"} /\ timer \in {"waiting", "off"}
  /\ socket_ \in BOOLEAN /\ response_ \in Replies \cup {Garbage, NoReply}
  /\ Len(ready) <= 2
  /\ \A i \in DOMAIN ready : ready[i] \in {"connect", "write", "read", "timer"} \X {"ok", "error", "aborted"}
  /\ \A i, j \in DOMAIN ready : ready[i][1] = ready[j][1] => i = j
  /\ wire \in [Attempts -> {"nothing", "request", "garbled"}]
  /\ reply \in [Attempts -> Replies \cup {Garbage, NoReply}]
  /\ executed \subseteq Attempts /\ timedOut \subseteq Attempts

Init ==
  /\ pc = "idle" /\ attempt = 0 /\ op = "none" /\ ready = <<>> /\ timer = "off"
  /\ socket_ = FALSE /\ response_ = NoReply
  /\ wire = [a \in Attempts |-> "nothing"] /\ reply = [a \in Attempts |-> NoReply] /\ executed = {} /\ timedOut = {}

---------------------------------------------------------------------------
(* The io_service *)

\* deadline_timer::cancel(): too late once the handler is queued.
Cancel == /\ timer' = "off"
          /\ ready' = IF timer = "waiting" THEN Append(Tail(ready), <<"timer", "aborted">>) ELSE Tail(ready)

\* The operation in progress completes.
Complete(name, error) ==
  /\ pc = "running" /\ op = name /\ op' = "none" /\ ready' = Append(ready, <<name, error>>)

TimerExpires ==
  /\ pc = "running" /\ timer = "waiting" /\ timer' = "off" /\ ready' = Append(ready, <<"timer", "ok">>)
  /\ UNCHANGED <<pc, attempt, op, socket_, response_, server, timedOut>>

\* io_service::run() calls the handler of the operation that completed first.
Handles(name, error) == pc = "running" /\ ready # <<>> /\ Head(ready) = <<name, error>>

\* io_service::run() returns when there is nothing to wait for.
RunReturns ==
  /\ pc = "running" /\ ready = <<>> /\ op = "none" /\ timer = "off" /\ pc' = "returned"
  /\ UNCHANGED <<attempt, op, ready, timer, socket_, response_, server, timedOut>>

---------------------------------------------------------------------------
(* The constructor and the handlers *)

\* The caller makes the request, or makes it again.  The request may lack the
\* host or the port, and the resolver may throw.
Construct(failure) ==
  /\ pc \in {"idle", "RetryableCommsFailure"} /\ attempt < MaxAttempts /\ attempt' = attempt + 1
  /\ response_' = NoReply
  /\ \/ /\ failure = "none" /\ pc' = "running"
        /\ op' = "connect" /\ ready' = <<>> /\ timer' = "waiting" /\ socket_' = TRUE
     \/ /\ failure # "none" /\ pc' = "other exception"
        /\ UNCHANGED <<op, ready, timer, socket_>>
  /\ UNCHANGED <<server, timedOut>>

\* The error branch of each handler.
Fail(name) ==
  /\ Handles(name, "error") /\ socket_' = FALSE /\ Cancel /\ pc' = "PerminantCommsFailure"
  /\ UNCHANGED <<attempt, op, response_, server, timedOut>>

ConnectCompletes(error) ==
  /\ Complete("connect", error)
  /\ UNCHANGED <<pc, attempt, timer, socket_, response_, server, timedOut>>

\* handle_connect(): the request is sent from a local buffer.  What the socket
\* does not take at once is sent after the buffer is gone.
HandleConnect(atOnce) ==
  /\ Handles("connect", "ok")
  /\ \/ /\ atOnce /\ wire' = [wire EXCEPT ![attempt] = "request"]
        /\ op' = "none" /\ ready' = Append(Tail(ready), <<"write", "ok">>)
     \/ /\ ~atOnce /\ op' = "write" /\ ready' = Tail(ready) /\ UNCHANGED wire
  /\ UNCHANGED <<pc, attempt, timer, socket_, response_, reply, executed, timedOut>>

WriteCompletes(error) ==
  /\ Complete("write", error)
  /\ \E sent \in {"request", "garbled"} : wire' = [wire EXCEPT ![attempt] = IF error = "ok" THEN sent ELSE @]
  /\ UNCHANGED <<pc, attempt, timer, socket_, response_, reply, executed, timedOut>>

HandleWrite ==
  /\ Handles("write", "ok") /\ op' = "read" /\ ready' = Tail(ready)
  /\ UNCHANGED <<pc, attempt, timer, socket_, response_, server, timedOut>>

\* A reply can be read once it is there; the connection can break at any time.
ReadCompletes(error) ==
  /\ Complete("read", error)
  /\ error = "error" \/ reply[attempt] # NoReply
  /\ UNCHANGED <<pc, attempt, timer, socket_, response_, server, timedOut>>

\* handle_read(): which exception a status other than RQST_SUCCESS becomes; the
\* message is read first, and reading one that is not there throws.
FailureOfAnyStatus(r) == IF ~r.erm THEN "other exception" ELSE "RetryableCommsFailure"
FailureOf(r) ==
  IF ~r.erm THEN "other exception"
  ELSE IF r.sts \in Refusals THEN "RetryableCommsFailure" ELSE "PerminantCommsFailure"

\* get("kcm-sts", RQST_UNKNOWN).
Succeeds(r) == r.sts = "SUCCESS"

HandleRead ==
  /\ Handles("read", "ok") /\ response_' = reply[attempt]
  /\ \/ /\ reply[attempt] = Garbage /\ pc' = "other exception"
        /\ ready' = Tail(ready) /\ UNCHANGED <<timer, socket_>>
     \/ /\ reply[attempt] # Garbage /\ ~Succeeds(reply[attempt])
        /\ socket_' = FALSE /\ Cancel /\ pc' = FailureOf(reply[attempt])
     \/ Succeeds(reply[attempt]) /\ Cancel /\ UNCHANGED <<pc, socket_>>
  /\ UNCHANGED <<attempt, op, server, timedOut>>

\* handle_timeout(): an aborted wait is a timer that was cancelled.
HandleTimeoutQuietly(error) ==
  /\ Handles("timer", error) /\ ready' = Tail(ready) /\ UNCHANGED <<pc, socket_>>
  /\ UNCHANGED <<attempt, op, timer, response_, server, timedOut>>

HandleTimeoutAborted(error) ==
  /\ Handles("timer", error) /\ ready' = Tail(ready)
  /\ pc' = "RetryableCommsFailure" /\ socket_' = FALSE /\ timedOut' = timedOut \cup {attempt}
  /\ UNCHANGED <<attempt, op, timer, response_, server>>

HandleTimeout(error) ==
  /\ Handles("timer", error) /\ ready' = Tail(ready)
  /\ IF error # "aborted"
     THEN pc' = "RetryableCommsFailure" /\ socket_' = FALSE /\ timedOut' = timedOut \cup {attempt}
     ELSE UNCHANGED <<pc, socket_, timedOut>>
  /\ UNCHANGED <<attempt, op, timer, response_, server>>

---------------------------------------------------------------------------
\* The server reads an attempt's request, when it gets to it.  It carries out
\* every request it does not refuse; a line that is not JSON has no answer.
Serve(a, r) ==
  /\ wire[a] = "request" /\ reply[a] = NoReply
  /\ reply' = [reply EXCEPT ![a] = r]
  /\ executed' = IF r.sts \in Refusals THEN executed ELSE executed \cup {a}
  /\ UNCHANGED <<client, wire, timedOut>>

RunHandler ==
  \/ \E h \in {"connect", "write", "read"} : Fail(h)
  \/ \E atOnce \in BOOLEAN : HandleConnect(atOnce)
  \/ HandleWrite \/ HandleRead
  \/ \E error \in {"ok", "aborted"} : HandleTimeout(error)
  \/ RunReturns

Next ==
  \/ \E failure \in {"none", "no address", "no host"} : Construct(failure)
  \/ \E error \in {"ok", "error"} : ConnectCompletes(error) \/ WriteCompletes(error) \/ ReadCompletes(error)
  \/ TimerExpires \/ RunHandler
  \/ \E a \in Attempts, r \in Replies \cup {Garbage} : Serve(a, r)

Spec == Init /\ [][Next]_vars

\* The thread in run() calls the handlers that are ready, and time passes.
Fairness == WF_vars(RunHandler) /\ WF_vars(TimerExpires)
FairSpec == Spec /\ Fairness

---------------------------------------------------------------------------
(* Properties *)

\* A request the server carried out is made again only if the timer had given
\* up on it: no answer to a request that was carried out is taken for a refusal.
TwiceOnlyAfterTimeout == \A a \in executed : a < attempt => a \in timedOut

\* Once handle_read() has stopped the timer in time, the answer is returned.
AnswerInTimeKept ==
  [][Succeeds(response_) /\ pc = "running" /\ (timer = "waiting" \/ ready = <<<<"timer", "aborted">>>>)
     => pc' \in {"running", "returned"}]_vars

\* The constructor ends, whatever the server does: the timer sees to it.
Ends == pc = "running" ~> pc # "running"
==========================================================================
