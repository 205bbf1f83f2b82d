------------------------------- MODULE Kcsrt -------------------------------
(***************************************************************************)
(* kcsrt, the repository's example of kisscpp processes that are servers   *)
(* and clients of each other: each has a Server over a pool of one         *)
(* io_service, and a thread that sends one echo request after another to   *)
(* the next process.  One thread accepts, reads, answers and handles the   *)
(* signal to stop.  When run() has returned the listening socket stays     *)
(* open until the sender has been joined, and a connection made to it then *)
(* is served by nobody: the client's timer has to end it.  The processes   *)
(* allow each other's requests.                                            *)
(***************************************************************************)
EXTENDS Integers, Sequences

CONSTANTS Processes,
          o_port,      \* the process each one sends to, no two to the same
          MaxMessages  \* bound: messages each process sends

\* Each process sends to one other, and receives from one.
Ring ==
  /\ o_port \in [Processes -> Processes] /\ \A p, r \in Processes : o_port[p] = o_port[r] => p = r
  /\ MaxMessages \in [Processes -> Nat]

VARIABLES
  main,          \* main(): where it is, or how the process ended
  running,
  stopSignal,    \* whether a signal to stop was raised
  backlog,       \* connections that were made and not accepted: <<sender, messageCount>>
  serving,       \* the connection the io_service's thread reads from, or Nobody
  sender,        \* sendingProcessor(): at the test of running, in the client, or at its end
  messageCount,
  written,       \* messages whose line the sender has written
  replied,       \* whether the reply to the current message has been written
  recieved, sent, fail   \* the statistics

process == <<main, running, stopSignal>>
server == <<backlog, serving>>
thread == <<sender, messageCount, sent, fail>>
wire == <<written, replied>>
vars == <<process, server, thread, wire, recieved>>

Nobody == <<>>
InClient == {"connecting", "connected", "written"}
Over == {"ended", "aborted"}
Messages(p) == 1 .. MaxMessages[p]
Connections == UNION {{<<p, n>> : n \in Messages(p)} : p \in Processes}

TypeOK ==
  /\ main \in [Processes -> {"out", "constructed", "run", "returned", "join"} \cup Over]
  /\ running \in [Processes -> BOOLEAN] /\ stopSignal \in [Processes -> BOOLEAN]
  /\ \A p \in Processes : \A k \in DOMAIN backlog[p] : backlog[p][k] \in Connections
  /\ serving \in [Processes -> {Nobody} \cup Connections]
  /\ sender \in [Processes -> {"none", "test", "done"} \cup InClient]
  /\ replied \in [Processes -> BOOLEAN]
  /\ \A p \in Processes :
       /\ messageCount[p] \in 0 .. MaxMessages[p] /\ written[p] \subseteq Messages(p)
       /\ recieved[p] \in Nat /\ sent[p] \in Nat /\ fail[p] \in Nat

Init ==
  /\ main = [p \in Processes |-> "out"] /\ running = [p \in Processes |-> FALSE]
  /\ stopSignal = [p \in Processes |-> FALSE]
  /\ backlog = [p \in Processes |-> <<>>] /\ serving = [p \in Processes |-> Nobody]
  /\ sender = [p \in Processes |-> "none"] /\ messageCount = [p \in Processes |-> 0]
  /\ written = [p \in Processes |-> {}] /\ replied = [p \in Processes |-> FALSE]
  /\ recieved = [p \in Processes |-> 0] /\ sent = [p \in Processes |-> 0] /\ fail = [p \in Processes |-> 0]

Listening(p) == main[p] \notin {"out"} \cup Over

Move(p, from, to) == main[p] = from /\ main' = [main EXCEPT ![p] = to]
Count(count, p) == count' = [count EXCEPT ![p] = @ + 1]

---------------------------------------------------------------------------
(* main() *)

\* The constructor: the socket listens and the sender's thread starts.
Construct(p) ==
  /\ Move(p, "out", "constructed")
  /\ running' = [running EXCEPT ![p] = TRUE] /\ sender' = [sender EXCEPT ![p] = "test"]
  /\ UNCHANGED <<stopSignal, server, messageCount, sent, fail, wire, recieved>>

Run(p) == Move(p, "constructed", "run") /\ UNCHANGED <<running, stopSignal, server, thread, wire, recieved>>

\* ~kcsrt() up to the join.
Destroy(p) ==
  /\ Move(p, "returned", "join") /\ running' = [running EXCEPT ![p] = FALSE]
  /\ UNCHANGED <<stopSignal, server, thread, wire, recieved>>

\* The end of a process closes all its sockets.
SocketsClose(p) ==
  backlog' = [backlog EXCEPT ![p] = <<>>] /\ serving' = [serving EXCEPT ![p] = Nobody]

\* The sender is joined; ~Server() closes the socket, and main() returns.
Join(p) ==
  /\ sender[p] = "done" /\ Move(p, "join", "ended") /\ SocketsClose(p)
  /\ UNCHANGED <<running, stopSignal, thread, wire, recieved>>

---------------------------------------------------------------------------
(* The thread of the io_service *)

RaiseStop(p) ==
  /\ main[p] \in {"constructed", "run"} /\ ~stopSignal[p]
  /\ stopSignal' = [stopSignal EXCEPT ![p] = TRUE]
  /\ UNCHANGED <<main, running, server, thread, wire, recieved>>

\* handle_stop(): the thread ends, and run() returns.
HandleStop(p) ==
  /\ stopSignal[p] /\ serving[p] = Nobody /\ Move(p, "run", "returned")
  /\ UNCHANGED <<running, stopSignal, server, thread, wire, recieved>>

Accept(p) ==
  /\ main[p] = "run" /\ serving[p] = Nobody /\ backlog[p] # <<>>
  /\ serving' = [serving EXCEPT ![p] = Head(backlog[p])]
  /\ backlog' = [backlog EXCEPT ![p] = Tail(@)]
  /\ UNCHANGED <<process, thread, wire, recieved>>

\* Whether the client's end of a connection is still open.
Open(connection) ==
  LET p == connection[1]
  IN  messageCount[p] = connection[2] /\ sender[p] \in InClient /\ main[p] \notin Over

\* start() reads the line; EchoHandler::run() counts it and answers.
Echo(p) ==
  LET from == serving[p][1]  no == serving[p][2]
  IN  /\ main[p] = "run" /\ serving[p] # Nobody /\ no \in written[from]
      /\ serving' = [serving EXCEPT ![p] = Nobody]
      /\ Count(recieved, p) /\ replied' = [replied EXCEPT ![from] = @ \/ Open(serving[p])]
      /\ UNCHANGED <<process, backlog, thread, written>>

\* The client is gone: the socket has no remote end any more, or no line.
ReadFails(p) ==
  /\ main[p] = "run" /\ serving[p] # Nobody /\ ~Open(serving[p])
  /\ serving' = [serving EXCEPT ![p] = Nobody]
  /\ UNCHANGED <<process, backlog, thread, wire, recieved>>

---------------------------------------------------------------------------
(* sendingProcessor() *)

Alive(p) == main[p] \notin Over
Sender(p, from, to) == Alive(p) /\ sender[p] = from /\ sender' = [sender EXCEPT ![p] = to]

\* while(running): the next message, or the end.
NextMessageCounted(p) ==
  /\ running[p] /\ messageCount[p] < MaxMessages[p] /\ Sender(p, "test", "connecting")
  /\ Count(messageCount, p) /\ Count(sent, p)
  /\ UNCHANGED <<process, server, fail, wire, recieved>>
NextMessage(p) ==
  /\ running[p] /\ messageCount[p] < MaxMessages[p] /\ Sender(p, "test", "connecting")
  /\ Count(messageCount, p)
  /\ UNCHANGED <<process, server, sent, fail, wire, recieved>>
LeaveLoop(p) ==
  /\ ~running[p] /\ Sender(p, "test", "done")
  /\ UNCHANGED <<process, server, messageCount, sent, fail, wire, recieved>>

\* The kernel completes the connection, whether or not anyone will accept it.
Connect(p) ==
  /\ Listening(o_port[p]) /\ Sender(p, "connecting", "connected")
  /\ backlog' = [backlog EXCEPT ![o_port[p]] = Append(@, <<p, messageCount[p]>>)]
  /\ UNCHANGED <<process, serving, messageCount, sent, fail, wire, recieved>>

Write(p) ==
  /\ Listening(o_port[p]) /\ Sender(p, "connected", "written")
  /\ written' = [written EXCEPT ![p] = @ \cup {messageCount[p]}]
  /\ UNCHANGED <<process, server, messageCount, sent, fail, replied, recieved>>

\* The client has its answer: the message counts as sent.
Answered(p) ==
  /\ replied[p] /\ Sender(p, "written", "test") /\ Count(sent, p)
  /\ replied' = [replied EXCEPT ![p] = FALSE]
  /\ UNCHANGED <<process, server, messageCount, fail, written, recieved>>

\* A catch clause.
Fails(p) ==
  /\ \E at \in InClient : Sender(p, at, "test")
  /\ Count(fail, p) /\ replied' = [replied EXCEPT ![p] = FALSE]
  /\ UNCHANGED <<process, server, messageCount, sent, written, recieved>>

\* PerminantCommsFailure: the connection is refused, or was reset.
Refused(p) == ~Listening(o_port[p]) /\ Fails(p)

\* RetryableCommsFailure: five seconds are over, even if the answer has come
\* and its handler has run.
TimesOutConnecting(p) == sender[p] = "connecting" /\ Fails(p)
TimesOut(p) == Fails(p)

\* The resolver throws what no catch clause takes: the process is aborted.
ResolverThrows(p) ==
  /\ sender[p] = "connecting" /\ Listening(p) /\ main' = [main EXCEPT ![p] = "aborted"] /\ SocketsClose(p)
  /\ UNCHANGED <<running, stopSignal, thread, wire, recieved>>

---------------------------------------------------------------------------
Server(p) == HandleStop(p) \/ Accept(p) \/ Echo(p) \/ ReadFails(p)

Next ==
  \E p \in Processes :
    \/ Construct(p) \/ Run(p) \/ Destroy(p) \/ Join(p) \/ RaiseStop(p) \/ Server(p)
    \/ NextMessage(p) \/ LeaveLoop(p) \/ Connect(p) \/ Write(p) \/ Answered(p)
    \/ Refused(p) \/ TimesOut(p) \/ ResolverThrows(p)

Spec == Init /\ [][Next]_vars

\* main() and the two threads run, a timer goes off, and the handler of the
\* signal gets its turn in the io_service's queue once the connections ahead
\* of it are served.  No connection is sure to be made, and no line to be
\* written.
Fairness ==
  \A p \in Processes :
    /\ WF_vars(Run(p)) /\ WF_vars(Destroy(p)) /\ WF_vars(Join(p)) /\ WF_vars(LeaveLoop(p))
    /\ WF_vars(Server(p)) /\ WF_vars(HandleStop(p)) /\ WF_vars(TimesOut(p))
FairSpec == Spec /\ Fairness

---------------------------------------------------------------------------
(* Properties *)

\* A signal to stop ends the process, also when each process waits for the
\* answer of one that has stopped serving.
ProcessEnds == \A p \in Processes : stopSignal[p] ~> main[p] \in Over

\* The statistics of two processes fit: what one has counted as sent the other
\* has counted as recieved, which it does at most once a message, and every
\* message is counted as sent or as failed when the sender is done with it.
StatisticsFit ==
  \A p \in Processes :
    /\ sent[p] <= recieved[o_port[p]] /\ recieved[o_port[p]] <= messageCount[p]
    /\ sent[p] + fail[p] = messageCount[p] - (IF sender[p] \in InClient THEN 1 ELSE 0)
=============================================================================
