----------------------------- MODULE MCRequests -----------------------------
(***************************************************************************)
(* Processes that make and serve requests, for TLC: the client that makes  *)
(* one (Client); the connection that serves it (Connection); the processes *)
(* of an instance that start and stop around its lock file (LockFile); and *)
(* processes that send to each other (Kcsrt).  They share no state, and a  *)
(* behaviour is about one of the four.                                     *)
(***************************************************************************)
EXTENDS Client

CONSTANTS IPs, AllowedIps, Clients, AllowedClients, AppCommands, RegistersErrorCleaner,
          Processes, MaxFailures,
          Peers, o_port, MaxMessages,
          Peer1, Peer2   \* the peers of TLC's instance

VARIABLES
  subject,
  requestHandlerMap, connection, request, raw_response_, ran, lssPerm, answered,
  process, lockFile, failures, overlap,
  main, running, stopSignal, backlog, serving, sender, messageCount, written, replied, recieved, sent, fail

connectionVars == <<requestHandlerMap, connection, request, raw_response_, ran, lssPerm, answered>>
lockVars == <<process, lockFile, failures, overlap>>
peerVars == <<main, running, stopSignal, backlog, serving, sender, messageCount, written, replied, recieved, sent, fail>>

Conn == INSTANCE Connection WITH pc <- connection, sent <- answered
Lock == INSTANCE LockFile WITH pc <- process
Peer == INSTANCE Kcsrt WITH Processes <- Peers

ASSUME AttemptsAssumption == MaxAttempts \in Nat
ASSUME WhiteListAssumption == AllowedIps \subseteq IPs /\ AllowedClients \subseteq Clients
ASSUME FailuresAssumption == MaxFailures \in Nat
ASSUME PeersAssumption == Peer!Ring

---------------------------------------------------------------------------
\* Two processes that send to each other, the first one twice.
MCPort == [p \in Peers |-> IF p = Peer1 THEN Peer2 ELSE Peer1]
MCMessages == [p \in Peers |-> IF p = Peer1 THEN 2 ELSE 1]

---------------------------------------------------------------------------
MCInit == /\ Init /\ Conn!Init /\ Lock!Init /\ Peer!Init
          /\ subject \in {"client", "connection", "lock file", "peers"}
MCNext ==
  \/ subject = "client" /\ Next /\ UNCHANGED <<connectionVars, lockVars, peerVars, subject>>
  \/ subject = "connection" /\ Conn!Next /\ UNCHANGED <<vars, lockVars, peerVars, subject>>
  \/ subject = "lock file" /\ Lock!Next /\ UNCHANGED <<vars, connectionVars, peerVars, subject>>
  \/ subject = "peers" /\ Peer!Next /\ UNCHANGED <<vars, connectionVars, lockVars, subject>>
MCSpec == /\ MCInit /\ [][MCNext]_<<vars, connectionVars, lockVars, peerVars, subject>>
          /\ \/ subject = "client" /\ Fairness
             \/ subject = "peers" /\ Peer!Fairness
             \/ subject \in {"connection", "lock file"}

\* The properties of Connection: a failure has a message ...
FailuresExplained == Conn!FailuresExplained
\* ... a success is that of a handler that returned ...
SuccessIsWhole == Conn!SuccessIsWhole
\* ... and only what the white lists allow is handled.
OnlyAllowedHandled == Conn!OnlyAllowedHandled
\* The properties of LockFile: a process that serves has its lock file ...
ServesWithLock == Lock!ServesWithLock
\* ... and leaves none behind when it stops as it should.
StaleOnlyAfterFailure == Lock!StaleOnlyAfterFailure
\* The properties of Kcsrt: a signal to stop ends the process ...
ProcessEnds == Peer!ProcessEnds
\* ... and the statistics of two processes agree.
StatisticsFit == Peer!StatisticsFit
=============================================================================
