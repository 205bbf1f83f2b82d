---------------------------- MODULE Connection ----------------------------
(***************************************************************************)
(* kisscpp::Connection::start(), RequestRouter and the standard handlers:  *)
(* a line is read, checked against the white lists, parsed, routed to a    *)
(* handler, and answered.  An exception is turned into an answer by the    *)
(* innermost of three layers that catches it, or ends the connection       *)
(* without one.  One connection is served at a time.                       *)
(***************************************************************************)
EXTENDS Integers, FiniteSets

CONSTANTS IPs, AllowedIps,           \* isAllowedIp()
          Clients, AllowedClients,   \* isAllowedClient()
          AppCommands,               \* the commands of the application's own handlers
          RegistersErrorCleaner      \* whether the application registers it: no server does so itself

VARIABLES
  requestHandlerMap,   \* the commands that have a handler
  pc,                  \* "accept", "read", "write"
  request,             \* the line, as what is in it
  raw_response_,       \* [sts, erm]: the status ("" before it is put) and whether there is a message
  ran,                 \* how the handler ended: "", "returned", "ptree_bad_path", "std::exception", "..."
  lssPerm,             \* the log level
  sent                 \* the answer of the connection that was closed last, NoAnswer if it had none

vars == <<requestHandlerMap, pc, request, raw_response_, ran, lssPerm, sent>>

Absent == "absent"
Standard == {"kch-stats", "kch-errstat", "kch-handlers", "kch-loglevel"}
Commands == Standard \cup {"kch-errclear"} \cup AppCommands \cup {"unknown", Absent}
Levels == {"debug low", "info normal"}
Parameters == Levels \cup {"invalid", Absent}

\* A line that is not JSON, or a tree with the values the code looks at.
Requests == [json : {TRUE}, ip : IPs, client : Clients \cup {Absent}, cmd : Commands, par : Parameters]
              \cup [json : {FALSE}, ip : IPs, client : {Absent}, cmd : {Absent}, par : {Absent}]

NoAnswer == [sts |-> "", erm |-> FALSE]
Answer(status) == [sts |-> status, erm |-> FALSE]
Failure(status) == [sts |-> status, erm |-> TRUE]
Errors == {"CLIENT_DENIED", "COMMAND_NOT_SUPPORTED", "INVALID_PARAMETER", "MISSING_PARAMETER", "UNKNOWN"}

TypeOK ==
  /\ requestHandlerMap \subseteq Commands /\ pc \in {"accept", "read", "write"} /\ request \in Requests
  /\ {raw_response_, sent} \subseteq [sts : Errors \cup {"", "SUCCESS"}, erm : BOOLEAN]
  /\ (pc = "write" <=> raw_response_.sts # "") /\ lssPerm \in Levels
  /\ ran \in {"", "returned", "ptree_bad_path", "std::exception", "..."}

\* initialize_standard_handlers(), and the application's register_handler().
Handlers == Standard \cup AppCommands \cup (IF RegistersErrorCleaner THEN {"kch-errclear"} ELSE {})

Init ==
  /\ requestHandlerMap = Handlers /\ pc = "accept" /\ request = CHOOSE r \in Requests : TRUE
  /\ raw_response_ = NoAnswer /\ ran = "" /\ lssPerm = "info normal" /\ sent = NoAnswer

---------------------------------------------------------------------------
\* A connection is closed, and another object will serve the next.
Close(answer) == pc' = "accept" /\ sent' = answer /\ raw_response_' = NoAnswer /\ ran' = ""

Accept(r) ==
  /\ pc = "accept" /\ request' = r /\ pc' = "read"
  /\ UNCHANGED <<requestHandlerMap, raw_response_, ran, lssPerm, sent>>

\* The client closes before its line is complete.
ReadFails ==
  /\ pc = "read" /\ Close(NoAnswer) /\ UNCHANGED <<requestHandlerMap, request, lssPerm>>

\* read_json() throws past the layers that answer.
NotJson ==
  /\ pc = "read" /\ request.ip \in AllowedIps /\ ~request.json
  /\ Close(NoAnswer) /\ UNCHANGED <<requestHandlerMap, request, lssPerm>>

Respond(answer, how, level) ==
  /\ pc' = "write" /\ raw_response_' = answer /\ ran' = how /\ lssPerm' = level
  /\ UNCHANGED <<requestHandlerMap, request, sent>>

AllowedIp == request.ip \in AllowedIps

\* allowedClient(): a request without kcm-client is denied too.
AllowedClientById == request.client # Absent
AllowedClient == request.client \in AllowedClients

Deny ==
  /\ pc = "read" /\ (AllowedIp => request.json /\ ~AllowedClient)
  /\ Respond(Failure("CLIENT_DENIED"), "", lssPerm)

Admitted == pc = "read" /\ AllowedIp /\ request.json /\ AllowedClient

\* route_request(): no kcm-cmd, and no handler for it.
NotRouted ==
  /\ Admitted /\ request.cmd \notin requestHandlerMap
  /\ Respond(Failure(IF request.cmd = Absent THEN "MISSING_PARAMETER" ELSE "COMMAND_NOT_SUPPORTED"), "", lssPerm)

Routed(cmd) == Admitted /\ request.cmd = cmd /\ cmd \in requestHandlerMap

\* StatsReporter, ErrorReporter and HandlerReporter have an answer to anything.
Reporter(cmd) ==
  /\ cmd \in {"kch-stats", "kch-errstat", "kch-handlers"} /\ Routed(cmd)
  /\ Respond(Answer("SUCCESS"), "returned", lssPerm)

\* LogLevelAdjuster: both values are checked before either is set.
LogLevelAdjuster ==
  /\ Routed("kch-loglevel")
  /\ \/ request.par = Absent /\ Respond(Failure("MISSING_PARAMETER"), "returned", lssPerm)
     \/ request.par = "invalid" /\ Respond(Failure("INVALID_PARAMETER"), "returned", lssPerm)
     \/ request.par \in Levels /\ Respond(Answer("SUCCESS"), "returned", request.par)

\* ErrorCleaner: a count that is no number throws.
ErrorCleaner ==
  /\ Routed("kch-errclear")
  /\ \/ request.par = Absent /\ Respond(Failure("MISSING_PARAMETER"), "returned", lssPerm)
     \/ request.par = "invalid" /\ Respond(Failure("UNKNOWN"), "returned", lssPerm)
     \/ request.par \in Levels /\ Respond(Answer("SUCCESS"), "returned", lssPerm)

\* What the layers make of the way a handler of the application ends: it may
\* have put RQST_SUCCESS into the response before it throws.
AnswerToKept(how) == IF how = "ptree_bad_path" THEN Answer("SUCCESS") ELSE Failure("UNKNOWN")
AnswerToSilent(how) == Answer("UNKNOWN")
AnswerTo(how) == IF how = "ptree_bad_path" THEN Failure("MISSING_PARAMETER") ELSE Failure("UNKNOWN")

AppHandler(cmd) ==
  /\ cmd \in AppCommands /\ Routed(cmd)
  /\ \/ \E answer \in {Answer("SUCCESS"), Failure("INVALID_PARAMETER")} : Respond(answer, "returned", lssPerm)
     \/ \E how \in {"ptree_bad_path", "std::exception", "..."} : Respond(AnswerTo(how), how, lssPerm)

\* The answer is written; a client that has closed does not get it.
Write ==
  /\ pc = "write" /\ (Close(raw_response_) \/ Close(NoAnswer))
  /\ UNCHANGED <<requestHandlerMap, request, lssPerm>>

Next ==
  \/ \E r \in Requests : Accept(r)
  \/ ReadFails \/ NotJson \/ Deny \/ NotRouted \/ LogLevelAdjuster \/ ErrorCleaner \/ Write
  \/ \E cmd \in Commands : Reporter(cmd) \/ AppHandler(cmd)

Spec == Init /\ [][Next]_vars

---------------------------------------------------------------------------
(* Properties *)

\* An answer that is not a success has a message, which the client class reads
\* without looking whether it is there.
FailuresExplained == pc = "write" /\ raw_response_.sts # "SUCCESS" => raw_response_.erm

\* A success is answered only for a handler that returned, never for one that
\* put the status and then threw.
SuccessIsWhole == pc = "write" /\ raw_response_.sts = "SUCCESS" => ran = "returned"

\* No handler runs for an address or a client that is not in the white lists,
\* and such a request never changes the log level.
OnlyAllowedHandled ==
  [][ran' \notin {"", ran} \/ lssPerm' # lssPerm => request.ip \in AllowedIps /\ request.client \in AllowedClients]_vars
===========================================================================
