--------------------------- MODULE RequestProofs ---------------------------
(***************************************************************************)
(* Proofs about the two ends of a request in MCRequests: Client, for any   *)
(* number of attempts and whatever the server does, and Connection (its    *)
(* instance Conn), for any white lists and commands of the application.    *)
(***************************************************************************)
EXTENDS MCRequests, SequenceTheorems, TLAPS

---------------------------------------------------------------------------
(* Client: what is made again *)

\* The attempt has failed in a way that lets the caller make it again.
GivenUp(a) == a \in timedOut \/ reply[a].sts \in Refusals

\* Every attempt but the last was given up, and none that was carried out has
\* been answered with a refusal.
RetryInv ==
  /\ attempt \in Nat /\ reply \in [Attempts -> Replies \cup {Garbage, NoReply}]
  /\ pc = "idle" => attempt = 0
  /\ pc \in {"running", "RetryableCommsFailure"} => attempt \in Attempts
  /\ executed \subseteq Attempts /\ \A a \in executed : reply[a] # NoReply /\ reply[a].sts \notin Refusals
  /\ pc = "RetryableCommsFailure" => GivenUp(attempt)
  /\ \A a \in Attempts : a < attempt => GivenUp(a)

LEMMA NotRefusals == /\ NoReply.sts \notin Refusals /\ Garbage.sts \notin Refusals
                     /\ \A r \in Replies \cup {Garbage} : r # NoReply
<1>1. NoReply.sts = "no reply" /\ Garbage.sts = "not json" BY DEF NoReply, Garbage
<1>2. \A r \in Replies : r.sts \in Statuses BY DEF Replies
<1>3. {"no reply", "not json"} \cap Statuses = {} BY DEF Statuses, Refusals
<1>4. Refusals \subseteq Statuses BY DEF Statuses
<1>5. "not json" # "no reply" OBVIOUS
<1> QED BY <1>1, <1>2, <1>3, <1>4, <1>5

LEMMA InitRetry == ASSUME MaxAttempts \in Nat, Init PROVE RetryInv
BY DEF Init, RetryInv, Attempts

\* A step of the client that makes no request and gives up at most this one.
LEMMA ClientRetry ==
  ASSUME RetryInv, UNCHANGED <<attempt, reply, executed>>, timedOut \subseteq timedOut', pc' # "idle",
         pc' = pc \/ pc' \notin {"running", "RetryableCommsFailure"}
           \/ (pc = "running" /\ pc' = "RetryableCommsFailure" /\ (attempt \in timedOut' \/ reply[attempt].sts \in Refusals))
  PROVE  RetryInv'
BY DEF RetryInv, GivenUp

LEMMA ConstructRetry ==
  ASSUME MaxAttempts \in Nat, RetryInv, NEW failure, Construct(failure) PROVE RetryInv'
<1>1. attempt' = attempt + 1 /\ attempt < MaxAttempts /\ UNCHANGED <<reply, executed, timedOut>>
      /\ pc' \in {"running", "other exception"} /\ pc \in {"idle", "RetryableCommsFailure"}
  BY DEF Construct, server
<1>a. attempt \in Nat BY DEF RetryInv
<1>d. attempt' = attempt + 1 /\ attempt < MaxAttempts BY <1>1
<1>2. attempt' \in Attempts /\ attempt' \in Nat BY <1>d, <1>a DEF Attempts
<1>b. \A a \in Attempts : a < attempt' => a < attempt \/ a = attempt BY <1>d, <1>a DEF Attempts
<1>c. pc = "idle" => \A a \in Attempts : a # attempt BY DEF RetryInv, Attempts
<1>3. \A a \in Attempts : a < attempt' => GivenUp(a)' 
  <2>1. \A a \in Attempts : a < attempt => GivenUp(a) BY DEF RetryInv
  <2>2. pc = "RetryableCommsFailure" => GivenUp(attempt) BY DEF RetryInv
  <2>3. \A a \in Attempts : GivenUp(a) => GivenUp(a)' BY <1>1 DEF GivenUp
  <2> QED BY <1>1, <1>b, <1>c, <2>1, <2>2, <2>3
<1>4. UNCHANGED <<reply, executed>> BY <1>1
<1> QED BY <1>1, <1>2, <1>3, <1>4, Zenon DEF RetryInv

\* An answer to an attempt that has none leaves refusals, and those given up, as they were.
LEMMA ServeRetry ==
  ASSUME RetryInv, NEW b \in Attempts, NEW r \in Replies \cup {Garbage}, Serve(b, r) PROVE RetryInv'
<1>1. /\ reply[b] = NoReply /\ reply' = [reply EXCEPT ![b] = r] /\ UNCHANGED <<pc, attempt, timedOut>>
      /\ executed' = IF r.sts \in Refusals THEN executed ELSE executed \cup {b}
  BY DEF Serve, client
<1>2. reply'[b] = r /\ \A a \in Attempts \ {b} : reply'[a] = reply[a] BY <1>1 DEF RetryInv
<1>3. \A a \in Attempts : GivenUp(a) => GivenUp(a)' BY <1>1, <1>2, NotRefusals DEF GivenUp
<1>4. reply' \in [Attempts -> Replies \cup {Garbage, NoReply}] BY <1>1 DEF RetryInv
<1>5. b \notin executed BY <1>1 DEF RetryInv
<1>6. executed' \subseteq Attempts BY <1>1 DEF RetryInv
<1>7. \A a \in executed' : reply'[a] # NoReply /\ reply'[a].sts \notin Refusals BY <1>1, <1>2, <1>5, NotRefusals DEF RetryInv
<1> QED BY <1>1, <1>3, <1>4, <1>6, <1>7 DEF RetryInv, GivenUp

LEMMA NextRetry == ASSUME MaxAttempts \in Nat, RetryInv, [Next]_vars PROVE RetryInv'
<1>1. ASSUME NEW h, Fail(h) PROVE RetryInv' BY <1>1, ClientRetry DEF Fail, server
<1>2. ASSUME NEW atOnce, HandleConnect(atOnce) PROVE RetryInv' BY <1>2, ClientRetry DEF HandleConnect, Handles
<1>3. ASSUME HandleWrite PROVE RetryInv' BY <1>3, ClientRetry DEF HandleWrite, Handles, server
<1>4. ASSUME HandleRead PROVE RetryInv' BY <1>4, ClientRetry DEF HandleRead, Handles, FailureOf, server
<1>5. ASSUME NEW error, HandleTimeout(error) PROVE RetryInv' BY <1>5, ClientRetry DEF HandleTimeout, Handles, server
<1>6. ASSUME RunReturns PROVE RetryInv' BY <1>6, ClientRetry DEF RunReturns, server
<1>7. ASSUME TimerExpires PROVE RetryInv' BY <1>7, ClientRetry DEF TimerExpires, server
<1>8. ASSUME NEW error, ConnectCompletes(error) \/ WriteCompletes(error) \/ ReadCompletes(error) PROVE RetryInv'
  BY <1>8, ClientRetry DEF ConnectCompletes, WriteCompletes, ReadCompletes, Complete, server
<1>9. CASE UNCHANGED vars BY <1>9 DEF vars, client, server, RetryInv, GivenUp
<1> QED BY <1>1, <1>2, <1>3, <1>4, <1>5, <1>6, <1>7, <1>8, <1>9, ConstructRetry, ServeRetry DEF Next, RunHandler

(* A request that the server carried out is made again only if the timer had
   given up on it, however late the server gets to the attempts and in
   whatever order it answers them. *)
THEOREM TwiceOnlyAfterTimeoutCorrect == ASSUME MaxAttempts \in Nat PROVE Spec => []TwiceOnlyAfterTimeout
<1>1. Init => RetryInv BY InitRetry
<1>2. RetryInv /\ [Next]_vars => RetryInv' BY NextRetry
<1>3. RetryInv => TwiceOnlyAfterTimeout BY DEF RetryInv, TwiceOnlyAfterTimeout, GivenUp
<1> QED BY <1>1, <1>2, <1>3, PTL DEF Spec

---------------------------------------------------------------------------
(* Client: what waits in the io_service's queue *)

Chain == {"connect", "write", "read"} \X {"ok", "error"}
Expired == <<"timer", "ok">>
Aborted == <<"timer", "aborted">>

\* Until the answer is read there is one operation of the chain and one of the
\* timer, each in progress or completed.
Waiting ==
  \/ op # "none" /\ timer = "waiting" /\ ready = <<>>
  \/ op # "none" /\ timer = "off" /\ ready = <<Expired>>
  \/ op = "none" /\ timer = "waiting" /\ \E c \in Chain : ready = <<c>>
  \/ op = "none" /\ timer = "off" /\ \E c \in Chain : ready = <<c, Expired>> \/ ready = <<Expired, c>>

\* Once it is read only the timer is left, cancelled or too late for that.
HasAnswer ==
  /\ Succeeds(response_) /\ op = "none" /\ timer = "off"
  /\ ready = <<>> \/ ready = <<Aborted>> \/ ready = <<Expired>>

QueueInv ==
  /\ pc = "running" => (response_ = NoReply /\ Waiting) \/ HasAnswer
  /\ pc = "returned" => Succeeds(response_)

\* The constructor returns only with a success.
ReturnsSuccess == pc = "returned" => Succeeds(response_)

LEMMA NoReplyFails == ~Succeeds(NoReply) BY DEF Succeeds, NoReply

LEMMA AppendToOne == ASSUME NEW x, NEW y PROVE Append(<<x>>, y) = <<x, y>>
<1> DEFINE S == {x, y}
<1>1. <<x>> \in Seq(S) /\ Len(<<x>>) = 1 /\ <<x>>[1] = x /\ y \in S OBVIOUS
<1>2. <<x, y>> \in Seq(S) /\ Len(<<x, y>>) = 2 /\ <<x, y>>[1] = x /\ <<x, y>>[2] = y OBVIOUS
<1>3. Append(<<x>>, y) \in Seq(S) /\ Len(Append(<<x>>, y)) = 2 /\ Append(<<x>>, y)[1] = x /\ Append(<<x>>, y)[2] = y BY <1>1, AppendProperties
<1>4. \A i \in 1 .. 2 : i = 1 \/ i = 2 OBVIOUS
<1> QED BY <1>2, <1>3, <1>4, SeqEqual

LEMMA NextQueue == ASSUME QueueInv, [Next]_vars PROVE QueueInv'
<1>0. CASE pc' \notin {"running", "returned"} BY <1>0 DEF QueueInv
<1>1. ASSUME NEW failure, Construct(failure) PROVE QueueInv'
  BY <1>1 DEF Construct, QueueInv, Waiting
<1>2. ASSUME NEW name \in {"connect", "write", "read"}, NEW error \in {"ok", "error"}, Complete(name, error), UNCHANGED <<pc, timer, response_>>
      PROVE  QueueInv'
  <2>1. op # "none" /\ pc = "running" /\ op' = "none" /\ ready' = Append(ready, <<name, error>>) BY <1>2 DEF Complete
  <2>2. response_ = NoReply /\ Waiting BY <2>1 DEF QueueInv, HasAnswer
  <2>3. <<name, error>> \in Chain BY DEF Chain
  <2>4. Append(<<>>, <<name, error>>) = <<<<name, error>>>> OBVIOUS
  <2>5. Append(<<Expired>>, <<name, error>>) = <<Expired, <<name, error>>>> BY AppendToOne
  <2>6. Waiting' BY <1>2, <2>1, <2>2, <2>3, <2>4, <2>5 DEF Waiting
  <2> QED BY <1>2, <2>1, <2>2, <2>6 DEF QueueInv
<1>3. ASSUME TimerExpires PROVE QueueInv'
  <2>1. pc = "running" /\ timer = "waiting" /\ timer' = "off" /\ ready' = Append(ready, Expired) /\ UNCHANGED <<pc, op, response_>>
    BY <1>3 DEF TimerExpires, Expired
  <2>2. response_ = NoReply /\ Waiting BY <2>1 DEF QueueInv, HasAnswer
  <2>3. Append(<<>>, Expired) = <<Expired>> /\ \A c \in Chain : Append(<<c>>, Expired) = <<c, Expired>> BY AppendToOne
  <2>4. Waiting' BY <2>1, <2>2, <2>3 DEF Waiting
  <2> QED BY <2>1, <2>2, <2>4 DEF QueueInv
<1>4. ASSUME NEW name \in {"connect", "write", "read"}, Handles(name, "ok")
      PROVE  /\ pc = "running" /\ response_ = NoReply /\ op = "none"
             /\ timer = "waiting" => Tail(ready) = <<>>
             /\ timer # "waiting" => Tail(ready) = <<Expired>> /\ timer = "off"
  <2>1. pc = "running" /\ ready # <<>> /\ Head(ready) = <<name, "ok">> BY <1>4 DEF Handles
  <2>2. Head(ready)[1] # "timer" BY <2>1
  <2>3. Head(<<Expired>>)[1] = "timer" /\ Head(<<Aborted>>)[1] = "timer" /\ \A c \in Chain : Head(<<Expired, c>>)[1] = "timer"
    BY DEF Expired, Aborted
  <2>4. \A c \in Chain : Tail(<<c>>) = <<>> /\ Tail(<<c, Expired>>) = <<Expired>> OBVIOUS
  <2>5. response_ = NoReply /\ Waiting BY <2>1, <2>2, <2>3 DEF QueueInv, HasAnswer
  <2> QED BY <2>1, <2>2, <2>3, <2>4, <2>5 DEF Waiting
<1>5. ASSUME NEW atOnce, HandleConnect(atOnce) PROVE QueueInv'
  <2>1. Handles("connect", "ok") /\ UNCHANGED <<pc, timer, response_>>
        /\ \/ op' = "none" /\ ready' = Append(Tail(ready), <<"write", "ok">>)
           \/ op' = "write" /\ ready' = Tail(ready)
    BY <1>5, Zenon DEF HandleConnect
  <2>2. <<"write", "ok">> \in Chain BY DEF Chain
  <2>3. Append(<<>>, <<"write", "ok">>) = <<<<"write", "ok">>>> /\ Append(<<Expired>>, <<"write", "ok">>) = <<Expired, <<"write", "ok">>>> BY AppendToOne
  <2>4. Waiting' BY <1>4, <2>1, <2>2, <2>3 DEF Waiting
  <2> QED BY <1>4, <2>1, <2>4 DEF QueueInv
<1>6. ASSUME HandleWrite PROVE QueueInv'
  <2>1. Handles("write", "ok") /\ UNCHANGED <<pc, timer, response_>> /\ op' = "read" /\ ready' = Tail(ready) BY <1>6 DEF HandleWrite
  <2>2. Waiting' BY <1>4, <2>1 DEF Waiting
  <2> QED BY <1>4, <2>1, <2>2 DEF QueueInv
<1>7. ASSUME HandleRead PROVE QueueInv'
  <2>1. CASE pc' = pc
    <3>1. Handles("read", "ok") BY <1>7 DEF HandleRead
    <3>2. pc = "running" BY <1>4, <3>1
    <3>3. response_' = reply[attempt] /\ op' = op /\ Succeeds(reply[attempt]) /\ Cancel
      BY <1>7, <2>1, <3>2 DEF HandleRead, FailureOf
    <3>4. Append(<<>>, Aborted) = <<Aborted>> OBVIOUS
    <3>5. timer' = "off" /\ (ready' = <<Aborted>> \/ ready' = <<Expired>>) BY <1>4, <3>1, <3>3, <3>4 DEF Cancel, Aborted
    <3>6. HasAnswer' BY <1>4, <3>1, <3>3, <3>5 DEF HasAnswer, Succeeds
    <3> QED BY <2>1, <3>2, <3>6 DEF QueueInv
  <2>2. CASE pc' # pc
    <3>1. pc' \notin {"running", "returned"} BY <1>7, <2>2 DEF HandleRead, FailureOf
    <3> QED BY <1>0, <3>1
  <2> QED BY <2>1, <2>2
<1>8. ASSUME NEW error, HandleTimeout(error) PROVE QueueInv'
  <2>1. CASE error # "aborted" BY <1>8, <2>1, <1>0 DEF HandleTimeout
  <2>2. CASE error = "aborted"
    <3>1. pc = "running" /\ ready # <<>> /\ Head(ready) = Aborted /\ ready' = Tail(ready) /\ UNCHANGED <<pc, op, timer, response_>>
      BY <1>8, <2>2 DEF HandleTimeout, Handles, Aborted
    <3>2. Aborted # Expired /\ \A c \in Chain : Aborted # c BY DEF Aborted, Expired, Chain
    <3>3. Head(<<Expired>>) = Expired /\ \A c \in Chain : Head(<<c>>) = c /\ Head(<<Expired, c>>) = Expired /\ Head(<<c, Expired>>) = c OBVIOUS
    <3>4. ~Waiting BY <3>1, <3>2, <3>3 DEF Waiting
    <3>5. HasAnswer BY <3>1, <3>4 DEF QueueInv
    <3>6. ready = <<Aborted>> BY <3>1, <3>2, <3>3, <3>5 DEF HasAnswer
    <3>7. Tail(<<Aborted>>) = <<>> OBVIOUS
    <3>8. HasAnswer' BY <3>1, <3>5, <3>6, <3>7 DEF HasAnswer, Succeeds
    <3> QED BY <3>1, <3>8 DEF QueueInv
  <2> QED BY <2>1, <2>2
<1>9. ASSUME RunReturns PROVE QueueInv'
  <2>1. pc = "running" /\ ready = <<>> /\ op = "none" /\ pc' = "returned" /\ UNCHANGED response_ BY <1>9 DEF RunReturns
  <2>2. ~Waiting
    <3>1. \A c \in Chain : <<c>> # <<>> /\ <<c, Expired>> # <<>> /\ <<Expired, c>> # <<>> OBVIOUS
    <3> QED BY <2>1, <3>1 DEF Waiting
  <2> QED BY <2>1, <2>2 DEF QueueInv, HasAnswer, Succeeds
<1>10. ASSUME UNCHANGED <<pc, op, ready, timer, response_>> PROVE QueueInv'
  BY <1>10 DEF QueueInv, Waiting, HasAnswer, Succeeds
<1>11. ASSUME NEW h, Fail(h) PROVE QueueInv' BY <1>11, <1>0 DEF Fail
<1>12. ASSUME NEW error \in {"ok", "error"}, ConnectCompletes(error) \/ WriteCompletes(error) \/ ReadCompletes(error) PROVE QueueInv'
  BY <1>2, <1>12 DEF ConnectCompletes, WriteCompletes, ReadCompletes
<1>13. ASSUME NEW a, NEW r, Serve(a, r) PROVE QueueInv' BY <1>10, <1>13 DEF Serve, client
<1>14. CASE UNCHANGED vars BY <1>10, <1>14 DEF vars, client
<1> QED BY <1>1, <1>3, <1>5, <1>6, <1>7, <1>8, <1>9, <1>11, <1>12, <1>13, <1>14 DEF Next, RunHandler

LEMMA QueueInvariant == Spec => []QueueInv
<1>1. Init => QueueInv BY DEF Init, QueueInv
<1>2. QueueInv /\ [Next]_vars => QueueInv' BY NextQueue
<1> QED BY <1>1, <1>2, PTL DEF Spec

(* Once handle_read() has stopped the timer in time, nothing takes the answer
   from the caller: no handler that throws is left in the queue. *)
THEOREM AnswerInTimeKeptCorrect == Spec => AnswerInTimeKept
<1> DEFINE InTime == Succeeds(response_) /\ pc = "running" /\ (timer = "waiting" \/ ready = <<<<"timer", "aborted">>>>)
<1>1. ASSUME QueueInv, InTime, [Next]_vars PROVE pc' \in {"running", "returned"}
  <2>1. HasAnswer /\ ready = <<Aborted>> /\ op = "none" /\ timer = "off"
    <3>1. HasAnswer BY <1>1, NoReplyFails DEF QueueInv
    <3> QED BY <3>1, <1>1 DEF HasAnswer, Aborted
  <2>2. \A name, error : Handles(name, error) => <<name, error>> = Aborted
    <3>1. Head(<<Aborted>>) = Aborted OBVIOUS
    <3> QED BY <2>1, <3>1 DEF Handles
  <2>3. \A name, error : Handles(name, error) => name = "timer" /\ error = "aborted" BY <2>2 DEF Aborted
  <2>4. \A h \in {"connect", "write", "read"} : ~Fail(h) BY <2>3 DEF Fail
  <2>5. (\A atOnce \in BOOLEAN : ~HandleConnect(atOnce)) /\ ~HandleWrite /\ ~HandleRead BY <2>3 DEF HandleConnect, HandleWrite, HandleRead
  <2>6. ASSUME NEW error, HandleTimeout(error) PROVE pc' = pc BY <2>3, <2>6 DEF HandleTimeout
  <2>7. ASSUME NEW error, ConnectCompletes(error) \/ WriteCompletes(error) \/ ReadCompletes(error) PROVE FALSE
    BY <2>1, <2>7 DEF ConnectCompletes, WriteCompletes, ReadCompletes, Complete
  <2>8. ASSUME NEW failure, Construct(failure) PROVE FALSE BY <1>1, <2>8 DEF Construct
  <2>9. ASSUME NEW a, NEW r, Serve(a, r) PROVE pc' = pc BY <2>9 DEF Serve, client
  <2>10. RunReturns => pc' = "returned" BY DEF RunReturns
  <2>11. TimerExpires => pc' = pc BY DEF TimerExpires
  <2>12. UNCHANGED vars => pc' = pc BY DEF vars, client
  <2> QED BY <1>1, <2>4, <2>5, <2>6, <2>7, <2>8, <2>9, <2>10, <2>11, <2>12 DEF Next, RunHandler
<1>2. QueueInv /\ [Next]_vars => [InTime => pc' \in {"running", "returned"}]_vars BY <1>1
<1> QED BY <1>2, QueueInvariant, PTL DEF Spec, AnswerInTimeKept

(* The constructor returns without throwing only when RQST_SUCCESS was read:
   a timer that fires, a connection that breaks and an answer that is no
   success all end in an exception. *)
THEOREM ReturnsSuccessCorrect == Spec => []ReturnsSuccess
<1>1. QueueInv => ReturnsSuccess BY DEF QueueInv, ReturnsSuccess
<1> QED BY <1>1, QueueInvariant, PTL

---------------------------------------------------------------------------
(* Connection *)

LEMMA NextAnswers ==
  ASSUME Conn!FailuresExplained, Conn!SuccessIsWhole, [Conn!Next]_(Conn!vars)
  PROVE  Conn!FailuresExplained' /\ Conn!SuccessIsWhole'
<1> USE DEF Conn!FailuresExplained, Conn!SuccessIsWhole
<1>1. ASSUME connection' = "accept" \/ connection' = "read" PROVE Conn!FailuresExplained' /\ Conn!SuccessIsWhole' BY <1>1
<1>2. ASSUME NEW answer, NEW how, NEW level, Conn!Respond(answer, how, level),
             answer.sts = "SUCCESS" => how = "returned", answer.sts # "SUCCESS" => answer.erm = TRUE
      PROVE  Conn!FailuresExplained' /\ Conn!SuccessIsWhole'
  BY <1>2 DEF Conn!Respond
<1>3. ASSUME NEW status \in {"CLIENT_DENIED", "COMMAND_NOT_SUPPORTED", "INVALID_PARAMETER", "MISSING_PARAMETER", "UNKNOWN"}
      PROVE  Conn!Failure(status).sts # "SUCCESS" /\ Conn!Failure(status).erm = TRUE BY DEF Conn!Failure
<1>4. Conn!Answer("SUCCESS").sts = "SUCCESS" BY DEF Conn!Answer
<1>5. ASSUME NEW r, Conn!Accept(r) PROVE Conn!FailuresExplained' /\ Conn!SuccessIsWhole' BY <1>1, <1>5 DEF Conn!Accept
<1>6. ASSUME Conn!ReadFails \/ Conn!NotJson \/ Conn!Write PROVE Conn!FailuresExplained' /\ Conn!SuccessIsWhole'
  BY <1>1, <1>6 DEF Conn!ReadFails, Conn!NotJson, Conn!Write, Conn!Close
<1>7. ASSUME Conn!Deny PROVE Conn!FailuresExplained' /\ Conn!SuccessIsWhole' BY <1>2, <1>3, <1>7 DEF Conn!Deny
<1>8. ASSUME Conn!NotRouted PROVE Conn!FailuresExplained' /\ Conn!SuccessIsWhole' BY <1>2, <1>3, <1>8 DEF Conn!NotRouted
<1>9. ASSUME Conn!LogLevelAdjuster \/ Conn!ErrorCleaner PROVE Conn!FailuresExplained' /\ Conn!SuccessIsWhole'
  BY <1>2, <1>3, <1>4, <1>9 DEF Conn!LogLevelAdjuster, Conn!ErrorCleaner
<1>10. ASSUME NEW cmd, Conn!Reporter(cmd) PROVE Conn!FailuresExplained' /\ Conn!SuccessIsWhole' BY <1>2, <1>4, <1>10 DEF Conn!Reporter
<1>11. ASSUME NEW cmd, Conn!AppHandler(cmd) PROVE Conn!FailuresExplained' /\ Conn!SuccessIsWhole'
  BY <1>2, <1>3, <1>4, <1>11 DEF Conn!AppHandler, Conn!AnswerTo
<1>12. CASE UNCHANGED Conn!vars BY <1>12 DEF Conn!vars
<1> QED BY <1>5, <1>6, <1>7, <1>8, <1>9, <1>10, <1>11, <1>12 DEF Conn!Next

(* Whatever fails on the way of a request, in a handler or before it, is
   answered with a message, which the client class reads unasked. *)
THEOREM FailuresExplainedCorrect == Conn!Spec => []FailuresExplained
<1>1. Conn!Init => Conn!FailuresExplained /\ Conn!SuccessIsWhole BY DEF Conn!Init, Conn!FailuresExplained, Conn!SuccessIsWhole
<1> QED BY <1>1, NextAnswers, PTL DEF Conn!Spec, FailuresExplained

(* RQST_SUCCESS is answered only for a handler that has returned: the layers
   that catch an exception replace a success the handler had put already. *)
THEOREM SuccessIsWholeCorrect == Conn!Spec => []SuccessIsWhole
<1>1. Conn!Init => Conn!FailuresExplained /\ Conn!SuccessIsWhole BY DEF Conn!Init, Conn!FailuresExplained, Conn!SuccessIsWhole
<1> QED BY <1>1, NextAnswers, PTL DEF Conn!Spec, SuccessIsWhole

(* No handler runs, and no log level changes, for an address or a client that
   the white lists do not have, whatever the lists and the request are. *)
THEOREM OnlyAllowedHandledCorrect == Conn!Spec => OnlyAllowedHandled
<1> DEFINE Handled == ran' \notin {"", ran} \/ lssPerm' # lssPerm
           Allowed == request.ip \in AllowedIps /\ request.client \in AllowedClients
<1>1. ASSUME Conn!Admitted PROVE Allowed BY <1>1 DEF Conn!Admitted, Conn!AllowedIp, Conn!AllowedClient
<1>2. ASSUME NEW r, Conn!Accept(r) PROVE ~Handled BY <1>2 DEF Conn!Accept
<1>3. ASSUME Conn!ReadFails \/ Conn!NotJson \/ Conn!Write PROVE ~Handled
  BY <1>3 DEF Conn!ReadFails, Conn!NotJson, Conn!Write, Conn!Close
<1>4. ASSUME Conn!Deny PROVE ~Handled BY <1>4 DEF Conn!Deny, Conn!Respond
<1>5. ASSUME Conn!NotRouted \/ Conn!LogLevelAdjuster \/ Conn!ErrorCleaner PROVE Allowed
  BY <1>1, <1>5 DEF Conn!NotRouted, Conn!LogLevelAdjuster, Conn!ErrorCleaner, Conn!Routed
<1>6. ASSUME NEW cmd, Conn!Reporter(cmd) \/ Conn!AppHandler(cmd) PROVE Allowed
  BY <1>1, <1>6 DEF Conn!Reporter, Conn!AppHandler, Conn!Routed
<1>7. UNCHANGED Conn!vars => ~Handled BY DEF Conn!vars
<1>8. [Conn!Next]_(Conn!vars) => [Handled => Allowed]_(Conn!vars)
  BY <1>2, <1>3, <1>4, <1>5, <1>6, <1>7 DEF Conn!Next
<1> QED BY <1>8, PTL DEF Conn!Spec, OnlyAllowedHandled, Conn!OnlyAllowedHandled
=============================================================================
