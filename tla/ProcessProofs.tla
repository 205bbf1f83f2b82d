--------------------------- MODULE ProcessProofs ---------------------------
(***************************************************************************)
(* Proofs about the processes of MCRequests: those that start and stop     *)
(* around a lock file (Lock, an instance of LockFile), for any set of      *)
(* processes and any number of failures; and those that send to each other *)
(* (Peer, an instance of Kcsrt), for any ring of processes and any number  *)
(* of messages.                                                            *)
(***************************************************************************)
EXTENDS MCRequests, SequenceTheorems, TLAPS

---------------------------------------------------------------------------
(* The lock file *)

Locations == Lock!Starting \cup {"running", "down"}

LockTypeOK ==
  /\ process \in [Processes -> Locations]
  /\ lockFile \in BOOLEAN /\ overlap \in BOOLEAN /\ failures \in Nat

\* listen() lets one process through.
OneListens == \A p, q \in Processes : process[p] = "running" /\ process[q] = "running" => p = q

\* While no two starts overlapped, one process at a time is between the check
\* of the file and its own creation of it, and one has created it.
InTurn ==
  ~overlap =>
    /\ \A p, q \in Processes : process[p] \in Lock!Starting /\ process[q] \in Lock!Starting => p = q
    /\ \A p, q \in Processes :
         process[p] \in {"initialize", "running"} /\ process[q] \in {"initialize", "running"} => p = q
    /\ \A p \in Processes : process[p] = "createLockFile" => ~lockFile
    /\ \A p \in Processes : process[p] \in {"initialize", "running"} => lockFile

\* A file has an owner, or a failure left it.
Owned == lockFile => failures > 0 \/ \E p \in Processes : process[p] \in {"initialize", "running"}

LockInv == LockTypeOK /\ OneListens /\ InTurn /\ Owned

---------------------------------------------------------------------------
LEMMA InitLock == Lock!Init => LockInv
<1> SUFFICES ASSUME Lock!Init PROVE LockInv OBVIOUS
<1>1. LockTypeOK BY DEF Lock!Init, LockTypeOK, Locations
<1>2. \A p \in Processes : process[p] = "down" BY DEF Lock!Init
<1>3. OneListens BY <1>2 DEF OneListens
<1>4. InTurn BY <1>2 DEF InTurn, Lock!Starting
<1>5. Owned BY Zenon DEF Owned, Lock!Init
<1> QED BY <1>1, <1>3, <1>4, <1>5 DEF LockInv

\* Where every process is after p has gone from one location to another.
LEMMA GoesOnly ==
  ASSUME LockTypeOK, NEW p \in Processes, NEW to \in Locations, process' = [process EXCEPT ![p] = to]
  PROVE  /\ process' \in [Processes -> Locations]
         /\ process'[p] = to
         /\ \A q \in Processes \ {p} : process'[q] = process[q]
  BY DEF LockTypeOK

LEMMA StepType == ASSUME LockTypeOK, Lock!Next PROVE LockTypeOK'
<1> USE DEF Locations, Lock!Starting
<1>1. CASE \E p \in Processes : Lock!Start(p)
  BY <1>1 DEF LockTypeOK, Lock!Start, Lock!Goes
<1>2. CASE \E p \in Processes : Lock!CheckLockFile(p)
  BY <1>2 DEF LockTypeOK, Lock!CheckLockFile, Lock!Goes
<1>3. CASE \E p \in Processes : Lock!CreateLockFile(p)
  BY <1>3 DEF LockTypeOK, Lock!CreateLockFile, Lock!Goes
<1>4. CASE \E p \in Processes : Lock!Initialize(p)
  BY <1>4 DEF LockTypeOK, Lock!Initialize, Lock!Goes
<1>5. CASE \E p \in Processes : Lock!InitializeFails(p) \/ Lock!Killed(p)
  BY <1>5 DEF LockTypeOK, Lock!InitializeFails, Lock!Killed, Lock!Goes
<1>6. CASE \E p \in Processes : Lock!Destroy(p)
  BY <1>6 DEF LockTypeOK, Lock!Destroy, Lock!Goes, Lock!RemoveLockFile
<1>7. CASE Lock!RemoveManually
  BY <1>7 DEF LockTypeOK, Lock!RemoveManually
<1> QED BY <1>1, <1>2, <1>3, <1>4, <1>5, <1>6, <1>7 DEF Lock!Next

LEMMA StepLock == ASSUME LockInv, Lock!Next PROVE LockInv'
<1> USE DEF LockInv, OneListens, InTurn, Owned, Lock!Starting
<1>0. LockTypeOK' BY StepType
<1>1. ASSUME NEW p \in Processes, Lock!Start(p) PROVE LockInv'
  <2>1. /\ process[p] = "down" /\ process'[p] = "checkLockFile" /\ lockFile' = lockFile /\ failures' = failures
        /\ \A q \in Processes \ {p} : process'[q] = process[q]
    BY <1>1, GoesOnly DEF Lock!Start, Lock!Goes, Locations
  <2>2. ~overlap' => ~overlap /\ \A q \in Processes : process[q] \notin Lock!Starting
    BY <1>1, Zenon DEF Lock!Start
  <2>3. OneListens' /\ Owned' BY <2>1
  <2>4. InTurn' BY <2>1, <2>2
  <2> QED BY <1>0, <2>3, <2>4
<1>2. ASSUME NEW p \in Processes, Lock!CheckLockFile(p) PROVE LockInv'
  BY <1>0, <1>2, GoesOnly DEF Lock!CheckLockFile, Lock!Goes, Locations, LockTypeOK
<1>3. ASSUME NEW p \in Processes, Lock!CreateLockFile(p) PROVE LockInv'
  BY <1>0, <1>3, GoesOnly DEF Lock!CreateLockFile, Lock!Goes, Locations, LockTypeOK
<1>4. ASSUME NEW p \in Processes, Lock!Initialize(p) PROVE LockInv'
  BY <1>0, <1>4, GoesOnly DEF Lock!Initialize, Lock!CanListen, Lock!Goes, Locations, LockTypeOK
<1>5. ASSUME NEW p \in Processes, Lock!InitializeFails(p) PROVE LockInv'
  BY <1>0, <1>5, GoesOnly DEF Lock!InitializeFails, Lock!Goes, Locations, LockTypeOK
<1>6. ASSUME NEW p \in Processes, Lock!Destroy(p) PROVE LockInv'
  BY <1>0, <1>6, GoesOnly DEF Lock!Destroy, Lock!RemoveLockFile, Lock!Goes, Locations, LockTypeOK
<1>7. ASSUME NEW p \in Processes, Lock!Killed(p) PROVE LockInv'
  BY <1>0, <1>7, GoesOnly DEF Lock!Killed, Locations, LockTypeOK
<1>8. CASE Lock!RemoveManually
  BY <1>0, <1>8 DEF Lock!RemoveManually, LockTypeOK
<1> QED BY <1>1, <1>2, <1>3, <1>4, <1>5, <1>6, <1>7, <1>8 DEF Lock!Next

LEMMA LockInvariant == Lock!Spec => []LockInv
<1>1. LockInv /\ [Lock!Next]_(Lock!vars) => LockInv'
  BY StepLock DEF Lock!vars, LockInv, LockTypeOK, OneListens, InTurn, Owned
<1> QED BY InitLock, <1>1, PTL DEF Lock!Spec

---------------------------------------------------------------------------
\* A process past createLockFile() has its lock file, unless two processes were
\* in their constructors at the same time.
THEOREM ServesWithLockCorrect == Lock!Spec => []ServesWithLock
<1>1. LockInv => ServesWithLock BY DEF LockInv, InTurn, ServesWithLock, Lock!ServesWithLock
<1> QED BY LockInvariant, <1>1, PTL

\* A lock file that no process owns was left by a constructor that threw or a
\* process that was killed; ~Server() leaves none.
THEOREM StaleOnlyAfterFailureCorrect == Lock!Spec => []StaleOnlyAfterFailure
<1>1. LockInv => StaleOnlyAfterFailure
  BY DEF LockInv, Owned, StaleOnlyAfterFailure, Lock!StaleOnlyAfterFailure
<1> QED BY LockInvariant, <1>1, PTL

---------------------------------------------------------------------------
(* Processes that send to each other *)

Message == Peers \X Nat

CountsOK ==
  /\ messageCount \in [Peers -> Nat] /\ recieved \in [Peers -> Nat]
  /\ sent \in [Peers -> Nat] /\ fail \in [Peers -> Nat]
  /\ sender \in [Peers -> {"none", "test", "done"} \cup Peer!InClient]
  /\ replied \in [Peers -> BOOLEAN]

WiresOK ==
  /\ backlog \in [Peers -> Seq(Message)]
  /\ serving \in [Peers -> {Peer!Nobody} \cup Message]

\* A connection of p that r has not answered: of a message after those that r
\* counted, and before the one that p is about to connect for.
Unanswered(r, c) ==
  /\ o_port[c[1]] = r /\ recieved[r] < c[2] /\ c[2] <= messageCount[c[1]]
  /\ sender[c[1]] = "connecting" => c[2] < messageCount[c[1]]

\* Connections wait, and are served, in the order of their messages.
InOrder ==
  \A r \in Peers :
    /\ \A k \in 1 .. Len(backlog[r]) : Unanswered(r, backlog[r][k])
    /\ \A j, k \in 1 .. Len(backlog[r]) : j < k => backlog[r][j][2] < backlog[r][k][2]
    /\ serving[r] # Peer!Nobody =>
         /\ Unanswered(r, serving[r])
         /\ \A k \in 1 .. Len(backlog[r]) : serving[r][2] < backlog[r][k][2]

\* What has been received was begun, and before the connection now being made.
NotBefore(p) ==
  /\ recieved[o_port[p]] <= messageCount[p]
  /\ sender[p] = "connecting" => recieved[o_port[p]] < messageCount[p]

\* A reply stands for one message received, until the sender takes it.
RepliesCounted(p) ==
  /\ sent[p] <= recieved[o_port[p]]
  /\ replied[p] = TRUE => sent[p] + 1 <= recieved[o_port[p]]

\* The sender has counted every message but the one it is sending.
SenderCounts(p) ==
  /\ sender[p] \in Peer!InClient => sent[p] + fail[p] + 1 = messageCount[p]
  /\ sender[p] \notin Peer!InClient => sent[p] + fail[p] = messageCount[p]

Fits(p) == NotBefore(p) /\ RepliesCounted(p) /\ SenderCounts(p)

\* The sender's thread starts with the constructor.
NotStarted ==
  /\ DOMAIN main = Peers
  /\ \A p \in Peers : main[p] = "out" => sender[p] = "none"

FitInv == CountsOK /\ WiresOK /\ NotStarted /\ InOrder /\ \A p \in Peers : Fits(p)

---------------------------------------------------------------------------
LEMMA InitFit == ASSUME Peer!Ring, Peer!Init PROVE FitInv
<1>0. \A p \in Peers : o_port[p] \in Peers BY DEF Peer!Ring
<1>1. \A p \in Peers : messageCount[p] = 0 /\ recieved[p] = 0 /\ sent[p] = 0 /\ fail[p] = 0 /\ sender[p] = "none"
  BY DEF Peer!Init
<1>b. \A p \in Peers : backlog[p] = <<>> /\ serving[p] = Peer!Nobody BY DEF Peer!Init
<1>2. \A p \in Peers : replied[p] = FALSE BY Zenon DEF Peer!Init
<1>3. CountsOK BY DEF Peer!Init, CountsOK
<1>4. WiresOK BY DEF Peer!Init, WiresOK
<1>5. InOrder BY <1>b, Len(<<>>) = 0 DEF InOrder
<1>6. ASSUME NEW p \in Peers PROVE Fits(p)
  <2>1. o_port[p] \in Peers BY <1>0
  <2>2. sent[p] = 0 /\ recieved[o_port[p]] = 0 /\ fail[p] = 0 /\ messageCount[p] = 0 /\ sender[p] = "none" BY <1>1, <2>1
  <2>3. NotBefore(p) BY <2>2 DEF NotBefore
  <2>4. sent[p] <= recieved[o_port[p]] BY <2>2
  <2>5. replied[p] # TRUE BY Zenon, <1>2
  <2>6. RepliesCounted(p) BY Zenon, <2>4, <2>5 DEF RepliesCounted
  <2>7. SenderCounts(p) BY <2>2 DEF SenderCounts, Peer!InClient
  <2> QED BY <2>3, <2>6, <2>7 DEF Fits
<1>9. NotStarted BY DEF Peer!Init, NotStarted
<1> QED BY <1>3, <1>4, <1>5, <1>6, <1>9, Zenon DEF FitInv

\* While the wires stay as they are, InOrder needs only each connection.
LEMMA WiresStay ==
  ASSUME WiresOK, InOrder, UNCHANGED Peer!server,
         \A r \in Peers : \A c \in Message : Unanswered(r, c) => Unanswered(r, c)'
  PROVE  InOrder' /\ WiresOK'
<1>0. backlog' = backlog /\ serving' = serving BY DEF Peer!server
<1>1. WiresOK' BY <1>0 DEF WiresOK
<1> SUFFICES ASSUME NEW r \in Peers
    PROVE /\ \A k \in 1 .. Len(backlog[r]) : Unanswered(r, backlog[r][k])'
          /\ \A j, k \in 1 .. Len(backlog[r]) : j < k => backlog[r][j][2] < backlog[r][k][2]
          /\ serving[r] # Peer!Nobody =>
               /\ Unanswered(r, serving[r])'
               /\ \A k \in 1 .. Len(backlog[r]) : serving[r][2] < backlog[r][k][2]
  BY <1>0, <1>1, Zenon DEF InOrder, Peer!Nobody
<1>2. \A k \in 1 .. Len(backlog[r]) : backlog[r][k] \in Message BY DEF WiresOK
<1>3. serving[r] # Peer!Nobody => serving[r] \in Message BY DEF WiresOK
<1>4. \A k \in 1 .. Len(backlog[r]) : Unanswered(r, backlog[r][k])' BY <1>0, <1>2, Zenon DEF InOrder
<1>5. serving[r] # Peer!Nobody => Unanswered(r, serving[r])' BY <1>0, <1>3, Zenon DEF InOrder
<1> QED BY <1>4, <1>5, Zenon DEF InOrder

\* Steps of main() and of the handler of the signal.
LEMMA MainStep ==
  ASSUME Peer!Ring, FitInv, NEW p \in Peers,
         UNCHANGED <<Peer!server, Peer!thread, replied, recieved>>,
         main' = main \/ \E to : to # "out" /\ main' = [main EXCEPT ![p] = to]
  PROVE  FitInv'
<1>0. UNCHANGED <<backlog, serving, sender, messageCount, sent, fail, replied, recieved>> BY DEF Peer!server, Peer!thread
<1>1. CountsOK' BY <1>0 DEF CountsOK, FitInv
<1>2. NotStarted' BY <1>0 DEF NotStarted, FitInv
<1>3. WiresOK' BY <1>0 DEF WiresOK, FitInv
<1>4. InOrder' BY <1>0, Zenon DEF FitInv, InOrder, Unanswered
<1>5. \A q \in Peers : Fits(q)' BY <1>0, Zenon DEF FitInv, Fits, NotBefore, RepliesCounted, SenderCounts
<1> QED BY <1>1, <1>2, <1>3, <1>4, <1>5, Zenon DEF FitInv

\* Connections that are accepted, given up or closed.
LEMMA WiresShrink ==
  ASSUME Peer!Ring, FitInv, NEW p \in Peers,
         UNCHANGED <<Peer!thread, replied, recieved>>,
         main' = main \/ \E to \in Peer!Over : main' = [main EXCEPT ![p] = to],
         \/ backlog[p] # <<>> /\ backlog' = [backlog EXCEPT ![p] = Tail(@)] /\ serving' = [serving EXCEPT ![p] = Head(backlog[p])]
         \/ backlog' = backlog /\ serving' = [serving EXCEPT ![p] = Peer!Nobody]
         \/ Peer!SocketsClose(p)
  PROVE  FitInv'
<1>0. UNCHANGED <<sender, messageCount, sent, fail, replied, recieved>> BY DEF Peer!thread
<1>1. CountsOK' BY <1>0 DEF CountsOK, FitInv
<1>2. NotStarted' BY <1>0 DEF NotStarted, FitInv, Peer!Over
<1>5. \A q \in Peers : Fits(q)' BY <1>0, Zenon DEF FitInv, Fits, NotBefore, RepliesCounted, SenderCounts
<1>8. backlog \in [Peers -> Seq(Message)] /\ serving \in [Peers -> {Peer!Nobody} \cup Message] BY DEF FitInv, WiresOK
<1>3. CASE backlog[p] # <<>> /\ backlog' = [backlog EXCEPT ![p] = Tail(@)] /\ serving' = [serving EXCEPT ![p] = Head(backlog[p])]
  <2>0. backlog[p] \in Seq(Message) /\ backlog[p] # <<>> BY <1>3, <1>8
  <2>1. Head(backlog[p]) = backlog[p][1] /\ Head(backlog[p]) \in Message /\ Len(backlog[p]) >= 1 BY <2>0
  <2>2. Tail(backlog[p]) \in Seq(Message) /\ Len(Tail(backlog[p])) = Len(backlog[p]) - 1
        /\ \A k \in 1 .. Len(Tail(backlog[p])) : Tail(backlog[p])[k] = backlog[p][k + 1] /\ k + 1 \in 1 .. Len(backlog[p]) BY <2>0, HeadTailProperties
  <2>3. WiresOK' BY <1>3, <1>8, <2>1, <2>2 DEF WiresOK
  <2>4. ASSUME NEW r \in Peers, r # p
        PROVE  backlog'[r] = backlog[r] /\ serving'[r] = serving[r] BY <1>3, <1>8, <2>4
  <2>5. backlog'[p] = Tail(backlog[p]) /\ serving'[p] = backlog[p][1] BY <1>3, <1>8, <2>1
  <2>6. ASSUME NEW r \in Peers PROVE \A k \in 1 .. Len(backlog'[r]) : Unanswered(r, backlog[r][k])'
    <3>1. \A k \in 1 .. Len(backlog[r]) : Unanswered(r, backlog[r][k]) BY DEF FitInv, InOrder
    <3>2. CASE r = p BY <3>1, <3>2, <2>2, <2>5, <1>0 DEF Unanswered
    <3>3. CASE r # p BY <3>1, <3>3, <2>4, <1>0, Zenon DEF Unanswered
    <3> QED BY <3>2, <3>3
  <2>7. ASSUME NEW r \in Peers PROVE \A j, k \in 1 .. Len(backlog'[r]) : j < k => backlog'[r][j][2] < backlog'[r][k][2]
    <3>1. \A j, k \in 1 .. Len(backlog[r]) : j < k => backlog[r][j][2] < backlog[r][k][2] BY DEF FitInv, InOrder
    <3>2. CASE r = p
      <4>1. ASSUME NEW j \in 1 .. Len(Tail(backlog[p])), NEW k \in 1 .. Len(Tail(backlog[p])), j < k
            PROVE  Tail(backlog[p])[j][2] < Tail(backlog[p])[k][2]
        <5>1. j + 1 \in 1 .. Len(backlog[p]) /\ k + 1 \in 1 .. Len(backlog[p]) /\ j + 1 < k + 1 BY <4>1, <2>2
        <5>2. backlog[p][j + 1][2] < backlog[p][k + 1][2] BY <3>1, <3>2, <5>1
        <5> QED BY <5>2, <2>2
      <4> QED BY <3>2, <2>5, <4>1
    <3>3. CASE r # p BY <3>1, <3>3, <2>4, Zenon
    <3> QED BY <3>2, <3>3
  <2>8. ASSUME NEW r \in Peers, serving'[r] # Peer!Nobody
        PROVE  Unanswered(r, serving[r])' /\ \A k \in 1 .. Len(backlog'[r]) : serving'[r][2] < backlog'[r][k][2]
    <3>1. CASE r = p
      <4>1. Unanswered(p, backlog[p][1]) BY <2>1, <2>0 DEF FitInv, InOrder
      <4>2. Unanswered(r, serving[r])' BY <3>1, <4>1, <2>5, <1>0 DEF Unanswered
      <4>3. \A k \in 1 .. Len(backlog'[r]) : serving'[r][2] < backlog'[r][k][2] BY <3>1, <2>0, <2>1, <2>2, <2>5 DEF FitInv, InOrder
      <4> QED BY <4>2, <4>3
    <3>2. CASE r # p BY <3>2, <2>4, <2>8, <1>0, Zenon DEF FitInv, InOrder, Unanswered, Peer!Nobody
    <3> QED BY <3>1, <3>2
  <2>9. InOrder' BY <2>6, <2>7, <2>8, Zenon DEF InOrder, Peer!Nobody
  <2> QED BY <1>1, <1>2, <1>5, <2>3, <2>9, Zenon DEF FitInv
<1>4. CASE ~(backlog[p] # <<>> /\ backlog' = [backlog EXCEPT ![p] = Tail(@)] /\ serving' = [serving EXCEPT ![p] = Head(backlog[p])])
  <2>1. serving' = [serving EXCEPT ![p] = Peer!Nobody] /\ (backlog' = backlog \/ backlog' = [backlog EXCEPT ![p] = <<>>])
    BY <1>4, Zenon DEF Peer!SocketsClose
  <2>a. <<>> \in Seq(Message) OBVIOUS
  <2>b. backlog' \in [Peers -> Seq(Message)] BY <2>1, <2>a, <1>8
  <2>c. serving' \in [Peers -> {Peer!Nobody} \cup Message] BY <2>1, <1>8
  <2>2. WiresOK' BY <2>b, <2>c, Zenon DEF WiresOK, Peer!Nobody, Message
  <2>3. serving'[p] = Peer!Nobody BY <2>1, <1>8
  <2>4. \A r \in Peers : r # p => serving'[r] = serving[r] BY <2>1, <1>8
  <2>5. \A r \in Peers : backlog'[r] = backlog[r] \/ backlog'[r] = <<>> BY <2>1, <1>8
  <2>6. Len(<<>>) = 0 OBVIOUS
  <2>7. 1 .. 0 = {} OBVIOUS
  <2>8. ASSUME NEW r \in Peers
        PROVE /\ \A k \in 1 .. Len(backlog'[r]) : Unanswered(r, backlog[r][k])'
              /\ \A j, k \in 1 .. Len(backlog'[r]) : j < k => backlog'[r][j][2] < backlog'[r][k][2]
              /\ serving[r] # Peer!Nobody => \A k \in 1 .. Len(backlog'[r]) : serving[r][2] < backlog'[r][k][2]
    <3>1. CASE backlog'[r] = backlog[r]
      <4>1. ASSUME NEW k \in 1 .. Len(backlog'[r]) PROVE Unanswered(r, backlog[r][k])'
        <5>1. Unanswered(r, backlog[r][k]) BY <3>1 DEF FitInv, InOrder
        <5> QED BY <5>1, <3>1, <1>0, Zenon DEF Unanswered
      <4> QED BY <3>1, <4>1, Zenon DEF FitInv, InOrder, Peer!Nobody
    <3>2. CASE backlog'[r] = <<>>
      <4>1. 1 .. Len(backlog'[r]) = {} BY <3>2, <2>6, <2>7
      <4> QED BY <4>1, Zenon
    <3> QED BY <2>5, <3>1, <3>2
  <2>9. ASSUME NEW r \in Peers, serving'[r] # Peer!Nobody
        PROVE  Unanswered(r, serving[r])' /\ \A k \in 1 .. Len(backlog'[r]) : serving'[r][2] < backlog'[r][k][2]
    <3>1. serving'[r] = serving[r] BY <2>9, <2>3, <2>4, Zenon
    <3>2. Unanswered(r, serving[r])' BY <3>1, <2>9, <1>0, Zenon DEF FitInv, InOrder, Unanswered, Peer!Nobody
    <3> QED BY <3>1, <3>2, <2>8, <2>9, Zenon DEF Peer!Nobody
  <2>10. InOrder' BY <2>8, <2>9, Zenon DEF InOrder, Peer!Nobody
  <2> QED BY <1>1, <1>2, <1>5, <2>2, <2>10, Zenon DEF FitInv
<1> QED BY <1>3, <1>4

\* A step of the sender of p leaves the other senders as they are.
LEMMA OthersStay ==
  ASSUME Peer!Ring, FitInv, NEW p \in Peers, recieved' = recieved, CountsOK', Fits(p)', main' = main, main[p] # "out",
         \A q \in Peers \ {p} : /\ messageCount'[q] = messageCount[q] /\ sent'[q] = sent[q] /\ fail'[q] = fail[q]
                                    /\ sender'[q] = sender[q] /\ replied'[q] = replied[q]
  PROVE  NotStarted' /\ \A q \in Peers : Fits(q)'
<1>1. NotStarted' BY DEF NotStarted, FitInv
<1>2. ASSUME NEW q \in Peers PROVE Fits(q)'
  <2>1. CASE q = p BY <2>1
  <2>2. CASE q # p BY <2>2, Zenon DEF FitInv, Fits, NotBefore, RepliesCounted, SenderCounts
  <2> QED BY <2>1, <2>2
<1> QED BY <1>1, <1>2

\* The sender of p ends or goes on with its message, after one of the steps
\* that neither begin a message nor connect.
LEMMA SenderGoesOn ==
  ASSUME Peer!Ring, FitInv, NEW p \in Peers, UNCHANGED <<main, Peer!server, recieved, messageCount>>, main[p] # "out",
         NEW to, to # "connecting", sender' = [sender EXCEPT ![p] = to],
         CountsOK', Fits(p)',
         \A q \in Peers \ {p} : sent'[q] = sent[q] /\ fail'[q] = fail[q] /\ replied'[q] = replied[q]
  PROVE  FitInv'
<1>0. sender \in [Peers -> {"none", "test", "done"} \cup Peer!InClient] BY DEF FitInv, CountsOK
<1>1. sender'[p] = to /\ \A q \in Peers \ {p} : sender'[q] = sender[q] BY <1>0
<1>2. NotStarted' /\ \A q \in Peers : Fits(q)' BY <1>1, OthersStay
<1>3. ASSUME NEW r \in Peers, NEW c \in Message, Unanswered(r, c) PROVE Unanswered(r, c)'
  <2>1. c[1] \in Peers BY DEF Message
  <2>2. sender'[c[1]] = "connecting" => sender[c[1]] = "connecting" BY <1>1, <2>1
  <2> QED BY <1>3, <2>2, Zenon DEF Unanswered
<1>4. InOrder' /\ WiresOK' BY <1>3, WiresStay, Zenon DEF FitInv
<1> QED BY <1>2, <1>4, Zenon DEF FitInv

---------------------------------------------------------------------------
(* The steps of a sender *)

LEMMA Started == ASSUME FitInv, NEW p \in Peers, sender[p] # "none" PROVE main[p] # "out"
BY DEF FitInv, NotStarted

LEMMA ConstructFits == ASSUME Peer!Ring, FitInv, NEW p \in Peers, Peer!Construct(p) PROVE FitInv'
<1>0. UNCHANGED <<Peer!server, messageCount, sent, fail, replied, recieved>> /\ sender' = [sender EXCEPT ![p] = "test"] BY DEF Peer!Construct, Peer!wire
<1>a. UNCHANGED <<backlog, serving>> BY <1>0 DEF Peer!server
<1>1. sender[p] = "none" BY DEF Peer!Construct, Peer!Move, FitInv, NotStarted
<1>2. sender \in [Peers -> {"none", "test", "done"} \cup Peer!InClient] BY DEF FitInv, CountsOK
<1>3. sender'[p] = "test" /\ \A q \in Peers \ {p} : sender'[q] = sender[q] BY <1>0, <1>2
<1>4. CountsOK' BY <1>0 DEF CountsOK, FitInv
<1>5. NotStarted' BY <1>3 DEF Peer!Construct, Peer!Move, FitInv, NotStarted
<1>6. ASSUME NEW r \in Peers, NEW c \in Message, Unanswered(r, c) PROVE Unanswered(r, c)'
  <2>1. c[1] \in Peers BY DEF Message
  <2>2. sender'[c[1]] = "connecting" => sender[c[1]] = "connecting" BY <1>3, <2>1
  <2> QED BY <1>0, <1>6, <2>2, Zenon DEF Unanswered
<1>7. InOrder' /\ WiresOK' BY <1>0, <1>6, WiresStay, Zenon DEF FitInv
<1>8. ASSUME NEW q \in Peers PROVE Fits(q)'
  <2>1. /\ sender'[q] = "connecting" => sender[q] = "connecting"
        /\ sender'[q] \in Peer!InClient <=> sender[q] \in Peer!InClient BY <1>1, <1>3 DEF Peer!InClient
  <2>2. Fits(q) BY DEF FitInv
  <2> QED BY <1>0, <2>1, <2>2, Zenon DEF Fits, NotBefore, RepliesCounted, SenderCounts
<1> QED BY <1>4, <1>5, <1>7, <1>8, Zenon DEF FitInv

LEMMA LeaveLoopFits == ASSUME Peer!Ring, FitInv, NEW p \in Peers, Peer!LeaveLoop(p) PROVE FitInv'
<1>0. UNCHANGED <<main, Peer!server, messageCount, sent, fail, replied, recieved>> /\ sender[p] = "test" /\ sender' = [sender EXCEPT ![p] = "done"]
  BY DEF Peer!LeaveLoop, Peer!Sender, Peer!process, Peer!wire
<1>1. sender'[p] = "done" BY <1>0 DEF FitInv, CountsOK
<1>2. CountsOK' BY <1>0 DEF FitInv, CountsOK
<1>3. sender[p] \notin Peer!InClient /\ sender'[p] \notin Peer!InClient BY <1>0, <1>1 DEF Peer!InClient
<1>4. Fits(p)' BY <1>0, <1>1, <1>3, Zenon DEF FitInv, Fits, NotBefore, RepliesCounted, SenderCounts, Peer!InClient
<1>5. main[p] # "out" BY <1>0, Started
<1> QED BY <1>0, <1>2, <1>4, <1>5, SenderGoesOn

LEMMA WriteFits == ASSUME Peer!Ring, FitInv, NEW p \in Peers, Peer!Write(p) PROVE FitInv'
<1>0. UNCHANGED <<main, Peer!server, messageCount, sent, fail, replied, recieved>> /\ sender[p] = "connected" /\ sender' = [sender EXCEPT ![p] = "written"]
  BY DEF Peer!Write, Peer!Sender, Peer!process
<1>1. sender'[p] = "written" BY <1>0 DEF FitInv, CountsOK
<1>2. CountsOK' BY <1>0 DEF FitInv, CountsOK, Peer!InClient
<1>3. sender[p] \in Peer!InClient /\ sender'[p] \in Peer!InClient /\ sender'[p] # "connecting" BY <1>0, <1>1 DEF Peer!InClient
<1>4. Fits(p)' BY <1>0, <1>3, Zenon DEF FitInv, Fits, NotBefore, RepliesCounted, SenderCounts, Peer!InClient
<1>5. main[p] # "out" BY <1>0, Started
<1> QED BY <1>0, <1>2, <1>4, <1>5, SenderGoesOn

\* The reply that is counted as sent was counted as recieved.
LEMMA AnsweredFits == ASSUME Peer!Ring, FitInv, NEW p \in Peers, Peer!Answered(p) PROVE FitInv'
<1>0. UNCHANGED <<main, Peer!server, messageCount, fail, recieved>> /\ sender[p] = "written" /\ sender' = [sender EXCEPT ![p] = "test"]
  BY DEF Peer!Answered, Peer!Sender, Peer!process
<1>a. replied[p] = TRUE
  <2>1. replied[p] \in BOOLEAN BY DEF FitInv, CountsOK
  <2> QED BY <2>1, Zenon DEF Peer!Answered
<1>b. replied' = [replied EXCEPT ![p] = FALSE] /\ sent' = [sent EXCEPT ![p] = sent[p] + 1] BY DEF Peer!Answered, Peer!Count
<1>1. sender'[p] = "test" BY <1>0 DEF FitInv, CountsOK
<1>c. sent'[p] = sent[p] + 1 /\ \A q \in Peers \ {p} : sent'[q] = sent[q] BY <1>b DEF FitInv, CountsOK
<1>d. replied \in [Peers -> BOOLEAN] BY DEF FitInv, CountsOK
<1>e. replied' \in [Peers -> BOOLEAN] BY <1>b, <1>d, Zenon
<1>f. \A q \in Peers \ {p} : replied'[q] = replied[q] BY <1>b, <1>d, Zenon
<1>g. replied'[p] = FALSE BY <1>b, <1>d, Zenon
<1>2. CountsOK' BY <1>0, <1>b, <1>e DEF FitInv, CountsOK
<1>3. sender[p] \in Peer!InClient /\ sender'[p] \notin Peer!InClient BY <1>0, <1>1 DEF Peer!InClient
<1>h. /\ sent[p] \in Nat /\ fail[p] \in Nat /\ messageCount[p] \in Nat
      /\ recieved[o_port[p]] \in Nat BY DEF FitInv, CountsOK, Peer!Ring
<1>i. sent[p] + 1 <= recieved[o_port[p]] BY <1>a DEF FitInv, Fits, RepliesCounted
<1>j. NotBefore(p)' BY <1>0, <1>1, Zenon DEF FitInv, Fits, NotBefore
<1>k. sent'[p] <= recieved'[o_port[p]] BY <1>0, <1>i, <1>c
<1>l. RepliesCounted(p)' BY <1>k, <1>g, Zenon DEF RepliesCounted
<1>m. sent[p] + fail[p] + 1 = messageCount[p] BY <1>3, Zenon DEF FitInv, Fits, SenderCounts
<1>n. sent'[p] + fail'[p] = messageCount'[p] BY <1>0, <1>c, <1>h, <1>m
<1>o. SenderCounts(p)' BY <1>3, <1>n, Zenon DEF SenderCounts
<1>4. Fits(p)' BY <1>j, <1>l, <1>o DEF Fits
<1>5. main[p] # "out" BY <1>0, Started
<1> QED BY <1>0, <1>2, <1>4, <1>5, <1>c, <1>f, SenderGoesOn

LEMMA FailsFits == ASSUME Peer!Ring, FitInv, NEW p \in Peers, Peer!Fails(p) PROVE FitInv'
<1>0. UNCHANGED <<main, Peer!server, messageCount, sent, recieved>> /\ sender[p] \in Peer!InClient /\ sender' = [sender EXCEPT ![p] = "test"]
  BY DEF Peer!Fails, Peer!Sender, Peer!process
<1>b. replied' = [replied EXCEPT ![p] = FALSE] /\ fail' = [fail EXCEPT ![p] = fail[p] + 1] BY DEF Peer!Fails, Peer!Count
<1>1. sender'[p] = "test" BY <1>0 DEF FitInv, CountsOK
<1>c. fail'[p] = fail[p] + 1 /\ \A q \in Peers \ {p} : fail'[q] = fail[q] BY <1>b DEF FitInv, CountsOK
<1>d. replied \in [Peers -> BOOLEAN] BY DEF FitInv, CountsOK
<1>e. replied' \in [Peers -> BOOLEAN] BY <1>b, <1>d, Zenon
<1>f. \A q \in Peers \ {p} : replied'[q] = replied[q] BY <1>b, <1>d, Zenon
<1>g. replied'[p] = FALSE BY <1>b, <1>d, Zenon
<1>2. CountsOK' BY <1>0, <1>b, <1>e DEF FitInv, CountsOK
<1>3. sender'[p] \notin Peer!InClient BY <1>1 DEF Peer!InClient
<1>h. sent[p] \in Nat /\ fail[p] \in Nat /\ messageCount[p] \in Nat BY DEF FitInv, CountsOK
<1>j. NotBefore(p)' BY <1>0, <1>1, Zenon DEF FitInv, Fits, NotBefore
<1>k. sent'[p] <= recieved'[o_port[p]] BY <1>0, Zenon DEF FitInv, Fits, RepliesCounted
<1>l. RepliesCounted(p)' BY <1>k, <1>g, Zenon DEF RepliesCounted
<1>m. sent[p] + fail[p] + 1 = messageCount[p] BY <1>0, Zenon DEF FitInv, Fits, SenderCounts
<1>n. sent'[p] + fail'[p] = messageCount'[p] BY <1>0, <1>c, <1>h, <1>m
<1>o. SenderCounts(p)' BY <1>3, <1>n, Zenon DEF SenderCounts
<1>4. Fits(p)' BY <1>j, <1>l, <1>o DEF Fits
<1>5. main[p] # "out" BY <1>0, Started DEF Peer!InClient
<1> QED BY <1>0, <1>2, <1>4, <1>5, <1>c, <1>f, SenderGoesOn

\* Every connection so far is of an earlier message.
LEMMA NextMessageFits == ASSUME Peer!Ring, FitInv, NEW p \in Peers, Peer!NextMessage(p) PROVE FitInv'
<1>0. /\ UNCHANGED <<main, Peer!server, sent, fail, replied, recieved>> /\ sender[p] = "test"
      /\ sender' = [sender EXCEPT ![p] = "connecting"] /\ messageCount' = [messageCount EXCEPT ![p] = messageCount[p] + 1]
  BY DEF Peer!NextMessage, Peer!Sender, Peer!process, Peer!wire, Peer!Count
<1>1. sender'[p] = "connecting" /\ \A q \in Peers \ {p} : sender'[q] = sender[q] BY <1>0 DEF FitInv, CountsOK
<1>2. messageCount'[p] = messageCount[p] + 1 /\ \A q \in Peers \ {p} : messageCount'[q] = messageCount[q]
  BY <1>0 DEF FitInv, CountsOK
<1>3. CountsOK' BY <1>0 DEF FitInv, CountsOK, Peer!InClient
<1>4. sent[p] \in Nat /\ fail[p] \in Nat /\ messageCount[p] \in Nat /\ recieved[o_port[p]] \in Nat BY DEF FitInv, CountsOK, Peer!Ring
<1>5. sender[p] \notin Peer!InClient /\ sender'[p] \in Peer!InClient BY <1>0, <1>1 DEF Peer!InClient
<1>6. recieved[o_port[p]] <= messageCount[p] BY DEF FitInv, Fits, NotBefore
<1>7. NotBefore(p)' BY <1>0, <1>2, <1>4, <1>6 DEF NotBefore
<1>8. RepliesCounted(p)' BY <1>0, Zenon DEF FitInv, Fits, RepliesCounted
<1>9. sent[p] + fail[p] = messageCount[p] BY <1>5, Zenon DEF FitInv, Fits, SenderCounts
<1>10. sent'[p] + fail'[p] + 1 = messageCount'[p] BY <1>0, <1>2, <1>4, <1>9
<1>11. SenderCounts(p)' BY <1>5, <1>10, Zenon DEF SenderCounts
<1>12. main[p] # "out" BY <1>0, Started
<1>13. Fits(p)' BY <1>7, <1>8, <1>11 DEF Fits
<1>14. NotStarted' /\ \A q \in Peers : Fits(q)' BY <1>0, <1>1, <1>2, <1>3, <1>12, <1>13, OthersStay
<1>15. ASSUME NEW r \in Peers, NEW c \in Message, Unanswered(r, c) PROVE Unanswered(r, c)'
  <2>1. c[1] \in Peers /\ c[2] \in Nat BY DEF Message
  <2>2. CASE c[1] = p
    <3>1. c[2] <= messageCount[p] BY <1>15, <2>2 DEF Unanswered
    <3>2. c[2] < messageCount'[c[1]] /\ c[2] <= messageCount'[c[1]] BY <3>1, <2>1, <2>2, <1>2, <1>4
    <3> QED BY <3>2, <1>0, <1>15, Zenon DEF Unanswered
  <2>3. CASE c[1] # p
    <3>1. sender'[c[1]] = sender[c[1]] /\ messageCount'[c[1]] = messageCount[c[1]] BY <2>1, <2>3, <1>1, <1>2
    <3> QED BY <3>1, <1>0, <1>15, Zenon DEF Unanswered
  <2> QED BY <2>2, <2>3
<1>16. InOrder' /\ WiresOK' BY <1>0, <1>15, WiresStay, Zenon DEF FitInv
<1> QED BY <1>3, <1>14, <1>16, Zenon DEF FitInv

\* The new connection is the last of its sender, which alone connects here.
LEMMA ConnectFits == ASSUME Peer!Ring, FitInv, NEW p \in Peers, Peer!Connect(p) PROVE FitInv'
<1> DEFINE o == o_port[p]  new == <<p, messageCount[p]>>
<1> HIDE DEF o
<1>0. /\ UNCHANGED <<main, serving, messageCount, sent, fail, replied, recieved>> /\ sender[p] = "connecting"
      /\ sender' = [sender EXCEPT ![p] = "connected"] /\ backlog' = [backlog EXCEPT ![o] = Append(backlog[o], new)]
  BY DEF Peer!Connect, Peer!Sender, Peer!process, Peer!wire, o
<1>1. sender'[p] = "connected" /\ \A q \in Peers \ {p} : sender'[q] = sender[q] BY <1>0 DEF FitInv, CountsOK
<1>2. o \in Peers /\ \A q \in Peers : o_port[q] = o => q = p BY DEF Peer!Ring, o
<1>3. CountsOK' BY <1>0 DEF FitInv, CountsOK, Peer!InClient
<1>4. sender[p] \in Peer!InClient /\ sender'[p] \in Peer!InClient /\ sender'[p] # "connecting" BY <1>0, <1>1 DEF Peer!InClient
<1>5. Fits(p)' BY <1>0, <1>4, Zenon DEF FitInv, Fits, NotBefore, RepliesCounted, SenderCounts, Peer!InClient
<1>6. main[p] # "out" BY <1>0, Started
<1>7. NotStarted' /\ \A q \in Peers : Fits(q)' BY <1>0, <1>1, <1>3, <1>5, <1>6, OthersStay
<1>8. backlog[o] \in Seq(Message) /\ backlog \in [Peers -> Seq(Message)] /\ serving \in [Peers -> {Peer!Nobody} \cup Message]
  BY <1>2 DEF FitInv, WiresOK
<1>9. messageCount[p] \in Nat /\ new \in Message /\ new[1] = p /\ new[2] = messageCount[p] BY DEF FitInv, CountsOK, Message
<1> HIDE DEF new
<1>10. Append(backlog[o], new) \in Seq(Message) /\ Len(Append(backlog[o], new)) = Len(backlog[o]) + 1
       /\ Append(backlog[o], new)[Len(backlog[o]) + 1] = new /\ \A k \in 1 .. Len(backlog[o]) : Append(backlog[o], new)[k] = backlog[o][k]
  BY <1>8, <1>9, AppendProperties
<1>11. backlog'[o] = Append(backlog[o], new) /\ \A r \in Peers \ {o} : backlog'[r] = backlog[r] BY <1>0, <1>2, <1>8
<1>12. WiresOK'
  <2>1. backlog' \in [Peers -> Seq(Message)] BY <1>0, <1>8, <1>10
  <2> QED BY <1>0, <1>8, <2>1, Zenon DEF WiresOK, Peer!Nobody, Message
<1>13. ASSUME NEW r \in Peers, NEW c \in Message, Unanswered(r, c)
       PROVE  o_port[c[1]] = r /\ recieved'[r] < c[2] /\ c[2] <= messageCount'[c[1]] /\ (sender'[c[1]] = "connecting" => c[2] < messageCount'[c[1]])
  <2>1. c[1] \in Peers BY DEF Message
  <2>2. sender'[c[1]] = "connecting" => sender[c[1]] = "connecting" BY <1>1, <2>1
  <2> QED BY <1>0, <1>13, <2>2, Zenon DEF Unanswered
<1>14. o_port[new[1]] = o /\ recieved'[o] < new[2] /\ new[2] <= messageCount'[new[1]] /\ (sender'[new[1]] = "connecting" => new[2] < messageCount'[new[1]])
  <2>1. recieved[o] < messageCount[p] BY <1>0, Zenon DEF FitInv, Fits, NotBefore, o
  <2> QED BY <1>0, <1>1, <1>9, <2>1 DEF o
<1>15. \A c \in Message : Unanswered(o, c) => c[2] < new[2]
  <2> SUFFICES ASSUME NEW c \in Message, Unanswered(o, c) PROVE c[2] < new[2] OBVIOUS
  <2>1. c[1] = p BY <1>2 DEF Unanswered, Message
  <2> QED BY <1>0, <1>9, <2>1 DEF Unanswered
<1>16. ASSUME NEW r \in Peers PROVE \A k \in 1 .. Len(backlog'[r]) : Unanswered(r, backlog[r][k])'
  <2> SUFFICES ASSUME NEW k \in 1 .. Len(backlog'[r]) PROVE Unanswered(r, backlog[r][k])' OBVIOUS
  <2>1. CASE k \in 1 .. Len(backlog[r]) /\ backlog'[r][k] = backlog[r][k]
    <3>1. backlog[r][k] \in Message BY <2>1, <1>8
    <3>2. Unanswered(r, backlog[r][k]) BY <2>1 DEF FitInv, InOrder
    <3>3. /\ o_port[backlog[r][k][1]] = r /\ recieved'[r] < backlog[r][k][2] /\ backlog[r][k][2] <= messageCount'[backlog[r][k][1]]
          /\ (sender'[backlog[r][k][1]] = "connecting" => backlog[r][k][2] < messageCount'[backlog[r][k][1]]) BY <3>1, <3>2, <1>13, Zenon
    <3> QED BY <2>1, <3>3, Zenon DEF Unanswered
  <2>2. CASE r = o /\ backlog'[r][k] = new BY <2>2, <1>14, Zenon DEF Unanswered
  <2>3. r # o => k \in 1 .. Len(backlog[r]) /\ backlog'[r][k] = backlog[r][k] BY <1>11
  <2>4. r = o => (k \in 1 .. Len(backlog[r]) /\ backlog'[r][k] = backlog[r][k]) \/ backlog'[r][k] = new BY <1>8, <1>10, <1>11
  <2> QED BY <2>1, <2>2, <2>3, <2>4
<1>17. ASSUME NEW r \in Peers PROVE \A j, k \in 1 .. Len(backlog'[r]) : j < k => backlog'[r][j][2] < backlog'[r][k][2]
  <2>1. \A j, k \in 1 .. Len(backlog[r]) : j < k => backlog[r][j][2] < backlog[r][k][2] BY DEF FitInv, InOrder
  <2>2. CASE r # o BY <2>1, <2>2, <1>11, Zenon
  <2>3. CASE r = o
    <3>1. \A j \in 1 .. Len(backlog[o]) : backlog[o][j] \in Message /\ Unanswered(o, backlog[o][j]) BY <1>2, <1>8 DEF FitInv, InOrder
    <3>2. \A j \in 1 .. Len(backlog[o]) : backlog[o][j][2] < new[2] BY <3>1, <1>15, Zenon
    <3> QED BY <2>1, <2>3, <3>2, <1>8, <1>10, <1>11
  <2> QED BY <2>2, <2>3
<1>18. ASSUME NEW r \in Peers, serving'[r] # Peer!Nobody
       PROVE  Unanswered(r, serving[r])' /\ \A k \in 1 .. Len(backlog'[r]) : serving'[r][2] < backlog'[r][k][2]
  <2>1. serving'[r] = serving[r] /\ serving[r] \in Message BY <1>0, <1>8, <1>18
  <2>2. Unanswered(r, serving[r]) /\ \A k \in 1 .. Len(backlog[r]) : serving[r][2] < backlog[r][k][2]
    BY <2>1, <1>18, Zenon DEF FitInv, InOrder, Peer!Nobody
  <2>a. /\ o_port[serving[r][1]] = r /\ recieved'[r] < serving[r][2] /\ serving[r][2] <= messageCount'[serving[r][1]]
          /\ (sender'[serving[r][1]] = "connecting" => serving[r][2] < messageCount'[serving[r][1]]) BY <2>1, <2>2, <1>13, Zenon
  <2>3. Unanswered(r, serving[r])' BY <2>1, <2>a, Zenon DEF Unanswered
  <2>4. CASE r # o BY <2>1, <2>2, <2>3, <2>4, <1>11, Zenon
  <2>5. CASE r = o
    <3>1. serving[o][2] < new[2] BY <2>1, <2>2, <2>5, <1>15, Zenon
    <3>2. \A k \in 1 .. Len(backlog'[o]) : serving[o][2] < backlog'[o][k][2] BY <3>1, <2>2, <2>5, <1>8, <1>10, <1>11
    <3> QED BY <2>1, <2>3, <2>5, <3>2, Zenon
  <2> QED BY <2>4, <2>5
<1>19. InOrder' BY <1>16, <1>17, <1>18, Zenon DEF InOrder, Peer!Nobody
<1> QED BY <1>3, <1>7, <1>12, <1>19, Zenon DEF FitInv

---------------------------------------------------------------------------
\* The message that is counted was the next of its connections, so it is
\* counted once, and before its reply can be taken.
LEMMA EchoFits == ASSUME Peer!Ring, FitInv, NEW p \in Peers, Peer!Echo(p) PROVE FitInv'
<1> DEFINE c == serving[p]  from == c[1]  no == c[2]
<1>0. /\ UNCHANGED <<main, backlog, sender, messageCount, sent, fail>> /\ c # Peer!Nobody /\ serving' = [serving EXCEPT ![p] = Peer!Nobody]
      /\ recieved' = [recieved EXCEPT ![p] = recieved[p] + 1] /\ replied' = [replied EXCEPT ![from] = replied[from] \/ Peer!Open(c)]
  BY DEF Peer!Echo, Peer!process, Peer!thread, Peer!Count
<1>1. c \in Message BY <1>0 DEF FitInv, WiresOK
<1>2. from \in Peers /\ no \in Nat BY <1>1 DEF Message
<1>3. Unanswered(p, c) /\ \A k \in 1 .. Len(backlog[p]) : no < backlog[p][k][2] BY <1>0, Zenon DEF FitInv, InOrder, Peer!Nobody
<1>4. o_port[from] = p /\ recieved[p] < no /\ no <= messageCount[from] /\ (sender[from] = "connecting" => no < messageCount[from])
  BY <1>3, Zenon DEF Unanswered
<1>5. \A q \in Peers : o_port[q] \in Peers /\ (o_port[q] = p => q = from) BY <1>2, <1>4 DEF Peer!Ring
<1> HIDE DEF from, no, c
<1>6. /\ recieved \in [Peers -> Nat] /\ messageCount \in [Peers -> Nat]
      /\ sent \in [Peers -> Nat] /\ replied \in [Peers -> BOOLEAN] BY DEF FitInv, CountsOK
<1>7. recieved'[p] = recieved[p] + 1 /\ \A q \in Peers \ {p} : recieved'[q] = recieved[q] BY <1>0, <1>6
<1>8. \A q \in Peers \ {from} : replied'[q] = replied[q] BY <1>0, <1>6, Zenon
<1>9. replied' \in [Peers -> BOOLEAN]
  <2>1. (replied[from] \/ Peer!Open(c)) \in BOOLEAN BY Zenon
  <2> QED BY <1>0, <1>6, <2>1, Zenon
<1>10. CountsOK'
  <2>1. recieved' \in [Peers -> Nat] BY <1>0, <1>6
  <2> QED BY <1>0, <1>9, <2>1, Zenon DEF FitInv, CountsOK, Peer!InClient
<1>11. NotStarted' BY <1>0, Zenon DEF NotStarted, FitInv
<1>12. WiresOK' BY <1>0 DEF FitInv, WiresOK
<1>13. serving'[p] = Peer!Nobody /\ \A r \in Peers \ {p} : serving'[r] = serving[r] BY <1>0 DEF FitInv, WiresOK
<1>14. ASSUME NEW q \in Peers PROVE Fits(q)'
  <2>0. Fits(q) BY DEF FitInv
  <2>1. CASE q = from
    <3>1. NotBefore(q)' BY <2>1, <1>0, <1>2, <1>4, <1>6, <1>7 DEF NotBefore
    <3>2. sent[q] <= recieved[p] /\ o_port[q] = p BY <2>0, <2>1, <1>4, Zenon DEF Fits, RepliesCounted
    <3>3. sent[q] \in Nat /\ recieved[p] \in Nat BY <1>2, <1>6
    <3>4. sent'[q] <= recieved'[o_port[q]] /\ sent'[q] + 1 <= recieved'[o_port[q]] BY <1>0, <1>7, <3>2, <3>3
    <3>5. RepliesCounted(q)' BY <3>4, Zenon DEF RepliesCounted
    <3>6. SenderCounts(q)' BY <2>0, <1>0, Zenon DEF Fits, SenderCounts
    <3> QED BY <3>1, <3>5, <3>6 DEF Fits
  <2>2. CASE q # from
    <3>1. recieved'[o_port[q]] = recieved[o_port[q]] /\ replied'[q] = replied[q] BY <2>2, <1>5, <1>7, <1>8, Zenon
    <3> QED BY <2>0, <3>1, <1>0, Zenon DEF Fits, NotBefore, RepliesCounted, SenderCounts
  <2> QED BY <2>1, <2>2
<1>15. ASSUME NEW r \in Peers PROVE \A k \in 1 .. Len(backlog'[r]) : Unanswered(r, backlog[r][k])'
  <2> SUFFICES ASSUME NEW k \in 1 .. Len(backlog[r]) PROVE Unanswered(r, backlog[r][k])' BY <1>0
  <2>1. Unanswered(r, backlog[r][k]) /\ backlog'[r][k] = backlog[r][k] BY <1>0 DEF FitInv, InOrder
  <2>2. recieved'[r] < backlog[r][k][2]
    <3>1. CASE r # p BY <3>1, <2>1, <1>7 DEF Unanswered
    <3>2. CASE r = p
      <4>1. backlog[p][k] \in Message BY <3>2 DEF FitInv, WiresOK
      <4>2. backlog[p][k][2] \in Nat BY <4>1 DEF Message
      <4>3. no < backlog[p][k][2] BY <1>3, <3>2
      <4> QED BY <1>2, <1>4, <1>6, <1>7, <3>2, <4>2, <4>3
    <3> QED BY <3>1, <3>2
  <2> QED BY <2>1, <2>2, <1>0, Zenon DEF Unanswered
<1>16. ASSUME NEW r \in Peers, serving'[r] # Peer!Nobody
       PROVE  Unanswered(r, serving[r])' /\ \A k \in 1 .. Len(backlog'[r]) : serving'[r][2] < backlog'[r][k][2]
  <2>1. r # p /\ serving'[r] = serving[r] /\ recieved'[r] = recieved[r] BY <1>7, <1>13, <1>16, Zenon
  <2>2. Unanswered(r, serving[r]) /\ \A k \in 1 .. Len(backlog[r]) : serving[r][2] < backlog[r][k][2]
    BY <2>1, <1>16, Zenon DEF FitInv, InOrder, Peer!Nobody
  <2>3. Unanswered(r, serving[r])' BY <2>1, <2>2, <1>0, Zenon DEF Unanswered
  <2> QED BY <2>1, <2>2, <2>3, <1>0, Zenon
<1>17. \A r \in Peers : \A j, k \in 1 .. Len(backlog'[r]) : j < k => backlog'[r][j][2] < backlog'[r][k][2]
  BY <1>0, Zenon DEF FitInv, InOrder
<1>18. InOrder' BY <1>15, <1>16, <1>17, Zenon DEF InOrder, Peer!Nobody
<1> QED BY <1>10, <1>11, <1>12, <1>14, <1>18, Zenon DEF FitInv

---------------------------------------------------------------------------
LEMMA NextFits == ASSUME Peer!Ring, FitInv, [Peer!Next]_(Peer!vars) PROVE FitInv'
<1>1. ASSUME NEW p \in Peers, Peer!Run(p) PROVE FitInv' BY <1>1, MainStep DEF Peer!Run, Peer!Move, Peer!wire
<1>2. ASSUME NEW p \in Peers, Peer!Destroy(p) PROVE FitInv' BY <1>2, MainStep DEF Peer!Destroy, Peer!Move, Peer!wire
<1>3. ASSUME NEW p \in Peers, Peer!Join(p) PROVE FitInv' BY <1>3, WiresShrink DEF Peer!Join, Peer!Move, Peer!Over, Peer!wire
<1>4. ASSUME NEW p \in Peers, Peer!RaiseStop(p) PROVE FitInv' BY <1>4, MainStep DEF Peer!RaiseStop, Peer!wire
<1>5. ASSUME NEW p \in Peers, Peer!HandleStop(p) PROVE FitInv' BY <1>5, MainStep DEF Peer!HandleStop, Peer!Move, Peer!wire
<1>6. ASSUME NEW p \in Peers, Peer!Accept(p) PROVE FitInv' BY <1>6, WiresShrink DEF Peer!Accept, Peer!process, Peer!wire
<1>7. ASSUME NEW p \in Peers, Peer!ReadFails(p) PROVE FitInv' BY <1>7, WiresShrink DEF Peer!ReadFails, Peer!process, Peer!wire
<1>8. ASSUME NEW p \in Peers, Peer!ResolverThrows(p) PROVE FitInv' BY <1>8, WiresShrink DEF Peer!ResolverThrows, Peer!Over, Peer!wire
<1>9. ASSUME NEW p \in Peers, Peer!Refused(p) \/ Peer!TimesOut(p) PROVE FitInv' BY <1>9, FailsFits DEF Peer!Refused, Peer!TimesOut
<1>10. CASE UNCHANGED Peer!vars
  <2>1. UNCHANGED <<main, Peer!server, Peer!thread, replied, recieved>> BY <1>10 DEF Peer!vars, Peer!process, Peer!wire
  <2>2. CASE Peers = {} BY <2>1, <2>2, Zenon DEF FitInv, CountsOK, WiresOK, NotStarted, InOrder, Peer!server, Peer!thread, Peer!InClient, Peer!Nobody, Message
  <2>3. ASSUME NEW p \in Peers PROVE FitInv' BY <2>1, MainStep
  <2> QED BY <2>2, <2>3
<1> QED BY <1>1, <1>2, <1>3, <1>4, <1>5, <1>6, <1>7, <1>8, <1>9, <1>10, ConstructFits, LeaveLoopFits, WriteFits, AnsweredFits,
        NextMessageFits, ConnectFits, EchoFits DEF Peer!Next, Peer!Server

LEMMA InvFits == ASSUME Peer!Ring, FitInv PROVE StatisticsFit
<1> SUFFICES ASSUME NEW p \in Peers
    PROVE /\ sent[p] <= recieved[o_port[p]] /\ recieved[o_port[p]] <= messageCount[p]
          /\ sent[p] + fail[p] = messageCount[p] - (IF sender[p] \in Peer!InClient THEN 1 ELSE 0)
  BY Zenon DEF StatisticsFit, Peer!StatisticsFit
<1>1. Fits(p) BY DEF FitInv
<1>2. sent[p] \in Nat /\ fail[p] \in Nat /\ messageCount[p] \in Nat BY DEF FitInv, CountsOK
<1>3. sent[p] <= recieved[o_port[p]] /\ recieved[o_port[p]] <= messageCount[p] BY <1>1, Zenon DEF Fits, NotBefore, RepliesCounted
<1>4. CASE sender[p] \in Peer!InClient BY <1>1, <1>2, <1>3, <1>4 DEF Fits, SenderCounts
<1>5. CASE sender[p] \notin Peer!InClient BY <1>1, <1>2, <1>3, <1>5 DEF Fits, SenderCounts
<1> QED BY <1>4, <1>5

(* What one process counts as sent its peer has counted as recieved, at most
   once a message, and each message is counted as sent or as failed: in every
   ring of processes, whatever times out, is refused, stops or is aborted. *)
THEOREM StatisticsFitCorrect == ASSUME Peer!Ring PROVE Peer!Spec => []StatisticsFit
<1>1. Peer!Init => FitInv BY InitFit
<1>2. FitInv /\ [Peer!Next]_(Peer!vars) => FitInv' BY NextFits
<1>3. FitInv => StatisticsFit BY InvFits
<1> QED BY <1>1, <1>2, <1>3, PTL DEF Peer!Spec
=============================================================================
