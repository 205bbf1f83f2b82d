--------------------------- MODULE KeepersProofs ---------------------------
(***************************************************************************)
(* Proofs about what a process keeps for all its threads: LogStream, for   *)
(* any number of threads, any levels and any size of the pool,             *)
(* StatsKeeper, for any counters and any length of the history, and        *)
(* ErrorStates, for any number of errors, with the lemmas about sums that  *)
(* its report needs.                                                       *)
(***************************************************************************)
EXTENDS MCKeepers, SequenceTheorems, FiniteSetTheorems, FunctionTheorems, WellFoundedInduction, TLAPS

(* LogStream *)

Line == Threads \X Nat

LogInv ==
  /\ file \in Seq(Line) /\ stringPool \in Seq(Line) /\ logged \in Seq(Line)
  /\ LinesKept

LEMMA ConcatAppend == ASSUME NEW S, NEW s \in Seq(S), NEW t \in Seq(S), NEW x \in S
                      PROVE  s \o Append(t, x) = Append(s \o t, x)
<1>1. Append(t, x) = t \o <<x>> /\ Append(s \o t, x) = (s \o t) \o <<x>> BY AppendIsConcat, ConcatProperties
<1>2. <<x>> \in Seq(S) OBVIOUS
<1> QED BY <1>1, <1>2, ConcatAssociative

\* The line goes to the end of the pool, and the pool to the end of the file.
LEMMA LockedWriteKeeps ==
  ASSUME LogInv, NEW t \in Threads, NEW flush, Log!LockedWrite(t, flush) PROVE LogInv'
<1> DEFINE line == <<t, Len(logged) + 1>>  pool == Append(stringPool, line)
<1>1. file \in Seq(Line) /\ stringPool \in Seq(Line) /\ logged \in Seq(Line) /\ file \o stringPool = logged
  BY DEF LogInv, LinesKept, Log!LinesKept
<1>2. line \in Line BY <1>1 DEF Line
<1> HIDE DEF line
<1>3. pool \in Seq(Line) BY <1>1, <1>2
<1>4. logged' = Append(logged, line) BY DEF Log!LockedWrite, line
<1>5. file \o pool = logged' BY <1>1, <1>2, <1>4, ConcatAppend
<1>6. \/ file' = file /\ stringPool' = pool
      \/ file' = file \o pool /\ stringPool' = <<>>
  BY DEF Log!LockedWrite, Log!EmptyPool, line
<1> HIDE DEF pool
<1>7. file \o pool \in Seq(Line) /\ (file \o pool) \o <<>> = file \o pool BY <1>1, <1>3, ConcatProperties, ConcatEmptySeq
<1>8. logged' \in Seq(Line) BY <1>5, <1>7
<1>9. file' \o stringPool' = logged' /\ file' \in Seq(Line) /\ stringPool' \in Seq(Line)
  <2>1. CASE file' = file /\ stringPool' = pool BY <1>1, <1>3, <1>5, <2>1, Zenon
  <2>2. CASE file' = file \o pool /\ stringPool' = <<>>
    <3>1. <<>> \in Seq(Line) OBVIOUS
    <3> QED BY <1>5, <1>7, <2>2, <3>1, Zenon
  <2> QED BY <1>6, <2>1, <2>2
<1> QED BY <1>8, <1>9 DEF LogInv, LinesKept, Log!LinesKept

LEMMA NotWrittenKeeps == ASSUME LogInv, UNCHANGED <<file, stringPool, logged>> PROVE LogInv'
BY DEF LogInv, LinesKept, Log!LinesKept

LEMMA TraceWriteKeeps == ASSUME LogInv, NEW t \in Threads, NEW flush, Log!TraceWrite(t, flush) PROVE LogInv'
BY LockedWriteKeeps, NotWrittenKeeps DEF Log!TraceWrite, Log!NotWritten

LEMMA NextLog == ASSUME LogInv, [Log!Next]_(Log!vars) PROVE LogInv'
<1>1. ASSUME NEW t \in Threads, Log!Construct(t) PROVE LogInv' BY <1>1, TraceWriteKeeps DEF Log!Construct
<1>2. ASSUME NEW t \in Threads, Log!ConstructWithPath(t) PROVE LogInv'
  BY <1>2, NotWrittenKeeps DEF Log!ConstructWithPath, Log!NotWritten
<1>3. ASSUME NEW t \in Threads, NEW level, Log!ConstructQuietly(t, level) PROVE LogInv'
  BY <1>3, NotWrittenKeeps DEF Log!ConstructQuietly, Log!NotWritten
<1>4. ASSUME NEW t \in Threads, NEW u, Log!CopyOf(t, u) PROVE LogInv' BY <1>4, TraceWriteKeeps DEF Log!CopyOf
<1>5. ASSUME NEW t \in Threads, NEW u, Log!Assign(t, u) PROVE LogInv' BY <1>5, NotWrittenKeeps DEF Log!Assign, Log!static
<1>6. ASSUME NEW t \in Threads, NEW level, Log!SetLevel(t, level) PROVE LogInv' BY <1>6, NotWrittenKeeps DEF Log!SetLevel, Log!static
<1>7. ASSUME NEW t \in Threads, NEW part, NEW n, Log!SetPermanently(t, part, n) PROVE LogInv' BY <1>7, NotWrittenKeeps DEF Log!SetPermanently
<1>8. ASSUME NEW t \in Threads, Log!Put(t) PROVE LogInv' BY <1>8, NotWrittenKeeps DEF Log!Put, Log!static
<1>9. ASSUME NEW t \in Threads, NEW b, Log!DoWrite(t, b) PROVE LogInv' BY <1>9, NotWrittenKeeps DEF Log!DoWrite
<1>10. ASSUME NEW t \in Threads, Log!Write(t) PROVE LogInv'
  BY <1>10, LockedWriteKeeps, NotWrittenKeeps DEF Log!Write, Log!NotWritten
<1>11. ASSUME NEW t \in Threads, Log!Destroy(t) PROVE LogInv' BY <1>11, TraceWriteKeeps DEF Log!Destroy
<1>12. ASSUME Log!Set2ReOpen PROVE LogInv' BY <1>12, NotWrittenKeeps DEF Log!Set2ReOpen
<1>13. CASE UNCHANGED Log!vars BY <1>13, NotWrittenKeeps DEF Log!vars, Log!static
<1> QED BY <1>1, <1>2, <1>3, <1>4, <1>5, <1>6, <1>7, <1>8, <1>9, <1>10, <1>11, <1>12, <1>13 DEF Log!Next

(* The file followed by the pool is every line that passed the filter, once
   and in the order of the lock: whatever the threads interleave, however
   often the file is closed, and however often it does not open. *)
THEOREM LinesKeptCorrect == Log!Spec => []LinesKept
<1>1. Log!Init => LogInv
  <2> SUFFICES ASSUME Log!Init PROVE LogInv OBVIOUS
  <2>1. file = <<>> /\ stringPool = <<>> /\ logged = <<>> BY DEF Log!Init
  <2>2. <<>> \in Seq(Line) /\ <<>> \o <<>> = <<>> OBVIOUS
  <2> QED BY <2>1, <2>2 DEF LogInv, LinesKept, Log!LinesKept
<1>2. LogInv => LinesKept BY DEF LogInv
<1> QED BY <1>1, <1>2, NextLog, PTL DEF Log!Spec

---------------------------------------------------------------------------
(* StatsKeeper *)

AtMostHistory(n) == IF n < historyLength THEN n ELSE historyLength

\* The gathered history of s is m values, those counted from the period k on.
Kept(s, k, m) ==
  /\ gatheredStatsMap[s] \in Seq(Int) /\ Len(gatheredStatsMap[s]) = m
  /\ \A n \in 1 .. m : gatheredStatsMap[s][n] = counted[s][n + k]

\* Between gatherings: the history is the periods before this one ...
HistoryAtRest(s) ==
  /\ s \in DOMAIN gatheredStatsMap <=> Len(counted[s]) > 1
  /\ s \in DOMAIN gatheredStatsMap => Kept(s, 1, AtMostHistory(Len(counted[s]) - 1))

\* ... and the counter, or the update about to be written to it, this period.
CounterAtRest(s) ==
  IF update # NoUpdate /\ update[1] = s
  THEN counted[s] # <<>> /\ counted[s][1] = update[2]
  ELSE /\ s \in DOMAIN statsMap <=> counted[s] # <<>>
       /\ s \in DOMAIN statsMap => statsMap[s] = counted[s][1]

AtRest ==
  /\ todo = {} /\ copied = None
  /\ \A s \in Counters : HistoryAtRest(s) /\ CounterAtRest(s)

\* During a gathering the new period has begun for all, with nothing counted;
\* the counters still to be gathered hold the period before it.
Ungathered(s) ==
  /\ statsMap[s] = counted[s][2]
  /\ s \in DOMAIN gatheredStatsMap <=> Len(counted[s]) > 2
  /\ s \in DOMAIN gatheredStatsMap => Kept(s, 2, AtMostHistory(Len(counted[s]) - 2))
Gathered(s) ==
  /\ s \in DOMAIN gatheredStatsMap /\ Kept(s, 1, AtMostHistory(Len(counted[s]) - 2) + 1)
  /\ s # copied => statsMap[s] = 0
Unused(s) == counted[s] = <<>> /\ s \notin DOMAIN statsMap \cup DOMAIN gatheredStatsMap \cup todo /\ s # copied
Used(s) ==
  /\ counted[s] # <<>> /\ Len(counted[s]) >= 2 /\ counted[s][1] = 0 /\ s \in DOMAIN statsMap
  /\ s \in todo => Ungathered(s)
  /\ s \notin todo => Gathered(s)

InGathering ==
  /\ update = NoUpdate
  /\ copied \notin todo /\ (gathering # "stats" => todo = {} /\ copied = None)
  /\ \A s \in Counters : Unused(s) \/ Used(s)

StatsTypes ==
  /\ counted \in [Counters -> Seq(Int)] /\ uptime \in Int
  /\ update = NoUpdate \/ \E s \in Stats, v \in Int : update = <<s, v>>
  /\ queueStatsMap \subseteq Queues
  /\ gathering \in {"ended", "sleep", "stats", "queues", "trim"}
  /\ DOMAIN statsMap \subseteq Counters /\ todo \subseteq Counters /\ copied \in Counters \cup {None}

Resting == gathering \in {"ended", "sleep"}

PeriodsInv == StatsTypes /\ (Resting => AtRest) /\ (~Resting => InGathering)

StatsInv == ~raced => PeriodsInv

---------------------------------------------------------------------------
LEMMA PushedFront == ASSUME NEW S, NEW q \in Seq(S), NEW v \in S
  PROVE LET r == <<v>> \o q IN /\ r \in Seq(S) /\ Len(r) = Len(q) + 1 /\ r # <<>> /\ r[1] = v
                               /\ \A n \in 1 .. Len(q) : r[n + 1] = q[n]
<1>1. <<v>> \in Seq(S) /\ Len(<<v>>) = 1 /\ <<v>>[1] = v OBVIOUS
<1>2. <<v>> \o q \in Seq(S) /\ Len(<<v>> \o q) = 1 + Len(q) BY <1>1, ConcatProperties
<1>3. Len(q) \in Nat OBVIOUS
<1>4. \A i \in 1 .. 1 + Len(q) : (<<v>> \o q)[i] = IF i <= 1 THEN <<v>>[i] ELSE q[i - 1] BY <1>1, ConcatProperties
<1>5. (<<v>> \o q)[1] = v BY <1>1, <1>3, <1>4
<1>6. \A n \in 1 .. Len(q) : (<<v>> \o q)[n + 1] = q[n] BY <1>3, <1>4
<1>7. <<v>> \o q # <<>> BY <1>2, <1>3
<1> QED BY <1>2, <1>3, <1>5, <1>6, <1>7

\* The period of s that Count() changes.
Present(q, v) == <<v>> \o (IF q = <<>> THEN <<>> ELSE Tail(q))

LEMMA PresentIs == ASSUME NEW q \in Seq(Int), NEW v \in Int
  PROVE /\ Present(q, v) \in Seq(Int) /\ Present(q, v) # <<>> /\ Present(q, v)[1] = v
        /\ Len(Present(q, v)) = (IF q = <<>> THEN 1 ELSE Len(q))
        /\ \A n \in 2 .. Len(q) : Present(q, v)[n] = q[n]
<1>1. CASE q = <<>>
  <2>1. <<>> \in Seq(Int) /\ Len(<<>>) = 0 OBVIOUS
  <2>2. Present(q, v) = <<v>> \o <<>> BY <1>1 DEF Present
  <2>3. /\ Present(q, v) \in Seq(Int) /\ Len(Present(q, v)) = 0 + 1 /\ Present(q, v) # <<>> /\ Present(q, v)[1] = v
    BY <2>1, <2>2, PushedFront
  <2>4. 2 .. Len(q) = {} BY <1>1, <2>1
  <2> QED BY <1>1, <2>3, <2>4
<1>2. CASE q # <<>>
  <2>1. Tail(q) \in Seq(Int) /\ Len(Tail(q)) = Len(q) - 1 /\ \A i \in 1 .. Len(Tail(q)) : Tail(q)[i] = q[i + 1] BY <1>2, HeadTailProperties
  <2>2. Present(q, v) = <<v>> \o Tail(q) BY <1>2 DEF Present
  <2>3. /\ Present(q, v) \in Seq(Int) /\ Len(Present(q, v)) = Len(Tail(q)) + 1 /\ Present(q, v) # <<>> /\ Present(q, v)[1] = v
        /\ \A n \in 1 .. Len(Tail(q)) : Present(q, v)[n + 1] = Tail(q)[n] BY <2>1, <2>2, PushedFront
  <2>4. Len(q) \in Nat OBVIOUS
  <2>5. ASSUME NEW n \in 2 .. Len(q) PROVE Present(q, v)[n] = q[n]
    <3>1. n - 1 \in 1 .. Len(Tail(q)) /\ (n - 1) + 1 = n BY <2>1, <2>4
    <3> QED BY <2>1, <2>3, <3>1
  <2> QED BY <1>2, <2>1, <2>3, <2>4, <2>5
<1> QED BY <1>1, <1>2

LEMMA Atomic == None \notin Counters /\ KcsUptime \in Counters /\ Stats \subseteq Counters /\ Counters \cap Queues = {} /\ historyLength \in Nat \ {0}
BY StatsAssumption DEF None, KcsUptime, Counters

LEMMA InitStats == ASSUME Init PROVE StatsInv
<1>1. counted = [s \in Counters |-> <<>>] /\ statsMap = <<>> /\ gatheredStatsMap = <<>> /\ update = NoUpdate
      /\ gathering = "sleep" /\ todo = {} /\ copied = None /\ uptime = 0 /\ queueStatsMap = {} BY DEF Init
<1>2. DOMAIN <<>> = {} /\ <<>> \in Seq(Int) /\ Len(<<>>) = 0 OBVIOUS
<1>3. StatsTypes BY <1>1, <1>2 DEF StatsTypes
<1>4. \A s \in Counters : counted[s] = <<>> BY <1>1
<1>5. DOMAIN statsMap = {} /\ DOMAIN gatheredStatsMap = {} BY <1>1, <1>2
<1>6. \A s \in Counters : HistoryAtRest(s)
  <2>1. \A s \in Counters : ~(Len(counted[s]) > 1) BY <1>2, <1>4
  <2> QED BY <1>5, <2>1, Zenon DEF HistoryAtRest
<1>7. \A s \in Counters : CounterAtRest(s) BY <1>1, <1>4, <1>5, Zenon DEF CounterAtRest
<1>8. AtRest BY <1>1, <1>6, <1>7, Zenon DEF AtRest
<1>9. Resting BY <1>1 DEF Resting
<1> QED BY <1>3, <1>8, <1>9, Zenon DEF StatsInv, PeriodsInv

---------------------------------------------------------------------------
\* What a change of this period's count of u leaves of the counters' history.
LEMMA CountedHistory ==
  ASSUME PeriodsInv, Resting, NEW u \in Counters, NEW v \in Int, counted' = Count(u, v), gatheredStatsMap' = gatheredStatsMap
  PROVE  /\ counted' \in [Counters -> Seq(Int)] /\ counted'[u] # <<>> /\ counted'[u][1] = v
         /\ \A s \in Counters \ {u} : counted'[s] = counted[s]
         /\ \A s \in Counters : HistoryAtRest(s)'
<1>0. counted \in [Counters -> Seq(Int)] BY DEF PeriodsInv, StatsTypes
<1>1. counted' = [counted EXCEPT ![u] = Present(counted[u], v)] BY DEF Count, Present
<1>2. counted[u] \in Seq(Int) BY <1>0
<1>3. /\ Present(counted[u], v) \in Seq(Int) /\ Present(counted[u], v) # <<>> /\ Present(counted[u], v)[1] = v
      /\ Len(Present(counted[u], v)) = (IF counted[u] = <<>> THEN 1 ELSE Len(counted[u]))
      /\ \A n \in 2 .. Len(counted[u]) : Present(counted[u], v)[n] = counted[u][n] BY <1>2, PresentIs
<1>4. counted'[u] = Present(counted[u], v) /\ \A s \in Counters \ {u} : counted'[s] = counted[s] BY <1>0, <1>1
<1>5. counted' \in [Counters -> Seq(Int)] BY <1>0, <1>1, <1>3
<1>6. HistoryAtRest(u)'
  <2>1. HistoryAtRest(u) BY DEF PeriodsInv, AtRest
  <2>2. Len(counted[u]) \in Nat BY <1>2
  <2>3. Len(counted[u]) > 1 => counted[u] # <<>> BY <1>2
  <2>4. Len(counted'[u]) > 1 <=> Len(counted[u]) > 1 BY <1>3, <1>4, <2>2, <2>3
  <2>5. ASSUME u \in DOMAIN gatheredStatsMap PROVE Kept(u, 1, AtMostHistory(Len(counted[u]) - 1))'
    <3>1. Len(counted[u]) > 1 /\ Kept(u, 1, AtMostHistory(Len(counted[u]) - 1)) BY <2>1, <2>5, Zenon DEF HistoryAtRest
    <3>2. Len(counted'[u]) = Len(counted[u]) BY <1>3, <1>4, <2>3, <3>1
    <3>3. AtMostHistory(Len(counted[u]) - 1) \in Nat /\ AtMostHistory(Len(counted[u]) - 1) <= Len(counted[u]) - 1
      BY <2>2, <3>1, Atomic DEF AtMostHistory
    <3>4. \A n \in 1 .. AtMostHistory(Len(counted[u]) - 1) : counted'[u][n + 1] = counted[u][n + 1] BY <1>3, <1>4, <2>2, <3>3
    <3>5. AtMostHistory(Len(counted[u]) - 1)' = AtMostHistory(Len(counted[u]) - 1) BY <3>2 DEF AtMostHistory
    <3> QED BY <3>1, <3>4, <3>5, Zenon DEF Kept
  <2> QED BY <2>1, <2>4, <2>5, Zenon DEF HistoryAtRest
<1>7. ASSUME NEW s \in Counters, s # u PROVE HistoryAtRest(s)'
  <2>1. counted'[s] = counted[s] BY <1>4, <1>7
  <2>2. HistoryAtRest(s) BY DEF PeriodsInv, AtRest
  <2> QED BY <2>1, <2>2, Zenon DEF HistoryAtRest, Kept, AtMostHistory
<1> QED BY <1>3, <1>4, <1>5, <1>6, <1>7, Zenon

\* An update that is written at once: setStatValue(), getCurrentStats().
LEMMA SetAtRest ==
  ASSUME PeriodsInv, Resting, update = NoUpdate, NEW u \in Counters, NEW v \in Int,
         statsMap' = Put(statsMap, u, v), counted' = Count(u, v), UNCHANGED <<queueStatsMap, keeper, update>>
  PROVE  PeriodsInv'
<1>0. UNCHANGED <<gatheredStatsMap, uptime, gathering, todo, copied>> BY DEF keeper
<1>1. /\ counted' \in [Counters -> Seq(Int)] /\ counted'[u] # <<>> /\ counted'[u][1] = v
      /\ \A s \in Counters \ {u} : counted'[s] = counted[s]
      /\ \A s \in Counters : HistoryAtRest(s)' BY <1>0, CountedHistory
<1>2. DOMAIN statsMap' = DOMAIN statsMap \cup {u} /\ statsMap'[u] = v /\ \A x \in DOMAIN statsMap \ {u} : statsMap'[x] = statsMap[x]
  <2>1. DOMAIN Put(statsMap, u, v) = DOMAIN statsMap \cup {u} /\ Put(statsMap, u, v)[u] = v
        /\ \A x \in DOMAIN statsMap \ {u} : Put(statsMap, u, v)[x] = statsMap[x] BY DEF Put
  <2> QED BY <2>1, Zenon
<1>b. DOMAIN statsMap' \subseteq Counters BY <1>2 DEF PeriodsInv, StatsTypes
<1>3. StatsTypes' BY <1>0, <1>1, <1>b DEF PeriodsInv, StatsTypes, NoUpdate
<1>4. ASSUME NEW s \in Counters PROVE CounterAtRest(s)'
  <2>1. CounterAtRest(s) BY DEF PeriodsInv, AtRest
  <2>2. CASE s = u BY <1>1, <1>2, <2>2, Zenon DEF CounterAtRest
  <2>3. CASE s # u
    <3>1. counted'[s] = counted[s] /\ (s \in DOMAIN statsMap' <=> s \in DOMAIN statsMap)
          /\ (s \in DOMAIN statsMap => statsMap'[s] = statsMap[s]) BY <1>1, <1>2, <2>3, Zenon
    <3> QED BY <2>1, <3>1, Zenon DEF CounterAtRest
  <2> QED BY <2>2, <2>3
<1>a. todo = {} /\ copied = None BY DEF PeriodsInv, AtRest
<1>5. AtRest' BY <1>0, <1>1, <1>4, <1>a, Zenon DEF AtRest, None
<1>6. Resting' BY <1>0 DEF Resting
<1> QED BY <1>3, <1>5, <1>6, Zenon DEF PeriodsInv

LEMMA IncrementBeginsKeeps == ASSUME PeriodsInv, Resting, NEW u \in Stats, NEW by \in Int, IncrementBegins(u, by) PROVE PeriodsInv'
<1> DEFINE v == ValueOf(u) + by
<1>0. UNCHANGED <<statsMap, queueStatsMap, gatheredStatsMap, uptime, gathering, todo, copied>> /\ update = NoUpdate /\ update' = <<u, v>>
  BY DEF IncrementBegins, MayUpdate, keeper
<1>1. u \in Counters /\ counted[u] \in Seq(Int) BY Atomic DEF PeriodsInv, StatsTypes
<1>2. CounterAtRest(u) BY <1>1 DEF PeriodsInv, AtRest
<1>3. ValueOf(u) = (IF counted[u] = <<>> THEN 0 ELSE Head(counted[u]))
  <2>1. CASE counted[u] = <<>> BY <1>0, <1>2, <2>1, Zenon DEF CounterAtRest, ValueOf
  <2>2. CASE counted[u] # <<>>
    <3>1. Head(counted[u]) = counted[u][1] BY <1>1, <2>2
    <3> QED BY <1>0, <1>2, <2>2, <3>1, Zenon DEF CounterAtRest, ValueOf
  <2> QED BY <2>1, <2>2
<1>4. v \in Int
  <2>1. CASE counted[u] = <<>> BY <1>3, <2>1
  <2>2. CASE counted[u] # <<>> BY <1>1, <1>3, <2>2
  <2> QED BY <2>1, <2>2
<1>5. counted' = Count(u, v) BY <1>3 DEF IncrementBegins
<1> HIDE DEF v
<1>6. /\ counted' \in [Counters -> Seq(Int)] /\ counted'[u] # <<>> /\ counted'[u][1] = v
      /\ \A s \in Counters \ {u} : counted'[s] = counted[s]
      /\ \A s \in Counters : HistoryAtRest(s)' BY <1>0, <1>1, <1>4, <1>5, CountedHistory
<1>7. StatsTypes'
  <2>1. \E s \in Stats, w \in Int : update' = <<s, w>> BY <1>0, <1>4
  <2> QED BY <1>0, <1>6, <2>1 DEF PeriodsInv, StatsTypes
<1>a. update' # NoUpdate /\ update'[1] = u /\ update'[2] = v BY <1>0 DEF NoUpdate
<1>8. ASSUME NEW s \in Counters PROVE CounterAtRest(s)'
  <2>1. CounterAtRest(s) BY DEF PeriodsInv, AtRest
  <2>2. CASE s = u BY <1>6, <1>a, <2>2, Zenon DEF CounterAtRest, NoUpdate
  <2>3. CASE s # u
    <3>1. counted'[s] = counted[s] BY <1>6, <2>3, Zenon
    <3> QED BY <2>1, <3>1, <2>3, <1>0, <1>a, Zenon DEF CounterAtRest, NoUpdate
  <2> QED BY <2>2, <2>3
<1>b. todo = {} /\ copied = None BY DEF PeriodsInv, AtRest
<1>9. AtRest' BY <1>0, <1>6, <1>8, <1>b, Zenon DEF AtRest, None
<1>10. Resting' BY <1>0 DEF Resting
<1> QED BY <1>7, <1>9, <1>10, Zenon DEF PeriodsInv

LEMMA IncrementEndsKeeps == ASSUME PeriodsInv, IncrementEnds PROVE PeriodsInv'
<1>0. /\ UNCHANGED <<queueStatsMap, gatheredStatsMap, uptime, gathering, todo, copied, counted>>
      /\ update # NoUpdate /\ update' = NoUpdate /\ statsMap' = Put(statsMap, update[1], update[2])
  BY DEF IncrementEnds, keeper
<1>1. Resting BY <1>0, Zenon DEF PeriodsInv, InGathering
<1>2. PICK u \in Stats, v \in Int : update = <<u, v>> BY <1>0 DEF PeriodsInv, StatsTypes
<1>3. u \in Counters /\ update[1] = u /\ update[2] = v BY <1>2, Atomic
<1>4. DOMAIN statsMap' = DOMAIN statsMap \cup {u} /\ statsMap'[u] = v /\ \A x \in DOMAIN statsMap \ {u} : statsMap'[x] = statsMap[x]
  <2>1. DOMAIN Put(statsMap, u, v) = DOMAIN statsMap \cup {u} /\ Put(statsMap, u, v)[u] = v
        /\ \A x \in DOMAIN statsMap \ {u} : Put(statsMap, u, v)[x] = statsMap[x] BY DEF Put
  <2>2. statsMap' = Put(statsMap, u, v) BY <1>0, <1>3, Zenon
  <2> QED BY <2>1, <2>2, Zenon
<1>a. DOMAIN statsMap' \subseteq Counters BY <1>3, <1>4 DEF PeriodsInv, StatsTypes
<1>5. StatsTypes' BY <1>0, <1>a DEF PeriodsInv, StatsTypes, NoUpdate
<1>6. ASSUME NEW s \in Counters PROVE CounterAtRest(s)' /\ HistoryAtRest(s)'
  <2>1. CounterAtRest(s) /\ HistoryAtRest(s) BY <1>1 DEF PeriodsInv, AtRest
  <2>2. HistoryAtRest(s)' BY <1>0, <2>1, Zenon DEF HistoryAtRest, Kept, AtMostHistory
  <2>3. CASE s = u
    <3>1. counted[s] # <<>> /\ counted[s][1] = v BY <1>0, <1>3, <2>1, <2>3, Zenon DEF CounterAtRest
    <3> QED BY <1>0, <1>4, <2>2, <2>3, <3>1, Zenon DEF CounterAtRest
  <2>4. CASE s # u
    <3>1. (s \in DOMAIN statsMap' <=> s \in DOMAIN statsMap) /\ (s \in DOMAIN statsMap => statsMap'[s] = statsMap[s]) BY <1>4, <2>4, Zenon
    <3>2. update[1] # s BY <1>3, <2>4
    <3> QED BY <1>0, <2>1, <2>2, <3>1, <3>2, Zenon DEF CounterAtRest
  <2> QED BY <2>3, <2>4
<1>7. AtRest' BY <1>0, <1>1, <1>6, Zenon DEF PeriodsInv, AtRest
<1>8. Resting' BY <1>0, <1>1 DEF Resting
<1> QED BY <1>5, <1>7, <1>8, Zenon DEF PeriodsInv

---------------------------------------------------------------------------
\* A period ends: what was this period is now the one before.
LEMMA GatherBeginsKeeps == ASSUME PeriodsInv, update = NoUpdate, GatherBegins PROVE PeriodsInv'
<1> DEFINE Old(s) == IF s = KcsUptime THEN Present(counted[s], uptime + 1) ELSE counted[s]
<1>0. /\ UNCHANGED <<queueStatsMap, gatheredStatsMap, copied, update>> /\ gathering = "sleep" /\ uptime' = uptime + 1
      /\ gathering' = "stats" /\ todo' = DOMAIN statsMap \cup {KcsUptime} /\ statsMap' = Put(statsMap, KcsUptime, uptime + 1)
  BY DEF GatherBegins
<1>1. Resting /\ ~Resting' BY <1>0 DEF Resting
<1>2. counted \in [Counters -> Seq(Int)] /\ uptime + 1 \in Int BY DEF PeriodsInv, StatsTypes
<1>3. todo = {} /\ copied = None /\ \A s \in Counters : HistoryAtRest(s) /\ CounterAtRest(s) BY <1>1 DEF PeriodsInv, AtRest
<1>4. Count(KcsUptime, uptime + 1)[KcsUptime] = Present(counted[KcsUptime], uptime + 1)
  <2>1. KcsUptime \in DOMAIN counted BY <1>2, Atomic
  <2> QED BY <2>1 DEF Count, Present
<1>5. ASSUME NEW s \in Counters PROVE counted'[s] = IF Old(s) = <<>> THEN <<>> ELSE <<0>> \o Old(s)
  <2>1. counted'[s] = IF s = KcsUptime THEN <<0>> \o Count(s, uptime + 1)[s] ELSE IF counted[s] = <<>> THEN <<>> ELSE <<0>> \o counted[s]
    BY DEF GatherBegins
  <2>2. CASE s = KcsUptime
    <3>1. Present(counted[s], uptime + 1) # <<>> BY <1>2, PresentIs
    <3> QED BY <1>4, <2>1, <2>2, <3>1
  <2>3. CASE s # KcsUptime BY <2>1, <2>3
  <2> QED BY <2>2, <2>3
<1>6. ASSUME NEW s \in Counters PROVE Old(s) \in Seq(Int)
  <2>1. Present(counted[s], uptime + 1) \in Seq(Int) BY <1>2, PresentIs
  <2> QED BY <1>2, <2>1
<1>7. DOMAIN statsMap' = DOMAIN statsMap \cup {KcsUptime} /\ statsMap'[KcsUptime] = uptime + 1
      /\ \A x \in DOMAIN statsMap \ {KcsUptime} : statsMap'[x] = statsMap[x]
  <2>1. DOMAIN Put(statsMap, KcsUptime, uptime + 1) = DOMAIN statsMap \cup {KcsUptime} /\ Put(statsMap, KcsUptime, uptime + 1)[KcsUptime] = uptime + 1
      /\ \A x \in DOMAIN statsMap \ {KcsUptime} : Put(statsMap, KcsUptime, uptime + 1)[x] = statsMap[x] BY DEF Put
  <2> QED BY <1>0, <2>1, Zenon
\* The old period, with kcs-uptime set, is as at rest.
<1>8. ASSUME NEW s \in Counters
      PROVE /\ s \in DOMAIN statsMap' <=> Old(s) # <<>>
            /\ s \in DOMAIN statsMap' => statsMap'[s] = Old(s)[1]
            /\ s \in DOMAIN gatheredStatsMap <=> Len(Old(s)) > 1
            /\ s \in DOMAIN gatheredStatsMap =>
                 /\ gatheredStatsMap[s] \in Seq(Int) /\ Len(gatheredStatsMap[s]) = AtMostHistory(Len(Old(s)) - 1)
                 /\ \A n \in 1 .. AtMostHistory(Len(Old(s)) - 1) : gatheredStatsMap[s][n] = Old(s)[n + 1]
  <2>1. HistoryAtRest(s) /\ CounterAtRest(s) BY <1>3
  <2>2. CASE s # KcsUptime
    <3>1. Old(s) = counted[s] BY <2>2
    <3>2. (s \in DOMAIN statsMap' <=> s \in DOMAIN statsMap) /\ (s \in DOMAIN statsMap => statsMap'[s] = statsMap[s]) BY <1>7, <2>2, Zenon
    <3> HIDE DEF Old
    <3> QED BY <2>1, <3>1, <3>2, Zenon DEF HistoryAtRest, CounterAtRest, Kept
  <2>3. CASE s = KcsUptime
    <3>0. counted[s] \in Seq(Int) BY <1>2
    <3>1. Old(s) = Present(counted[s], uptime + 1) /\ counted[s] \in Seq(Int) BY <3>0, <2>3, Zenon
    <3> HIDE DEF Old
    <3>2. /\ Old(s) # <<>> /\ Old(s)[1] = uptime + 1 /\ Len(Old(s)) = (IF counted[s] = <<>> THEN 1 ELSE Len(counted[s]))
          /\ \A n \in 2 .. Len(counted[s]) : Old(s)[n] = counted[s][n]
      <4> DEFINE P == Present(counted[s], uptime + 1)
      <4>1. /\ P # <<>> /\ P[1] = uptime + 1 /\ Len(P) = (IF counted[s] = <<>> THEN 1 ELSE Len(counted[s]))
            /\ \A n \in 2 .. Len(counted[s]) : P[n] = counted[s][n] BY <1>2, <3>0, PresentIs
      <4> QED BY <3>1, <4>1, Zenon
    <3>3. Len(counted[s]) \in Nat /\ (Len(counted[s]) > 1 => counted[s] # <<>>) BY <3>1
    <3>4. Len(Old(s)) > 1 <=> Len(counted[s]) > 1 BY <3>2, <3>3
    <3>5. ASSUME s \in DOMAIN gatheredStatsMap
          PROVE  /\ gatheredStatsMap[s] \in Seq(Int) /\ Len(gatheredStatsMap[s]) = AtMostHistory(Len(Old(s)) - 1)
                 /\ \A n \in 1 .. AtMostHistory(Len(Old(s)) - 1) : gatheredStatsMap[s][n] = Old(s)[n + 1]
      <4>1. Len(counted[s]) > 1 /\ Kept(s, 1, AtMostHistory(Len(counted[s]) - 1)) BY <2>1, <3>5, Zenon DEF HistoryAtRest
      <4>2. Len(Old(s)) = Len(counted[s]) BY <3>2, <3>3, <4>1
      <4>3. AtMostHistory(Len(counted[s]) - 1) \in Nat /\ AtMostHistory(Len(counted[s]) - 1) <= Len(counted[s]) - 1
        BY <3>3, <4>1, Atomic DEF AtMostHistory
      <4>4. \A n \in 1 .. AtMostHistory(Len(counted[s]) - 1) : Old(s)[n + 1] = counted[s][n + 1] BY <3>2, <3>3, <4>3
      <4> QED BY <4>1, <4>2, <4>4, Zenon DEF Kept
    <3>6. s \in DOMAIN statsMap' /\ statsMap'[s] = Old(s)[1] BY <1>7, <2>3, <3>2, Zenon
    <3>7. s \in DOMAIN gatheredStatsMap <=> Len(Old(s)) > 1 BY <2>1, <3>4, Zenon DEF HistoryAtRest
    <3> QED BY <3>2, <3>5, <3>6, <3>7, Zenon
  <2> QED BY <2>2, <2>3
<1> HIDE DEF Old
<1>9. ASSUME NEW s \in Counters, Old(s) # <<>> PROVE Used(s)' /\ counted'[s] \in Seq(Int)
  <2>1. /\ counted'[s] = <<0>> \o Old(s) BY <1>5, <1>9
  <2>2. /\ counted'[s] \in Seq(Int) /\ Len(counted'[s]) = Len(Old(s)) + 1 /\ counted'[s] # <<>> /\ counted'[s][1] = 0
        /\ \A n \in 1 .. Len(Old(s)) : counted'[s][n + 1] = Old(s)[n] BY <1>6, <2>1, PushedFront
  <2>3. Len(Old(s)) \in Nat /\ Len(Old(s)) >= 1 BY <1>6, <1>9
  <2>4. s \in DOMAIN statsMap' /\ s \in todo' BY <1>0, <1>7, <1>8, <1>9, Zenon
  <2>5. statsMap'[s] = counted'[s][2]
    <3>1. counted'[s][1 + 1] = Old(s)[1] BY <2>2, <2>3
    <3> QED BY <1>8, <2>4, <3>1
  <2>6. s \in DOMAIN gatheredStatsMap' <=> Len(counted'[s]) > 2 BY <1>0, <1>8, <2>2, <2>3
  <2>7. ASSUME s \in DOMAIN gatheredStatsMap PROVE Kept(s, 2, AtMostHistory(Len(counted[s]) - 2))'
    <3>1. (Len(counted[s]) - 2)' = Len(Old(s)) - 1 /\ Len(Old(s)) > 1 BY <1>8, <2>2, <2>3, <2>7
    <3>2. AtMostHistory(Len(counted[s]) - 2)' = AtMostHistory(Len(Old(s)) - 1) BY <3>1 DEF AtMostHistory
    <3>3. AtMostHistory(Len(Old(s)) - 1) \in Nat /\ AtMostHistory(Len(Old(s)) - 1) <= Len(Old(s)) - 1 BY <2>3, <3>1, Atomic DEF AtMostHistory
    <3>4. ASSUME NEW n \in 1 .. AtMostHistory(Len(Old(s)) - 1) PROVE gatheredStatsMap[s][n] = counted'[s][n + 2]
      <4>1. n + 1 \in 1 .. Len(Old(s)) /\ (n + 1) + 1 = n + 2 BY <2>3, <3>3
      <4>2. counted'[s][(n + 1) + 1] = Old(s)[n + 1] BY <2>2, <4>1
      <4> QED BY <1>8, <2>7, <4>1, <4>2
    <3> QED BY <1>0, <1>8, <2>7, <3>2, <3>4, Zenon DEF Kept
  <2>8. Len(counted'[s]) >= 2 BY <2>2, <2>3
  <2>9. Ungathered(s)' BY <1>0, <2>5, <2>6, <2>7, Zenon DEF Ungathered
  <2> QED BY <2>2, <2>4, <2>8, <2>9, Zenon DEF Used
<1>10. ASSUME NEW s \in Counters, Old(s) = <<>> PROVE Unused(s)' /\ counted'[s] \in Seq(Int)
  <2>1. counted'[s] = <<>> BY <1>5, <1>10
  <2>2. s \notin DOMAIN statsMap' /\ s \notin todo' BY <1>0, <1>7, <1>8, <1>10, Zenon
  <2>3. Len(<<>>) = 0 /\ <<>> \in Seq(Int) OBVIOUS
  <2>4. ~(Len(Old(s)) > 1) BY <1>10, <2>3
  <2>5. s \notin DOMAIN gatheredStatsMap' BY <1>0, <1>8, <2>4, Zenon
  <2>6. s # copied' BY <1>0, <1>3, Atomic
  <2> QED BY <2>1, <2>2, <2>3, <2>5, <2>6, Zenon DEF Unused
<1>11. InGathering'
  <2>1. copied' \notin todo'
    <3>1. DOMAIN statsMap \subseteq Counters BY DEF PeriodsInv, StatsTypes
    <3> QED BY <1>0, <1>3, <3>1, Atomic
  <2> QED BY <1>0, <1>9, <1>10, <2>1 DEF InGathering, NoUpdate
<1>12. StatsTypes'
  <2>1. counted' \in [Counters -> Seq(Int)]
    <3>1. \E f : counted' = [s \in Counters |-> f[s]]
      <4> DEFINE g == [s \in Counters |-> IF s = KcsUptime THEN <<0>> \o Count(s, uptime + 1)[s]
                                    ELSE IF counted[s] = <<>> THEN <<>> ELSE <<0>> \o counted[s]]
      <4>1. counted' = g BY DEF GatherBegins
      <4>2. g = [s \in Counters |-> g[s]] OBVIOUS
      <4> QED BY <4>1, <4>2
    <3> QED BY <1>9, <1>10, <3>1
  <2>2. DOMAIN statsMap' \subseteq Counters /\ todo' \subseteq Counters BY <1>0, <1>7, Atomic DEF PeriodsInv, StatsTypes
  <2>3. uptime' \in Int BY <1>0, <1>2
  <2> QED BY <1>0, <2>1, <2>2, <2>3 DEF PeriodsInv, StatsTypes, NoUpdate
<1> QED BY <1>1, <1>11, <1>12, Zenon DEF PeriodsInv

\* The counter's period goes to the front of its history.
LEMMA CopyKeeps == ASSUME PeriodsInv, NEW u \in Counters, Copy(u) PROVE PeriodsInv'
<1> DEFINE old == IF u \in DOMAIN gatheredStatsMap THEN gatheredStatsMap[u] ELSE <<>>
           g == <<statsMap[u]>> \o old
           L == Len(counted[u])
<1>0. /\ UNCHANGED <<statsMap, queueStatsMap, uptime, gathering, update, counted>> /\ gathering = "stats" /\ copied = None
      /\ u \in todo /\ copied' = u /\ todo' = todo \ {u} /\ gatheredStatsMap' = Put(gatheredStatsMap, u, g)
  BY DEF Copy, PushFront
<1>1. ~Resting /\ ~Resting' /\ InGathering BY <1>0 DEF Resting, PeriodsInv
<1>2. Used(u) /\ Ungathered(u) BY <1>0, <1>1, Zenon DEF InGathering, Used, Unused
<1>3. counted[u] \in Seq(Int) /\ L \in Nat /\ L >= 2 BY <1>2 DEF PeriodsInv, StatsTypes, Used
<1>4. statsMap[u] = counted[u][2] /\ statsMap[u] \in Int BY <1>2, <1>3 DEF Ungathered
<1>5. old \in Seq(Int) /\ Len(old) = AtMostHistory(L - 2) /\ \A n \in 1 .. AtMostHistory(L - 2) : old[n] = counted[u][n + 2]
  <2>1. CASE u \in DOMAIN gatheredStatsMap BY <1>2, <2>1, Zenon DEF Ungathered, Kept
  <2>2. CASE u \notin DOMAIN gatheredStatsMap
    <3>0. u \in DOMAIN gatheredStatsMap <=> Len(counted[u]) > 2 BY <1>2 DEF Ungathered
    <3>1. ~(Len(counted[u]) > 2) BY <2>2, <3>0, Zenon
    <3>2. \A n \in Nat : n >= 2 /\ ~(n > 2) => n = 2 OBVIOUS
    <3>3. L = 2 BY <1>3, <3>1, <3>2, Zenon
    <3>4. AtMostHistory(L - 2) = 0 BY <3>3, Atomic DEF AtMostHistory
    <3>5. old = <<>> BY <2>2
    <3>6. <<>> \in Seq(Int) /\ Len(<<>>) = 0 /\ 1 .. 0 = {} OBVIOUS
    <3> QED BY <3>4, <3>5, <3>6, Zenon
  <2> QED BY <2>1, <2>2
<1> HIDE DEF old
<1>6. g \in Seq(Int) /\ Len(g) = Len(old) + 1 /\ g[1] = statsMap[u] /\ \A n \in 1 .. Len(old) : g[n + 1] = old[n]
  BY <1>4, <1>5, PushedFront
<1> HIDE DEF g
<1>7. AtMostHistory(L - 2) \in Nat BY <1>3, Atomic DEF AtMostHistory
<1>8. ASSUME NEW n \in 1 .. AtMostHistory(L - 2) + 1 PROVE g[n] = counted[u][n + 1]
  <2>1. CASE n = 1 BY <1>4, <1>6, <2>1
  <2>2. CASE n # 1
    <3>1. n - 1 \in 1 .. AtMostHistory(L - 2) /\ (n - 1) + 1 = n /\ (n - 1) + 2 = n + 1 BY <1>7, <2>2
    <3>2. g[(n - 1) + 1] = old[n - 1] BY <1>5, <1>6, <3>1
    <3>3. old[n - 1] = counted[u][(n - 1) + 2] BY <1>5, <3>1
    <3> QED BY <3>1, <3>2, <3>3
  <2> QED BY <2>1, <2>2
<1>9. DOMAIN gatheredStatsMap' = DOMAIN gatheredStatsMap \cup {u} /\ gatheredStatsMap'[u] = g
      /\ \A x \in DOMAIN gatheredStatsMap \ {u} : gatheredStatsMap'[x] = gatheredStatsMap[x]
  <2>1. DOMAIN Put(gatheredStatsMap, u, g) = DOMAIN gatheredStatsMap \cup {u} /\ Put(gatheredStatsMap, u, g)[u] = g
        /\ \A x \in DOMAIN gatheredStatsMap \ {u} : Put(gatheredStatsMap, u, g)[x] = gatheredStatsMap[x] BY DEF Put
  <2> QED BY <1>0, <2>1, Zenon
<1>10. Used(u)'
  <2>1. AtMostHistory(Len(counted[u]) - 2)' = AtMostHistory(L - 2) BY <1>0 DEF AtMostHistory
  <2>2. Kept(u, 1, AtMostHistory(Len(counted[u]) - 2) + 1)' BY <1>0, <1>5, <1>6, <1>8, <1>9, <2>1, Zenon DEF Kept
  <2>3. Gathered(u)' BY <1>0, <1>9, <2>2, Zenon DEF Gathered
  <2>4. u \notin todo' BY <1>0
  <2> QED BY <1>0, <1>2, <2>3, <2>4, Zenon DEF Used
<1>11. ASSUME NEW s \in Counters, s # u PROVE Unused(s)' \/ Used(s)'
  <2>1. (s \in DOMAIN gatheredStatsMap' <=> s \in DOMAIN gatheredStatsMap) /\ (s \in DOMAIN gatheredStatsMap => gatheredStatsMap'[s] = gatheredStatsMap[s])
    BY <1>9, <1>11, Zenon
  <2>2. s \in todo' <=> s \in todo BY <1>0, <1>11
  <2>3. s # copied' /\ s # copied BY <1>0, <1>11, Atomic
  <2>4. CASE Unused(s) BY <1>0, <2>1, <2>2, <2>3, <2>4, Zenon DEF Unused
  <2>5. CASE Used(s)
    <3>1. Ungathered(s) => Ungathered(s)' BY <1>0, <2>1, Zenon DEF Ungathered, Kept, AtMostHistory
    <3>2. Gathered(s) => Gathered(s)' BY <1>0, <2>1, <2>3, Zenon DEF Gathered, Kept, AtMostHistory
    <3> QED BY <1>0, <2>2, <2>5, <3>1, <3>2, Zenon DEF Used
  <2> QED BY <1>1, <2>4, <2>5 DEF InGathering
<1>12. InGathering' BY <1>0, <1>1, <1>10, <1>11 DEF InGathering, NoUpdate
<1>13. StatsTypes' BY <1>0 DEF PeriodsInv, StatsTypes, NoUpdate
<1> QED BY <1>1, <1>12, <1>13, Zenon DEF PeriodsInv

LEMMA ResetKeeps == ASSUME PeriodsInv, Reset PROVE PeriodsInv'
<1>0. /\ UNCHANGED <<queueStatsMap, gatheredStatsMap, uptime, gathering, todo, update, counted>> /\ gathering = "stats" /\ copied # None
      /\ copied' = None /\ statsMap' = [statsMap EXCEPT ![copied] = 0]
  BY DEF Reset, AfterCopy
<1>1. ~Resting /\ ~Resting' /\ InGathering BY <1>0 DEF Resting, PeriodsInv
<1>2. DOMAIN statsMap' = DOMAIN statsMap /\ (copied \in DOMAIN statsMap => statsMap'[copied] = 0)
      /\ \A x \in DOMAIN statsMap \ {copied} : statsMap'[x] = statsMap[x] BY <1>0
<1>3. copied \notin todo /\ todo \subseteq Counters BY <1>1 DEF InGathering, PeriodsInv, StatsTypes
<1>4. ASSUME NEW s \in Counters PROVE Unused(s)' \/ Used(s)'
  <2>0. s # copied' BY <1>0, Atomic
  <2>1. CASE Unused(s) BY <1>0, <1>2, <2>0, <2>1, Zenon DEF Unused
  <2>2. CASE Used(s)
    <3>1. s \in DOMAIN statsMap BY <2>2 DEF Used
    <3>2. ASSUME s \in todo, Ungathered(s) PROVE Ungathered(s)'
      <4>1. statsMap'[s] = statsMap[s] BY <1>2, <1>3, <3>1, <3>2, Zenon
      <4> QED BY <1>0, <3>2, <4>1, Zenon DEF Ungathered, Kept, AtMostHistory
    <3>3. ASSUME Gathered(s) PROVE Gathered(s)'
      <4>1. statsMap'[s] = 0 BY <1>2, <3>1, <3>3, Zenon DEF Gathered
      <4> QED BY <1>0, <3>3, <4>1, Zenon DEF Gathered, Kept, AtMostHistory
    <3> QED BY <1>0, <1>2, <2>2, <3>2, <3>3, Zenon DEF Used
  <2> QED BY <1>1, <2>1, <2>2 DEF InGathering
<1>5. None \notin todo BY <1>3, Atomic
<1>6. InGathering' BY <1>0, <1>1, <1>4, <1>5 DEF InGathering, NoUpdate
<1>7. StatsTypes' BY <1>0, <1>2 DEF PeriodsInv, StatsTypes, NoUpdate
<1> QED BY <1>1, <1>6, <1>7, Zenon DEF PeriodsInv

\* The queues' histories are no counter's.
LEMMA QueuesKeep ==
  ASSUME PeriodsInv, gathering \in {"stats", "queues"}, gathering' \in {"queues", "trim"}, todo = {}, copied = None,
         UNCHANGED <<statsMap, queueStatsMap, uptime, todo, copied, update, counted>>,
         \A s \in Counters : /\ s \in DOMAIN gatheredStatsMap' <=> s \in DOMAIN gatheredStatsMap
                             /\ s \in DOMAIN gatheredStatsMap => gatheredStatsMap'[s] = gatheredStatsMap[s]
  PROVE  PeriodsInv'
<1>1. ~Resting /\ ~Resting' /\ InGathering BY DEF Resting, PeriodsInv
<1>2. ASSUME NEW s \in Counters PROVE Unused(s)' \/ Used(s)'
  <2>1. CASE Unused(s) BY <2>1, Zenon DEF Unused
  <2>2. CASE Used(s)
    <3>1. Gathered(s) => Gathered(s)' BY Zenon DEF Gathered, Kept, AtMostHistory
    <3>2. s \notin todo /\ s \notin todo' OBVIOUS
    <3> QED BY <2>2, <3>1, <3>2, Zenon DEF Used
  <2> QED BY <1>1, <2>1, <2>2 DEF InGathering
<1>3. InGathering' BY <1>1, <1>2 DEF InGathering, NoUpdate
<1>4. StatsTypes' BY DEF PeriodsInv, StatsTypes, NoUpdate
<1> QED BY <1>1, <1>3, <1>4, Zenon DEF PeriodsInv

\* Trimming keeps the newest historyLength values.
LEMMA TrimKeeps == ASSUME PeriodsInv, Trim PROVE PeriodsInv'
<1>0. /\ UNCHANGED <<statsMap, queueStatsMap, uptime, todo, copied, update, counted>> /\ gathering = "trim" /\ gathering' = "sleep"
      /\ gatheredStatsMap' = [id \in DOMAIN gatheredStatsMap |->
            IF TooLong(gatheredStatsMap[id]) THEN Front(gatheredStatsMap[id]) ELSE gatheredStatsMap[id]] BY DEF Trim
<1>1. ~Resting /\ Resting' /\ InGathering BY <1>0 DEF Resting, PeriodsInv
<1>2. todo = {} /\ copied = None /\ update = NoUpdate BY <1>0, <1>1 DEF InGathering
<1>3. DOMAIN gatheredStatsMap' = DOMAIN gatheredStatsMap BY <1>0
<1>4. ASSUME NEW s \in Counters PROVE HistoryAtRest(s)' /\ CounterAtRest(s)'
  <2>1. CASE Unused(s)
    <3>1. Len(<<>>) = 0 OBVIOUS
    <3>2. counted'[s] = <<>> /\ s \notin DOMAIN statsMap' /\ s \notin DOMAIN gatheredStatsMap' BY <1>0, <1>3, <2>1, Zenon DEF Unused
    <3>3. ~(Len(counted'[s]) > 1) BY <3>1, <3>2
    <3> QED BY <1>0, <1>2, <3>2, <3>3, Zenon DEF HistoryAtRest, CounterAtRest
  <2>2. CASE Used(s)
    <3> DEFINE G == gatheredStatsMap[s]  L == Len(counted[s])
    <3>1. Gathered(s) /\ s # copied BY <1>2, <2>2, Atomic DEF Used
    <3>2. counted[s] \in Seq(Int) /\ L \in Nat /\ L >= 2 /\ counted[s] # <<>> /\ counted[s][1] = 0 /\ s \in DOMAIN statsMap
      BY <2>2 DEF Used, PeriodsInv, StatsTypes
    <3>3. statsMap[s] = counted[s][1] BY <3>1, <3>2, Zenon DEF Gathered
    <3>4. CounterAtRest(s)' BY <1>0, <1>2, <3>2, <3>3, Zenon DEF CounterAtRest
    <3>5. s \in DOMAIN gatheredStatsMap /\ G \in Seq(Int) /\ Len(G) = AtMostHistory(L - 2) + 1
          /\ \A n \in 1 .. AtMostHistory(L - 2) + 1 : G[n] = counted[s][n + 1] BY <3>1 DEF Gathered, Kept
    <3>6. gatheredStatsMap'[s] = IF Len(G) > historyLength THEN SubSeq(G, 1, Len(G) - 1) ELSE G
      BY <1>0, <3>5 DEF TooLong, Front
    <3>7. L - 1 >= 1 /\ historyLength \in Nat /\ historyLength >= 1 /\ AtMostHistory(L - 2) \in Nat BY <3>2, Atomic DEF AtMostHistory
    <3>10. gatheredStatsMap'[s] \in Seq(Int) /\ Len(gatheredStatsMap'[s]) = AtMostHistory(L - 1)
           /\ \A n \in 1 .. AtMostHistory(L - 1) : gatheredStatsMap'[s][n] = counted[s][n + 1]
      <4>1. CASE Len(G) > historyLength
        <5>1. AtMostHistory(L - 2) = historyLength /\ Len(G) - 1 = historyLength /\ AtMostHistory(L - 1) = historyLength BY <3>2, <3>5, <3>7, <4>1 DEF AtMostHistory
        <5>2. SubSeq(G, 1, Len(G) - 1) \in Seq(Int) /\ Len(SubSeq(G, 1, Len(G) - 1)) = historyLength
              /\ \A n \in 1 .. historyLength : SubSeq(G, 1, Len(G) - 1)[n] = G[n] BY <3>5, <3>7, <5>1, SubSeqProperties
        <5>3. \A n \in 1 .. historyLength : G[n] = counted[s][n + 1] BY <3>5, <3>7, <5>1
        <5>4. gatheredStatsMap'[s] = SubSeq(G, 1, Len(G) - 1) BY <3>6, <4>1
        <5>5. gatheredStatsMap'[s] \in Seq(Int) /\ Len(gatheredStatsMap'[s]) = AtMostHistory(L - 1)
              /\ \A n \in 1 .. AtMostHistory(L - 1) : gatheredStatsMap'[s][n] = counted[s][n + 1] BY <5>1, <5>2, <5>3, <5>4, Zenon
        <5> QED BY <5>5
      <4>2. CASE ~(Len(G) > historyLength)
        <5>0. ~(AtMostHistory(L - 2) + 1 > historyLength) BY <3>5, <4>2, Zenon
        <5>1. AtMostHistory(L - 2) + 1 = L - 1 /\ AtMostHistory(L - 1) = L - 1 BY <3>2, <3>7, <5>0 DEF AtMostHistory
        <5> QED BY <3>5, <3>6, <4>2, <5>1, Zenon
      <4> QED BY <4>1, <4>2
    <3>11. AtMostHistory(Len(counted[s]) - 1)' = AtMostHistory(L - 1) BY <1>0 DEF AtMostHistory
    <3>12. Kept(s, 1, AtMostHistory(Len(counted[s]) - 1))' BY <1>0, <3>10, <3>11, Zenon DEF Kept
    <3>13. Len(counted'[s]) > 1 BY <1>0, <3>2
    <3>14. HistoryAtRest(s)' BY <1>3, <3>5, <3>12, <3>13, Zenon DEF HistoryAtRest
    <3> QED BY <3>4, <3>14
  <2> QED BY <1>1, <2>1, <2>2 DEF InGathering
<1>5. AtRest' BY <1>0, <1>2, <1>4 DEF AtRest
<1>6. StatsTypes' BY <1>0 DEF PeriodsInv, StatsTypes, NoUpdate
<1> QED BY <1>1, <1>5, <1>6, Zenon DEF PeriodsInv

---------------------------------------------------------------------------
LEMMA NextPeriods == ASSUME StatsInv, [Next]_vars, ~raced' PROVE PeriodsInv'
<1>1. ASSUME UNCHANGED raced PROVE PeriodsInv BY <1>1, Zenon DEF StatsInv
<1>2. ASSUME MayUpdate PROVE PeriodsInv /\ Resting /\ update = NoUpdate BY <1>2, Zenon DEF MayUpdate, StatsInv, Resting
<1>3. ASSUME NEW s \in Stats, NEW v \in {-1, 1}, IncrementBegins(s, v) PROVE PeriodsInv'
  BY <1>2, <1>3, IncrementBeginsKeeps DEF IncrementBegins
<1>4. ASSUME NEW s \in Stats, SetStatValue(s, 2) PROVE PeriodsInv'
  BY <1>2, <1>4, SetAtRest, Atomic DEF SetStatValue
<1>5. ASSUME GetCurrentStats PROVE PeriodsInv'
  <2>1. uptime \in Int BY <1>2, <1>5 DEF GetCurrentStats, PeriodsInv, StatsTypes
  <2> QED BY <1>2, <1>5, <2>1, SetAtRest, Atomic DEF GetCurrentStats
<1>6. ASSUME PeriodsInv, UNCHANGED <<statsMap, gatheredStatsMap, todo, copied, update, counted>>, queueStatsMap' \subseteq Queues, uptime' \in Int,
             gathering' = gathering \/ (Resting /\ Resting')
      PROVE  PeriodsInv'
  <2>1. StatsTypes' BY <1>6 DEF PeriodsInv, StatsTypes, NoUpdate, Resting
  <2>2. Resting' <=> Resting BY <1>6 DEF Resting
  <2>3. AtRest => AtRest' BY <1>6, Zenon DEF AtRest, HistoryAtRest, CounterAtRest, Kept, AtMostHistory
  <2>4. ASSUME ~Resting PROVE InGathering'
    <3>1. gathering' = gathering /\ InGathering BY <1>6, <2>4 DEF PeriodsInv
    <3> QED BY <1>6, <3>1, Zenon DEF InGathering, Used, Unused, Gathered, Ungathered, Kept, AtMostHistory
  <2> QED BY <1>6, <2>1, <2>2, <2>3, <2>4, Zenon DEF PeriodsInv
<1>7. ASSUME NEW id \in Queues, AddStatableQueue(id) PROVE PeriodsInv'
  <2>1. PeriodsInv BY <1>7, Zenon DEF AddStatableQueue, StatsInv
  <2>2. queueStatsMap' \subseteq Queues /\ uptime' \in Int BY <1>7, <2>1 DEF AddStatableQueue, PeriodsInv, StatsTypes, keeper
  <2> QED BY <1>6, <1>7, <2>1, <2>2 DEF AddStatableQueue, keeper
<1>8. ASSUME IncrementEnds PROVE PeriodsInv' BY <1>1, <1>8, IncrementEndsKeeps DEF IncrementEnds
<1>9. ASSUME Start \/ Stop \/ ThreadEnds PROVE PeriodsInv'
  <2>1. PeriodsInv BY <1>1, <1>9 DEF Start, Stop, ThreadEnds
  <2>2. uptime' \in Int /\ queueStatsMap' \subseteq Queues BY <1>9, <2>1 DEF Start, Stop, ThreadEnds, PeriodsInv, StatsTypes
  <2> QED BY <1>6, <1>9, <2>1, <2>2 DEF Start, Stop, ThreadEnds, Resting
<1>10. ASSUME GatherBegins PROVE PeriodsInv'
  <2>1. PeriodsInv /\ update = NoUpdate BY <1>10, Zenon DEF GatherBegins, StatsInv
  <2> QED BY <1>10, <2>1, GatherBeginsKeeps
<1>11. ASSUME NEW s \in Counters, Copy(s) PROVE PeriodsInv' BY <1>1, <1>11, CopyKeeps DEF Copy
<1>12. ASSUME Reset PROVE PeriodsInv' BY <1>1, <1>12, ResetKeeps DEF Reset
<1>13. ASSUME StatsGathered PROVE PeriodsInv' BY <1>1, <1>13, QueuesKeep DEF StatsGathered
<1>14. ASSUME GatherQueues PROVE PeriodsInv'
  <2>1. PeriodsInv BY <1>1, <1>14 DEF GatherQueues
  <2>2. gathering = "queues" /\ gathering' = "trim" /\ UNCHANGED <<statsMap, queueStatsMap, uptime, todo, copied, update, counted>>
    BY <1>14 DEF GatherQueues
  <2>3. todo = {} /\ copied = None BY <2>1, <2>2 DEF PeriodsInv, Resting, InGathering
  <2>4. ASSUME NEW s \in Counters PROVE s \notin queueStatsMap BY <2>1, Atomic DEF PeriodsInv, StatsTypes
  <2>5. ASSUME NEW s \in Counters
        PROVE  /\ s \in DOMAIN gatheredStatsMap' <=> s \in DOMAIN gatheredStatsMap
               /\ s \in DOMAIN gatheredStatsMap => gatheredStatsMap'[s] = gatheredStatsMap[s]
    BY <1>14, <2>4 DEF GatherQueues
  <2> QED BY <2>1, <2>2, <2>3, <2>5, QueuesKeep
<1>15. ASSUME Trim PROVE PeriodsInv' BY <1>1, <1>15, TrimKeeps DEF Trim
<1>16. CASE UNCHANGED vars
  <2>1. PeriodsInv BY <1>1, <1>16 DEF vars
  <2>2. uptime' \in Int /\ queueStatsMap' \subseteq Queues BY <1>16, <2>1 DEF vars, keeper, PeriodsInv, StatsTypes
  <2> QED BY <1>6, <1>16, <2>1, <2>2 DEF vars, keeper
<1> QED BY <1>3, <1>4, <1>5, <1>7, <1>8, <1>9, <1>10, <1>11, <1>12, <1>13, <1>14, <1>15, <1>16 DEF Next, Gather

\* What the reports read, between gatherings.
LEMMA PeriodsReported == ASSUME StatsInv PROVE HistoryIsPeriods
<1> SUFFICES ASSUME ~raced, gathering \in {"ended", "sleep"}, update = NoUpdate, NEW s \in DOMAIN statsMap
    PROVE /\ statsMap[s] = Head(counted[s])
          /\ s \in DOMAIN gatheredStatsMap <=> Len(counted[s]) > 1
          /\ s \in DOMAIN gatheredStatsMap =>
               /\ LastGathered(s) = counted[s][2]
               /\ \A n \in 1 .. historyLength :
                    FullHistory(s)[n] = IF n < Len(counted[s]) THEN <<counted[s][n + 1]>> ELSE PastEnd
  BY Zenon DEF HistoryIsPeriods
<1>1. PeriodsInv /\ Resting BY Zenon DEF StatsInv, Resting
<1>2. s \in Counters /\ counted[s] \in Seq(Int) BY <1>1 DEF PeriodsInv, StatsTypes
<1>3. HistoryAtRest(s) /\ CounterAtRest(s) BY <1>1, <1>2 DEF PeriodsInv, AtRest
<1>4. counted[s] # <<>> /\ statsMap[s] = counted[s][1] BY <1>3, Zenon DEF CounterAtRest
<1>5. statsMap[s] = Head(counted[s]) BY <1>2, <1>4
<1>6. ASSUME s \in DOMAIN gatheredStatsMap
      PROVE  /\ LastGathered(s) = counted[s][2]
             /\ \A n \in 1 .. historyLength :
                    FullHistory(s)[n] = IF n < Len(counted[s]) THEN <<counted[s][n + 1]>> ELSE PastEnd
  <2> DEFINE L == Len(counted[s])  m == AtMostHistory(L - 1)
  <2>1. L > 1 /\ Kept(s, 1, m) BY <1>3, <1>6, Zenon DEF HistoryAtRest
  <2>2. L \in Nat BY <1>2
  <2>3. historyLength \in Nat /\ historyLength >= 1 BY Atomic
  <2>4. m \in Nat /\ m >= 1 /\ \A n \in 1 .. historyLength : n \in 1 .. m <=> n < L BY <2>1, <2>2, <2>3 DEF AtMostHistory
  <2> HIDE DEF m
  <2>5. gatheredStatsMap[s] \in Seq(Int) /\ Len(gatheredStatsMap[s]) = m /\ \A n \in 1 .. m : gatheredStatsMap[s][n] = counted[s][n + 1]
    BY <2>1 DEF Kept
  <2>6. DOMAIN gatheredStatsMap[s] = 1 .. m BY <2>5
  <2>7. LastGathered(s) = counted[s][2]
    <3>1. 1 \in 1 .. m /\ 1 + 1 = 2 BY <2>4
    <3>2. gatheredStatsMap[s][1] = counted[s][1 + 1] BY <2>5, <3>1
    <3> QED BY <3>1, <3>2 DEF LastGathered
  <2>8. ASSUME NEW n \in 1 .. historyLength
        PROVE  FullHistory(s)[n] = IF n < L THEN <<counted[s][n + 1]>> ELSE PastEnd
    <3>1. FullHistory(s)[n] = IF n \in DOMAIN gatheredStatsMap[s] THEN <<gatheredStatsMap[s][n]>> ELSE PastEnd BY DEF FullHistory
    <3>2. n \in 1 .. m <=> n < L BY <2>4
    <3>3. n \in 1 .. m => gatheredStatsMap[s][n] = counted[s][n + 1] BY <2>5
    <3> QED BY <2>6, <3>1, <3>2, <3>3
  <2> QED BY <2>7, <2>8
<1> QED BY <1>3, <1>5, <1>6, Zenon DEF HistoryAtRest

(* Nothing counted is lost, counted twice or reported in the wrong period as
   long as no update falls into a gathering, and the full history is read past
   its end exactly while fewer than historyLength periods have ended. *)
THEOREM HistoryIsPeriodsCorrect == Spec => []HistoryIsPeriods
<1>1. Init => StatsInv BY InitStats
<1>2. StatsInv /\ [Next]_vars => StatsInv' BY NextPeriods DEF StatsInv
<1>3. StatsInv => HistoryIsPeriods BY PeriodsReported
<1> QED BY <1>1, <1>2, <1>3, PTL DEF Spec

---------------------------------------------------------------------------
(* Sums over finite sets.  The sum of the community modules takes the elements
   in an order of its own; that the order does not matter is shown by taking
   the smallest set, or size of a set, for which the claim would fail. *)

Pick(s) == CHOOSE x \in s : TRUE
SumOver(f, S) == MapThenSumSet(LAMBDA x : f[x], S)

\* g gives the sums of f over the subsets of S that have at most n elements.
Upto(S, n) == {s \in SUBSET S : Cardinality(s) <= n}
Sums(g, f, D) == g = [s \in D |-> IF s = {} THEN 0 ELSE f[Pick(s)] + g[s \ {Pick(s)}]]

LEMMA LeastNumber ==
  ASSUME NEW T, T \subseteq Nat, T # {} PROVE \E i \in T : \A j \in T : i <= j
<1> DEFINE R == {ss \in Nat \X Nat : ss[1] < ss[2]}
<1>1. IsWellFoundedOn(R, Nat) BY NatLessThanWellFounded, Zenon DEF OpToRel
<1>2. PICK i \in T : \A j \in T : ~(<<j, i>> \in R) BY <1>1, WFMin, Zenon
<1>3. ASSUME NEW j \in T PROVE i <= j
  <2>1. i \in Nat /\ j \in Nat OBVIOUS
  <2>2. j < i => <<j, i>> \in R BY <2>1
  <2> QED BY <1>2, <2>1, <2>2
<1> QED BY <1>3

\* Of the finite sets in T one has no more elements than any other.
LEMMA SmallestSet ==
  ASSUME NEW T, T # {}, \A s \in T : IsFiniteSet(s)
  PROVE  \E s \in T : \A t \in T : Cardinality(s) <= Cardinality(t)
<1> DEFINE C == {Cardinality(s) : s \in T}
<1>1. C \subseteq Nat /\ C # {} BY FS_CardinalityType
<1> HIDE DEF C
<1>2. PICK i \in C : \A j \in C : i <= j BY <1>1, LeastNumber
<1> QED BY <1>2 DEF C

LEMMA PickOne ==
  ASSUME NEW s, IsFiniteSet(s), s # {}
  PROVE  /\ Pick(s) \in s /\ IsFiniteSet(s \ {Pick(s)})
         /\ Cardinality(s) \in Nat \ {0} /\ Cardinality(s \ {Pick(s)}) = Cardinality(s) - 1
<1>1. Pick(s) \in s BY DEF Pick
<1>2. Cardinality(s) \in Nat /\ Cardinality(s) # 0 BY FS_CardinalityType, FS_EmptySet
<1> QED BY <1>1, <1>2, FS_RemoveElement

LEMMA SumsExist ==
  ASSUME NEW f, NEW S, IsFiniteSet(S)
  PROVE  \E g : Sums(g, f, SUBSET S)
<1> DEFINE T == {n \in Nat : ~\E g : Sums(g, f, Upto(S, n))}
<1>1. ASSUME NEW s \in SUBSET S PROVE IsFiniteSet(s) /\ Cardinality(s) \in Nat /\ Cardinality(s) <= Cardinality(S)
  BY FS_Subset, FS_CardinalityType
<1>2. T = {}
  <2> SUFFICES ASSUME T # {} PROVE FALSE OBVIOUS
  <2>1. PICK n \in T : \A j \in T : n <= j BY LeastNumber
  <2>2. n \in Nat /\ ~\E g : Sums(g, f, Upto(S, n)) OBVIOUS
  <2>3. n # 0
    <3> SUFFICES ASSUME n = 0 PROVE FALSE OBVIOUS
    <3> DEFINE g == [s \in Upto(S, 0) |-> 0]
    <3>1. ASSUME NEW s \in Upto(S, 0) PROVE s = {}
      BY <1>1, FS_EmptySet DEF Upto
    <3>2. Sums(g, f, Upto(S, 0)) BY <3>1 DEF Sums
    <3> QED BY <2>2, <3>2
  <2>4. n - 1 \in Nat /\ ~(n <= n - 1) BY <2>2, <2>3
  <2>5. n - 1 \notin T BY <2>1, <2>4, Zenon
  <2>6. PICK h : Sums(h, f, Upto(S, n - 1)) BY <2>4, <2>5, Zenon
  <2> DEFINE g == [s \in Upto(S, n) |-> IF s = {} THEN 0 ELSE f[Pick(s)] + h[s \ {Pick(s)}]]
  <2>7. ASSUME NEW s \in Upto(S, n), s # {} PROVE g[s \ {Pick(s)}] = h[s \ {Pick(s)}]
    <3> DEFINE t == s \ {Pick(s)}
    <3>1. t \in SUBSET S /\ Cardinality(t) <= n - 1 BY <1>1, <2>2, <2>7, PickOne DEF Upto
    <3>2. t \in Upto(S, n - 1) /\ t \in Upto(S, n) BY <1>1, <2>2, <3>1 DEF Upto
    <3> HIDE DEF t
    <3>3. h[t] = IF t = {} THEN 0 ELSE f[Pick(t)] + h[t \ {Pick(t)}] BY <2>6, <3>2 DEF Sums
    <3>4. g[t] = IF t = {} THEN 0 ELSE f[Pick(t)] + h[t \ {Pick(t)}] BY <3>2
    <3> QED BY <3>3, <3>4 DEF t
  <2>8. g = [s \in Upto(S, n) |-> IF s = {} THEN 0 ELSE f[Pick(s)] + g[s \ {Pick(s)}]] BY <2>7
  <2> HIDE DEF g
  <2>9. Sums(g, f, Upto(S, n)) BY <2>8 DEF Sums
  <2> QED BY <2>2, <2>9
<1>3. Cardinality(S) \in Nat BY FS_CardinalityType
<1>4. Upto(S, Cardinality(S)) = SUBSET S BY <1>1 DEF Upto
<1>5. \E g : Sums(g, f, Upto(S, Cardinality(S))) BY <1>2, <1>3
<1> HIDE DEF T
<1> QED BY <1>4, <1>5, Zenon

LEMMA SumIsLast ==
  ASSUME NEW f, NEW S, IsFiniteSet(S)
  PROVE  \E g : Sums(g, f, SUBSET S) /\ SumOver(f, S) = g[S]
<1> DEFINE g == CHOOSE g : Sums(g, f, SUBSET S)
<1>1. Sums(g, f, SUBSET S) BY SumsExist
<1>2. SumOver(f, S) = g[S] BY DEF SumOver, Sums, Pick, MapThenSumSet, MapThenFoldSet
<1> HIDE DEF g
<1> QED BY <1>1, <1>2

\* The sums over the subsets of two sets agree where both are given.
LEMMA SumsAgree ==
  ASSUME NEW f, NEW S, IsFiniteSet(S), NEW U, IsFiniteSet(U), NEW g, NEW h,
         Sums(g, f, SUBSET S), Sums(h, f, SUBSET U), NEW s \in SUBSET (S \cap U)
  PROVE  g[s] = h[s]
<1> DEFINE T == {t \in SUBSET (S \cap U) : g[t] # h[t]}
<1> SUFFICES ASSUME T # {} PROVE FALSE OBVIOUS
<1>1. \A t \in T : t \in SUBSET S /\ IsFiniteSet(t) BY FS_Subset
<1>2. PICK t \in T : \A u \in T : Cardinality(t) <= Cardinality(u) BY <1>1, SmallestSet
<1>3. t \in SUBSET S /\ t \in SUBSET U /\ g[t] # h[t] /\ IsFiniteSet(t) BY <1>1
<1>4. g[t] = IF t = {} THEN 0 ELSE f[Pick(t)] + g[t \ {Pick(t)}] BY <1>3 DEF Sums
<1>5. h[t] = IF t = {} THEN 0 ELSE f[Pick(t)] + h[t \ {Pick(t)}] BY <1>3 DEF Sums
<1>6. t # {} BY <1>3, <1>4, <1>5
<1> DEFINE u == t \ {Pick(t)}
<1>7. Cardinality(t) \in Nat /\ Cardinality(u) = Cardinality(t) - 1 BY <1>3, <1>6, PickOne
<1>8. ~(Cardinality(t) <= Cardinality(u)) BY <1>7
<1>9. u \notin T BY <1>2, <1>8
<1>10. u \in SUBSET (S \cap U) BY <1>3
<1>11. g[u] = h[u] BY <1>9, <1>10
<1> QED BY <1>3, <1>4, <1>5, <1>11

LEMMA SumStep ==
  ASSUME NEW f, NEW S, IsFiniteSet(S)
  PROVE  SumOver(f, S) = IF S = {} THEN 0 ELSE f[Pick(S)] + SumOver(f, S \ {Pick(S)})
<1>1. PICK g : Sums(g, f, SUBSET S) /\ SumOver(f, S) = g[S] BY SumIsLast
<1>2. g[S] = IF S = {} THEN 0 ELSE f[Pick(S)] + g[S \ {Pick(S)}] BY <1>1 DEF Sums
<1>3. ASSUME S # {} PROVE SumOver(f, S \ {Pick(S)}) = g[S \ {Pick(S)}]
  <2> DEFINE U == S \ {Pick(S)}
  <2>1. IsFiniteSet(U) BY <1>3, PickOne
  <2>2. U \in SUBSET (S \cap U) OBVIOUS
  <2> HIDE DEF U
  <2>3. PICK h : Sums(h, f, SUBSET U) /\ SumOver(f, U) = h[U] BY <2>1, SumIsLast
  <2>4. g[U] = h[U] BY <1>1, <2>1, <2>2, <2>3, SumsAgree
  <2> QED BY <2>3, <2>4 DEF U
<1> QED BY <1>1, <1>2, <1>3

LEMMA SumOfNone == ASSUME NEW f PROVE SumOver(f, {}) = 0
BY SumStep, FS_EmptySet

LEMMA SumIsNat ==
  ASSUME NEW f, NEW S, IsFiniteSet(S), \A x \in S : f[x] \in Nat
  PROVE  SumOver(f, S) \in Nat
<1> DEFINE T == {t \in SUBSET S : SumOver(f, t) \notin Nat}
<1> SUFFICES ASSUME T # {} PROVE FALSE OBVIOUS
<1>1. \A t \in T : IsFiniteSet(t) BY FS_Subset
<1>2. PICK t \in T : \A u \in T : Cardinality(t) <= Cardinality(u) BY <1>1, SmallestSet
<1>3. t \in SUBSET S /\ SumOver(f, t) \notin Nat /\ IsFiniteSet(t) BY <1>1
<1>4. SumOver(f, t) = IF t = {} THEN 0 ELSE f[Pick(t)] + SumOver(f, t \ {Pick(t)}) BY <1>3, SumStep
<1>5. t # {} BY <1>3, <1>4
<1> DEFINE u == t \ {Pick(t)}
<1>6. Pick(t) \in t /\ Cardinality(t) \in Nat /\ Cardinality(u) = Cardinality(t) - 1 BY <1>3, <1>5, PickOne
<1>7. ~(Cardinality(t) <= Cardinality(u)) BY <1>6
<1>8. u \notin T BY <1>2, <1>7
<1>9. SumOver(f, u) \in Nat BY <1>3, <1>8
<1>10. f[Pick(t)] \in Nat BY <1>3, <1>6
<1> QED BY <1>3, <1>4, <1>5, <1>9, <1>10

\* Any element may be taken first.
LEMMA SumWithout ==
  ASSUME NEW f, NEW S, IsFiniteSet(S), \A x \in S : f[x] \in Nat, NEW x \in S
  PROVE  SumOver(f, S) = f[x] + SumOver(f, S \ {x})
<1> DEFINE Holds(t) == \A y \in t : SumOver(f, t) = f[y] + SumOver(f, t \ {y})
           T == {t \in SUBSET S : ~Holds(t)}
<1>0. T = {}
  <2> SUFFICES ASSUME T # {} PROVE FALSE OBVIOUS
  <2>1. \A t \in T : IsFiniteSet(t) BY FS_Subset
  <2>2. PICK t \in T : \A u \in T : Cardinality(t) <= Cardinality(u) BY <2>1, SmallestSet
  <2>3. t \in SUBSET S /\ IsFiniteSet(t) BY <2>1
  <2>4. PICK y \in t : SumOver(f, t) # f[y] + SumOver(f, t \ {y}) OBVIOUS
  <2> DEFINE z == Pick(t)
  <2>5. SumOver(f, t) = f[z] + SumOver(f, t \ {z}) BY <2>3, <2>4, SumStep
  <2>6. z \in t /\ z # y BY <2>3, <2>4, <2>5, PickOne
  <2>7. \A w \in t : /\ t \ {w} \in SUBSET S /\ IsFiniteSet(t \ {w})
                     /\ Cardinality(t) \in Nat /\ Cardinality(t \ {w}) = Cardinality(t) - 1
    BY <2>3, FS_RemoveElement, FS_CardinalityType
  <2>8. ASSUME NEW w \in t PROVE Holds(t \ {w})
    <3>1. ~(Cardinality(t) <= Cardinality(t \ {w})) BY <2>7
    <3>2. t \ {w} \notin T BY <2>2, <3>1
    <3> QED BY <2>7, <3>2
  <2> HIDE DEF z
  <2>9. SumOver(f, t \ {z}) = f[y] + SumOver(f, (t \ {z}) \ {y}) BY <2>4, <2>6, <2>8
  <2>10. SumOver(f, t \ {y}) = f[z] + SumOver(f, (t \ {y}) \ {z}) BY <2>4, <2>6, <2>8
  <2>11. (t \ {z}) \ {y} = (t \ {y}) \ {z} OBVIOUS
  <2> DEFINE r == SumOver(f, (t \ {y}) \ {z})
  <2>12. IsFiniteSet((t \ {y}) \ {z}) BY <2>4, <2>7, FS_RemoveElement
  <2>13. r \in Nat BY <2>3, <2>12, SumIsNat
  <2>14. f[y] \in Nat /\ f[z] \in Nat BY <2>3, <2>4, <2>6
  <2> HIDE DEF r
  <2>15. SumOver(f, t \ {z}) = f[y] + r /\ SumOver(f, t \ {y}) = f[z] + r BY <2>9, <2>10, <2>11 DEF r
  <2> QED BY <2>4, <2>5, <2>13, <2>14, <2>15
<1>1. S \in SUBSET S OBVIOUS
<1>2. Holds(S) BY <1>0, <1>1
<1> QED BY <1>2

\* Two functions with the same values have the same sum, and so has a set
\* without the elements whose value is zero.
LEMMA SameSum ==
  ASSUME NEW f, NEW g, NEW S, IsFiniteSet(S), NEW U \in SUBSET S,
         \A x \in S : f[x] \in Nat /\ IF x \in U THEN g[x] = f[x] ELSE f[x] = 0
  PROVE  SumOver(f, S) = SumOver(g, U)
<1> DEFINE T == {t \in SUBSET S : SumOver(f, t) # SumOver(g, t \cap U)}
<1>0. T = {}
  <2> SUFFICES ASSUME T # {} PROVE FALSE OBVIOUS
  <2>1. \A t \in T : IsFiniteSet(t) BY FS_Subset
  <2>2. PICK t \in T : \A u \in T : Cardinality(t) <= Cardinality(u) BY <2>1, SmallestSet
  <2>3. t \in SUBSET S /\ IsFiniteSet(t) /\ SumOver(f, t) # SumOver(g, t \cap U) BY <2>1
  <2>4. t # {}
    <3>1. {} \cap U = {} OBVIOUS
    <3> QED BY <2>3, <3>1, SumOfNone
  <2>5. PICK x \in t : TRUE BY <2>4
  <2> DEFINE u == t \ {x}
  <2>6. u \in SUBSET S /\ Cardinality(t) \in Nat /\ Cardinality(u) = Cardinality(t) - 1 /\ IsFiniteSet(u)
    BY <2>3, FS_RemoveElement, FS_CardinalityType
  <2>7. ~(Cardinality(t) <= Cardinality(u)) BY <2>6
  <2>8. u \notin T BY <2>2, <2>7
  <2>9. SumOver(f, u) = SumOver(g, u \cap U) BY <2>6, <2>8
  <2>10. f[x] \in Nat /\ SumOver(f, u) \in Nat /\ SumOver(f, t) = f[x] + SumOver(f, u)
    BY <2>3, <2>5, <2>6, SumIsNat, SumWithout
  <2>11. CASE x \in U
    <3>1. x \in t \cap U /\ (t \cap U) \ {x} = u \cap U BY <2>5, <2>11
    <3>2. IsFiniteSet(t \cap U) /\ \A y \in t \cap U : g[y] \in Nat BY <2>3, FS_Subset
    <3>3. SumOver(g, t \cap U) = g[x] + SumOver(g, (t \cap U) \ {x}) BY <3>1, <3>2, SumWithout
    <3>4. g[x] = f[x] BY <2>3, <2>5, <2>11
    <3> QED BY <2>3, <2>9, <2>10, <3>1, <3>3, <3>4
  <2>12. CASE x \notin U
    <3>1. t \cap U = u \cap U BY <2>12
    <3>2. f[x] = 0 BY <2>3, <2>5, <2>12
    <3>3. SumOver(f, t) = SumOver(f, u) BY <2>10, <3>2
    <3>4. SumOver(f, t) = SumOver(g, t \cap U) BY <2>9, <3>1, <3>3, Zenon
    <3> QED BY <2>3, <3>4
  <2> QED BY <2>11, <2>12
<1>1. S \in SUBSET S /\ S \cap U = U OBVIOUS
<1> QED BY <1>0, <1>1

\* One value has grown by one.
LEMMA SumIncremented ==
  ASSUME NEW f, NEW g, NEW S, IsFiniteSet(S), NEW e,
         \A x \in S : f[x] \in Nat /\ g[x] = IF x = e THEN f[x] + 1 ELSE f[x]
  PROVE  SumOver(g, S) = SumOver(f, S) + IF e \in S THEN 1 ELSE 0
<1>1. SumOver(f, S) \in Nat BY SumIsNat
<1>2. CASE e \notin S
  <2>1. \A x \in S : f[x] \in Nat /\ g[x] = f[x] BY <1>2
  <2>2. SumOver(f, S) = SumOver(g, S) BY <2>1, SameSum
  <2> QED BY <1>1, <1>2, <2>2
<1>3. CASE e \in S
  <2> DEFINE U == S \ {e}
  <2>1. IsFiniteSet(U) BY <1>3, FS_RemoveElement
  <2>2. \A x \in U : f[x] \in Nat /\ g[x] = f[x] OBVIOUS
  <2>3. SumOver(f, U) = SumOver(g, U) BY <2>1, <2>2, SameSum
  <2>4. \A x \in S : g[x] \in Nat OBVIOUS
  <2>5. SumOver(f, S) = f[e] + SumOver(f, U) BY <1>3, SumWithout
  <2>6. SumOver(g, S) = g[e] + SumOver(g, U) BY <1>3, <2>4, SumWithout
  <2>7. f[e] \in Nat /\ g[e] = f[e] + 1 /\ SumOver(f, U) \in Nat BY <1>3, <2>1, <2>2, SumIsNat
  <2> HIDE DEF U
  <2> QED BY <1>3, <2>3, <2>5, <2>6, <2>7
<1> QED BY <1>2, <1>3

LEMMA SumOfAppended ==
  ASSUME NEW s \in Seq(Nat), NEW v \in Nat
  PROVE  SumOver(Append(s, v), DOMAIN Append(s, v)) = SumOver(s, DOMAIN s) + v
<1> DEFINE a == Append(s, v)  n == Len(s)
<1>1. n \in Nat /\ DOMAIN s = 1 .. n /\ DOMAIN a = 1 .. n + 1 /\ a \in Seq(Nat) BY LenProperties, AppendProperties
<1>2. a[n + 1] = v /\ \A i \in 1 .. n : a[i] = s[i] BY AppendProperties
<1> HIDE DEF a
<1>3. IsFiniteSet(1 .. n + 1) /\ IsFiniteSet(1 .. n) BY <1>1, FS_Interval
<1>4. \A i \in 1 .. n + 1 : a[i] \in Nat BY <1>1
<1>5. n + 1 \in 1 .. n + 1 /\ (1 .. n + 1) \ {n + 1} = 1 .. n BY <1>1
<1>6. SumOver(a, 1 .. n + 1) = a[n + 1] + SumOver(a, 1 .. n)
  <2> DEFINE D == 1 .. n + 1
  <2>1. IsFiniteSet(D) /\ (\A i \in D : a[i] \in Nat) /\ n + 1 \in D /\ D \ {n + 1} = 1 .. n BY <1>3, <1>4, <1>5
  <2> HIDE DEF D
  <2>2. SumOver(a, D) = a[n + 1] + SumOver(a, D \ {n + 1}) BY <2>1, SumWithout
  <2> QED BY <2>1, <2>2 DEF D
<1>7. \A i \in 1 .. n : a[i] \in Nat /\ s[i] = a[i] BY <1>1, <1>2, <1>4
<1>8. SumOver(a, 1 .. n) = SumOver(s, 1 .. n) BY <1>3, <1>7, SameSum
<1>9. SumOver(a, 1 .. n) \in Nat BY <1>3, <1>7, SumIsNat
<1> QED BY <1>1, <1>2, <1>6, <1>8, <1>9 DEF a

---------------------------------------------------------------------------
(* ErrorStates: Err in MCKeepers.  The application sets and clears errors at any
   time; what it must not do is part of what is claimed. *)

Known(e) == errorStateMap[<<e, "lower">>]

\* The errors whose ErrorStates are in s.
InList(s) == {e \in Errors : \E k \in DOMAIN s : s[k] = Known(e)}

\* Each error has an ErrorState of its own, with its count, or has none.
CountsExact ==
  /\ errorStateMap \in [Err!Names -> Nat] /\ count \in Seq(0 .. MaxCount) /\ raised \in [Errors -> 0 .. MaxCount]
  /\ \A e \in Errors :
       /\ errorStateMap[<<e, "mixed">>] = 0 /\ Known(e) \in 0 .. Len(count)
       /\ raised[e] = IF Known(e) # 0 THEN count[Known(e)] ELSE 0
       /\ \A f \in Errors : Known(f) = Known(e) => f = e \/ Known(e) = 0

\* The list names errors that are set, each once.
ListsSet(s) ==
  /\ s \in Seq(Nat)
  /\ \A k \in DOMAIN s : \E e \in Errors : Known(e) = s[k] /\ raised[e] > 0
  /\ \A j, k \in DOMAIN s : s[j] = s[k] => j = k

\* What has been read and what is still to be read are together at least what
\* was set when the list was taken, and at most what is set now.
InReport ==
  /\ ListsSet(selm)
  /\ listed \in Seq(Nat) /\ \A i \in DOMAIN listed : listed[i] > 0
  /\ total \in Nat /\ before \in Nat
  /\ total + SumOver(raised, InList(selm)) <= SumOver(raised, Errors)
  /\ reporting = "list" =>
       /\ SumOver(listed, DOMAIN listed) <= total
       /\ before <= SumOver(listed, DOMAIN listed) + SumOver(raised, InList(selm))
  /\ reporting = "add" =>
       /\ selm # <<>> /\ SumOver(listed, DOMAIN listed) <= total + count[Head(selm)]
       /\ before <= SumOver(listed, DOMAIN listed) + SumOver(raised, InList(Tail(selm)))

Orderly == ~capitals /\ ~overcleared

ErrorsInv ==
  /\ capitals \in BOOLEAN /\ overcleared \in BOOLEAN /\ cleared \in BOOLEAN
  /\ Orderly => CountsExact /\ (reporting # "no" /\ ~cleared => InReport)

LEMMA NameOf == \A e \in Errors : <<e, "lower">> \in Err!Names /\ <<e, "mixed">> \in Err!Names
BY DEF Err!Names

LEMMA UnsignedIsExact == ASSUME NEW n \in 0 .. MaxCount PROVE Err!Unsigned(n) = n
<1>1. 2^Width \in Int BY ErrorsAssumption
<1> DEFINE K == 2^Width
<1>2. K \in Int /\ 0 <= n /\ n < K /\ n \in Int BY <1>1, ErrorsAssumption
<1> HIDE DEF K
<1>3. n % K = n BY <1>2
<1> QED BY <1>3 DEF Err!Unsigned, K

\* The count of error e becomes n, in its ErrorState or in a new one.
LEMMA PutCountExact ==
  ASSUME CountsExact, NEW e \in Errors, NEW n \in 0 .. MaxCount, Err!PutCount(<<e, "lower">>, n),
         raised' = [raised EXCEPT ![e] = n]
  PROVE  /\ CountsExact'
         /\ \A f \in Errors : Known(f)' = Known(f) \/ (Known(f) = 0 /\ Known(f)' = Len(count) + 1)
<1> DEFINE key == <<e, "lower">>
<1>1. Err!Unsigned(n) = n BY UnsignedIsExact
<1>2. \A f \in Errors : (<<f, "lower">> = key => f = e) /\ <<f, "mixed">> # key OBVIOUS
<1>3. Len(count) \in Nat /\ DOMAIN count = 1 .. Len(count) /\ \A i \in 1 .. Len(count) : count[i] \in 0 .. MaxCount
  BY LenProperties, ElementOfSeq DEF CountsExact
<1>4. raised' \in [Errors -> 0 .. MaxCount] /\ raised'[e] = n /\ \A f \in Errors : f # e => raised'[f] = raised[f]
  BY DEF CountsExact
<1>5. \A f \in Errors : Known(f) \in Nat /\ (Known(f) # 0 => Known(f) \in 1 .. Len(count))
  <2>1. \A f \in Errors : Known(f) \in 0 .. Len(count) BY DEF CountsExact
  <2> QED BY <1>3, <2>1
<1>6. \A f, g \in Errors : Known(g) = Known(f) => g = f \/ Known(f) = 0 BY DEF CountsExact
<1>7. CASE Known(e) # 0
  <2>1. errorStateMap' = errorStateMap /\ count' = [count EXCEPT ![Known(e)] = n] BY <1>1, <1>7 DEF Err!PutCount, Known
  <2>2. Known(e) \in 1 .. Len(count) BY <1>7, <1>5
  <2>3. count' \in Seq(0 .. MaxCount) /\ Len(count') = Len(count) BY <2>1, <2>2, ExceptSeq DEF CountsExact
  <2>4. count'[Known(e)] = n /\ \A i \in 1 .. Len(count) : i # Known(e) => count'[i] = count[i] BY <1>3, <2>1, <2>2
  <2>5. \A f \in Errors : Known(f)' = Known(f) BY <2>1 DEF Known
  <2>6. ASSUME NEW f \in Errors PROVE raised'[f] = IF Known(f) # 0 THEN count'[Known(f)] ELSE 0
    <3>1. CASE f = e BY <1>4, <1>7, <2>4, <3>1
    <3>2. CASE f # e
      <4>1. Known(f) # 0 => Known(f) \in 1 .. Len(count) /\ Known(f) # Known(e) BY <1>7, <1>5, <1>6, <3>2
      <4>2. raised[f] = IF Known(f) # 0 THEN count[Known(f)] ELSE 0 BY DEF CountsExact
      <4> QED BY <1>4, <2>4, <3>2, <4>1, <4>2
    <3> QED BY <3>1, <3>2
  <2> QED BY <1>4, <2>1, <2>3, <2>5, <2>6 DEF CountsExact
<1>8. CASE Known(e) = 0
  <2>1. count' = Append(count, n) /\ errorStateMap' = [errorStateMap EXCEPT ![key] = Len(count) + 1]
    BY <1>1, <1>8 DEF Err!PutCount, Known
  <2>2. key \in Err!Names BY NameOf
  <2>3. errorStateMap' \in [Err!Names -> Nat]
    <3>1. Len(count) + 1 \in Nat BY <1>3
    <3> QED BY <2>1, <3>1 DEF CountsExact
  <2>4. /\ count' \in Seq(0 .. MaxCount) /\ Len(count') = Len(count) + 1 /\ count'[Len(count) + 1] = n
        /\ \A i \in 1 .. Len(count) : count'[i] = count[i]
    BY <1>3, <2>1, AppendProperties DEF CountsExact
  <2>5. Known(e)' = Len(count) + 1 BY <2>1, <2>2 DEF CountsExact, Known
  <2>6. \A f \in Errors : (f # e => Known(f)' = Known(f)) /\ errorStateMap'[<<f, "mixed">>] = errorStateMap[<<f, "mixed">>]
    BY <1>2, <2>1, NameOf DEF CountsExact, Known
  <2>7. ASSUME NEW f \in Errors
        PROVE  /\ Known(f)' \in 0 .. Len(count')
               /\ raised'[f] = IF Known(f)' # 0 THEN count'[Known(f)'] ELSE 0
               /\ \A g \in Errors : Known(g)' = Known(f)' => g = f \/ Known(f)' = 0
    <3>1. Known(f)' = Len(count) + 1 \/ Known(f)' = Known(f) BY <2>5, <2>6
    <3>2. Known(f)' \in 0 .. Len(count') BY <1>3, <1>5, <2>4, <3>1
    <3>3. CASE f = e
      <4>1. \A g \in Errors \ {e} : Known(g)' # Known(e)'
        <5>1. \A g \in Errors \ {e} : Known(g)' = Known(g) BY <2>6
        <5> QED BY <1>3, <1>5, <2>5, <5>1
      <4>2. Known(e)' # 0 BY <1>3, <2>5
      <4>3. raised'[e] = count'[Known(e)'] BY <1>4, <2>4, <2>5
      <4> QED BY <3>2, <3>3, <4>1, <4>2, <4>3
    <3>4. CASE f # e
      <4>1. raised[f] = IF Known(f) # 0 THEN count[Known(f)] ELSE 0 BY DEF CountsExact
      <4>2. Known(f)' = Known(f) BY <2>6, <3>4
      <4>3. raised'[f] = IF Known(f)' # 0 THEN count'[Known(f)'] ELSE 0 BY <1>4, <1>5, <2>4, <3>4, <4>1, <4>2
      <4>4. ASSUME NEW g \in Errors, Known(g)' = Known(f)' PROVE g = f \/ Known(f)' = 0
        <5>1. CASE g = e BY <1>3, <1>5, <2>5, <4>2, <4>4, <5>1
        <5>2. CASE g # e BY <1>6, <2>6, <4>2, <4>4, <5>2
        <5> QED BY <5>1, <5>2
      <4> QED BY <3>2, <4>3, <4>4
    <3> QED BY <3>3, <3>4
  <2>8. \A f \in Errors : errorStateMap'[<<f, "mixed">>] = 0 BY <2>6 DEF CountsExact
  <2>9. CountsExact' BY <1>4, <2>3, <2>4, <2>7, <2>8 DEF CountsExact
  <2> QED BY <1>8, <2>5, <2>6, <2>9
<1> QED BY <1>7, <1>8

\* A list made from a set has each of its elements once.
LEMMA SeqOfSet ==
  ASSUME NEW S, S \subseteq Nat, IsFiniteSet(S), NEW s \in Err!SetToSeqs(S)
  PROVE  /\ s \in Seq(Nat) /\ \A k \in DOMAIN s : s[k] \in S
         /\ \A x \in S : \E k \in DOMAIN s : s[k] = x
         /\ \A j, k \in DOMAIN s : s[j] = s[k] => j = k
<1> DEFINE D == 1 .. Cardinality(S)
<1>1. s \in [D -> S] /\ \A i, j \in D : i # j => s[i] # s[j]
  <2>1. Err!Cardinality(S) = Cardinality(S) BY DEF Cardinality, Err!Cardinality
  <2>2. s \in {f \in [D -> S] : \A i, j \in D : i # j => f[i] # f[j]} BY <2>1 DEF Err!SetToSeqs
  <2> QED BY <2>2
<1>2. Cardinality(S) \in Nat /\ IsFiniteSet(D) /\ Cardinality(D) = Cardinality(S)
  BY FS_CardinalityType, FS_Interval
<1>3. s \in Seq(Nat)
  <2>1. s \in [D -> Nat] BY <1>1
  <2> QED BY <1>2, <2>1
<1>4. s \in Injection(D, S) BY <1>1 DEF Injection, IsInjective
<1>5. s \in Surjection(D, S) BY <1>2, <1>4, FS_Injection
<1>6. \A x \in S : \E k \in D : s[k] = x BY <1>5 DEF Surjection
<1>7. DOMAIN s = D BY <1>1
<1> HIDE DEF D
<1> QED BY <1>1, <1>3, <1>6, <1>7

\* The error of a number in the list.
LEMMA ListedError ==
  ASSUME CountsExact, ListsSet(selm), NEW k \in DOMAIN selm
  PROVE  \E e \in Errors : /\ Known(e) = selm[k] /\ count[selm[k]] = raised[e] /\ raised[e] \in Nat \ {0}
                           /\ \A f \in Errors : Known(f) = selm[k] => f = e
<1>1. PICK e \in Errors : Known(e) = selm[k] /\ raised[e] > 0 BY DEF ListsSet
<1>2. raised[e] \in Nat \ {0} BY <1>1, ErrorsAssumption DEF CountsExact
<1>3. raised[e] = IF Known(e) # 0 THEN count[Known(e)] ELSE 0 BY DEF CountsExact
<1>4. \A f \in Errors : Known(f) = Known(e) => f = e \/ Known(e) = 0 BY DEF CountsExact
<1> QED BY <1>1, <1>2, <1>3, <1>4

LEMMA MapKept ==
  ASSUME CountsExact, UNCHANGED <<Err!map, raised>>
  PROVE  CountsExact' /\ (\A s : InList(s)' = InList(s) /\ (ListsSet(s) <=> ListsSet(s)'))
<1>1. errorStateMap' = errorStateMap /\ count' = count /\ raised' = raised BY DEF Err!map
<1>2. \A e : Known(e)' = Known(e) BY <1>1 DEF Known
<1>3. CountsExact' BY <1>1 DEF CountsExact, Known
<1> QED BY <1>1, <1>2, <1>3 DEF InList, ListsSet

LEMMA SumsOfRaised ==
  ASSUME CountsExact, NEW U \in SUBSET Errors
  PROVE  IsFiniteSet(U) /\ (\A e \in U : raised[e] \in Nat) /\ SumOver(raised, U) \in Nat
<1>1. IsFiniteSet(U) BY ErrorsAssumption, FS_Subset
<1>2. \A e \in U : raised[e] \in Nat BY ErrorsAssumption DEF CountsExact
<1> QED BY <1>1, <1>2, SumIsNat

\* The errors in a list are still those, and set, when one was set once more.
LEMMA SetKeepsList ==
  ASSUME CountsExact, CountsExact', NEW e \in Errors, raised' = [raised EXCEPT ![e] = raised[e] + 1],
         \A f \in Errors : Known(f)' = Known(f) \/ (Known(f) = 0 /\ Known(f)' = Len(count) + 1)
  PROVE  \A s : ListsSet(s) => ListsSet(s)' /\ InList(s)' = InList(s)
<1> SUFFICES ASSUME NEW s, ListsSet(s) PROVE ListsSet(s)' /\ InList(s)' = InList(s) OBVIOUS
<1>1. \A f \in Errors : raised[f] \in Nat /\ raised'[f] = IF f = e THEN raised[f] + 1 ELSE raised[f]
  BY ErrorsAssumption DEF CountsExact
<1>2. \A k \in DOMAIN s : s[k] \in 1 .. Len(count)
  <2>1. ASSUME NEW k \in DOMAIN s PROVE s[k] \in 1 .. Len(count)
    <3>1. PICK f \in Errors : Known(f) = s[k] /\ raised[f] > 0 BY DEF ListsSet
    <3>2. Known(f) \in 0 .. Len(count) /\ raised[f] = IF Known(f) # 0 THEN count[Known(f)] ELSE 0 BY DEF CountsExact
    <3>3. Len(count) \in Nat BY LenProperties DEF CountsExact
    <3> QED BY <3>1, <3>2, <3>3
  <2> QED BY <2>1
<1>3. Len(count) \in Nat BY LenProperties DEF CountsExact
<1>4. \A f \in Errors, k \in DOMAIN s : s[k] = Known(f) <=> s[k] = Known(f)' BY <1>2, <1>3
<1>5. InList(s)' = InList(s) BY <1>4 DEF InList
<1>6. \A k \in DOMAIN s : \E f \in Errors : Known(f)' = s[k] /\ raised'[f] > 0 BY <1>1, <1>4 DEF ListsSet
<1>7. ListsSet(s)' BY <1>6 DEF ListsSet
<1> QED BY <1>5, <1>7

\* The first error in the list, and those after it.
LEMMA HeadOfList ==
  ASSUME CountsExact, ListsSet(selm), selm # <<>>
  PROVE  \E e \in Errors : /\ Known(e) = Head(selm) /\ count[Head(selm)] = raised[e] /\ raised[e] \in Nat \ {0}
                           /\ e \in InList(selm) /\ InList(Tail(selm)) = InList(selm) \ {e} /\ ListsSet(Tail(selm))
<1> DEFINE rest == Tail(selm)  U == InList(selm)
<1>4. selm \in Seq(Nat) BY DEF ListsSet
<1>5. 1 \in DOMAIN selm /\ Head(selm) = selm[1] BY <1>4
<1>6. PICK e \in Errors : /\ Known(e) = selm[1] /\ count[selm[1]] = raised[e] /\ raised[e] \in Nat \ {0}
                          /\ \A f \in Errors : Known(f) = selm[1] => f = e
  BY <1>5, ListedError
<1>7. /\ rest \in Seq(Nat) /\ \A k \in DOMAIN rest : k + 1 \in DOMAIN selm /\ rest[k] = selm[k + 1] /\ k \in Nat /\ k # 0
      /\ \A k \in DOMAIN selm : k # 1 => k - 1 \in DOMAIN rest /\ rest[k - 1] = selm[k]
  <2>1. rest \in Seq(Nat) /\ Len(rest) = Len(selm) - 1 /\ \A k \in 1 .. Len(rest) : rest[k] = selm[k + 1]
    BY <1>4, HeadTailProperties
  <2>2. DOMAIN selm = 1 .. Len(selm) /\ DOMAIN rest = 1 .. Len(rest) /\ Len(selm) \in Nat /\ Len(rest) \in Nat
    BY <1>4, <2>1, LenProperties
  <2> QED BY <2>1, <2>2
<1> HIDE DEF rest
<1>8. ListsSet(rest)
  <2>1. \A k \in DOMAIN rest : \E f \in Errors : Known(f) = rest[k] /\ raised[f] > 0 BY <1>7 DEF ListsSet
  <2>2. \A j, k \in DOMAIN rest : rest[j] = rest[k] => j = k
    <3>1. \A j, k \in DOMAIN rest : rest[j] = rest[k] => j + 1 = k + 1 BY <1>7 DEF ListsSet
    <3> QED BY <1>7, <3>1
  <2> QED BY <1>7, <2>1, <2>2 DEF ListsSet
<1>9. U \in SUBSET Errors /\ e \in U BY <1>5, <1>6 DEF InList
<1>10. InList(rest) = U \ {e}
  <2>1. ASSUME NEW f \in Errors, NEW k \in DOMAIN rest, rest[k] = Known(f) PROVE f \in U \ {e}
    <3>1. k + 1 \in DOMAIN selm /\ selm[k + 1] = Known(f) /\ k + 1 # 1 BY <1>7, <2>1
    <3>2. f # e
      <4>1. selm[k + 1] # selm[1] BY <1>5, <3>1 DEF ListsSet
      <4> QED BY <1>6, <3>1, <4>1
    <3> QED BY <3>1, <3>2 DEF InList
  <2>2. ASSUME NEW f \in U, f # e PROVE f \in InList(rest)
    <3>1. f \in Errors BY <1>9
    <3>2. PICK k \in DOMAIN selm : selm[k] = Known(f) BY <2>2 DEF InList
    <3>3. k # 1 BY <1>6, <2>2, <3>1, <3>2
    <3> QED BY <1>7, <3>1, <3>2, <3>3 DEF InList
  <2>3. InList(rest) \subseteq U \ {e} BY <2>1 DEF InList
  <2> QED BY <2>2, <2>3
<1> QED BY <1>5, <1>6, <1>8, <1>9, <1>10 DEF rest

\* Setting an error, with a report under way or not.
LEMMA SetKeeps ==
  ASSUME ErrorsInv, Orderly, NEW e \in Errors, Err!Set(<<e, "lower">>)
  PROVE  CountsExact' /\ (reporting' # "no" /\ ~cleared' => InReport')
<1> DEFINE n == <<e, "lower">>
<1>1. CountsExact /\ reporting' = reporting /\ selm' = selm /\ listed' = listed /\ total' = total
      /\ before' = before /\ cleared' = cleared
  BY DEF ErrorsInv, Err!Set, Err!report
<1>2. raised[e] < MaxCount /\ raised' = [raised EXCEPT ![e] = raised[e] + 1] BY DEF Err!Set
<1>3. raised[e] + 1 \in 0 .. MaxCount BY <1>1, <1>2, ErrorsAssumption DEF CountsExact
<1>4. n[1] = e /\ Err!ToLower(n) = n BY DEF Err!ToLower
<1>5. raised[e] = Err!CountAt(n) BY <1>1 DEF CountsExact, Err!CountAt, Known
<1>6. Err!PutCount(n, raised[e] + 1)
  <2>1. CASE errorStateMap[n] # 0 BY <1>4, <1>5, <2>1 DEF Err!Set, Err!SetKnown
  <2>2. CASE errorStateMap[n] = 0
    <3>1. raised[e] = 0 BY <1>5, <2>2 DEF Err!CountAt
    <3>2. Err!Unsigned(1) = 1 BY <1>3, <3>1, UnsignedIsExact
    <3> QED BY <1>4, <2>2, <3>1, <3>2 DEF Err!Set, Err!SetNew, Err!PutCount
  <2> QED BY <2>1, <2>2
<1>7. CountsExact' /\ \A f \in Errors : Known(f)' = Known(f) \/ (Known(f) = 0 /\ Known(f)' = Len(count) + 1)
  BY <1>1, <1>2, <1>3, <1>6, PutCountExact
<1>8. ASSUME reporting # "no", ~cleared PROVE InReport'
  <2>1. InReport BY <1>8 DEF ErrorsInv
  <2>2. \A s : ListsSet(s) => ListsSet(s)' /\ InList(s)' = InList(s) BY <1>1, <1>2, <1>7, SetKeepsList
  <2>3. ListsSet(selm)' /\ InList(selm)' = InList(selm) BY <1>1, <2>1, <2>2 DEF InReport
  <2>4. ASSUME NEW U \in SUBSET Errors
        PROVE  /\ SumOver(raised, U) \in Nat
               /\ SumOver(raised', U) = SumOver(raised, U) + IF e \in U THEN 1 ELSE 0
    <3>1. IsFiniteSet(U) /\ (\A f \in U : raised[f] \in Nat) /\ SumOver(raised, U) \in Nat BY <1>1, SumsOfRaised
    <3>2. \A f \in U : raised[f] \in Nat /\ raised'[f] = IF f = e THEN raised[f] + 1 ELSE raised[f]
      BY <1>1, <1>2, <3>1 DEF CountsExact
    <3> QED BY <3>1, <3>2, SumIncremented
  <2>5. SumOver(listed, DOMAIN listed) \in Nat
    <3>1. listed \in Seq(Nat) BY <2>1 DEF InReport
    <3>2. IsFiniteSet(DOMAIN listed) BY <3>1, LenProperties, FS_Interval
    <3> QED BY <3>1, <3>2, SumIsNat
  <2>6. total \in Nat /\ before \in Nat BY <2>1 DEF InReport
  <2>7. InList(selm) \in SUBSET Errors BY DEF InList
  <2>8. total' + SumOver(raised', InList(selm)') <= SumOver(raised', Errors)
    <3>1. total + SumOver(raised, InList(selm)) <= SumOver(raised, Errors) BY <2>1 DEF InReport
    <3>2. Errors \in SUBSET Errors OBVIOUS
    <3>3. /\ SumOver(raised, Errors) \in Nat
          /\ SumOver(raised', Errors) = SumOver(raised, Errors) + 1
      BY <2>4, <3>2
    <3> QED BY <1>1, <2>3, <2>4, <2>6, <2>7, <3>1, <3>3
  <2>9. CASE reporting = "list"
    <3>1. before <= SumOver(listed, DOMAIN listed) + SumOver(raised, InList(selm)) BY <2>1, <2>9 DEF InReport
    <3>2. before <= SumOver(listed, DOMAIN listed) + SumOver(raised', InList(selm)') BY <2>3, <2>4, <2>5, <2>6, <2>7, <3>1
    <3> QED BY <1>1, <2>1, <2>3, <2>8, <2>9, <3>2 DEF InReport
  <2>10. CASE reporting = "add"
    <3>1. /\ selm # <<>> /\ SumOver(listed, DOMAIN listed) <= total + count[Head(selm)]
          /\ before <= SumOver(listed, DOMAIN listed) + SumOver(raised, InList(Tail(selm)))
      BY <2>1, <2>10 DEF InReport
    <3>2. PICK g \in Errors : /\ Known(g) = Head(selm) /\ count[Head(selm)] = raised[g] /\ raised[g] \in Nat \ {0}
                              /\ ListsSet(Tail(selm))
      BY <1>1, <2>1, <3>1, HeadOfList DEF InReport
    <3>3. InList(Tail(selm))' = InList(Tail(selm)) /\ InList(Tail(selm)) \in SUBSET Errors
      <4>1. InList(Tail(selm))' = InList(Tail(selm)) BY <1>1, <2>2, <3>2
      <4>2. InList(Tail(selm)) \in SUBSET Errors BY DEF InList
      <4> QED BY <4>1, <4>2
    <3>4. before <= SumOver(listed, DOMAIN listed) + SumOver(raised', InList(Tail(selm))')
      BY <2>4, <2>5, <2>6, <3>1, <3>3
    <3>5. count'[Head(selm)] \in Nat /\ count'[Head(selm)] >= count[Head(selm)]
      <4>1. raised[g] = IF Known(g) # 0 THEN count[Known(g)] ELSE 0 BY <1>1 DEF CountsExact
      <4>2. Known(g) # 0 BY <3>2, <4>1
      <4>3. Known(g)' = Known(g) BY <1>7, <4>2
      <4>4. raised'[g] = count'[Known(g)] BY <1>7, <4>2, <4>3 DEF CountsExact
      <4>5. raised'[g] = IF g = e THEN raised[g] + 1 ELSE raised[g] BY <1>1, <1>2 DEF CountsExact
      <4> QED BY <3>2, <4>4, <4>5
    <3>6. SumOver(listed, DOMAIN listed) <= total + count'[Head(selm)] BY <2>5, <2>6, <3>1, <3>2, <3>5
    <3> QED BY <1>1, <2>1, <2>3, <2>8, <2>10, <3>1, <3>4, <3>6 DEF InReport
  <2>11. CASE reporting \notin {"no", "list", "add"} BY <1>1, <2>1, <2>3, <2>8, <2>11 DEF InReport
  <2> QED BY <1>8, <2>9, <2>10, <2>11
<1> QED BY <1>1, <1>7, <1>8

\* Clearing, which leaves nothing to claim of a report under way.
LEMMA ClearKeeps ==
  ASSUME ErrorsInv, Orderly, NEW n \in Err!Names, NEW amount \in 1 .. MaxAmount, Err!Clear(n, amount), ~overcleared'
  PROVE  CountsExact' /\ (reporting' = "no" \/ cleared')
<1>1. PICK e \in Errors : n[1] = e /\ Err!ToLower(n) = <<e, "lower">> BY DEF Err!Names, Err!ToLower
<1> DEFINE key == <<e, "lower">>
<1>2. CountsExact /\ reporting' = reporting /\ cleared' = (reporting # "no") BY DEF ErrorsInv, Err!Clear, Err!report
<1>3. overcleared' = (overcleared \/ amount > raised[e]) BY <1>1 DEF Err!Clear
<1>4. amount <= raised[e] /\ raised[e] \in 0 .. MaxCount
  <2>1. raised[e] \in 0 .. MaxCount BY <1>2 DEF CountsExact
  <2>2. ~(amount > raised[e]) BY <1>3, Zenon
  <2>3. raised[e] \in Int /\ amount \in Int BY <2>1, ErrorsAssumption
  <2> QED BY <2>1, <2>2, <2>3
<1>5. raised' = [raised EXCEPT ![e] = raised[e] - amount] BY <1>1, <1>4 DEF Err!Clear
<1>6. raised[e] - amount \in 0 .. MaxCount BY <1>4, ErrorsAssumption
<1>7. raised[e] = Err!CountAt(key) BY <1>2 DEF CountsExact, Err!CountAt, Known
<1>8. Err!PutCount(key, raised[e] - amount) BY <1>1, <1>7 DEF Err!Clear, Err!Cleared
<1>9. CountsExact' BY <1>2, <1>5, <1>6, <1>8, PutCountExact
<1> QED BY <1>2, <1>9

LEMMA ClearAllKeeps ==
  ASSUME ErrorsInv, Orderly, NEW n \in Err!Names, Err!ClearAll(n)
  PROVE  CountsExact' /\ (reporting' = "no" \/ cleared')
<1>1. PICK e \in Errors : n[1] = e /\ Err!ToLower(n) = <<e, "lower">> BY DEF Err!Names, Err!ToLower
<1>2. CountsExact /\ reporting' = reporting /\ cleared' = (reporting # "no") BY DEF ErrorsInv, Err!ClearAll, Err!report
<1>3. Err!PutCount(<<e, "lower">>, 0) /\ raised' = [raised EXCEPT ![e] = 0] BY <1>1 DEF Err!ClearAll
<1>4. 0 \in 0 .. MaxCount BY ErrorsAssumption
<1>5. CountsExact' BY <1>2, <1>3, <1>4, PutCountExact
<1> QED BY <1>2, <1>5

LEMMA GetStatesLists ==
  ASSUME ErrorsInv, Orderly, Err!GetStates PROVE CountsExact' /\ InReport'
<1> DEFINE S == {i \in {errorStateMap[n] : n \in Err!Names} \ {0} : Err!IsSet(i)}
<1>1. /\ CountsExact /\ reporting' = "list" /\ listed' = <<>> /\ total' = 0 /\ selm' \in Err!SetToSeqs(S)
      /\ before' = Err!AllRaised
  BY DEF ErrorsInv, Err!GetStates
<1>2. UNCHANGED <<Err!map, raised>> BY DEF Err!GetStates
<1>3. ASSUME NEW i \in S PROVE \E e \in Errors : Known(e) = i /\ raised[e] > 0
  <2>1. PICK n \in Err!Names : i = errorStateMap[n] /\ i # 0 /\ count[i] > 0 BY DEF Err!IsSet
  <2>2. PICK e \in Errors : n = <<e, "lower">> \/ n = <<e, "mixed">> BY DEF Err!Names
  <2>3. errorStateMap[<<e, "mixed">>] = 0 BY <1>1 DEF CountsExact
  <2>4. Known(e) = i BY <2>1, <2>2, <2>3 DEF Known
  <2>5. raised[e] = count[i] BY <1>1, <2>1, <2>4 DEF CountsExact
  <2> QED BY <2>1, <2>4, <2>5
<1>4. ASSUME NEW e \in Errors, raised[e] > 0 PROVE Known(e) \in S
  <2>1. raised[e] = IF Known(e) # 0 THEN count[Known(e)] ELSE 0 BY <1>1 DEF CountsExact
  <2>2. Known(e) # 0 /\ raised[e] = count[Known(e)] BY <1>4, <2>1
  <2>3. Known(e) \in {errorStateMap[n] : n \in Err!Names} BY NameOf DEF Known
  <2> QED BY <1>4, <2>2, <2>3 DEF Err!IsSet
<1>5. S \subseteq 1 .. Len(count) /\ Len(count) \in Nat
  <2>1. Len(count) \in Nat BY <1>1, LenProperties DEF CountsExact
  <2>2. \A e \in Errors : Known(e) \in 0 .. Len(count) BY <1>1 DEF CountsExact
  <2>3. 0 \notin S OBVIOUS
  <2> HIDE DEF S
  <2> QED BY <1>3, <2>1, <2>2, <2>3
<1> HIDE DEF S
<1>6. S \subseteq Nat /\ IsFiniteSet(S)
  <2>1. IsFiniteSet(1 .. Len(count)) BY <1>5, FS_Interval
  <2>2. S \in SUBSET (1 .. Len(count)) BY <1>5
  <2>3. IsFiniteSet(S) BY <2>1, <2>2, FS_Subset
  <2>4. S \subseteq Nat BY <1>5
  <2> QED BY <2>3, <2>4
<1>7. /\ selm' \in Seq(Nat) /\ \A k \in DOMAIN selm' : selm'[k] \in S
      /\ \A x \in S : \E k \in DOMAIN selm' : selm'[k] = x
      /\ \A j, k \in DOMAIN selm' : selm'[j] = selm'[k] => j = k
  BY <1>1, <1>6, SeqOfSet
<1>8. ListsSet(selm')
  <2>1. \A k \in DOMAIN selm' : \E e \in Errors : Known(e) = selm'[k] /\ raised[e] > 0 BY <1>3, <1>7
  <2> QED BY <1>7, <2>1 DEF ListsSet
<1> DEFINE U == InList(selm')
<1>9. ASSUME NEW e \in Errors PROVE e \in U <=> raised[e] > 0
  <2>1. ASSUME e \in U PROVE raised[e] > 0
    <3>1. PICK k \in DOMAIN selm' : selm'[k] = Known(e) BY <2>1 DEF InList
    <3>2. Known(e) \in S BY <1>7, <3>1
    <3>3. PICK f \in Errors : Known(f) = Known(e) /\ raised[f] > 0 BY <1>3, <3>2
    <3>4. f = e \/ (Known(e) = 0 /\ raised[f] = 0) BY <1>1, <3>3 DEF CountsExact
    <3> QED BY <3>3, <3>4
  <2>2. ASSUME raised[e] > 0 PROVE e \in U BY <1>4, <1>7, <2>2 DEF InList
  <2> QED BY <2>1, <2>2
<1>10. SumOver(raised, Errors) = SumOver(raised, U) /\ SumOver(raised, U) \in Nat
  <2>1. U \in SUBSET Errors BY DEF InList
  <2> HIDE DEF U
  <2>2. \A e \in Errors : raised[e] \in Nat /\ (IF e \in U THEN raised[e] = raised[e] ELSE raised[e] = 0)
    <3>1. \A e \in Errors : raised[e] \in Nat BY <1>1, SumsOfRaised
    <3> QED BY <1>9, <3>1
  <2>3. IsFiniteSet(Errors) BY ErrorsAssumption
  <2>4. SumOver(raised, Errors) = SumOver(raised, U) BY <2>1, <2>2, <2>3, SameSum
  <2> QED BY <1>1, <2>1, <2>4, SumsOfRaised
<1> HIDE DEF U
<1>11. CountsExact' /\ ListsSet(selm)' /\ InList(selm)' = U BY <1>1, <1>2, <1>8, MapKept DEF U
<1>12. listed' \in Seq(Nat) /\ (\A i \in DOMAIN listed' : listed'[i] > 0) /\ SumOver(listed', DOMAIN listed') = 0
  <2>1. DOMAIN <<>> = {} OBVIOUS
  <2>2. listed' \in Seq(Nat) /\ DOMAIN listed' = {} BY <1>1, <2>1
  <2> QED BY <2>2, SumOfNone
<1>13. raised' = raised BY <1>2
<1>14. before' = SumOver(raised, Errors)
  BY <1>1 DEF SumOver, MapThenSumSet, MapThenFoldSet, Err!AllRaised, Err!MapThenSumSet, Err!MapThenFoldSet
<1>15. InReport' BY <1>1, <1>10, <1>11, <1>12, <1>13, <1>14 DEF InReport
<1> QED BY <1>11, <1>15

LEMMA ListReads ==
  ASSUME ErrorsInv, Orderly, ~cleared, Err!List PROVE CountsExact' /\ InReport'
<1>1. /\ CountsExact /\ InReport /\ reporting = "list" /\ selm # <<>> /\ reporting' = "add"
      /\ listed' = Append(listed, count[Head(selm)])
  BY DEF ErrorsInv, Err!List
<1>2. UNCHANGED <<Err!map, raised>> /\ selm' = selm /\ total' = total /\ before' = before
  BY DEF Err!List, Err!application
<1>3. raised' = raised /\ count' = count BY <1>2 DEF Err!map
<1>4. ListsSet(selm) BY <1>1 DEF InReport
<1>5. PICK e \in Errors : /\ count[Head(selm)] = raised[e] /\ raised[e] \in Nat \ {0}
                          /\ e \in InList(selm) /\ InList(Tail(selm)) = InList(selm) \ {e} /\ ListsSet(Tail(selm))
  BY <1>1, <1>4, HeadOfList
<1>6. count[Head(selm)] \in Nat \ {0} BY <1>5
<1>7. /\ listed \in Seq(Nat) /\ (\A i \in DOMAIN listed : listed[i] > 0) /\ SumOver(listed, DOMAIN listed) <= total
      /\ total \in Nat /\ before \in Nat /\ total + SumOver(raised, InList(selm)) <= SumOver(raised, Errors)
      /\ before <= SumOver(listed, DOMAIN listed) + SumOver(raised, InList(selm))
  BY <1>1 DEF InReport
<1> DEFINE v == count[Head(selm)]
<1>8. SumOver(listed', DOMAIN listed') = SumOver(listed, DOMAIN listed) + v BY <1>1, <1>6, <1>7, SumOfAppended
<1>9. listed' \in Seq(Nat) /\ \A i \in DOMAIN listed' : listed'[i] > 0
  <2> HIDE DEF v
  <2>1. v \in Nat \ {0} /\ listed' = Append(listed, v) BY <1>1, <1>6 DEF v
  <2>2. listed' \in Seq(Nat) /\ Len(listed') = Len(listed) + 1 /\ listed'[Len(listed) + 1] = v
    BY <1>7, <2>1, AppendProperties
  <2>3. \A i \in 1 .. Len(listed) : listed'[i] = listed[i] BY <1>7, <2>1, AppendProperties
  <2>4. DOMAIN listed = 1 .. Len(listed) /\ DOMAIN listed' = 1 .. Len(listed) + 1 /\ Len(listed) \in Nat
    BY <1>7, <2>2, LenProperties
  <2> QED BY <1>7, <2>1, <2>2, <2>3, <2>4
<1>10. CountsExact' /\ ListsSet(selm)' /\ InList(selm)' = InList(selm) /\ InList(Tail(selm))' = InList(Tail(selm))
  BY <1>1, <1>2, <1>4, MapKept
<1>11. SumOver(listed, DOMAIN listed) \in Nat
  <2>1. IsFiniteSet(DOMAIN listed) BY <1>7, LenProperties, FS_Interval
  <2> QED BY <1>7, <2>1, SumIsNat
<1>12. /\ SumOver(raised, InList(selm)) = v + SumOver(raised, InList(Tail(selm)))
       /\ SumOver(raised, InList(Tail(selm))) \in Nat
  <2>1. InList(selm) \in SUBSET Errors /\ InList(Tail(selm)) \in SUBSET Errors BY DEF InList
  <2> QED BY <1>1, <1>5, <2>1, SumsOfRaised, SumWithout
<1>13. /\ SumOver(listed', DOMAIN listed') <= total + v
       /\ before <= SumOver(listed', DOMAIN listed') + SumOver(raised, InList(Tail(selm)))
  <2> HIDE DEF v
  <2>1. v \in Nat BY <1>6 DEF v
  <2> QED BY <1>7, <1>8, <1>11, <1>12, <2>1
<1>14. InReport' BY <1>1, <1>2, <1>3, <1>7, <1>9, <1>10, <1>13 DEF InReport
<1> QED BY <1>10, <1>14

LEMMA AddToTotalAdds ==
  ASSUME ErrorsInv, Orderly, ~cleared, Err!AddToTotal PROVE CountsExact' /\ InReport'
<1> DEFINE v == count[Head(selm)]
<1>1. /\ CountsExact /\ InReport /\ reporting = "add" /\ reporting' = "list"
      /\ total' = total + v /\ selm' = Tail(selm)
  BY DEF ErrorsInv, Err!AddToTotal, Err!Add
<1>2. UNCHANGED <<Err!map, raised>> /\ listed' = listed /\ before' = before BY DEF Err!AddToTotal, Err!application
<1>3. raised' = raised BY <1>2
<1>4. /\ ListsSet(selm) /\ selm # <<>> /\ SumOver(listed, DOMAIN listed) <= total + v
      /\ listed \in Seq(Nat) /\ (\A i \in DOMAIN listed : listed[i] > 0) /\ total \in Nat /\ before \in Nat
      /\ total + SumOver(raised, InList(selm)) <= SumOver(raised, Errors)
      /\ before <= SumOver(listed, DOMAIN listed) + SumOver(raised, InList(Tail(selm)))
  BY <1>1 DEF InReport
<1>5. PICK e \in Errors : /\ v = raised[e] /\ raised[e] \in Nat \ {0}
                          /\ e \in InList(selm) /\ InList(Tail(selm)) = InList(selm) \ {e} /\ ListsSet(Tail(selm))
  BY <1>1, <1>4, HeadOfList
<1> HIDE DEF v
<1>6. /\ SumOver(raised, InList(selm)) = v + SumOver(raised, InList(Tail(selm)))
      /\ SumOver(raised, InList(Tail(selm))) \in Nat /\ SumOver(raised, Errors) \in Nat
  <2>1. InList(selm) \in SUBSET Errors /\ InList(Tail(selm)) \in SUBSET Errors /\ Errors \in SUBSET Errors BY DEF InList
  <2> QED BY <1>1, <1>5, <2>1, SumsOfRaised, SumWithout
<1>7. total' \in Nat /\ total' + SumOver(raised, InList(Tail(selm))) <= SumOver(raised, Errors)
  BY <1>1, <1>4, <1>5, <1>6
<1>8. CountsExact' /\ ListsSet(selm)' /\ InList(selm)' = InList(Tail(selm)) BY <1>1, <1>2, <1>5, MapKept
<1>9. InReport' BY <1>1, <1>2, <1>3, <1>4, <1>7, <1>8 DEF InReport
<1> QED BY <1>8, <1>9

LEMMA NextErrors == ASSUME ErrorsInv, [Err!Next]_(Err!vars) PROVE ErrorsInv'
<1> DEFINE Exact == CountsExact' /\ (reporting' # "no" /\ ~cleared' => InReport')
<1>1. capitals \in BOOLEAN /\ overcleared \in BOOLEAN /\ cleared \in BOOLEAN BY DEF ErrorsInv
<1>2. ASSUME NEW n \in Err!Names, Err!Set(n) PROVE ErrorsInv'
  <2>1. capitals' = (capitals \/ n # Err!ToLower(n)) /\ overcleared' = overcleared /\ cleared' = cleared BY <1>2 DEF Err!Set
  <2>2. ASSUME Orderly' PROVE Exact
    <3>1. Orderly /\ n = Err!ToLower(n) BY <1>1, <2>1, <2>2, Zenon DEF Orderly
    <3>2. PICK e \in Errors : n = <<e, "lower">> BY <3>1 DEF Err!Names, Err!ToLower
    <3> QED BY <1>2, <3>1, <3>2, SetKeeps
  <2>3. capitals' \in BOOLEAN /\ overcleared' \in BOOLEAN /\ cleared' \in BOOLEAN BY <1>1, <2>1
  <2> QED BY <2>2, <2>3 DEF ErrorsInv
<1>3. ASSUME NEW n \in Err!Names, NEW amount \in 1 .. MaxAmount, Err!Clear(n, amount) PROVE ErrorsInv'
  <2>1. /\ capitals' = capitals /\ overcleared' = (overcleared \/ amount > raised[n[1]])
        /\ cleared' = (reporting # "no")
    BY <1>3 DEF Err!Clear
  <2>2. ASSUME Orderly' PROVE Exact
    <3>1. Orderly /\ ~overcleared' BY <1>1, <2>1, <2>2, Zenon DEF Orderly
    <3> QED BY <1>3, <3>1, ClearKeeps
  <2>3. capitals' \in BOOLEAN /\ overcleared' \in BOOLEAN /\ cleared' \in BOOLEAN BY <1>1, <2>1
  <2> QED BY <2>2, <2>3 DEF ErrorsInv
<1>4. ASSUME NEW n \in Err!Names, Err!ClearAll(n) PROVE ErrorsInv'
  <2>1. capitals' = capitals /\ overcleared' = overcleared /\ cleared' = (reporting # "no") BY <1>4 DEF Err!ClearAll
  <2>2. Orderly' => Orderly BY <2>1 DEF Orderly
  <2>3. Orderly' => Exact BY <1>4, <2>2, ClearAllKeeps
  <2>4. capitals' \in BOOLEAN /\ overcleared' \in BOOLEAN /\ cleared' \in BOOLEAN BY <1>1, <2>1
  <2> QED BY <2>3, <2>4 DEF ErrorsInv
<1>5. CASE Err!GetStates
  <2>1. capitals' = capitals /\ overcleared' = overcleared /\ cleared' = FALSE BY <1>5 DEF Err!GetStates
  <2>2. Orderly' => Orderly BY <2>1 DEF Orderly
  <2>3. Orderly' => Exact BY <1>5, <2>2, GetStatesLists
  <2>4. capitals' \in BOOLEAN /\ overcleared' \in BOOLEAN /\ cleared' \in BOOLEAN BY <1>1, <2>1
  <2> QED BY <2>3, <2>4 DEF ErrorsInv
<1>6. CASE Err!List \/ Err!AddToTotal
  <2>1. /\ capitals' = capitals /\ overcleared' = overcleared /\ cleared' = cleared /\ UNCHANGED <<Err!map, raised>>
    BY <1>6 DEF Err!List, Err!AddToTotal, Err!application
  <2>2. Orderly' => Orderly BY <2>1 DEF Orderly
  <2>3. Orderly' => CountsExact' BY <2>1, <2>2, MapKept DEF ErrorsInv
  <2>4. Orderly' /\ ~cleared' => InReport' BY <1>6, <2>1, <2>2, ListReads, AddToTotalAdds
  <2>5. capitals' \in BOOLEAN /\ overcleared' \in BOOLEAN /\ cleared' \in BOOLEAN BY <1>1, <2>1
  <2> QED BY <2>3, <2>4, <2>5 DEF ErrorsInv
<1>7. CASE Err!Report
  <2>1. /\ capitals' = capitals /\ overcleared' = overcleared /\ cleared' = FALSE /\ UNCHANGED <<Err!map, raised>>
        /\ reporting' = "no"
    BY <1>7 DEF Err!Report
  <2>2. Orderly' => Orderly BY <2>1 DEF Orderly
  <2>3. Orderly' => CountsExact' BY <2>1, <2>2, MapKept DEF ErrorsInv
  <2>4. capitals' \in BOOLEAN /\ overcleared' \in BOOLEAN /\ cleared' \in BOOLEAN BY <1>1, <2>1
  <2> QED BY <2>1, <2>3, <2>4 DEF ErrorsInv
<1>8. CASE UNCHANGED Err!vars
  <2>1. /\ UNCHANGED <<Err!map, raised>> /\ UNCHANGED <<selm, listed, total, reporting, before>>
        /\ capitals' = capitals /\ overcleared' = overcleared /\ cleared' = cleared
    BY <1>8 DEF Err!vars, Err!report, Err!application
  <2>2. Orderly' => Orderly BY <2>1 DEF Orderly
  <2>3. ASSUME Orderly' PROVE Exact
    <3>1. CountsExact BY <2>2, <2>3 DEF ErrorsInv
    <3>2. CountsExact' /\ (\A s : InList(s)' = InList(s) /\ (ListsSet(s) <=> ListsSet(s)')) BY <2>1, <3>1, MapKept
    <3>3. /\ InList(selm)' = InList(selm) /\ (ListsSet(selm) <=> ListsSet(selm)')
          /\ InList(Tail(selm))' = InList(Tail(selm))
      BY <2>1, <3>2
    <3>4. count' = count BY <2>1 DEF Err!map
    <3>5. reporting # "no" /\ ~cleared => InReport BY <2>2, <2>3 DEF ErrorsInv
    <3> QED BY <2>1, <3>2, <3>3, <3>4, <3>5 DEF InReport
  <2>4. capitals' \in BOOLEAN /\ overcleared' \in BOOLEAN /\ cleared' \in BOOLEAN BY <1>1, <2>1
  <2> QED BY <2>3, <2>4 DEF ErrorsInv
<1> QED BY <1>2, <1>3, <1>4, <1>5, <1>6, <1>7, <1>8 DEF Err!Next

(* The answer to kch-errstat is a whole account of what is set, for any number
   of errors, in whatever order they are listed, also while threads set errors:
   its counts are positive and make up what was set at its begin, its total is
   no less, and no more than what is set at its end.  An application that
   clears errors meanwhile, has cleared one more often than it set it, or sets
   one under a name with capitals may get another answer. *)
THEOREM ReportAddsUpCorrect == Err!Spec => ReportAddsUp
<1>1. Err!Init => ErrorsInv
  <2> SUFFICES ASSUME Err!Init PROVE ErrorsInv OBVIOUS
  <2>1. /\ errorStateMap = [n \in Err!Names |-> 0] /\ count = <<>> /\ raised = [e \in Errors |-> 0] /\ reporting = "no"
        /\ cleared = FALSE /\ capitals = FALSE /\ overcleared = FALSE
    BY DEF Err!Init
  <2>2. \A e \in Errors : Known(e) = 0 /\ errorStateMap[<<e, "mixed">>] = 0 BY <2>1, NameOf DEF Known
  <2>3. count \in Seq(0 .. MaxCount) /\ Len(count) = 0 /\ 0 \in 0 .. MaxCount BY <2>1, ErrorsAssumption
  <2>4. errorStateMap \in [Err!Names -> Nat] BY <2>1
  <2>5. raised \in [Errors -> 0 .. MaxCount] BY <2>1, <2>3
  <2>6. CountsExact BY <2>1, <2>2, <2>3, <2>4, <2>5 DEF CountsExact
  <2> QED BY <2>1, <2>6 DEF ErrorsInv
<1>2. ErrorsInv /\ [Err!Next]_(Err!vars) => ErrorsInv' BY NextErrors
<1> DEFINE Answer ==
      reporting = "list" /\ reporting' = "no" /\ ~cleared /\ ~overcleared /\ ~capitals =>
        /\ \A i \in DOMAIN listed : listed[i] > 0
        /\ before <= Err!SumOf(listed) /\ Err!SumOf(listed) <= total /\ total <= Err!AllRaised
<1>3. ASSUME ErrorsInv, [Err!Next]_(Err!vars) PROVE Answer
  <2> SUFFICES ASSUME reporting = "list", reporting' = "no", ~cleared, ~overcleared, ~capitals
               PROVE  /\ \A i \in DOMAIN listed : listed[i] > 0
                      /\ before <= Err!SumOf(listed) /\ Err!SumOf(listed) <= total /\ total <= Err!AllRaised
    OBVIOUS
  <2>1. Err!Report
    BY <1>3 DEF Err!Next, Err!vars, Err!report, Err!Set, Err!Clear, Err!ClearAll, Err!GetStates, Err!List, Err!AddToTotal
  <2>2. CountsExact /\ InReport /\ selm = <<>> BY <1>3, <2>1 DEF ErrorsInv, Orderly, Err!Report
  <2>3. InList(selm) = {}
    <3>1. DOMAIN <<>> = {} OBVIOUS
    <3> QED BY <2>2, <3>1 DEF InList
  <2>4. SumOver(raised, InList(selm)) = 0 BY <2>3, SumOfNone
  <2>5. SumOver(listed, DOMAIN listed) \in Nat
    <3>1. listed \in Seq(Nat) BY <2>2 DEF InReport
    <3>2. IsFiniteSet(DOMAIN listed) BY <3>1, LenProperties, FS_Interval
    <3> QED BY <3>1, <3>2, SumIsNat
  <2>6. /\ before <= SumOver(listed, DOMAIN listed) /\ SumOver(listed, DOMAIN listed) <= total
        /\ total <= SumOver(raised, Errors) /\ \A i \in DOMAIN listed : listed[i] > 0
    BY <2>2, <2>4, <2>5 DEF InReport
  <2>7. Err!SumOf(listed) = SumOver(listed, DOMAIN listed)
    BY DEF SumOver, MapThenSumSet, MapThenFoldSet, Err!SumOf, Err!MapThenSumSet, Err!MapThenFoldSet
  <2>8. Err!AllRaised = SumOver(raised, Errors)
    BY DEF SumOver, MapThenSumSet, MapThenFoldSet, Err!AllRaised, Err!MapThenSumSet, Err!MapThenFoldSet
  <2> QED BY <2>6, <2>7, <2>8
<1>4. ErrorsInv /\ [Err!Next]_(Err!vars) => [Answer]_(Err!vars) BY <1>3
<1> QED BY <1>1, <1>2, <1>4, PTL DEF Err!Spec, ReportAddsUp, Err!ReportAddsUp
=============================================================================
