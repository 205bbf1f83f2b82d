---------------------------- MODULE StatsKeeper ----------------------------
(***************************************************************************)
(* kisscpp::StatsKeeper.  The application's threads update the counters    *)
(* under the lock, and a thread of the keeper gathers and resets them once *)
(* per period without it.  An update reads a counter and writes it, and so *)
(* does the gathering: it copies the counter to the history, then sets it  *)
(* to zero.  The handlers of the standard reports query the keeper under   *)
(* the lock.  Time is counted in periods.                                  *)
(***************************************************************************)
EXTENDS Integers, Sequences, FiniteSets, SequencesExt, FiniteSetsExt

CONSTANTS Stats,           \* the counters the application uses
          Queues,          \* the queues given to addStatableQueue()
          historyLength,   \* kcc-stats.history-length
          MaxChange,       \* bound: changes made to a counter
          MaxGathers       \* bound: gatherings

KcsUptime == "kcs-uptime"
Counters == Stats \cup {KcsUptime}
None == "none"   \* no counter

ASSUME StatsAssumption ==
  /\ historyLength \in Nat \ {0} /\ Counters \cap Queues = {} /\ Stats \cap {KcsUptime, None} = {}
  /\ MaxChange \in Nat /\ MaxGathers \in Nat

VARIABLES
  statsMap,           \* counter -> value, for those used so far
  queueStatsMap,      \* the queues added so far
  gatheredStatsMap,   \* counter or queue -> its gathered values, newest first
  running,            \* whether the keeper runs
  uptime,             \* periods since startTime
  gathering,          \* its thread: "ended", "sleep", "stats", "queues", "trim"
  todo, copied,       \* counters still to be gathered; the one copied and not reset
  update,             \* the update in progress, which holds the lock: <<counter, value>>
  counted,            \* history: what was counted in each period since the first use, newest first
  changes, gathers,   \* history: updates and gatherings made
  raced               \* history: whether an update and a gathering ran at the same time

keeper == <<gatheredStatsMap, running, uptime, gathering, todo, copied, gathers>>
vars == <<statsMap, queueStatsMap, keeper, update, counted, changes, raced>>

NoUpdate == <<>>

TypeOK ==
  /\ DOMAIN statsMap \subseteq Counters /\ queueStatsMap \subseteq Queues
  /\ DOMAIN gatheredStatsMap \subseteq Counters \cup Queues
  /\ running \in BOOLEAN /\ uptime \in 0 .. MaxGathers
  /\ gathering \in {"ended", "sleep", "stats", "queues", "trim"}
  /\ (gathering = "ended" => ~running)
  /\ todo \subseteq DOMAIN statsMap /\ copied \in Counters \cup {None}
  /\ (gathering \in {"ended", "sleep"} => todo = {} /\ copied = None)

\* The constructor starts the thread.
Init ==
  /\ statsMap = <<>> /\ queueStatsMap = {} /\ gatheredStatsMap = <<>>
  /\ running = TRUE /\ uptime = 0 /\ gathering = "sleep"
  /\ todo = {} /\ copied = None /\ update = NoUpdate
  /\ counted = [s \in Counters |-> <<>>] /\ changes = 0 /\ gathers = 0
  /\ raced = FALSE

Put(f, k, v) == [x \in DOMAIN f \cup {k} |-> IF x = k THEN v ELSE f[x]]
ValueOf(s) == IF s \in DOMAIN statsMap THEN statsMap[s] ELSE 0

\* History: the present period of s, its first if need be, has v counted.
Count(s, v) == [counted EXCEPT ![s] = <<v>> \o (IF @ = <<>> THEN <<>> ELSE Tail(@))]

---------------------------------------------------------------------------
(* Updates *)

MayUpdate ==
  /\ update = NoUpdate /\ changes < MaxChange /\ changes' = changes + 1
  /\ raced' = (raced \/ gathering \notin {"ended", "sleep"})

\* increment(), decrement(): the counter is read ...
IncrementBegins(s, by) ==
  /\ MayUpdate /\ update' = <<s, ValueOf(s) + by>>
  /\ counted' = Count(s, (IF counted[s] = <<>> THEN 0 ELSE Head(counted[s])) + by)
  /\ UNCHANGED <<statsMap, queueStatsMap, keeper>>

\* ... and written.
IncrementEnds ==
  /\ update # NoUpdate /\ update' = NoUpdate /\ statsMap' = Put(statsMap, update[1], update[2])
  /\ UNCHANGED <<queueStatsMap, keeper, counted, changes, raced>>

SetStatValue(s, v) ==
  /\ MayUpdate /\ statsMap' = Put(statsMap, s, v) /\ counted' = Count(s, v)
  /\ UNCHANGED <<queueStatsMap, keeper, update>>

AddStatableQueue(id) ==
  /\ id \notin queueStatsMap /\ queueStatsMap' = queueStatsMap \cup {id}
  /\ raced' = (raced \/ gathering \notin {"ended", "sleep"})
  /\ UNCHANGED <<statsMap, keeper, update, counted, changes>>

---------------------------------------------------------------------------
(* Queries *)

\* getCurrentStats() sets the time the keeper is up before it copies the map.
GetCurrentStats ==
  /\ MayUpdate /\ statsMap' = Put(statsMap, KcsUptime, uptime) /\ counted' = Count(KcsUptime, uptime)
  /\ UNCHANGED <<queueStatsMap, keeper, update>>

\* getLastGatheredStats(), getFullStatsHistory(): what they report of one
\* counter.  An index past the end of the deque reads whatever is there, which
\* is kept apart from every <<value>>.
PastEnd == <<>>
LastGathered(id) == gatheredStatsMap[id][1]
FullHistory(id) ==
  [i \in 1 .. historyLength |->
     IF i \in DOMAIN gatheredStatsMap[id] THEN <<gatheredStatsMap[id][i]>> ELSE PastEnd]

---------------------------------------------------------------------------
(* gatherStats() *)

Start ==
  /\ ~running /\ gathering = "ended" /\ running' = TRUE /\ gathering' = "sleep" /\ uptime' = 0
  /\ UNCHANGED <<statsMap, queueStatsMap, gatheredStatsMap, todo, copied, gathers, update, counted, changes, raced>>

\* stop(), which then waits for the thread to end.
Stop ==
  /\ running /\ running' = FALSE
  /\ UNCHANGED <<statsMap, queueStatsMap, gatheredStatsMap, uptime, gathering, todo, copied, gathers,
                 update, counted, changes, raced>>

\* The loops of gatherStats() look at running once per second.
EndsIfIdle == ~running /\ gathers = 0
Ends == ~running

ThreadEnds ==
  /\ gathering = "sleep" /\ Ends /\ gathering' = "ended"
  /\ UNCHANGED <<statsMap, queueStatsMap, gatheredStatsMap, running, uptime, todo, copied, gathers,
                 update, counted, changes, raced>>

\* The period is over: kcs-uptime is set, and all counters are to be gathered.
GatherBegins ==
  /\ gathering = "sleep" /\ running /\ gathers < MaxGathers /\ gathers' = gathers + 1
  /\ raced' = (raced \/ update # NoUpdate)
  /\ uptime' = uptime + 1
  /\ statsMap' = Put(statsMap, KcsUptime, uptime + 1)
  /\ gathering' = "stats" /\ todo' = DOMAIN statsMap \cup {KcsUptime}
  /\ counted' = [s \in Counters |-> IF s = KcsUptime THEN <<0>> \o Count(s, uptime + 1)[s]
                                    ELSE IF counted[s] = <<>> THEN <<>> ELSE <<0>> \o counted[s]]
  /\ UNCHANGED <<queueStatsMap, gatheredStatsMap, running, copied, update, changes>>

PushFront(id, v) ==
  Put(gatheredStatsMap, id, <<v>> \o (IF id \in DOMAIN gatheredStatsMap THEN gatheredStatsMap[id] ELSE <<>>))

\* The counters are taken in the order of the map.
Copy(s) ==
  /\ gathering = "stats" /\ copied = None /\ s \in todo /\ copied' = s /\ todo' = todo \ {s}
  /\ gatheredStatsMap' = PushFront(s, statsMap[s])
  /\ UNCHANGED <<statsMap, queueStatsMap, running, uptime, gathering, gathers, update, counted, changes, raced>>

AfterCopy(s) == 0

Reset ==
  /\ gathering = "stats" /\ copied # None /\ copied' = None
  /\ statsMap' = [statsMap EXCEPT ![copied] = AfterCopy(copied)]
  /\ UNCHANGED <<queueStatsMap, gatheredStatsMap, running, uptime, gathering, todo, gathers,
                 update, counted, changes, raced>>

StatsGathered ==
  /\ gathering = "stats" /\ copied = None /\ todo = {} /\ gathering' = "queues"
  /\ UNCHANGED <<statsMap, queueStatsMap, gatheredStatsMap, running, uptime, todo, copied, gathers,
                 update, counted, changes, raced>>

\* The sizes of the queues, which are not told apart.
GatherQueues ==
  /\ gathering = "queues" /\ gathering' = "trim"
  /\ gatheredStatsMap' = [id \in DOMAIN gatheredStatsMap \cup queueStatsMap |->
                            IF id \in queueStatsMap THEN PushFront(id, "size")[id] ELSE gatheredStatsMap[id]]
  /\ UNCHANGED <<statsMap, queueStatsMap, running, uptime, todo, copied, gathers, update, counted, changes, raced>>

TooLongAtLength(h) == Len(h) >= historyLength
TooLong(h) == Len(h) > historyLength

Trim ==
  /\ gathering = "trim" /\ gathering' = "sleep"
  /\ gatheredStatsMap' = [id \in DOMAIN gatheredStatsMap |->
       IF TooLong(gatheredStatsMap[id]) THEN Front(gatheredStatsMap[id]) ELSE gatheredStatsMap[id]]
  /\ UNCHANGED <<statsMap, queueStatsMap, running, uptime, todo, copied, gathers, update, counted, changes, raced>>

Gather == GatherBegins \/ (\E s \in Counters : Copy(s)) \/ Reset \/ StatsGathered \/ GatherQueues \/ Trim

Next ==
  \/ \E s \in Stats : \E v \in {-1, 1} : IncrementBegins(s, v)
  \/ \E s \in Stats : SetStatValue(s, 2)
  \/ \E id \in Queues : AddStatableQueue(id)
  \/ IncrementEnds \/ GetCurrentStats \/ Start \/ Stop \/ ThreadEnds \/ Gather

Spec == Init /\ [][Next]_vars

\* The keeper's thread runs.
Fairness == WF_vars(Gather) /\ WF_vars(ThreadEnds)

---------------------------------------------------------------------------
(* Properties *)

\* Nothing counted is lost, counted twice or reported in the wrong period: a
\* counter holds what was counted since the last gathering, and the n-th value
\* of its full history is what was counted in the n-th last period.  The full
\* history reads past the end only while fewer periods than historyLength have
\* ended since the counter's first use.  An update made during a gathering,
\* which does not take the lock, can end this.
HistoryIsPeriods ==
  ~raced /\ gathering \in {"ended", "sleep"} /\ update = NoUpdate =>
    \A s \in DOMAIN statsMap :
      /\ statsMap[s] = Head(counted[s])
      /\ s \in DOMAIN gatheredStatsMap <=> Len(counted[s]) > 1
      /\ s \in DOMAIN gatheredStatsMap =>
           /\ LastGathered(s) = counted[s][2]
           /\ \A n \in 1 .. historyLength :
                FullHistory(s)[n] = IF n < Len(counted[s]) THEN <<counted[s][n + 1]>> ELSE PastEnd

\* stop() returns: the thread it waits for ends.
StopReturns == ~running ~> gathering = "ended" \/ running
===========================================================================
