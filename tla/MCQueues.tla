------------------------------ MODULE MCQueues ------------------------------
(***************************************************************************)
(* The two queues built on PersistedQueue, for TLC: DelayedQueue, and      *)
(* PriorityQueue with one consumer and with two.  They share no state, so  *)
(* a behaviour is about one of them while the others stay as they began.   *)
(***************************************************************************)
EXTENDS DelayedQueue

CONSTANTS levels, MaxPriority, MaxReturns, Consumers,
          TwoConsumers,    \* Consumers is a set of one for TLC
          PriorityItems    \* the items of PriorityQueue

VARIABLES subject,
          persistedQList, shut, stopping, lastPopLevel, lastPopedObject, objectMutex, pc, clearing, outOfRange,
          fresh, taken, mine, misreturned, priority, returns, raced
priorityVars ==
  <<persistedQList, shut, stopping, lastPopLevel, lastPopedObject, objectMutex, pc, clearing, outOfRange,
    fresh, taken, mine, misreturned, priority, returns, raced>>

PQ == INSTANCE PriorityQueue WITH Items <- PriorityItems
PQ2 == INSTANCE PriorityQueue WITH Consumers <- TwoConsumers, Items <- PriorityItems

ASSUME LevelsAssumption == PQ!Bounds

MCInit ==
  /\ Init /\ subject \in {"delayed", "one consumer", "two consumers"}
  /\ IF subject = "one consumer" THEN PQ!Init ELSE PQ2!Init

MCNext ==
  \/ subject = "delayed" /\ Next /\ UNCHANGED <<priorityVars, subject>>
  \/ subject = "one consumer" /\ PQ!Next /\ UNCHANGED <<vars, subject>>
  \/ subject = "two consumers" /\ PQ2!Next /\ UNCHANGED <<vars, subject>>

MCSpec == /\ MCInit /\ [][MCNext]_<<vars, priorityVars, subject>>
          /\ (subject = "delayed" /\ Fairness) \/ subject # "delayed"

\* The properties of PriorityQueue: one consumer that asks empty() first never
\* makes pop() or push_back_last_pop() index outside the list of queues, and
\* returns what it popped ...
InRange == subject = "one consumer" => PQ!InRange
\* ... an item is in one place, where it was pushed to or with the consumer that
\* popped it, with two consumers as well ...
EachItemOnce == PQ!EachItemOnce
\* ... and pop() gives the item of the highest priority.
HighestFirst == PQ!HighestFirst
=============================================================================
