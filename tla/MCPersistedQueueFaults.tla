----------------------- MODULE MCPersistedQueueFaults -----------------------
(***************************************************************************)
(* PersistedQueueFaults for TLC and, in the same run, a client of          *)
(* PersistedQueue that keeps none of the rules of orderly use: it calls    *)
(* shutdown() itself and constructs the queue again within the second; and *)
(* the threads of a ThreadsafePersistedQueue.  A behaviour is about one of *)
(* the three.                                                              *)
(***************************************************************************)
EXTENDS PersistedQueueFaults, ThreadsafePersistedQueue

CONSTANTS a, b, c, d, e,
          RoughItems, RoughPageSize, RoughMaxLen,  \* bounds of the second
          SharedItems, SharedMaxLen                \* bounds of the third

VARIABLE subject

MCItems == {a, b, c, d, e}
MCOrder == <<a, b, c, d, e>>

Rough == INSTANCE PersistedQueue
  WITH Items <- RoughItems, MaxItemsPerPage <- RoughPageSize, MaxLen <- RoughMaxLen,
       SlowRestart <- FALSE, ExplicitShutdown <- TRUE

Shared == INSTANCE ThreadsafePersistedQueue
  WITH Items <- SharedItems, MaxLen <- SharedMaxLen, MaxTime <- 2, ExplicitShutdown <- TRUE

\* The properties of PersistedQueueFaults speak of queues that are not lossy,
\* that of ThreadsafePersistedQueue of behaviours in which no call overlaps
\* shutdown(); the others are taken to be lossy, or overlapped, from the start.
MCInit ==
  /\ Init /\ used = {} /\ delivered = {} /\ holder = "none" /\ twice = FALSE
  /\ subject \in {"faults", "rough client", "threads"}
  /\ lossy = (subject # "faults") /\ overlapped = (subject # "threads")

MCNext ==
  /\ \/ subject = "faults" /\ FaultNext /\ UNCHANGED <<holder, threadHistory>>
     \/ subject = "rough client" /\ Rough!Next /\ UNCHANGED <<faultHistory, holder, threadHistory>>
     \/ subject = "threads" /\ Shared!ThreadNext /\ UNCHANGED faultHistory
  /\ UNCHANGED subject
MCSpec == MCInit /\ [][MCNext]_<<faultVars, holder, threadHistory, subject>>
=============================================================================
