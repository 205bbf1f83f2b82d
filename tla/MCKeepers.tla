----------------------------- MODULE MCKeepers -----------------------------
(***************************************************************************)
(* What a process keeps for all its threads, for TLC: the statistics, the  *)
(* log, and the error states.  A behaviour is about one of the three.      *)
(***************************************************************************)
EXTENDS StatsKeeper

CONSTANTS Threads, Types, Severities, BufferSize, MaxLines,   \* of LogStream
          Errors, Width, MaxAmount, MaxCount                  \* of ErrorStates

VARIABLES subject,
          doFlush, lssPerm, outFilePath, outFile, stringPool, maxBufferSize, file, pc, lssTemp, mBuf, dying, logged,
          errorStateMap, count, crashed, selm, listed, total, reporting, raised,
          before, cleared, capitals, overcleared

logVars == <<doFlush, lssPerm, outFilePath, outFile, stringPool, maxBufferSize, file, pc, lssTemp, mBuf, dying, logged>>
errorVars == <<errorStateMap, count, crashed, selm, listed, total, reporting, raised, before, cleared, capitals, overcleared>>

ASSUME LogAssumption == Types \subseteq 0 .. 2 /\ Severities \subseteq 0 .. 2 /\ BufferSize \in Nat /\ MaxLines \in Nat
ASSUME ErrorsAssumption ==
  IsFiniteSet(Errors) /\ Width \in Nat /\ MaxAmount \in Nat /\ MaxCount \in Nat /\ MaxCount < 2^Width

Log == INSTANCE LogStream
Err == INSTANCE ErrorStates

MCInit == Init /\ Log!Init /\ Err!Init /\ subject \in {"stats", "log", "errors"}
MCNext ==
  \/ subject = "stats" /\ Next /\ UNCHANGED <<logVars, errorVars, subject>>
  \/ subject = "log" /\ Log!Next /\ UNCHANGED <<vars, errorVars, subject>>
  \/ subject = "errors" /\ Err!Next /\ UNCHANGED <<vars, logVars, subject>>
MCSpec == /\ MCInit /\ [][MCNext]_<<vars, logVars, errorVars, subject>>
          /\ subject = "stats" => Fairness

\* The property of LogStream: locked_write(), reopening and flushing lose no
\* line, double none and keep their order.
LinesKept == Log!LinesKept
\* The property of ErrorStates: the answer to kch-errstat is a whole account of
\* what is set, also while errors are being set.
ReportAddsUp == Err!ReportAddsUp
=============================================================================
