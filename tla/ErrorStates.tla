---------------------------- MODULE ErrorStates ----------------------------
(***************************************************************************)
(* kisscpp::ErrorStateList, the error states that the threads of an        *)
(* application set and clear, and ErrorReporter, the handler of            *)
(* kch-errstat, which takes the list of the errors that are set under the  *)
(* lock and reads their counts after it has released it.  A name is an     *)
(* error and a spelling of it; the code meant to fold all of them to one.  *)
(***************************************************************************)
EXTENDS Integers, Sequences, FiniteSets, SequencesExt

CONSTANTS Errors,
          Width,           \* counts are unsigned, modulo 2^Width
          MaxAmount,       \* bound: the amount a call of clear() clears
          MaxCount         \* bound: times an error is set and not cleared

VARIABLES
  errorStateMap,   \* name -> the number of its ErrorState, 0 if there is none
  count,           \* the counts of the ErrorStates that were made
  crashed,         \* set() called through a null pointer
  selm,            \* the report: ErrorStates still to be read
  listed, total,   \* ... the counts in it, total_error_count
  reporting,       \* ... and where it is: "no", "list", "add"
  raised,          \* history: each error, as often as it was set and not cleared
  before,          \* history: all that were, when the list for the report was taken
  cleared,         \* history: whether an error was cleared since then
  capitals,        \* history: whether an error was set under a name with capitals
  overcleared      \* history: whether one was cleared more often than it was set

map == <<errorStateMap, count, crashed>>
report == <<selm, listed, total, reporting>>
application == <<raised, cleared, capitals, overcleared>>
vars == <<map, report, application, before>>

Names == Errors \X {"lower", "mixed"}
ToLower(n) == <<n[1], "lower">>
Unsigned(n) == n % 2^Width

TypeOK ==
  /\ errorStateMap \in [Names -> 0 .. Len(count)] /\ crashed \in BOOLEAN
  /\ \A i \in DOMAIN count : count[i] \in 0 .. 2^Width - 1
  /\ \A i \in DOMAIN selm : selm[i] \in DOMAIN count
  /\ reporting \in {"no", "list", "add"} /\ raised \in [Errors -> 0 .. MaxCount]
  /\ listed \in Seq(0 .. 2^Width - 1) /\ total \in Nat /\ before \in Nat
  /\ {cleared, capitals, overcleared} \subseteq BOOLEAN

Init ==
  /\ errorStateMap = [n \in Names |-> 0] /\ count = <<>> /\ crashed = FALSE
  /\ selm = <<>> /\ listed = <<>> /\ total = 0 /\ reporting = "no"
  /\ raised = [e \in Errors |-> 0] /\ before = 0
  /\ cleared = FALSE /\ capitals = FALSE /\ overcleared = FALSE

AllRaised == MapThenSumSet(LAMBDA e : raised[e], Errors)

---------------------------------------------------------------------------
(* The threads of the application, at any time *)

\* Bound: once errors were set under capitals, or cleared too often, during a
\* report, they are left alone until it is sent.
MayAct == ~crashed /\ (capitals \/ overcleared => reporting = "no")

\* The count of the ErrorState under key becomes n, a new one if there is none.
PutCount(key, n) ==
  IF errorStateMap[key] # 0
  THEN count' = [count EXCEPT ![errorStateMap[key]] = Unsigned(n)] /\ UNCHANGED errorStateMap
  ELSE count' = Append(count, Unsigned(n)) /\ errorStateMap' = [errorStateMap EXCEPT ![key] = Len(count) + 1]

CountAt(key) == IF errorStateMap[key] # 0 THEN count[errorStateMap[key]] ELSE 0

\* ErrorState::clear(amount): unsigned, so it wraps below zero.
Cleared(n, amount) == n - amount

\* set(): looks for the lower-case name and uses the one it was given; under
\* a name that is not there operator[] puts a null pointer, which is called.
SetKnown(n) ==
  /\ crashed' = (errorStateMap[n] = 0)
  /\ IF errorStateMap[n] = 0 THEN UNCHANGED <<errorStateMap, count>> ELSE PutCount(n, CountAt(n) + 1)

SetNew(n) ==
  /\ count' = Append(count, 1) /\ errorStateMap' = [errorStateMap EXCEPT ![n] = Len(count) + 1]
  /\ UNCHANGED crashed

Set(n) ==
  /\ MayAct /\ raised[n[1]] < MaxCount /\ raised' = [raised EXCEPT ![n[1]] = @ + 1]
  /\ capitals' = (capitals \/ n # ToLower(n))
  /\ \/ errorStateMap[ToLower(n)] # 0 /\ SetKnown(n)
     \/ errorStateMap[ToLower(n)] = 0 /\ SetNew(n)
  /\ UNCHANGED <<report, before, cleared, overcleared>>

\* clear(), clear_all(): these use the lower-case name throughout.
Clear(n, amount) ==
  /\ MayAct /\ PutCount(ToLower(n), Cleared(CountAt(ToLower(n)), amount))
  /\ raised' = [raised EXCEPT ![n[1]] = IF amount <= @ THEN @ - amount ELSE 0]
  /\ overcleared' = (overcleared \/ amount > raised[n[1]]) /\ cleared' = (reporting # "no")
  /\ UNCHANGED <<crashed, report, before, capitals>>

ClearAll(n) ==
  /\ MayAct /\ PutCount(ToLower(n), 0) /\ raised' = [raised EXCEPT ![n[1]] = 0]
  /\ cleared' = (reporting # "no")
  /\ UNCHANGED <<crashed, report, before, capitals, overcleared>>

---------------------------------------------------------------------------
(* ErrorReporter::run() *)

\* isSet().
IsSet(i) == count[i] > 0

\* getStates(), under the lock: pointers to the ErrorStates that are set, in the
\* order of their names, which may be any.  Bound: none is asked for after errors
\* were set under capitals or cleared too often.
GetStates ==
  /\ ~crashed /\ ~capitals /\ ~overcleared /\ reporting = "no" /\ reporting' = "list"
  /\ listed' = <<>> /\ total' = 0 /\ before' = AllRaised /\ cleared' = FALSE
  /\ selm' \in SetToSeqs({i \in {errorStateMap[n] : n \in Names} \ {0} : IsSet(i)})
  /\ UNCHANGED <<map, raised, capitals, overcleared>>

\* The count of the next error is read, and read again for the total.
List ==
  /\ ~crashed /\ reporting = "list" /\ selm # <<>> /\ reporting' = "add"
  /\ listed' = Append(listed, count[Head(selm)])
  /\ UNCHANGED <<map, selm, total, application, before>>

AddTwice == total + 2 * count[Head(selm)]
Add == total + count[Head(selm)]

AddToTotal ==
  /\ ~crashed /\ reporting = "add" /\ reporting' = "list"
  /\ total' = Add /\ selm' = Tail(selm)
  /\ UNCHANGED <<map, listed, application, before>>

\* The answer is sent, and the report is no more.
Report ==
  /\ ~crashed /\ reporting = "list" /\ selm = <<>> /\ reporting' = "no"
  /\ listed' = <<>> /\ total' = 0 /\ before' = 0 /\ cleared' = FALSE
  /\ UNCHANGED <<map, selm, raised, capitals, overcleared>>

Next ==
  \/ \E n \in Names : Set(n) \/ ClearAll(n) \/ \E amount \in 1 .. MaxAmount : Clear(n, amount)
  \/ GetStates \/ List \/ AddToTotal \/ Report

Spec == Init /\ [][Next]_vars

---------------------------------------------------------------------------
(* Properties *)

\* An error that was cleared with kch-errclear, altogether or as often as it was
\* set, is not set: no ErrorState of it, under whatever spelling, has a count.
ClearedIsCleared ==
  ~overcleared =>
    \A e \in Errors : raised[e] = 0 => \A s \in {"lower", "mixed"} : CountAt(<<e, s>>) = 0

\* An answer to kch-errstat is a whole account, although its counts are read one
\* by one, and twice, while other threads set errors: every count in it is
\* positive, they make up at least what was set when the list was taken, and
\* total_error_count lies between them and what is set at the end; so all are
\* equal if nothing was set meanwhile.  Nothing is claimed if an error was
\* cleared meanwhile, or ever more often than it was set, or was set under a
\* name with capitals.
SumOf(s) == MapThenSumSet(LAMBDA i : s[i], DOMAIN s)
ReportAddsUp ==
  [][reporting = "list" /\ reporting' = "no" /\ ~cleared /\ ~overcleared /\ ~capitals =>
       /\ \A i \in DOMAIN listed : listed[i] > 0
       /\ before <= SumOf(listed) /\ SumOf(listed) <= total /\ total <= AllRaised]_vars
===========================================================================
