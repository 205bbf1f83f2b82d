----------------------------- MODULE LockFile -----------------------------
(***************************************************************************)
(* Starting and stopping the processes of one application instance.  The   *)
(* constructor of kisscpp::Server looks for the lock file, creates it, and *)
(* initializes, ending with listen() on the configured port, which only    *)
(* one process can do at a time.  ~Server() removes the file; a            *)
(* constructor that throws, and a process that is killed, leave it behind, *)
(* and the operator removes it by hand.                                    *)
(***************************************************************************)
EXTENDS Integers

CONSTANTS Processes,
          MaxFailures   \* bound: constructors that throw and processes killed

VARIABLES
  pc,         \* each process: where its constructor is, "running", or "down"
  lockFile,   \* whether the file exists
  failures,   \* history: failures so far, since the last removal by hand
  overlap     \* history: whether a process was started while another was starting

vars == <<pc, lockFile, failures, overlap>>

Starting == {"checkLockFile", "createLockFile", "initialize"}

Init == pc = [p \in Processes |-> "down"] /\ lockFile = FALSE /\ failures = 0 /\ overlap = FALSE

Goes(p, from, to) == pc[p] = from /\ pc' = [pc EXCEPT ![p] = to]

Start(p) ==
  /\ Goes(p, "down", "checkLockFile")
  /\ overlap' = (overlap \/ \E q \in Processes : pc[q] \in Starting)
  /\ UNCHANGED <<lockFile, failures>>

CheckLockFileIgnored(p) ==
  /\ Goes(p, "checkLockFile", "createLockFile") /\ UNCHANGED <<lockFile, failures, overlap>>

\* checkLockFile(): the constructor throws if the file is there.
CheckLockFile(p) ==
  /\ Goes(p, "checkLockFile", IF lockFile THEN "down" ELSE "createLockFile")
  /\ UNCHANGED <<lockFile, failures, overlap>>

\* createLockFile(): opening the file creates it, or truncates the one another
\* process has created since; it may fail.
CreateLockFile(p) ==
  /\ \/ Goes(p, "createLockFile", "initialize") /\ lockFile' = TRUE
     \/ Goes(p, "createLockFile", "down") /\ UNCHANGED lockFile
  /\ UNCHANGED <<failures, overlap>>

\* The rest of the constructor: listen() succeeds for one process at a time.
CanListen(p) == \A q \in Processes \ {p} : pc[q] # "running"

Initialize(p) ==
  /\ CanListen(p) /\ Goes(p, "initialize", "running")
  /\ UNCHANGED <<lockFile, failures, overlap>>

\* It throws: becoming a daemon, reading the configuration, resolving, opening,
\* binding or listening failed.  ~Server() does not run.
InitializeFails(p) ==
  /\ failures < MaxFailures /\ failures' = failures + 1
  /\ Goes(p, "initialize", "down") /\ UNCHANGED <<lockFile, overlap>>

\* run() has returned: ~Server() calls removeLockFile().
RemoveLockFileKept == lockFile' = lockFile
RemoveLockFile == lockFile' = FALSE

Destroy(p) == Goes(p, "running", "down") /\ RemoveLockFile /\ UNCHANGED <<failures, overlap>>

Killed(p) ==
  /\ failures < MaxFailures /\ failures' = failures + 1
  /\ pc[p] \in Starting \cup {"running"} /\ pc' = [pc EXCEPT ![p] = "down"] /\ UNCHANGED <<lockFile, overlap>>

\* "If there is no process executing ... you will have to remove the lock file
\* manually."
RemoveManually ==
  /\ lockFile /\ lockFile' = FALSE /\ failures' = 0 /\ overlap' = FALSE
  /\ (\A p \in Processes : pc[p] = "down") /\ UNCHANGED pc

Next ==
  \/ \E p \in Processes :
       \/ Start(p) \/ CheckLockFile(p) \/ CreateLockFile(p) \/ Initialize(p) \/ InitializeFails(p)
       \/ Destroy(p) \/ Killed(p)
  \/ RemoveManually

Spec == Init /\ [][Next]_vars

---------------------------------------------------------------------------
(* Properties *)

\* A process that serves requests has its lock file, so that a second one is
\* refused before it touches the log or the port; unless one was started while
\* another was starting, which the check of the file does not notice.
ServesWithLock == ~overlap => \A p \in Processes : pc[p] \in {"initialize", "running"} => lockFile

\* A lock file without a process is left only by a constructor that threw or a
\* process that was killed, so a clean stop can be followed by a start.
StaleOnlyAfterFailure ==
  lockFile /\ (\A p \in Processes : pc[p] = "down") => failures > 0
==========================================================================
