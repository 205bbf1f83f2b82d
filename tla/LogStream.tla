---------------------------- MODULE LogStream ----------------------------
(***************************************************************************)
(* kisscpp::LogStream: every thread logs through objects of its own, which *)
(* share the log level, the pool of lines not yet written, the flag that   *)
(* asks for the pool to be written, and the file.  Only locked_write() and *)
(* set2ReOpen() hold the mutex; the flag and the level are read and set    *)
(* without it, so endl() and flush() take two steps: the flag is set, and  *)
(* the line is written.  A level is a pair <<type, severity>>, the lowest  *)
(* being <<0, 0>>, debug and low.                                          *)
(***************************************************************************)
EXTENDS Integers, Sequences, FiniteSets

CONSTANTS Threads,
          Types, Severities,  \* 0 .. 2 in the code
          BufferSize,         \* kcc-log-level.buff-size
          MaxLines            \* bound: lines logged

VARIABLES
  doFlush, lssPerm, outFilePath, outFile, stringPool, maxBufferSize,  \* static members
  file,                   \* the lines in the log file
  pc, lssTemp, mBuf,      \* each thread's object: what it does next, its level, text not yet logged
  dying,                  \* ... whether its destructor is running
  logged                  \* history: the lines that passed the filter, in the order of the lock

static == <<doFlush, lssPerm, outFilePath, outFile, stringPool, maxBufferSize, file>>
object == <<pc, lssTemp, mBuf, dying>>
vars == <<static, object, logged>>

Level == Types \X Severities
Everything == <<0, 0>>
InfoNormal == <<1, 1>>

\* The filter of write(): the types first, the severities of equal types next.
Passes(perm, temp) == perm[1] < temp[1] \/ (perm[1] = temp[1] /\ perm[2] <= temp[2])

TypeOK ==
  /\ doFlush \in BOOLEAN /\ lssPerm \in (0 .. 2) \X (0 .. 2)
  /\ outFilePath \in BOOLEAN /\ outFile \in BOOLEAN /\ (outFile => outFilePath)
  /\ maxBufferSize \in {0, BufferSize}
  /\ pc \in [Threads -> {"none", "ready", "endl", "flush"}]
  /\ lssTemp \in [Threads -> (0 .. 2) \X (0 .. 2)]
  /\ mBuf \in [Threads -> BOOLEAN] /\ dying \in [Threads -> BOOLEAN]
  /\ \A t \in Threads : dying[t] => pc[t] = "flush"

Init ==
  /\ doFlush = FALSE /\ lssPerm = InfoNormal /\ outFilePath = FALSE /\ outFile = FALSE
  /\ stringPool = <<>> /\ maxBufferSize = 0 /\ file = <<>>
  /\ pc = [t \in Threads |-> "none"] /\ lssTemp = [t \in Threads |-> InfoNormal]
  /\ mBuf = [t \in Threads |-> FALSE]
  /\ dying = [t \in Threads |-> FALSE]
  /\ logged = <<>>

---------------------------------------------------------------------------
\* locked_write(): with no path set, openLogFile() throws and the line waits
\* in the pool; a file that cannot be opened leaves it there too.
MustWrite(pool, flush) == Len(pool) > maxBufferSize \/ flush

EmptyPoolKept(pool, flush, opened) ==
  /\ file' = IF MustWrite(pool, flush) /\ opened THEN file \o pool ELSE file
  /\ stringPool' = pool

EmptyPool(pool, flush, opened) ==
  IF MustWrite(pool, flush) /\ opened THEN file' = file \o pool /\ stringPool' = <<>>
  ELSE file' = file /\ stringPool' = pool

LockedWrite(t, flush) ==
  LET line == <<t, Len(logged) + 1>>
      pool == Append(stringPool, line)
  IN  /\ Len(logged) < MaxLines
      /\ logged' = Append(logged, line)
      /\ \/ ~outFile /\ ~outFilePath /\ stringPool' = pool /\ UNCHANGED <<file, outFile>>
         \/ /\ outFile \/ outFilePath
            /\ \E opened \in BOOLEAN :
                 (outFile => opened) /\ outFile' = opened /\ EmptyPool(pool, flush, opened)

NotWritten == UNCHANGED <<stringPool, file, outFile, logged>>

\* start_write() and end_write(): a line of their own, at the lowest level.
TraceWrite(t, flush) ==
  \/ lssPerm = Everything /\ LockedWrite(t, flush)
  \/ lssPerm # Everything /\ NotWritten

\* LogStream(src): the new object takes the shared level, then info_normal.
\* Until the file has a path one thread logs: a server starts its others after
\* initializeLogging(), and locked_write() would add to the pool unlocked.
ConstructWith(t, perm, level) ==
  /\ pc[t] = "none" /\ (outFilePath \/ \A u \in Threads : pc[u] = "none")
  /\ pc' = [pc EXCEPT ![t] = "ready"]
  /\ lssTemp' = [lssTemp EXCEPT ![t] = level]
  /\ doFlush' = FALSE /\ lssPerm' = perm
  /\ UNCHANGED <<mBuf, dying>>

Construct(t) ==
  ConstructWith(t, lssPerm, InfoNormal) /\ TraceWrite(t, FALSE) /\ UNCHANGED <<outFilePath, maxBufferSize>>

\* LogStream(src, path, log2console, i), as initializeLogging() calls it: the
\* shared level becomes info and normal, so start_write() writes nothing.
ConstructWithPath(t) ==
  /\ ~outFilePath
  /\ ConstructWith(t, InfoNormal, InfoNormal)
  /\ outFilePath' = TRUE /\ maxBufferSize' = BufferSize
  /\ NotWritten

\* LogStream(manip), whose level is the shared one, and LogStream(manip, src),
\* whose level is the manipulator's: neither calls start_write().
ConstructQuietly(t, level) ==
  ConstructWith(t, lssPerm, level) /\ NotWritten /\ UNCHANGED <<outFilePath, maxBufferSize>>

\* The copy constructor, and operator=.
CopyOf(t, u) ==
  /\ t # u /\ pc[u] # "none"
  /\ ConstructWith(t, lssPerm, lssTemp[u]) /\ TraceWrite(t, FALSE) /\ UNCHANGED <<outFilePath, maxBufferSize>>

Assign(t, u) ==
  /\ pc[t] = "ready" /\ pc[u] # "none" /\ lssTemp[t] # lssTemp[u]
  /\ lssTemp' = [lssTemp EXCEPT ![t] = lssTemp[u]]
  /\ UNCHANGED <<static, pc, mBuf, dying, logged>>

\* A manipulator, or setMessageType() and setSeverity(): the level of the object.
SetLevel(t, level) ==
  /\ pc[t] = "ready" /\ level # lssTemp[t]
  /\ lssTemp' = [lssTemp EXCEPT ![t] = level]
  /\ UNCHANGED <<static, pc, mBuf, dying, logged>>

\* setMessageType(type, true), setSeverity(severity, true): the shared level
\* changes one part at a time.
SetPermanently(t, part, n) ==
  /\ pc[t] = "ready" /\ lssPerm[part] # n
  /\ lssPerm' = [lssPerm EXCEPT ![part] = n]
  /\ lssTemp' = [lssTemp EXCEPT ![t][part] = n]
  /\ UNCHANGED <<doFlush, outFilePath, outFile, stringPool, maxBufferSize, file,
                 pc, mBuf, dying, logged>>

Put(t) ==
  /\ pc[t] = "ready" /\ ~mBuf[t] /\ mBuf' = [mBuf EXCEPT ![t] = TRUE]
  /\ UNCHANGED <<static, pc, lssTemp, dying, logged>>

\* do_write(b): endl() is do_write(false), flush() is do_write(true).
DoWrite(t, b) ==
  /\ pc[t] = "ready" /\ mBuf[t] /\ pc' = [pc EXCEPT ![t] = IF b THEN "flush" ELSE "endl"]
  /\ doFlush' = b
  /\ UNCHANGED <<lssPerm, outFilePath, outFile, stringPool, maxBufferSize, file,
                 lssTemp, mBuf, dying, logged>>

\* The thread returns from do_write(), into the destructor if that called it.
Return(t) ==
  /\ pc' = [pc EXCEPT ![t] = IF dying[t] THEN "none" ELSE "ready"]
  /\ dying' = [dying EXCEPT ![t] = FALSE]

\* write(), and what do_write() does after it.
Write(t) ==
  /\ pc[t] \in {"endl", "flush"}
  /\ \/ Passes(lssPerm, lssTemp[t]) /\ LockedWrite(t, doFlush)
     \/ ~Passes(lssPerm, lssTemp[t]) /\ NotWritten
  /\ mBuf' = [mBuf EXCEPT ![t] = FALSE]
  /\ lssTemp' = [lssTemp EXCEPT ![t] = lssPerm]
  /\ Return(t)
  /\ UNCHANGED <<doFlush, lssPerm, outFilePath, maxBufferSize>>

\* ~LogStream(): end_write(), and flush() if there is text left.
Destroy(t) ==
  /\ pc[t] = "ready" /\ TraceWrite(t, doFlush)
  /\ \/ ~mBuf[t] /\ pc' = [pc EXCEPT ![t] = "none"] /\ UNCHANGED <<doFlush, dying>>
     \/ /\ mBuf[t] /\ pc' = [pc EXCEPT ![t] = "flush"] /\ doFlush' = TRUE
        /\ dying' = [dying EXCEPT ![t] = TRUE]
  /\ UNCHANGED <<lssPerm, outFilePath, maxBufferSize, lssTemp, mBuf>>

\* set2ReOpen(), on SIGHUP.
Set2ReOpen ==
  /\ outFile /\ outFile' = FALSE
  /\ UNCHANGED <<doFlush, lssPerm, outFilePath, stringPool, maxBufferSize, file, object, logged>>

Next ==
  \/ \E t \in Threads :
       \/ Construct(t) \/ ConstructWithPath(t) \/ Put(t) \/ Write(t) \/ Destroy(t)
       \/ \E level \in Level : SetLevel(t, level)
       \/ \E level \in Level \cup {lssPerm} : ConstructQuietly(t, level)
       \/ \E u \in Threads : CopyOf(t, u) \/ Assign(t, u)
       \/ \E n \in Types : SetPermanently(t, 1, n)
       \/ \E n \in Severities : SetPermanently(t, 2, n)
       \/ \E b \in BOOLEAN : DoWrite(t, b)
  \/ Set2ReOpen

Spec == Init /\ [][Next]_vars

---------------------------------------------------------------------------
(* Properties *)

\* The file followed by the pool is every line that passed the filter, in the
\* order of the lock: closing and reopening the file, failing to open it and
\* logging before it has a path lose no line, and write none twice.
LinesKept == file \o stringPool = logged

\* flush() empties the pool: when it has put its line there and the file is
\* open, nothing is left in the pool.
FlushEmptiesPool ==
  [][\A t \in Threads :
       pc[t] = "flush" /\ pc'[t] # "flush" /\ logged' # logged /\ outFile' => stringPool' = <<>>]_vars
==========================================================================
