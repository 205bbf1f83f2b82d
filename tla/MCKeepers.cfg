CONSTANTS
  Stats = {s1}
  Queues = {q1}
  historyLength = 2
  MaxChange = 2
  MaxGathers = 3
  Threads = {t1, t2}
  Types = {0, 1}
  Severities = {0}
  BufferSize = 1
  MaxLines = 3
  Errors = {e1, e2}
  Width = 2
  MaxAmount = 2
  MaxCount = 2
SPECIFICATION MCSpec
INVARIANTS HistoryIsPeriods LinesKept
PROPERTIES StopReturns ReportAddsUp
CHECK_DEADLOCK FALSE
