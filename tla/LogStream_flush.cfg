CONSTANTS
  Threads = {t1, t2}
  Types = {0, 1}
  Severities = {0}
  BufferSize = 1
  MaxLines = 3
SPECIFICATION Spec
PROPERTY FlushEmptiesPool
CHECK_DEADLOCK FALSE
