CONSTANTS
  Items = {i1, i2, i3}
  MaxDelay = 2
  LastPush = 2
  levels = 2
  MaxPriority = 3
  MaxReturns = 2
  Consumers = {c1}
  TwoConsumers = {c1, c2}
  PriorityItems = {i1, i2}
SPECIFICATION MCSpec
INVARIANTS NothingStranded InRange EachItemOnce
PROPERTIES NeverEarly InDueOrder HighestFirst EventuallyDelivered
CHECK_DEADLOCK FALSE
