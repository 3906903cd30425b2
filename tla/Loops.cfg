SPECIFICATION MCFairSpec
CONSTANTS
  x1 = x1
  x2 = x2
  Hooks = {1}
  LoopSenders = {x1}
  ButtonSenders = {x2}
  MaxTries = 2
  MaxCrashes = 1
  NoHook = NoHook
  CallOrders = {3}
  Tasks = {1, 2}
  Agents = {x1}
  Requests = {x1, x2}
  NoAgent = NoAgent
  NoOrder = NoOrder
  NoTask = NoTask
  Workers = {x1, x2}
PROPERTIES
  HooksEnd
  EveryRequestEnds
  TurnsAreRun
CHECK_DEADLOCK FALSE
