SPECIFICATION MCSpec
CONSTANTS
  x1 = x1
  x2 = x2
  y1 = y1
  y2 = y2
  d1 = d1
  e1 = e1
  e2 = e2
  c1 = c1
  c2 = c2
  Dispatch = Dispatch
  Events = {e1}
  Consumers = {c1}
  Copies = 2
  Jobs <- MCJobs
  Subject <- MCSubject
  MaxStarts = 2
  MaxRunning = 2
  MaxRevived = 1
  RefundRows = {1, 2}
  References = {x1, x2}
  PaidAmount = 2
  Deliveries = {y1, y2}
  NoRef = NoRef
  NoRow = NoRow
  FeeOrders = {x1, x2}
  PlanFees = {1, 2}
  DebtLimit = 1
  FreeOrders = 1
  TopUps = {d1}
  TopUpAmount = 2
  MaxEntries = 4
  Hooks = {d1}
  LoopSenders = {x1, x2}
  ButtonSenders = {d1}
  MaxTries = 2
  MaxCrashes = 1
  NoHook = NoHook
  CallOrders = {d1}
  Tasks = {1, 2}
  Agents = {x1, x2}
  Requests = {y1, y2}
  NoAgent = NoAgent
  NoOrder = NoOrder
  NoTask = NoTask
  Posts = {1, 2, 3}
  Bodies = {x1, x2}
  MaxStops = 1
  NoBody = NoBody
  ReturnRows = {1, 2}
  Shoppers = {x1, x2}
  LineUnits = 2
  SwapUnits = 2
SYMMETRY MCSymmetry
INVARIANTS
  ServiceTypes
  OneJobPerConsumer
  RefundsAddUp
  FeeFollowsOrder
  UnheardIsScheduled
  LoopsSendOnce
  OneOpenTask
  HolderRecords
  AssigningNeverDeadlocks
  CommittedOnce
  ReturnsAddUp
PROPERTIES
  ImplementsCallDesk
CHECK_DEADLOCK FALSE
