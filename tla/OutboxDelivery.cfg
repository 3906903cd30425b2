SPECIFICATION FairSpec
CONSTANTS
    e1 = e1  e2 = e2  c1 = c1  c2 = c2
    Dispatch = Dispatch
    Events = {e1}
    Consumers = {c1, c2}
    Copies = 1
    Jobs <- MCJobs
    Subject <- MCSubject
    MaxStarts = 2
    MaxRunning = 2
    MaxRevived = 1
INVARIANTS
  OnlyCommittedDelivered
  NoSilentLoss
PROPERTIES
    EveryEventSettles
CHECK_DEADLOCK FALSE
