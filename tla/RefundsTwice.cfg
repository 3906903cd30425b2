SPECIFICATION RefundSpec
CONSTANTS
  RefundRows = {1, 2}
  References = {g1}
  PaidAmount = 1
  Deliveries = {d1}
  NoRef = NoRef
  NoRow = NoRow
INVARIANTS
  NeverRefundedTwice
CHECK_DEADLOCK FALSE
