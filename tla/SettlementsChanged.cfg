SPECIFICATION SettlementSpec
CONSTANTS
  CodOrders = {o1}
  Sheets = {1}
  Edits = {1, 2}
  Total = 2
  Parts = {1, 2}
  MaxOutside = 0
  NoSheet = NoSheet
INVARIANTS
  ConfirmedIsLocked
CHECK_DEADLOCK FALSE
