SPECIFICATION MCSpec
CONSTANTS
  k1 = k1
  k2 = k2
  Attempts = {1, 2}
  MaxPerOrder = 2
  ByInquiry = {2}
  Callers = {k1, k2}
  MaxFaults = 1
  CodOrders = {k1, k2}
  Sheets = {1, 2}
  Edits = {1, 2, 3}
  Total = 2
  Parts = {1, 2}
  MaxOutside = 2
  NoSheet = NoSheet
SYMMETRY MCSymmetry
INVARIANTS
  MoneyAccounted
  PaidStandsAsSale
  SettlementsAddUp
PROPERTIES
  ExpiryAsksFirst
CHECK_DEADLOCK FALSE
