SPECIFICATION MCSpec
CONSTANTS
  o1 = o1
  o2 = o2
  Orders = {o1, o2}
  Variants = {v1, v2}
  Oversell = {v2}
  MaxUnits = 1
  MaxOnHand = 1
  MaxShipments = 1
  MaxTasks = 2
  Checkout <- MCCheckout
  OrderTotal = 2
  StartBalance = 1
  MaxEndings = 2
  MaxReturns = 2
  ReturnJobs = {o1, o2}
  Offered <- MCOffered
  Charges = {1, 2}
  YearLength = 1
  MaxMonth = 1
  LastMonth = 1
  MaxActs = 1
SYMMETRY MCSymmetry
INVARIANTS
  HoldsFollowOrder
  CallsFollowOrder
  RestockedAllOrNone
  StockAgrees
  RejectionsCounted
  TenderBackOnce
  PointsTakenBack
  SwitchesFit
PROPERTIES
  NeverOversold
