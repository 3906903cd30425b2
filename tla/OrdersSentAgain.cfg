SPECIFICATION Spec
CONSTANTS
  Orders = {o1}
  Variants = {v1}
  Oversell = {}
  MaxUnits = 1
  MaxOnHand = 1
  MaxShipments = 1
  MaxTasks = 1
INVARIANTS
  SentAgainHoldsUnits
