SPECIFICATION PaymentSpec
CONSTANTS
  k1 = k1
  k2 = k2
  Attempts = {1, 2}
  MaxPerOrder = 2
  ByInquiry = {2}
  Callers = {k1, k2}
  MaxFaults = 1

PROPERTIES
  HeardIsHeeded
CHECK_DEADLOCK FALSE
