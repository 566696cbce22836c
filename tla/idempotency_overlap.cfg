SPECIFICATION Spec
CONSTANTS
  None = None
  Attempts = {a1, a2}
  ClientWaits = FALSE
  ServerFails = FALSE
INVARIANT OneBookingPerKey
CHECK_DEADLOCK FALSE
