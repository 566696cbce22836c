SPECIFICATION Spec
CONSTANTS
  None = None
  Attempts = {a1, a2, a3}
  ClientWaits = FALSE
  ServerFails = TRUE
SYMMETRY Symmetric
INVARIANTS
  RepliesAreOfBookings
  RecordStopsLaterAttempts
CHECK_DEADLOCK FALSE
