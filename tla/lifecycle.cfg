SPECIFICATION MCSpec
CONSTANTS
  None = None
  Rows = {r1, r2}
  Workers = {w1, w2}
  FirstStatus = {"Pending", "Confirmed"}
  Reservations = {g1, g2}
  Tries = 2
  MaxMishaps = 3
  MaxQueued = 3
  MailTries = 2
  MaxTroubles = 3
SYMMETRY Symmetric
INVARIANTS
  LogIsTrue
  VisitsAreLogged
  RemindedOnce
  MailsAreAccounted
PROPERTY ConfirmedStaysEnded
CHECK_DEADLOCK FALSE
