SPECIFICATION Spec
CONSTANTS
  None = None
  Orphan = Orphan
  t1 = t1
  t2 = t2
  c1 = c1
  Workers = {w1, w2}
  ResIds = {r1, r2}
  Tables = {t1, t2}
  Combos = {c1}
  Members <- MCMembers
  Capacity <- MCCapacity
  CombosNamed = {}
  Starts = {0}
  Duration = 2
  Parties = {2, 4}
  Operations = {"reserve"}
  DepositEnabled = FALSE
  LockOutlivesHandler = TRUE
  ModifySeesVenue = TRUE
INVARIANT NoSharedSeat
