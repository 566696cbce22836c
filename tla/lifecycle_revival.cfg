SPECIFICATION Spec
CONSTANTS
  None = None
  Rows = {r1}
  Workers = {w1, w2}
  FirstStatus = {"Pending"}
PROPERTY EndedStaysEnded
CHECK_DEADLOCK FALSE
