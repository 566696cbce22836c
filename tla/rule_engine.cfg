SPECIFICATION FairSpec
CONSTANTS
  Rules = {r1, r2}
  Blocking = {r2}
  Requests = {q1, q2}
  Edits = {e1}
INVARIANTS
  StaleHasAReason
  BookedRulesAreCounted
  CountsAreBacked
PROPERTY StaleRulesRunOut
CHECK_DEADLOCK FALSE
