CONSTANTS
  Value = {0, 1}
  Gone = Gone
  Run = {1}
  Action <- MCAction
  Request = {q1}
  Caller = {c1, c2}
  Passer = {p1}
  NoReceipt = NoReceipt
  NoPass = NoPass
SPECIFICATION Spec
INVARIANTS
  HistoryIsExact
PROPERTIES
  AnswersAreTrue
  FirstResultStays
CHECK_DEADLOCK FALSE
SYMMETRY Perms
