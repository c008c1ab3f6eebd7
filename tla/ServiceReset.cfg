SPECIFICATION Spec
CONSTANTS
  None = None
  Players = {p1, p2}
  Places = {chat}
  Games = {g1, g2}
  Callers = {c1, c2}
  ActionRequests = {}
  Acceptances = {a1}
  Withdrawals = {}
  LockRequests = {TRUE, FALSE}
  Capacity = 2
  HistoryLimit = 1
  TurnTime = 1
  MaxRevision = 4
CHECK_DEADLOCK FALSE
SYMMETRY Interchangeable
PROPERTIES ResetIsFinal
