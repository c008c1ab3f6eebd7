SPECIFICATION Spec
CONSTANTS
  None = None
  Players = {p1, p2}
  Places = {chat}
  Games = {g1, g2}
  Callers = {c1}
  ActionRequests = {}
  Acceptances = {a1}
  Withdrawals = {d1}
  LockRequests = {}
  Capacity = 2
  HistoryLimit = 2
  TurnTime = 1
  MaxRevision = 4
CHECK_DEADLOCK FALSE
SYMMETRY Interchangeable
PROPERTIES WithdrawalStands
