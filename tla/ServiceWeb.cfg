SPECIFICATION Spec
CONSTANTS
  None = None
  Players = {p1, p2}
  Places = {chat, None}
  Games = {g1}
  Callers = {c1, c2}
  ActionRequests = {r1}
  Acceptances = {}
  Withdrawals = {}
  LockRequests = {}
  Capacity = 2
  HistoryLimit = 1
  TurnTime = 2
  MaxRevision = 6
CHECK_DEADLOCK FALSE
SYMMETRY Interchangeable
PROPERTIES SkippedWereWaitedFor SkipsOnlyTheLate RetryKeepsAnswer
