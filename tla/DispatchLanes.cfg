SPECIFICATION LiveSpec
CONSTANTS
  None = None
  chat = chat
  other = other
  m1 = m1
  m2 = m2
  m3 = m3
  q = q
  r = r
  k = k
  shared = shared
  Chats = {chat, other}
  Messages = {m1, m3}
  Queries = {}
  Resets = {r}
  Ticks = {k}
  ChatOf <- OfChats
  Handlers = {h1, h2}
  Poller = Poller
  Scheduler = Scheduler
  Partitions = {shared}
  QueueOf <- OneQueue
  Inline = Inline
  Recovery = Recovery
  Staff <- OneWorker
  Capacity = 2
  MaxResets = 1
CHECK_DEADLOCK FALSE
INVARIANTS DispatchTypeOK HandledOnce OneAtATime
PROPERTIES RefinesLanes ResetIsReached ResetFreesChat
