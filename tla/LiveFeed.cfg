SPECIFICATION LiveSpec
CONSTANTS
  None = None
  user = user
  busy = busy
  Users = {user}
  Rooms = {busy, other}
  Places = {chat}
  Requests = {q}
  Calls = {c1, c2}
  Watchers = {s1, s2}
  OwnerOf <- OneUser
  ReceiptLimit = 1
  Changes = 3
  MaxRevision <- OneBusyRoom
  Limit = 1
  MaxFaults = 1
CHECK_DEADLOCK FALSE
INVARIANTS FeedTypeOK RequestFindsItsRoom SocketsAreCounted AnswerShowsEffect
PROPERTIES BoardsCatchUp ResultIsShown
