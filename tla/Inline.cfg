SPECIFICATION Spec
CONSTANTS
  None = None
  ann = ann
  bob = bob
  eve = eve
  leave = leave
  cancel = cancel
  join = join
  new = new
  begin = begin
  mode = mode
  Users = {ann, bob, eve}
  Seated = {ann, bob}
  Starters = {ann}
  Games = {g1, g2}
  MaxTokens = 3
  UserLimit = 2
  GlobalLimit = 2
  CleanLimit = 1
  Chat = chat
  Commands = {leave, cancel, join, new, begin, mode}
  MaxMessages = 1
  CommandOf <- Sent
  Resets = {reset}
  reset = reset
  InlineWorkers = {w1}
  Capacity = 1
  MaxRevision = 2
  MaxExpired = 1
SYMMETRY Alike
CHECK_DEADLOCK FALSE
INVARIANTS InlineTypeOK StoreAgrees ResultsAreTrue TapsAccounted
PROPERTIES ResultStays StaleAfterTwoChanges
