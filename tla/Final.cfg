SPECIFICATION LiveSpec
CONSTANTS
  None = None
  Games = {g1, g2}
  Groups = {chat}
  Systems = {legacy, updated}
  Adapters = {a1}
  Loop = Loop
  MaxFaults = 2
CHECK_DEADLOCK FALSE
INVARIANTS FinalizationTypeOK AwardedOnce AnnouncedOnce NothingForgotten OneSystemPerGroup
PROPERTIES PendingIsStored
