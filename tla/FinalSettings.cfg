SPECIFICATION Spec
CONSTANTS
  None = None
  Games = {g1, g2}
  Groups = {chat}
  Systems = {legacy, updated}
  Adapters = {a1}
  Loop = Loop
  MaxFaults = 0
CHECK_DEADLOCK FALSE
INVARIANTS SettingsSpareStartedGames
