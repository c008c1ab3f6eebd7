SPECIFICATION Spec
CONSTANTS
  None = None
  Red = Red
  Blue = Blue
  Colors <- TwoColors
  Players = {p1, p2, p3}
  Cards <- DuelTable
  ColorOf <- DuelColors
  RankOf <- DuelRanks
  RuleSets <- BotOnly
  HandSize = 1
  MaxPlayers = 2
  TwoPenalty = 1
  FourPenalty = 2
  WrongCallPenalty = 1
  CustomDeck = TRUE
CHECK_DEADLOCK FALSE
SYMMETRY Seatings
INVARIANTS PenaltyStands DebtInv
PROPERTIES PenaltyPaidOnce
