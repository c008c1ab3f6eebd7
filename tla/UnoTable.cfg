SPECIFICATION Spec
CONSTANTS
  None = None
  Red = Red
  Blue = Blue
  Colors <- TwoColors
  Players = {p1, p2, p3}
  Cards <- CaseiroTable
  ColorOf <- CaseiroColors
  RankOf <- CaseiroRanks
  RuleSets <- AllRules
  HandSize = 1
  MaxPlayers = 3
  TwoPenalty = 1
  FourPenalty = 1
  WrongCallPenalty = 1
  CustomDeck = FALSE
CHECK_DEADLOCK FALSE
SYMMETRY Seatings
INVARIANTS TypeOK CardsConserved StateValid ChallengeSound
PROPERTIES SeatingKeepsTurnOrder HandsLoseCardsByRule RefinesRound
