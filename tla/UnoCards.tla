------------------------------ MODULE UnoCards ------------------------------
(***************************************************************************)
(* Cards, ranks, colours and rule sets of internal/uno (card.go, rules.go, *)
(* the deck of deck.go).  A physical card is an opaque identity; what the  *)
(* engine tells apart are its colour and its rank.                         *)
(***************************************************************************)
EXTENDS Naturals, FiniteSets, FiniteSetsExt

CONSTANTS
  Cards,       \* the physical cards, the optional hand-swap card included
  ColorOf,     \* Cards -> Colors, or None for the colourless ranks
  RankOf,      \* Cards -> 0..SwapHands
  Colors,      \* Red, Blue, Green, Yellow
  RuleSets,    \* the rule sets a game may be created with or switched to
  None         \* Go's zero value: no card, no player, NoColor, nil

\* Rank is a Go uint8 whose order the code relies on: numbers are below Skip,
\* coloured action cards below Wild, and every colourless card from Wild on.
Skip == 10
Reverse == 11
DrawTwo == 12
Wild == 13
WildDrawFour == 14
SwapHands == 15

EndPolicies == {"FirstWinner", "Placements"}

Rules ==
  [ EndPolicy : EndPolicies,
    AllowLateJoin : BOOLEAN,
    NumberedStart : BOOLEAN,
    StackDrawTwo : BOOLEAN,
    StackWildDrawFour : BOOLEAN,
    StackWildDrawFourOnTwo : BOOLEAN,
    StackDrawTwoOnWildFour : BOOLEAN,
    NoWildFinish : BOOLEAN,
    NoWildOnWild : BOOLEAN,
    AllowWildDrawFourAlways : BOOLEAN,
    AllowSwapHands : BOOLEAN,
    FreePlayAfterDraw : BOOLEAN ]

ClassicRules ==
  [ EndPolicy |-> "FirstWinner",
    AllowLateJoin |-> FALSE,
    NumberedStart |-> FALSE,
    StackDrawTwo |-> FALSE,
    StackWildDrawFour |-> FALSE,
    StackWildDrawFourOnTwo |-> FALSE,
    StackDrawTwoOnWildFour |-> FALSE,
    NoWildFinish |-> FALSE,
    NoWildOnWild |-> FALSE,
    AllowWildDrawFourAlways |-> FALSE,
    AllowSwapHands |-> FALSE,
    FreePlayAfterDraw |-> FALSE ]

BotRules ==
  [ ClassicRules EXCEPT
    !.EndPolicy = "Placements",
    !.AllowLateJoin = TRUE,
    !.NumberedStart = TRUE,
    !.StackDrawTwo = TRUE,
    !.StackWildDrawFour = TRUE,
    !.NoWildFinish = TRUE,
    !.NoWildOnWild = TRUE,
    !.AllowWildDrawFourAlways = TRUE,
    !.FreePlayAfterDraw = TRUE ]

CaseiroRules ==
  [ BotRules EXCEPT
    !.StackWildDrawFour = FALSE,
    !.StackWildDrawFourOnTwo = TRUE,
    !.StackDrawTwoOnWildFour = TRUE,
    !.AllowSwapHands = TRUE ]

\* Some rule lets a Wild Draw Four leave a running penalty instead of being
\* drawn at once (the condition of choose).
StacksDrawFour(rules) ==
  \/ rules.StackWildDrawFour
  \/ rules.StackWildDrawFourOnTwo
  \/ rules.StackDrawTwoOnWildFour

\* The standard inventory: the swap card is there only when the rules use it.
DeckForRules(rules) ==
  IF rules.AllowSwapHands THEN Cards ELSE {c \in Cards : RankOf[c] # SwapHands}

CardsAssumption ==
  /\ IsFiniteSet(Cards)
  /\ RankOf \in [Cards -> 0 .. SwapHands]
  /\ ColorOf \in [Cards -> Colors \cup {None}]
  /\ None \notin Cards \cup Colors
  /\ \A c \in Cards : ColorOf[c] = None <=> RankOf[c] >= Wild
  /\ RuleSets \subseteq Rules
  /\ RuleSets # {}

ASSUME CardsOK == CardsAssumption
=============================================================================
