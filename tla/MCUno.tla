------------------------------- MODULE MCUno -------------------------------
(***************************************************************************)
(* Small tables for TLC.  A card is written <<colour, rank, copy>>; each   *)
(* run plays with one of the decks below, small enough that a hand runs    *)
(* out, the pile is recycled and a penalty is answered within a few turns. *)
(***************************************************************************)
EXTENDS UnoEngine, TLC

CONSTANTS Red, Blue

TwoColors == {Red, Blue}
Seatings == Permutations(Players)

Color(c) == c[1]
Rank(c) == c[2]
ColorsOf(deck) == [c \in deck |-> Color(c)]
RanksOf(deck) == [c \in deck |-> Rank(c)]

\* Two players, with cards enough to stack and to pay for a wrong challenge.
DuelTable ==
  { <<Red, 1, 1>>, <<Blue, Skip, 1>>, <<Red, DrawTwo, 1>>, <<Blue, DrawTwo, 1>>,
    <<None, WildDrawFour, 1>>, <<None, WildDrawFour, 2>>, <<None, Wild, 1>> }
DuelColors == ColorsOf(DuelTable)
DuelRanks == RanksOf(DuelTable)
BotOnly == {BotRules}

\* The swap card, a Reverse, and penalty cards that answer each other's kind.
CaseiroTable ==
  { <<Red, 1, 1>>, <<Red, DrawTwo, 1>>, <<Blue, Reverse, 1>>,
    <<None, WildDrawFour, 1>>, <<None, SwapHands, 1>> }
CaseiroColors == ColorsOf(CaseiroTable)
CaseiroRanks == RanksOf(CaseiroTable)
AllRules == {ClassicRules, BotRules, CaseiroRules}
=============================================================================
