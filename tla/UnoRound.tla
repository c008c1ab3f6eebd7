------------------------------ MODULE UnoRound ------------------------------
(***************************************************************************)
(* What a game of internal/uno promises to the people around the table and *)
(* to the game service: a round that only ever moves as RoundMoves says.   *)
(* UnoEngine implements it (RefinesRound there), and GameService keeps one *)
(* round per game.                                                         *)
(***************************************************************************)
EXTENDS RoundMoves

VARIABLE round

RoundInit == \E f \in FirstWins : round = EmptyRound(f)

RoundNext == \E p \in People, kind \in Kinds : round' \in Moves(round, kind, p)

RoundSpec == RoundInit /\ [][RoundNext]_round
=============================================================================
