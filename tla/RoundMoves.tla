----------------------------- MODULE RoundMoves -----------------------------
(***************************************************************************)
(* One game of internal/uno with the cards left out: who is seated, who    *)
(* has the turn and whether a choice is awaited, who finished in which     *)
(* place, when it is over.  The game service routes, ranks, times and      *)
(* rematches on nothing else.  Moves(r, kind, p) is every round an action  *)
(* of p may lead to; it is empty when the engine refuses.                  *)
(***************************************************************************)
EXTENDS Naturals, FiniteSets, Sequences

CONSTANTS
  People,
  Capacity,   \* how many may ever have a seat
  Nobody,
  FirstWins   \* the end policies on offer: TRUE ends at the first finisher

Kinds == {"SetRules", "JoinGame", "LeaveGame", "StartGame", "CancelGame", "TurnAction", "SkipTurn"}

Rounds ==
  [ stage : {"Lobby", "Playing", "Over"},
    choosing : BOOLEAN,                     \* a colour or a player is awaited
    firstWins : BOOLEAN,
    roster : SUBSET People,                 \* everybody who ever had a seat
    seated : SUBSET People,
    turn : People \cup {Nobody},
    finishers : Seq(People),                \* who went out, best first
    last : People \cup {Nobody} ]           \* placed after them for being left alone

EmptyRound(firstWins) ==
  [ stage |-> "Lobby", choosing |-> FALSE, firstWins |-> firstWins,
    roster |-> {}, seated |-> {}, turn |-> Nobody, finishers |-> <<>>, last |-> Nobody ]

Finished(r, p) == \E i \in DOMAIN r.finishers : r.finishers[i] = p

When(guard, results) == IF guard THEN results ELSE {}

Over(r, last) == [r EXCEPT !.stage = "Over", !.choosing = FALSE, !.turn = Nobody, !.last = last]

NewRules(r) == When(r.stage = "Lobby", {[r EXCEPT !.firstWins = f] : f \in FirstWins})

Entered(r, p) ==
  When(/\ r.stage # "Over"
       /\ p \notin r.seated
       /\ ~Finished(r, p)
       /\ Cardinality(r.roster \cup {p}) <= Capacity,
       {[r EXCEPT !.roster = @ \cup {p}, !.seated = @ \cup {p}]})

\* The opening card may ask its first player for a colour.
Begun(r) ==
  When(r.stage = "Lobby" /\ Cardinality(r.seated) >= 2,
       UNION {{[r EXCEPT !.stage = "Playing", !.turn = t, !.choosing = c] : c \in BOOLEAN} : t \in r.seated})

\* Whoever owes a choice cannot leave; the last one left ends the round.
Departed(r, p) ==
  LET rest == r.seated \ {p}
  IN  When(p \in r.seated /\ r.stage # "Over" /\ ~(r.choosing /\ r.turn = p),
           CASE r.stage = "Lobby" -> {[r EXCEPT !.seated = rest]}
             [] r.stage = "Playing" /\ Cardinality(rest) = 1 ->
                  {Over([r EXCEPT !.seated = rest], l) : l \in rest}
             [] OTHER -> {[r EXCEPT !.seated = rest, !.turn = t] :
                            t \in IF r.turn = p THEN rest ELSE {r.turn}})

\* A turn that ends with nobody going out, or a step within a turn.
Continued(r) ==
  {[r EXCEPT !.choosing = TRUE]} \cup {[r EXCEPT !.choosing = FALSE, !.turn = t] : t \in r.seated}

\* Only the player on turn can go out.
WentOut(r) ==
  LET rest == r.seated \ {r.turn}
      out == [r EXCEPT !.finishers = Append(@, r.turn), !.seated = rest, !.choosing = FALSE]
  IN  IF r.firstWins THEN {Over(out, Nobody)}
      ELSE IF Cardinality(rest) = 1 THEN {Over(out, l) : l \in rest}
      ELSE {[out EXCEPT !.turn = t] : t \in rest}

TurnTaken(r, p) ==
  When(r.stage = "Playing" /\ r.turn = p, Continued(r) \cup WentOut(r))

\* A skip is for a turn, never for a choice, and moves it to somebody else.
Skipped(r, p) ==
  When(r.stage = "Playing" /\ r.turn = p /\ ~r.choosing,
       {[r EXCEPT !.turn = t] : t \in r.seated \ {p}})

\* A cancelled round places nobody further.
Cancelled(r) == When(r.stage # "Over", {Over(r, r.last)})

Moves(r, kind, p) ==
  CASE kind = "SetRules" -> NewRules(r)
    [] kind = "JoinGame" -> Entered(r, p)
    [] kind = "LeaveGame" -> Departed(r, p)
    [] kind = "StartGame" -> Begun(r)
    [] kind = "CancelGame" -> Cancelled(r)
    [] kind = "TurnAction" -> TurnTaken(r, p)
    [] kind = "SkipTurn" -> Skipped(r, p)
=============================================================================
