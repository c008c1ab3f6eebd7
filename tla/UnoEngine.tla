----------------------------- MODULE UnoEngine -----------------------------
(***************************************************************************)
(* The rules engine of internal/uno: one game, from its lobby to its end.  *)
(*                                                                         *)
(* `state` is the State the Go engine keeps.  Every handler works on a     *)
(* clone and commits it only when it returns no error, so an action here   *)
(* is a guard (the handler accepts) and the state it commits.  Helpers map *)
(* a state to the state the Go helper leaves behind it; a helper that      *)
(* draws cards maps it to a set of states, because the pile is shuffled,   *)
(* and to the empty set when it fails with ErrDeckEmpty.                   *)
(*                                                                         *)
(* Piles and hands are sets of physical cards: the draw order is unknown   *)
(* to everybody, so the next card is any card of the pile.  The top of the *)
(* discard pile is kept apart from the cards below it.  The revision that  *)
(* apply compares is the game service's concern and is left out here.      *)
(***************************************************************************)
EXTENDS UnoCards, Integers, Sequences, Functions

CONSTANTS
  Players,     \* the people who may ever ask to join
  HandSize,    \* cards dealt to a player: 7
  MaxPlayers,  \* registered participants of one game, departed ones included: 10
  TwoPenalty,  \* cards a Draw Two costs: 2
  FourPenalty, \* cards a Wild Draw Four costs: 4
  WrongCallPenalty,  \* cards a wrong challenge adds: 2
  CustomDeck   \* whether the game was made WithDeck

SX == INSTANCE SequencesExt

EngineAssumption ==
  /\ IsFiniteSet(Players) /\ Players # {}
  /\ None \notin Players
  /\ HandSize \in Nat \ {0}
  /\ MaxPlayers \in Nat
  /\ {TwoPenalty, FourPenalty, WrongCallPenalty} \subseteq Nat \ {0}
  /\ CustomDeck \in BOOLEAN

ASSUME EngineOK == EngineAssumption

\* NewGame refuses an empty deck (Validate), and no deck of the code is empty.
DeckAssumption == \A rules \in RuleSets : DeckForRules(rules) # {}

ASSUME DeckOK == DeckAssumption

VARIABLE state
vars == <<state>>

Phases == {"Lobby", "TakingTurn", "ChoosingColor", "ChoosingPlayer", "Finished"}
ActivePhases == {"TakingTurn", "ChoosingColor", "ChoosingPlayer"}
Statuses == {"None", "Playing", "WentOut", "Left"}   \* "None": never registered
FinishReasons == {"Completed", "Departure", "Cancelled"}

ColorChoice ==
  [ actor : Players,
    target : Players,
    previousColor : Colors \cup {None},
    drawCount : {0, FourPenalty},
    initial : BOOLEAN,
    bluffing : BOOLEAN,
    challengeable : BOOLEAN,
    swapHands : BOOLEAN,
    swapTarget : Players \cup {None} ]

BluffInfo == [actor : Players, target : Players, bluffing : BOOLEAN]
Placement == [player : Players, wentOut : BOOLEAN]

\* A choice, a challenge or an end that is there is not the one that is not.
NothingAssumption ==
  /\ None \notin ColorChoice \cup BluffInfo
  /\ None \notin FinishReasons

ASSUME NothingOK == NothingAssumption

State ==
  [ rules : RuleSets,
    phase : Phases,
    inventory : SUBSET Cards,
    drawPile : SUBSET Cards,
    discards : SUBSET Cards,              \* below the top
    top : Cards \cup {None},
    hands : [Players -> SUBSET Cards],
    status : [Players -> Statuses],
    order : Seq(Players),                 \* active seats only
    dealer : Players \cup {None},
    current : Players \cup {None},
    direction : {-1, 1},
    activeColor : Colors \cup {None},
    drawnCard : Cards \cup {None},
    drawCounter : Nat,
    pending : ColorChoice \cup {None},
    pendingBluff : BluffInfo \cup {None},
    challengeable : BOOLEAN,
    placements : Seq(Placement),
    finishReason : FinishReasons \cup {None} ]

-----------------------------------------------------------------------------
(* Seats *)

Participants(s) == {p \in Players : s.status[p] # "None"}
Seated(s) == Range(s.order)
HasPlacement(s, p) == \E i \in DOMAIN s.placements : s.placements[i].player = p

SeatOf(order, p) == CHOOSE i \in DOMAIN order : order[i] = p
Without(order, p) == SX!RemoveAt(order, SeatOf(order, p))

\* The player `steps` seats away in the direction of play; nobody when p has
\* no seat.
NextSeat(s, p, steps) ==
  IF p \in Seated(s)
  THEN s.order[((SeatOf(s.order, p) - 1 + steps * s.direction) % Len(s.order)) + 1]
  ELSE None

-----------------------------------------------------------------------------
(* Drawing *)

\* Mutant of Draws: recycled discards are not taken off the discard pile.
DrawsWithoutRecycling(s, n) ==
  LET pile == Cardinality(s.drawPile)
  IN  IF n <= pile
      THEN { [cards |-> d, drawPile |-> s.drawPile \ d, discards |-> s.discards] :
               d \in kSubset(n, s.drawPile) }
      ELSE { [cards |-> s.drawPile \cup d, drawPile |-> s.discards \ d, discards |-> s.discards] :
               d \in kSubset(n - pile, s.discards) }

\* What drawing n cards may take and leave: the pile first and, when it runs
\* out, the discards below the top, shuffled into a new pile.  Empty when the
\* two together do not hold n cards: the amount is checked before anything moves.
Draws(s, n) ==
  LET pile == Cardinality(s.drawPile)
  IN  IF n <= pile
      THEN { [cards |-> d, drawPile |-> s.drawPile \ d, discards |-> s.discards] :
               d \in kSubset(n, s.drawPile) }
      ELSE { [cards |-> s.drawPile \cup d, drawPile |-> s.discards \ d, discards |-> {}] :
               d \in kSubset(n - pile, s.discards) }

DrawTo(s, p, n) ==
  { [s EXCEPT !.hands[p] = @ \cup r.cards,
              !.drawPile = r.drawPile,
              !.discards = r.discards] : r \in Draws(s, n) }

-----------------------------------------------------------------------------
(* Steps shared by the handlers *)

ChangeTurn(s, p) == [s EXCEPT !.current = p, !.drawnCard = None]

Unchallenged(s) == [s EXCEPT !.pendingBluff = None, !.challengeable = FALSE]

Finish(s, reason) ==
  [ Unchallenged(s) EXCEPT
      !.phase = "Finished",
      !.current = None,
      !.drawnCard = None,
      !.pending = None,
      !.finishReason = reason ]

RecordLast(s) ==
  [s EXCEPT !.placements = Append(@, [player |-> s.order[1], wentOut |-> FALSE])]

\* The end of a card's effect: an actor with no card left goes out, which may
\* end the game, and the turn goes to `next`.
GoOut(s, actor) ==
  [ s EXCEPT
      !.status[actor] = "WentOut",
      !.placements = Append(@, [player |-> actor, wentOut |-> TRUE]),
      !.order = Without(@, actor) ]

CompletePlay(s, actor, next) ==
  IF s.hands[actor] # {} THEN ChangeTurn(s, next)
  ELSE LET out == GoOut(s, actor)
           fallback == NextSeat(s, actor, 1)
       IN  IF s.rules.EndPolicy = "FirstWinner" \/ Len(out.order) = 1
           THEN Finish(IF s.rules.EndPolicy = "Placements" THEN RecordLast(out) ELSE out,
                       "Completed")
           ELSE ChangeTurn(out, IF next = actor THEN fallback ELSE next)

-----------------------------------------------------------------------------
(* Legality of a card *)

CanPlayDrawFour(hand, activeColor) ==
  activeColor \in Colors /\ \A c \in hand : ColorOf[c] # activeColor

\* Mutant of AnswersPenalty: any wild card answers a penalty.
AnyWildAnswers(s, c) ==
  \/ /\ RankOf[c] >= Wild
     /\ \/ RankOf[s.top] = WildDrawFour /\ s.rules.StackWildDrawFour
        \/ RankOf[s.top] = DrawTwo /\ s.rules.StackWildDrawFourOnTwo
  \/ RankOf[c] = DrawTwo

AnswersPenalty(s, c) ==
  \/ /\ RankOf[c] = WildDrawFour
     /\ \/ RankOf[s.top] = WildDrawFour /\ s.rules.StackWildDrawFour
        \/ RankOf[s.top] = DrawTwo /\ s.rules.StackWildDrawFourOnTwo
  \/ /\ RankOf[c] = DrawTwo
     /\ RankOf[s.top] = WildDrawFour =>
          s.rules.StackDrawTwoOnWildFour /\ ColorOf[c] = s.activeColor

MatchesTable(s, p, c) ==
  /\ ~(s.rules.NoWildOnWild /\ RankOf[s.top] >= Wild /\ RankOf[c] >= Wild)
  /\ \/ /\ RankOf[c] = WildDrawFour
        /\ s.rules.AllowWildDrawFourAlways \/ CanPlayDrawFour(s.hands[p], s.activeColor)
     \/ RankOf[c] \in {Wild, SwapHands}
     \/ /\ RankOf[c] < Wild
        /\ ColorOf[c] = s.activeColor \/ RankOf[c] = RankOf[s.top]

Playable(s, p, c) ==
  /\ s.status[p] = "Playing"
  /\ s.phase = "TakingTurn"
  /\ p = s.current
  /\ c \in s.hands[p]
  /\ ~s.rules.FreePlayAfterDraw => s.drawnCard \in {None, c}
  /\ RankOf[c] = SwapHands => s.rules.AllowSwapHands
  /\ ~(s.rules.NoWildFinish /\ Cardinality(s.hands[p]) = 1
       /\ RankOf[c] \in {Wild, WildDrawFour})
  /\ IF s.drawCounter > 0 THEN AnswersPenalty(s, c) ELSE MatchesTable(s, p, c)

-----------------------------------------------------------------------------
(* The lobby and the seats *)

NewGame(rules) ==
  LET inventory == IF CustomDeck THEN Cards ELSE DeckForRules(rules)
  IN  [ rules |-> rules,
        phase |-> "Lobby",
        inventory |-> inventory,
        drawPile |-> inventory,
        discards |-> {},
        top |-> None,
        hands |-> [p \in Players |-> {}],
        status |-> [p \in Players |-> "None"],
        order |-> <<>>,
        dealer |-> None,
        current |-> None,
        direction |-> 1,
        activeColor |-> None,
        drawnCard |-> None,
        drawCounter |-> 0,
        pending |-> None,
        pendingBluff |-> None,
        challengeable |-> FALSE,
        placements |-> <<>>,
        finishReason |-> None ]

\* A custom deck that holds the swap card needs rules that allow it.
Buildable(rules) == CustomDeck => DeckForRules(rules) = Cards

SetRules(rules) ==
  /\ state.phase = "Lobby"
  /\ Buildable(rules)
  /\ state' = IF CustomDeck THEN [state EXCEPT !.rules = rules]
              ELSE [state EXCEPT !.rules = rules,
                                 !.inventory = DeckForRules(rules),
                                 !.drawPile = DeckForRules(rules)]

\* Mutant of CanJoin: a placement does not bar the way back.
CanAlwaysJoin(s, p) ==
  /\ s.status[p] # "Playing"
  /\ s.status[p] = "None" => Cardinality(Participants(s)) < MaxPlayers

CanJoin(s, p) ==
  /\ ~HasPlacement(s, p)
  /\ s.status[p] # "Playing"
  /\ s.status[p] = "None" => Cardinality(Participants(s)) < MaxPlayers

\* A departed player may come back: only a placement bars the way.
JoinLobby(p) ==
  /\ state.phase = "Lobby"
  /\ CanJoin(state, p)
  /\ state' = [state EXCEPT !.status[p] = "Playing",
                            !.hands[p] = {},
                            !.order = Append(@, p)]

\* Mutant of JoinLate: the seat before the current one, whatever the direction.
JoinLateInFront(p) ==
  /\ state.phase \in ActivePhases
  /\ CanJoin(state, p)
  /\ state.rules.AllowLateJoin
  /\ LET seated == [state EXCEPT !.status[p] = "Playing",
                                 !.hands[p] = {},
                                 !.order = SX!InsertAt(@, SeatOf(@, state.current), p)]
     IN  state' \in DrawTo(seated, p, HandSize)

\* A late player takes a full hand and the seat that plays last from now on.
JoinLate(p) ==
  /\ state.phase \in ActivePhases
  /\ CanJoin(state, p)
  /\ state.rules.AllowLateJoin
  /\ LET seat == SeatOf(state.order, state.current)
                   + (IF state.direction = -1 THEN 1 ELSE 0)
         seated == [state EXCEPT !.status[p] = "Playing",
                                 !.hands[p] = {},
                                 !.order = SX!InsertAt(@, seat, p)]
     IN  state' \in DrawTo(seated, p, HandSize)

\* Mutants of the steps of a departure below: the swap stays aimed at the
\* empty seat, the new target is counted from the empty seat, and only the
\* challenger's departure drops a challenge.
KeepSwap(s, p) == s

RetargetFromGap(s, p) ==
  IF s.pending # None /\ s.pending.target = p
  THEN [s EXCEPT !.pending.target = NextSeat(s, p, 1)]
  ELSE s

DropBluffOfTarget(s, p) ==
  IF s.pendingBluff # None /\ p = s.pendingBluff.target THEN Unchallenged(s) ELSE s

\* What a departure does to the choices and challenges that involve p.
\* A swap whose target is gone must be chosen again.
ReopenSwap(s, p) ==
  IF s.pending # None /\ s.pending.swapHands /\ s.pending.swapTarget = p
  THEN [s EXCEPT !.pending = None, !.phase = "ChoosingPlayer"]
  ELSE s

Retarget(s, p) ==
  IF s.pending # None /\ s.pending.target = p
  THEN [s EXCEPT !.pending.target = NextSeat(s, s.pending.actor, 1)]
  ELSE s

DropBluff(s, p) ==
  IF s.pendingBluff # None /\ p \in {s.pendingBluff.actor, s.pendingBluff.target}
  THEN Unchallenged(s)
  ELSE s

PassSeat(s, p, next) == IF s.current = p THEN ChangeTurn(s, next) ELSE s

\* p's seat is gone and its cards lie below the top of the discard pile.
Vacated(s, p) ==
  [s EXCEPT !.discards = @ \cup s.hands[p],
            !.hands[p] = {},
            !.status[p] = "Left",
            !.order = Without(@, p)]

LeaveGame(p) ==
  /\ state.phase # "Finished"
  /\ state.status[p] = "Playing"
  /\ ~(state.phase = "ChoosingPlayer" /\ state.current = p)
  /\ state.pending # None => state.pending.actor # p
  /\ LET s == Vacated(state, p)
         next == NextSeat(state, p, 1)
     IN  \/ /\ state.phase = "Lobby"
            /\ state' = s
         \/ /\ state.phase # "Lobby"
            /\ Len(s.order) <= 1
            /\ state' = Finish(IF Len(s.order) = 1 THEN RecordLast(s) ELSE s, "Departure")
         \/ /\ state.phase # "Lobby"
            /\ Len(s.order) > 1
            /\ state' = PassSeat(DropBluff(Retarget(ReopenSwap(s, p), p), p), p, next)

CancelGame ==
  /\ state.phase # "Finished"
  /\ state' = Finish(state, "Cancelled")

-----------------------------------------------------------------------------
(* Dealing *)

\* Every way to deal HandSize cards of the pile to each seat.
Deals(s) ==
  { h \in [Seated(s) -> kSubset(HandSize, s.drawPile)] :
      \A p, q \in Seated(s) : p # q => h[p] \cap h[q] = {} }

CanOpen(s, c) ==
  IF s.rules.NumberedStart THEN RankOf[c] < Skip
  ELSE RankOf[c] \notin {WildDrawFour, SwapHands}

Opened(s, deal, c, dealer) ==
  [s EXCEPT
     !.hands = [p \in Players |-> IF p \in Seated(s) THEN deal[p] ELSE @[p]],
     !.drawPile = @ \ ((UNION Range(deal)) \cup {c}),
     !.top = c,
     !.dealer = dealer,
     !.current = NextSeat(s, dealer, 1),
     !.phase = "TakingTurn",
     !.activeColor = ColorOf[c]]

\* The effect of the card that opens the game.
Opening(s, dealer) ==
  LET first == s.current
      rank == RankOf[s.top]
  IN  CASE rank = Reverse -> {[s EXCEPT !.direction = -1, !.current = dealer]}
        [] rank = Skip -> {[s EXCEPT !.current = NextSeat(s, first, 1)]}
        [] rank = DrawTwo /\ s.rules.StackDrawTwo -> {[s EXCEPT !.drawCounter = TwoPenalty]}
        [] rank = DrawTwo /\ ~s.rules.StackDrawTwo ->
             {[t EXCEPT !.current = NextSeat(t, first, 1)] : t \in DrawTo(s, first, TwoPenalty)}
        [] rank = Wild ->
             {[s EXCEPT !.phase = "ChoosingColor",
                        !.pending = [ actor |-> first,
                                      target |-> NextSeat(s, first, 1),
                                      previousColor |-> None,
                                      drawCount |-> 0,
                                      initial |-> TRUE,
                                      bluffing |-> FALSE,
                                      challengeable |-> FALSE,
                                      swapHands |-> FALSE,
                                      swapTarget |-> None ]]}
        [] OTHER -> {s}

StartGame(dealer) ==
  /\ state.phase = "Lobby"
  /\ Len(state.order) >= 2
  /\ dealer \in Seated(state)
  /\ Cardinality(state.drawPile) >= Len(state.order) * HandSize + 1
  /\ \E deal \in Deals(state) :
       \E c \in {x \in state.drawPile \ (UNION Range(deal)) : CanOpen(state, x)} :
         state' \in Opening(Opened(state, deal, c, dealer), dealer)

-----------------------------------------------------------------------------
(* Playing a card *)

\* The turn's player may do what the phase asks for.
OnTurn(p, phase) ==
  /\ state.phase = phase
  /\ p = state.current
  /\ state.status[p] = "Playing"

\* Mutant of Discarded: the challenge p could have made survives the play.
DiscardedUnderChallenge(s, p, c) ==
  [s EXCEPT !.hands[p] = @ \ {c},
            !.discards = @ \cup ({s.top} \ {None}),
            !.top = c,
            !.drawnCard = None]

\* c leaves p's hand for the top of the discard pile.  Any challenge p could
\* have made is forfeited.
Discarded(s, p, c) ==
  [Unchallenged(s) EXCEPT !.hands[p] = @ \ {c},
                          !.discards = @ \cup ({s.top} \ {None}),
                          !.top = c,
                          !.drawnCard = None]

PlaySwapHands(p, c) ==
  /\ OnTurn(p, "TakingTurn")
  /\ Playable(state, p, c)
  /\ RankOf[c] = SwapHands
  /\ LET s == Discarded(state, p, c)
     IN  state' = IF s.hands[p] = {} THEN CompletePlay(s, p, NextSeat(s, p, 1))
                  ELSE [s EXCEPT !.phase = "ChoosingPlayer"]

\* The evidence a challenge will be judged on is taken now, from the hand the
\* player keeps and the colour before the choice.  A Wild Draw Four that
\* answers a Draw Two cannot be challenged.
PlayWild(p, c) ==
  /\ OnTurn(p, "TakingTurn")
  /\ Playable(state, p, c)
  /\ RankOf[c] \in {Wild, WildDrawFour}
  /\ LET s == Discarded(state, p, c)
         stacked == /\ state.drawCounter > 0
                    /\ RankOf[state.top] = DrawTwo
                    /\ state.rules.StackWildDrawFourOnTwo
         open == RankOf[c] = WildDrawFour /\ ~stacked
     IN  state' = [s EXCEPT
           !.phase = "ChoosingColor",
           !.pending =
             [ actor |-> p,
               target |-> NextSeat(s, p, 1),
               previousColor |-> s.activeColor,
               drawCount |-> IF RankOf[c] = WildDrawFour THEN FourPenalty ELSE 0,
               initial |-> FALSE,
               bluffing |-> open /\ \E d \in s.hands[p] : ColorOf[d] = s.activeColor,
               challengeable |-> open,
               swapHands |-> FALSE,
               swapTarget |-> None ]]

\* What a coloured card leads to, s being the table right after it was put down.
ColoredEffects(s, p) ==
  LET rank == RankOf[s.top]
      next == NextSeat(s, p, 1)
      reversed == [s EXCEPT !.direction = -@]
  IN  CASE rank = Skip -> {CompletePlay(s, p, NextSeat(s, p, 2))}
        [] rank = Reverse /\ Len(s.order) = 2 -> {CompletePlay(s, p, p)}
        [] rank = Reverse /\ Len(s.order) # 2 ->
             {CompletePlay(reversed, p, NextSeat(reversed, p, 1))}
        [] rank = DrawTwo /\ s.rules.StackDrawTwo ->
             {CompletePlay([s EXCEPT !.drawCounter = @ + TwoPenalty], p, next)}
        [] rank = DrawTwo /\ ~s.rules.StackDrawTwo ->
             {CompletePlay(t, p, NextSeat(t, p, 2)) : t \in DrawTo(s, next, TwoPenalty)}
        [] OTHER -> {CompletePlay(s, p, next)}

PlayColored(p, c) ==
  /\ OnTurn(p, "TakingTurn")
  /\ Playable(state, p, c)
  /\ RankOf[c] < Wild
  /\ state' \in ColoredEffects([Discarded(state, p, c) EXCEPT !.activeColor = ColorOf[c]], p)

-----------------------------------------------------------------------------
(* Choices *)

\* Choosing whose hand to take, or keeping one's own (target None), only
\* records the choice: the swap happens with the colour.
SwapChoice(p, target) ==
  [ actor |-> p,
    target |-> NextSeat(state, p, 1),
    previousColor |-> state.activeColor,
    drawCount |-> 0,
    initial |-> FALSE,
    bluffing |-> FALSE,
    challengeable |-> FALSE,
    swapHands |-> TRUE,
    swapTarget |-> target ]

ChoosePlayer(p, target) ==
  /\ OnTurn(p, "ChoosingPlayer")
  /\ target # p
  /\ state.status[target] = "Playing"
  /\ state' = [state EXCEPT !.phase = "ChoosingColor", !.pending = SwapChoice(p, target)]

KeepHand(p) ==
  /\ OnTurn(p, "ChoosingPlayer")
  /\ state' = [state EXCEPT !.phase = "ChoosingColor", !.pending = SwapChoice(p, None)]

\* Mutant of SwapHandsOf: the second assignment reads what the first wrote.
SwapOneWay(s, p, q) == [s EXCEPT !.hands[p] = s.hands[q]]

SwapHandsOf(s, p, q) == [s EXCEPT !.hands[p] = s.hands[q], !.hands[q] = s.hands[p]]

\* What choosing `color` leads to.  The penalty of a Wild Draw Four is left
\* standing, open to a challenge, when the rules let it be answered; otherwise
\* the target draws it and is skipped.
ChosenColor(s, color) ==
  LET choice == s.pending
      actor == choice.actor
      swapped == IF choice.swapTarget # None THEN SwapHandsOf(s, actor, choice.swapTarget) ELSE s
      chosen == [swapped EXCEPT !.activeColor = color, !.pending = None, !.phase = "TakingTurn"]
      stacked == [chosen EXCEPT
                    !.drawCounter = @ + choice.drawCount,
                    !.challengeable = choice.challengeable,
                    !.pendingBluff = IF choice.challengeable
                                     THEN [actor |-> actor, target |-> choice.target,
                                           bluffing |-> choice.bluffing]
                                     ELSE None]
  IN  CASE choice.initial -> {chosen}
        [] ~choice.initial /\ choice.drawCount = 0 ->
             {CompletePlay(chosen, actor, choice.target)}
        [] ~choice.initial /\ choice.drawCount # 0 /\ StacksDrawFour(s.rules) ->
             {CompletePlay(stacked, actor, choice.target)}
        [] OTHER ->
             {CompletePlay(t, actor, NextSeat(t, choice.target, 1)) :
                t \in DrawTo(chosen, choice.target, choice.drawCount)}

ChooseColor(p, color) ==
  /\ state.pending # None
  /\ p = state.current
  /\ state.status[p] = "Playing"
  /\ state.pending.swapTarget # None =>
       /\ state.pending.swapTarget # p
       /\ state.status[state.pending.swapTarget] = "Playing"
  /\ state' \in ChosenColor(state, color)

-----------------------------------------------------------------------------
(* Drawing, passing, challenging *)

\* A standing penalty is drawn whole and ends the turn.
DrawPenalty(p) ==
  /\ OnTurn(p, "TakingTurn")
  /\ state.drawnCard = None
  /\ state.drawCounter > 0
  /\ \E t \in DrawTo(Unchallenged(state), p, state.drawCounter) :
       state' = ChangeTurn([t EXCEPT !.drawCounter = 0], NextSeat(t, p, 1))

\* The states after p drew one card of its own will.
OneDrawn(s, p) ==
  {[t EXCEPT !.drawnCard = CHOOSE c \in t.hands[p] : c \notin s.hands[p]] :
     t \in DrawTo(Unchallenged(s), p, 1)}

DrawOne(p) ==
  /\ OnTurn(p, "TakingTurn")
  /\ state.drawnCard = None
  /\ state.drawCounter = 0
  /\ \E t \in OneDrawn(state, p) :
       state' = IF ~t.rules.FreePlayAfterDraw /\ ~Playable(t, p, t.drawnCard)
                THEN ChangeTurn(t, NextSeat(t, p, 1))
                ELSE t

\* ApplyWeb: the Mini App's draw ends the turn whatever was drawn.
DrawOneWeb(p) ==
  /\ OnTurn(p, "TakingTurn")
  /\ state.drawnCard = None
  /\ state.drawCounter = 0
  /\ \E t \in OneDrawn(state, p) : state' = ChangeTurn(t, NextSeat(t, p, 1))

PassTurn(p) ==
  /\ OnTurn(p, "TakingTurn")
  /\ state.drawnCard # None
  /\ state' = ChangeTurn(state, NextSeat(state, p, 1))

\* A timed-out turn: the penalty and the challenge are left as they stand.
SkipTurn(p) ==
  /\ OnTurn(p, "TakingTurn")
  /\ state' = ChangeTurn(state, NextSeat(state, p, 1))

\* Mutant of CallBluff: a wrong challenger draws only the cards added.
CallBluffCheap(p) ==
  /\ OnTurn(p, "TakingTurn")
  /\ state.pendingBluff # None
  /\ state.challengeable
  /\ state.pendingBluff.target = p
  /\ state.drawCounter > 0
  /\ LET bluff == state.pendingBluff
         loser == IF bluff.bluffing THEN bluff.actor ELSE p
         count == IF bluff.bluffing THEN state.drawCounter ELSE WrongCallPenalty
     IN  \E t \in DrawTo(Unchallenged(state), loser, count) :
           state' = ChangeTurn([t EXCEPT !.drawCounter = 0], NextSeat(t, p, 1))

\* A bluffer draws the whole penalty; a wrong challenger draws it and some more.
CallBluff(p) ==
  /\ OnTurn(p, "TakingTurn")
  /\ state.pendingBluff # None
  /\ state.challengeable
  /\ state.pendingBluff.target = p
  /\ state.drawCounter > 0
  /\ LET bluff == state.pendingBluff
         loser == IF bluff.bluffing THEN bluff.actor ELSE p
         count == state.drawCounter + (IF bluff.bluffing THEN 0 ELSE WrongCallPenalty)
     IN  \E t \in DrawTo(Unchallenged(state), loser, count) :
           state' = ChangeTurn([t EXCEPT !.drawCounter = 0], NextSeat(t, p, 1))

-----------------------------------------------------------------------------
(* The game *)

Init == \E rules \in {r \in RuleSets : Buildable(r)} : state = NewGame(rules)

Next ==
  \/ \E rules \in RuleSets : SetRules(rules)
  \/ CancelGame
  \/ \E p \in Players :
       \/ JoinLobby(p) \/ JoinLate(p) \/ LeaveGame(p) \/ StartGame(p)
       \/ KeepHand(p)
       \/ DrawPenalty(p) \/ DrawOne(p) \/ DrawOneWeb(p)
       \/ PassTurn(p) \/ SkipTurn(p) \/ CallBluff(p)
       \/ \E c \in Cards : PlaySwapHands(p, c) \/ PlayWild(p, c) \/ PlayColored(p, c)
       \/ \E q \in Players : ChoosePlayer(p, q)
       \/ \E color \in Colors : ChooseColor(p, color)

Spec == Init /\ [][Next]_vars

-----------------------------------------------------------------------------
(* Validate: what the engine checks of every candidate state before it     *)
(* commits it.  The actions above leave this check out; StateValid says    *)
(* that it never rejects what a handler accepted.                          *)

PileOwnership(s) ==
  /\ s.inventory = s.drawPile \cup s.discards \cup ({s.top} \ {None}) \cup (UNION Range(s.hands))
  /\ s.drawPile \cap s.discards = {}
  /\ s.top \notin s.drawPile \cup s.discards
  /\ \A p \in Players : s.hands[p] \cap (s.drawPile \cup s.discards \cup {s.top}) = {}
  /\ \A p, q \in Players : p # q => s.hands[p] \cap s.hands[q] = {}
  /\ \A p \in Players : s.status[p] # "Playing" => s.hands[p] = {}

SeatOrder(s) ==
  /\ IsInjective(s.order)
  /\ Seated(s) = {p \in Players : s.status[p] = "Playing"}

PlacementRecord(s) ==
  /\ \A i, j \in DOMAIN s.placements :
       s.placements[i].player = s.placements[j].player => i = j
  /\ \A i \in DOMAIN s.placements :
       LET p == s.placements[i].player
       IN  IF s.placements[i].wentOut THEN s.status[p] = "WentOut"
           ELSE /\ s.phase = "Finished"
                /\ i = Len(s.placements)
                /\ s.order = <<p>>
                /\ s.finishReason # "Cancelled"
  /\ \A p \in Players : s.status[p] = "WentOut" => HasPlacement(s, p)

LobbyState(s) ==
  /\ s.current = None /\ s.dealer = None
  /\ s.activeColor = None
  /\ s.top = None /\ s.discards = {}
  /\ s.placements = <<>>
  /\ \A p \in Players : s.hands[p] = {}

ActiveState(s) ==
  /\ Len(s.order) >= 2
  /\ s.current \in Seated(s)
  /\ s.top # None
  /\ s.dealer \in Participants(s)
  /\ s.phase # "ChoosingColor" => s.activeColor \in Colors
  /\ \A p \in Seated(s) :
       s.hands[p] = {} => /\ s.phase = "ChoosingColor"
                          /\ s.pending.actor = p
                          /\ ~s.pending.swapHands

FinishedState(s) ==
  /\ s.current = None /\ s.drawnCard = None /\ s.pending = None
  /\ s.finishReason # None
  /\ s.finishReason = "Completed" =>
       /\ s.placements # <<>> /\ s.placements[1].wentOut
       /\ s.rules.EndPolicy = "Placements" => Len(s.order) = 1
  /\ s.finishReason = "Departure" => Len(s.order) <= 1

SwapPending(s) ==
  /\ s.rules.AllowSwapHands
  /\ RankOf[s.top] = SwapHands
  /\ s.drawCounter = 0
  /\ s.pendingBluff = None

PendingChoice(s) ==
  LET c == s.pending
  IN  /\ c.actor = s.current
      /\ {c.actor, c.target} \subseteq Seated(s)
      /\ c.target = NextSeat(s, c.actor, 1)
      /\ RankOf[s.top] \in {Wild, WildDrawFour, SwapHands}
      /\ RankOf[s.top] = WildDrawFour <=> c.drawCount = FourPenalty
      /\ c.swapHands <=> RankOf[s.top] = SwapHands
      /\ c.swapHands =>
           /\ SwapPending(s)
           /\ ~c.initial /\ ~c.bluffing /\ ~c.challengeable
      /\ c.swapTarget # None => c.swapHands /\ c.swapTarget \in Seated(s) \ {c.actor}
      /\ c.initial => RankOf[s.top] = Wild /\ c.previousColor = None
      /\ ~c.initial => c.previousColor \in Colors
      /\ s.activeColor = c.previousColor

TopColor(s) ==
  IF RankOf[s.top] < Wild THEN s.activeColor = ColorOf[s.top]
  ELSE \/ s.activeColor \in Colors
       \/ /\ s.phase = "Finished" /\ s.finishReason # "Completed"
          /\ s.activeColor = None /\ RankOf[s.top] = Wild

Validate(s) ==
  /\ Cardinality(Participants(s)) <= MaxPlayers
  /\ s.inventory # {}
  /\ \A c \in s.inventory : RankOf[c] = SwapHands => s.rules.AllowSwapHands
  /\ PileOwnership(s)
  /\ SeatOrder(s)
  /\ PlacementRecord(s)
  /\ s.phase = "Lobby" => LobbyState(s)
  /\ s.phase \in ActivePhases => ActiveState(s)
  /\ IF s.phase = "Finished" THEN FinishedState(s) ELSE s.finishReason = None
  /\ s.phase = "ChoosingPlayer" => SwapPending(s)
  /\ s.phase = "ChoosingColor" <=> s.pending # None
  /\ s.pending # None => PendingChoice(s)
  /\ s.drawnCard # None => s.phase = "TakingTurn" /\ s.drawnCard \in s.hands[s.current]
  /\ s.top # None /\ s.phase # "ChoosingColor" => TopColor(s)

-----------------------------------------------------------------------------
(* Properties *)

\* Every field of the state holds a value of the kind the Go State declares.
TypeOK == state \in State

\* No accepted action, in any order of plays, choices, departures, late
\* joins and timeouts, leads to a state that Validate rejects: apply's last
\* check never turns a legal action into ErrInvalidState.
StateValid == Validate(state)

\* No card is lost, duplicated or held by somebody who is not playing,
\* whatever moves it: deals, recycled discards, penalties, swapped hands,
\* departures.
CardsConserved == PileOwnership(state)

\* A standing penalty lies under a card that made it, so the answer rules of
\* playable always judge the right card, and nobody who already drew this turn
\* is ever facing one (DrawCard would refuse to let that player pay).
PenaltyStands ==
  state.drawCounter > 0 =>
    /\ RankOf[state.top] \in {DrawTwo, WildDrawFour}
    /\ state.drawnCard = None

\* A challenge is on the table only over an unanswered Wild Draw Four whose
\* penalty still stands.  Its target is seated and, when the evidence says
\* bluff, the bluffer is still there with cards in hand to pay for it.
ChallengeSound ==
  /\ state.pendingBluff # None <=> state.challengeable
  /\ state.pendingBluff # None =>
       /\ state.phase = "TakingTurn"
       /\ state.drawCounter >= FourPenalty
       /\ RankOf[state.top] = WildDrawFour
       /\ state.pendingBluff.target \in Seated(state)
       /\ state.pendingBluff.actor # state.pendingBluff.target
       /\ state.pendingBluff.bluffing => state.pendingBluff.actor \in Seated(state)

\* The players in the order they will play, the current one first.
Upcoming(s) == [k \in 1 .. Len(s.order) |-> NextSeat(s, s.current, k - 1)]

\* People coming and going never disturb the turn order of the others: a late
\* player joins it at the end, a departed one is taken out of it, and whoever
\* was next has the turn when it was the departed one's.
TurnOrderKept ==
  state.phase \in ActivePhases /\ state'.phase \in ActivePhases =>
    \A p \in Players :
      /\ state.status[p] # "Playing" /\ state'.status[p] = "Playing" =>
           Upcoming(state') = Append(Upcoming(state), p)
      /\ state.status[p] = "Playing" /\ state'.status[p] = "Left" =>
           Upcoming(state') = SX!RemoveFirst(Upcoming(state), p)

SeatingKeepsTurnOrder == [][TurnOrderKept]_vars

\* Who pays when a penalty disappears: one player draws it whole, or it plus
\* the cards a wrong challenge adds, and nobody else draws a card.
PaidOnce ==
  state'.drawCounter < state.drawCounter =>
    /\ state'.drawCounter = 0
    /\ \E p \in Seated(state) :
         LET drawn == state'.hands[p] \ state.hands[p]
         IN  /\ Cardinality(drawn) \in {state.drawCounter, state.drawCounter + WrongCallPenalty}
             /\ state.hands[p] \subseteq state'.hands[p]
             /\ \A q \in Players \ {p} : state'.hands[q] = state.hands[q]

\* A standing penalty is raised or paid once, never lost (draw, bluff and the
\* counter of play and choose, whatever comes between).
PenaltyPaidOnce == [][PaidOnce]_vars

\* How a hand may lose cards: its owner plays one on turn or leaves, or a
\* swap makes both hands change places whole.
LosesByRule ==
  \A p \in Players :
    ~(state.hands[p] \subseteq state'.hands[p]) =>
      \/ state'.status[p] = "Left"
      \/ p = state.current /\ state.hands[p] \ state'.hands[p] = {state'.top}
      \/ /\ state.pending # None
         /\ LET a == state.pending.actor
                b == state.pending.swapTarget
            IN  /\ p \in {a, b}
                /\ state'.hands[a] = state.hands[b]
                /\ state'.hands[b] = state.hands[a]

\* No card leaves a hand in any other way, whatever others do meanwhile: a swap
\* chosen before somebody left takes the hand that was chosen, or none.
HandsLoseCardsByRule == [][LosesByRule]_vars

\* What the proofs carry from step to step.  Before dealing the table is bare.
BareTable(s) ==
  s.phase = "Lobby" =>
    /\ s.top = None /\ s.discards = {}
    /\ \A p \in Players : s.hands[p] = {}

\* While a game runs, two or more are seated and one of them has the turn.
TurnSeated(s) ==
  s.phase \in ActivePhases => Len(s.order) >= 2 /\ s.current \in Seated(s)

\* A colour choice ties down its author and its target, stands over no
\* challenge, and finds evidence of a bluff in a hand that is still there.
ChoiceSeated(s) ==
  /\ s.phase \in {"Lobby", "ChoosingPlayer"} => s.pendingBluff = None
  /\ s.pending # None =>
       /\ s.phase = "ChoosingColor"
       /\ s.pendingBluff = None
       /\ {s.pending.actor, s.pending.target} \subseteq Seated(s)
       /\ s.pending.bluffing => s.hands[s.pending.actor] # {} /\ s.pending.swapTarget = None

\* A caught bluffer is there to pay.
BlufferSeated(s) ==
  s.pendingBluff # None /\ s.pendingBluff.bluffing => s.pendingBluff.actor \in Seated(s)

\* The inductive invariant: cards are conserved because whoever draws, swaps
\* or pays is seated, through every departure, late join and choice.
EngineInv ==
  /\ TypeOK
  /\ PileOwnership(state)
  /\ SeatOrder(state)
  /\ BareTable(state)
  /\ TurnSeated(state)
  /\ ChoiceSeated(state)
  /\ BlufferSeated(state)

\* A colour choice is between two people.  It adds to a penalty, and may be
\* challenged, only over a Wild Draw Four; one that swaps hands adds nothing.
ChoiceOwes(s) ==
  s.pending # None =>
    /\ s.pending.actor # s.pending.target
    /\ s.pending.drawCount # 0 => RankOf[s.top] = WildDrawFour /\ s.pending.swapTarget = None
    /\ s.pending.challengeable => s.pending.drawCount # 0

\* Nothing is owed before dealing, and only who is about to play or pass has
\* drawn a card.
DrawnOnTurn(s) ==
  /\ s.phase = "Lobby" => s.drawCounter = 0
  /\ s.drawnCard # None => s.phase = "TakingTurn"

\* The inductive invariant of penalties and challenges: what a choice still to
\* be made will add is as sound as what already stands.
DebtInv ==
  /\ EngineInv
  /\ PenaltyStands
  /\ ChallengeSound
  /\ ChoiceOwes(state)
  /\ DrawnOnTurn(state)

\* The inventory is the deck of the rules in force, or the one given WithDeck.
Stocked(s) ==
  /\ s.inventory = IF CustomDeck THEN Cards ELSE DeckForRules(s.rules)
  /\ Buildable(s.rules)

\* Who chooses the colour of the opening card has been dealt a hand to go on with.
OpenerHolds(s) ==
  s.pending # None /\ s.pending.initial => s.hands[s.pending.actor] # {}

\* The inductive invariant behind Validate, on top of the other two.
ValidInv ==
  /\ DebtInv
  /\ StateValid
  /\ Stocked(state)
  /\ OpenerHolds(state)

\* With the cards left out the game is the round UnoRound describes.
RoundOf(s) ==
  LET left == {i \in DOMAIN s.placements : ~s.placements[i].wentOut}
  IN  [ stage |-> CASE s.phase = "Lobby" -> "Lobby"
                    [] s.phase = "Finished" -> "Over"
                    [] OTHER -> "Playing",
        choosing |-> s.phase \in {"ChoosingColor", "ChoosingPlayer"},
        firstWins |-> s.rules.EndPolicy = "FirstWinner",
        roster |-> Participants(s),
        seated |-> Seated(s),
        turn |-> s.current,
        finishers |-> [i \in DOMAIN s.placements \ left |-> s.placements[i].player],
        last |-> IF left # {} THEN SX!Last(s.placements).player ELSE None ]

Round == INSTANCE UnoRound WITH
  People <- Players,
  Capacity <- MaxPlayers,
  Nobody <- None,
  FirstWins <- BOOLEAN,
  round <- RoundOf(state)

\* Whatever is played, drawn, challenged or left in whatever order: the turn
\* is always with somebody seated, only the player on turn goes out, a
\* finisher's place is final and its owner never plays again, and the game is
\* over exactly when its end policy, a departure or a cancellation says so,
\* with the right player in the last place.
RefinesRound == Round!RoundSpec
=============================================================================
