----------------------------- MODULE InlinePlay -----------------------------
(***************************************************************************)
(* Playing a chat's games from Telegram: the inline menus, the taps on     *)
(* them, the commands of the chat and /reset.                              *)
(*                                                                         *)
(* A menu is made by an inline worker, outside the lane of the chat: it    *)
(* reads the game once and creates a token per move.  A tap consumes its   *)
(* token and queues the move in the lane, where commands wait as well; a   *)
(* reset renews the lane from the recovery queue.  The lane is the one of  *)
(* ChatLanes, which the Dispatcher implements.  Of a game only its stage,  *)
(* its revision, who is to move and who is seated are kept: any move may   *)
(* lead anywhere.                                                          *)
(***************************************************************************)
EXTENDS ActionTokens

CONSTANTS
  Chat,                  \* a chat, all games are in
  Commands, CommandOf,   \* the command messages, with verb and sender
  Resets,                \* the /reset messages that are authorized
  InlineWorkers,
  Capacity,              \* of the lane
  Seated, Starters,      \* players of the game that is there at first, and
                         \* those of them who may be to move
  MaxMessages,           \* bound: of commands and resets that come
  MaxRevision,           \* bound: the move that reaches it is the last, and ends
                         \* the game if it has begun
  MaxExpired             \* bound: tokens of the store that have expired

\* The commands of a chat that change its game.
Verbs == {"novo", "entrar", "iniciar", "modo", "sair", "cancelar"}

ASSUME InlineAssumption ==
  /\ CommandOf \in [Commands -> [verb : Verbs, user : Users]]
  /\ Seated \subseteq Users /\ Starters \subseteq Users
  /\ Commands \cap Tokens = {} /\ Resets \cap (Commands \cup Tokens) = {}
  /\ None \notin Commands \cup Tokens

VARIABLES
  game,        \* each game
  menu,        \* what each inline worker is making
  due,         \* messages to be delivered
  lane, work, open,  \* of the chat, as in ChatLanes; never shut here
  hand,        \* how far each tap, command or reset is
  applied      \* taps that have moved a game

Jobs == Tokens \cup Commands

Lanes == INSTANCE ChatLanes WITH
  Chats <- {Chat}

lanes == <<lane, work, open>>
vars == <<store, game, menu, due, lanes, hand, applied>>

Games0 == [stage : {"unborn", "lobby", "turn", "choice", "closed", "gone"},
           rev : Nat, who : Users \cup {None}, seats : SUBSET Users]
Unborn == [stage |-> "unborn", rev |-> 0, who |-> None, seats |-> {}]

NoMenu == [user |-> None, game |-> None, rev |-> 0, left |-> {}, ids |-> {}]

\* "no" before a job begins and after a tap was refused; "act" when the game
\* has been read; then what became of it, and what is still to be cleaned up:
\* more if the move closes the game.
Steps == {"no", "send", "sendLate", "wait", "run", "act", "won", "stale", "rejected",
          "purgeUser", "purge", "wipe", "over", "dropped"}
NotBegun == [step |-> "no", game |-> None, rev |-> 0, first |-> 0, answer |-> "none", closes |-> FALSE]

Init ==
  /\ TokensInit
  /\ \E g \in Games, p \in Starters, stage \in {"lobby", "turn"} :
       game = [h \in Games |-> IF h # g THEN Unborn
                               ELSE [stage |-> stage, rev |-> 0, seats |-> Seated,
                                     who |-> IF stage = "lobby" THEN None ELSE p]]
  /\ menu = [w \in InlineWorkers |-> NoMenu]
  /\ due = Commands \cup Resets
  /\ lane = [c \in {Chat} |-> <<>>]
  /\ work = [c \in {Chat} |-> None]
  /\ open = TRUE
  /\ hand = [j \in Jobs \cup Resets |-> NotBegun]
  /\ applied = {}

Open(g) == game[g].stage \in {"lobby", "turn", "choice"}
Playing(g) == game[g].stage \in {"turn", "choice"}

\* How a game may stand after a move: over, at somebody's turn, with a colour
\* or a player to be chosen by who made it, or, before the start, with one
\* player more.  The opening card may ask for a colour.
After(g) ==
  LET next == [game[g] EXCEPT !.rev = @ + 1]
      closed == [next EXCEPT !.stage = "closed", !.who = None]
      begun == {[next EXCEPT !.stage = "turn", !.who = p] : p \in next.seats}
      choosing == IF Playing(g) THEN {[next EXCEPT !.stage = "choice"]}
                  ELSE {[next EXCEPT !.stage = "choice", !.who = p] : p \in next.seats}
      waiting == IF Playing(g) THEN {} ELSE {[next EXCEPT !.seats = @ \cup {p}] : p \in Users}
  IN  IF game[g].rev >= MaxRevision THEN {}
      ELSE {closed} \cup waiting \cup IF next.rev < MaxRevision THEN begun \cup choosing ELSE {}

\* Somebody joins, starts or plays in the browser, outside the lane of the
\* chat.
WebMove(g) ==
  /\ Open(g)
  /\ \E next \in After(g) : game' = [game EXCEPT ![g] = next]
  /\ UNCHANGED <<store, menu, due, lanes, hand, applied>>

-----------------------------------------------------------------------------
(* HandleInlineQuery *)

\* Moves offered: to draw or pass and to play, or what to choose.
Offers(g, p) ==
  IF game[g].who # p THEN {}
  ELSE IF game[g].stage = "turn" THEN {"draw", "play"} ELSE {"choose"}

Look(w, p, g) ==
  /\ menu[w] = NoMenu
  /\ Playing(g) /\ p \in game[g].seats
  /\ Offers(g, p) # {}
  /\ menu' = [menu EXCEPT ![w] = [user |-> p, game |-> g, rev |-> game[g].rev,
                                  left |-> Offers(g, p), ids |-> {}]]
  /\ UNCHANGED <<store, game, due, lanes, hand, applied>>

\* The next token, under the revision that was read: to draw or pass, then to
\* play.  The answer follows the last one.
Offer(w, id) ==
  LET m == menu[w]
  IN  /\ \E verb \in m.left :
           /\ "draw" \in m.left => verb = "draw"
           /\ Create(id, m.user, m.game, m.rev, verb)
           /\ menu' = [menu EXCEPT ![w] = IF m.left = {verb} THEN NoMenu
                                         ELSE [m EXCEPT !.left = @ \ {verb}, !.ids = @ \cup {id}]]
      /\ UNCHANGED <<game, due, lanes, hand, applied>>

-----------------------------------------------------------------------------
(* HandleChosenInlineResult *)

\* The tokens that have been sent to their players.
Shown == {id \in Tokens : made[id] # NotMade} \ UNION {menu[w].ids : w \in InlineWorkers}

\* Only a tap that consumes its token has any effect.
Tap(id) ==
  /\ id \in Shown
  /\ hand[id].step \in {"no", "over", "dropped"}
  /\ Consume(id, made[id].user)
  /\ hand' = [hand EXCEPT ![id] = [NotBegun EXCEPT !.step = "send"]]
  /\ UNCHANGED <<game, menu, due, lanes, applied>>

Queue(id) ==
  /\ hand[id].step \in {"send", "sendLate"}
  /\ Lanes!Accept(Chat, id)
  /\ hand' = [hand EXCEPT ![id].step = "wait"]
  /\ UNCHANGED <<store, game, menu, due, applied>>

\* Accepted into the lane that a reset has replaced meanwhile.
QueueLate(id) ==
  /\ hand[id].step = "sendLate"
  /\ hand' = [hand EXCEPT ![id].step = "dropped"]
  /\ UNCHANGED <<store, game, menu, due, lanes, applied>>

\* Full is the queue that the lane of the chat is a part of: other chats may
\* have filled it, or it is the one that a reset has replaced.
RefuseTap(id) ==
  /\ hand[id].step \in {"send", "sendLate"}
  /\ Release(id)
  /\ hand' = [hand EXCEPT ![id] = NotBegun]
  /\ UNCHANGED <<game, menu, due, lanes, applied>>

Begin(j) ==
  /\ Lanes!Start(Chat)
  /\ j = Head(lane[Chat])
  /\ hand' = [hand EXCEPT ![j].step = "run"]
  /\ UNCHANGED <<store, game, menu, due, applied>>

\* A job that a reset has disowned goes on with its context cancelled.
Disowned(j) == work[Chat] # j

Ends(j) == IF Disowned(j) THEN UNCHANGED lanes ELSE Lanes!Finish(Chat)

Over == [NotBegun EXCEPT !.step = "over"]

\* The move counts if nothing has changed since the menu was made.
Accepts(id) ==
  LET m == made[id]
  IN  ~Disowned(id) /\ Playing(m.game) /\ game[m.game].rev = m.rev /\ game[m.game].who = m.user

Play(id) ==
  /\ hand[id].step = "run"
  /\ Accepts(id)
  /\ \E next \in After(made[id].game) :
       /\ game' = [game EXCEPT ![made[id].game] = next]
       /\ hand' = [hand EXCEPT ![id].step = "won", ![id].game = made[id].game,
                               ![id].closes = next.stage = "closed"]
  /\ applied' = applied \cup {id}
  /\ UNCHANGED <<store, menu, due, lanes>>

\* Refused: "stale" when the game goes on at another revision.  The engine may
\* refuse at the same one, with no card left to draw.
Refuse(id) ==
  LET m == made[id]
      stale == ~Disowned(id) /\ Playing(m.game) /\ game[m.game].rev # m.rev
  IN  /\ hand[id].step = "run"
      /\ hand' = [hand EXCEPT ![id].step = IF stale THEN "stale" ELSE "rejected"]
      /\ UNCHANGED <<store, game, menu, due, lanes, applied>>

\* Mutant of Outcome: a late tap is reported like one that counted.
AlwaysConfirmed(id) == "confirmed"

Outcome(id) == IF hand[id].step = "won" THEN "confirmed" ELSE hand[id].step

Report(id) ==
  /\ hand[id].step \in {"won", "stale", "rejected"}
  /\ SetResult(id, Outcome(id))
  /\ IF hand[id].closes
     THEN /\ hand' = [hand EXCEPT ![id].step = "purge"]
          /\ UNCHANGED lanes
     ELSE /\ hand' = [hand EXCEPT ![id] = Over]
          /\ Ends(id)
  /\ UNCHANGED <<game, menu, due, applied>>

\* The game is over: no token of it is kept.
Purge(j) ==
  /\ hand[j].step = "purge"
  /\ InvalidateGame(hand[j].game)
  /\ hand' = [hand EXCEPT ![j] = Over]
  /\ Ends(j)
  /\ UNCHANGED <<game, menu, due, applied>>

\* What handleStatusCheck answers: a tap that is under way, dropped or refused
\* is just "processed".
Status(id) ==
  IF id \notin Kept THEN "expired"
  ELSE IF ~tokens[id].used THEN "waiting"
  ELSE IF tokens[id].result \in {"confirmed", "stale"} THEN tokens[id].result ELSE "processed"

-----------------------------------------------------------------------------
(* HandleMessage and HandleCallback *)

Verb(c) == CommandOf[c].verb
Sender(c) == CommandOf[c].user

MayCome(m) == m \in due /\ Cardinality((Commands \cup Resets) \ due) < MaxMessages

Deliver(c) ==
  /\ MayCome(c)
  /\ Lanes!Accept(Chat, c)
  /\ due' = due \ {c}
  /\ hand' = [hand EXCEPT ![c].step = "wait"]
  /\ UNCHANGED <<store, game, menu, applied>>

Conclude(c, answer) ==
  /\ hand' = [hand EXCEPT ![c] = [Over EXCEPT !.answer = answer]]
  /\ Ends(c)
  /\ UNCHANGED <<store, menu, due, applied>>

\* FindChatGame, with the revision the command will act on; a choice of the
\* mode, a button of the lobby, names its game.
Find(c) ==
  /\ hand[c].step = "run"
  /\ Verb(c) # "novo"
  /\ \E g \in Games :
       /\ Open(g)
       /\ Verb(c) \in {"iniciar", "modo"} => game[g].stage = "lobby"
       /\ hand' = [hand EXCEPT ![c].step = "act", ![c].game = g, ![c].rev = game[g].rev,
                               ![c].first = IF hand[c].answer = "again" THEN @ ELSE game[g].rev]
  /\ UNCHANGED <<store, game, menu, due, lanes, applied>>

FindNone(c) ==
  /\ hand[c].step = "run"
  /\ Verb(c) # "novo"
  /\ \A g \in Games : Open(g) => Verb(c) \in {"iniciar", "modo"} /\ game[g].stage # "lobby"
  /\ Conclude(c, "none")
  /\ UNCHANGED game

\* Mutant of Vacant: the chat may have other games.
AnyTime == TRUE

Vacant == \A g \in Games : ~Open(g)

\* handleNovo: one open game per chat.
Novo(c) ==
  /\ hand[c].step = "run"
  /\ Verb(c) = "novo"
  /\ Conclude(c, "none")
  /\ IF Disowned(c) \/ ~Vacant THEN UNCHANGED game
     ELSE \E g \in Games : /\ game[g] = Unborn
                           /\ game' = [game EXCEPT ![g].stage = "lobby"]

\* Why a command cannot act, before its revision is looked at.
Barred(c) ==
  \/ Disowned(c)
  \/ ~Open(hand[c].game)
  \/ Verb(c) = "entrar" /\ Sender(c) \in game[hand[c].game].seats

Late(c) == hand[c].rev # game[hand[c].game].rev

\* Mutant of TriesAgain: joins are not repeated.
GivesUpAtOnce(c) == FALSE

\* handleEntrar and SetRules read once more when their revision was stale.
TriesAgain(c) == Verb(c) \in {"entrar", "modo"} /\ hand[c].answer # "again"

ActLate(c) ==
  /\ hand[c].step = "act"
  /\ ~Barred(c) /\ Late(c)
  /\ IF TriesAgain(c)
     THEN /\ hand' = [hand EXCEPT ![c].step = "run", ![c].answer = "again"]
          /\ UNCHANGED <<store, menu, due, lanes, applied>>
     ELSE Conclude(c, "stale")
  /\ UNCHANGED game

ActBarred(c) ==
  /\ hand[c].step = "act"
  /\ Barred(c) \/ ~Late(c)  \* the engine and the service may refuse anything
  /\ Conclude(c, "none")
  /\ UNCHANGED game

\* What the command makes of the game it found.
Done(c) ==
  LET g == hand[c].game
      s == game[g]
      next == [s EXCEPT !.rev = @ + 1]
      left == s.seats \ {Sender(c)}
      turns(seats) == {[next EXCEPT !.stage = "turn", !.who = p, !.seats = seats] : p \in seats}
      closed(seats) == [next EXCEPT !.stage = "closed", !.who = None, !.seats = seats]
  IN  CASE Verb(c) = "entrar" -> {[next EXCEPT !.seats = @ \cup {Sender(c)}]}
        [] Verb(c) = "iniciar" ->
             IF s.stage = "lobby" /\ Cardinality(s.seats) > 1
             THEN turns(s.seats) \cup {[t EXCEPT !.stage = "choice"] : t \in turns(s.seats)} ELSE {}
        [] Verb(c) = "modo" -> IF s.stage = "lobby" THEN {next} ELSE {}
        [] Verb(c) = "cancelar" -> {closed(s.seats)}
        [] Verb(c) = "sair" ->
             IF Sender(c) \notin s.seats \/ (s.stage = "choice" /\ s.who = Sender(c)) THEN {}
             ELSE IF s.stage = "lobby" THEN {[next EXCEPT !.seats = left]}
             ELSE IF Cardinality(left) < 2 THEN {closed(left)}
             ELSE IF s.who = Sender(c) THEN turns(left) ELSE {[next EXCEPT !.seats = left]}

Act(c) ==
  /\ hand[c].step = "act"
  /\ ~Barred(c) /\ ~Late(c)
  /\ \E next \in Done(c) :
       /\ game' = [game EXCEPT ![hand[c].game] = next]
       /\ CASE Verb(c) = "sair" -> hand' = [hand EXCEPT ![c].step = "purgeUser",
                                                        ![c].closes = next.stage = "closed"]
            [] Verb(c) = "cancelar" -> hand' = [hand EXCEPT ![c].step = "purge"]
            [] OTHER -> hand' = [hand EXCEPT ![c] = Over]
  /\ IF Verb(c) \in {"sair", "cancelar"} THEN UNCHANGED lanes ELSE Ends(c)
  /\ UNCHANGED <<store, menu, due, applied>>

PurgeUser(c) ==
  /\ hand[c].step = "purgeUser"
  /\ InvalidateUserGame(hand[c].game, Sender(c))
  /\ IF hand[c].closes
     THEN hand' = [hand EXCEPT ![c].step = "purge"] /\ UNCHANGED lanes
     ELSE hand' = [hand EXCEPT ![c] = Over] /\ Ends(c)
  /\ UNCHANGED <<game, menu, due, applied>>

-----------------------------------------------------------------------------
(* HandleReset, in the recovery queue *)

\* resetExecution: what waits in the lane is dropped, what runs disowned.
Renew(r) ==
  /\ MayCome(r)
  /\ due' = due \ {r}
  /\ Lanes!Renew(Chat)
  /\ hand' = [j \in DOMAIN hand |->
                IF j = r THEN [NotBegun EXCEPT !.step = "wipe"]
                ELSE IF hand[j].step = "wait" THEN [hand[j] EXCEPT !.step = "dropped"]
                ELSE IF hand[j].step = "send" THEN [hand[j] EXCEPT !.step = "sendLate"]
                ELSE hand[j]]
  /\ UNCHANGED <<store, game, menu, applied>>

\* The service removes every game of the chat, or refuses.
Wipe(r) ==
  /\ hand[r].step = "wipe"
  /\ \/ /\ game' = [g \in Games |-> IF game[g].stage = "unborn" THEN game[g]
                                    ELSE [game[g] EXCEPT !.stage = "gone", !.who = None]]
        /\ hand' = [hand EXCEPT ![r].step = "purge"]
     \/ /\ hand' = [hand EXCEPT ![r] = Over]
        /\ UNCHANGED game
  /\ UNCHANGED <<store, menu, due, lanes, applied>>

PurgeAll(r) ==
  /\ hand[r].step = "purge"
  /\ Delete(UNION {OfGame(g) : g \in {h \in Games : game[h].stage = "gone"}})
  /\ hand' = [hand EXCEPT ![r] = Over]
  /\ UNCHANGED <<game, menu, due, lanes, applied>>

TimePasses(id) ==
  /\ Cardinality({i \in Kept : tokens[i].expired}) < MaxExpired
  /\ Expire(id)
  /\ UNCHANGED <<game, menu, due, lanes, hand, applied>>

Running(j) ==
  \/ j \in Tokens /\ (Play(j) \/ Refuse(j) \/ Report(j))
  \/ j \in Commands /\ (Find(j) \/ FindNone(j) \/ Novo(j) \/ ActLate(j) \/ ActBarred(j)
                        \/ Act(j) \/ PurgeUser(j))
  \/ Purge(j)

Next ==
  \/ \E g \in Games : WebMove(g) \/ \E w \in InlineWorkers, p \in Users : Look(w, p, g)
  \/ \E w \in InlineWorkers, id \in Tokens : Offer(w, id)
  \/ \E id \in Tokens : Tap(id) \/ Queue(id) \/ QueueLate(id) \/ RefuseTap(id) \/ TimePasses(id)
  \/ \E c \in Commands : Deliver(c)
  \/ \E j \in Jobs : Begin(j) \/ Running(j)
  \/ \E r \in Resets : Renew(r) \/ Wipe(r) \/ PurgeAll(r)

Spec == Init /\ [][Next]_vars

-----------------------------------------------------------------------------
(* Properties *)

InlineTypeOK ==
  /\ made \in [Tokens -> [user : Users \cup {None}, game : Games \cup {None}, rev : Nat,
                          verb : {"none", "draw", "play", "choose"}]]
  /\ tokens \in [Tokens -> [used : BOOLEAN, result : Results, expired : BOOLEAN, here : BOOLEAN]]
  /\ game \in [Games -> Games0]
  /\ applied \subseteq Tokens
  /\ due \subseteq Commands \cup Resets
  /\ \A j \in DOMAIN hand : hand[j].step \in Steps
  /\ lane[Chat] \in Seq(Jobs) /\ work[Chat] \in Jobs \cup {None}
  /\ Cardinality({g \in Games : Open(g)}) <= 1

\* What a player is told of a tap is what became of it: confirmed if its move
\* has changed the game, an old or a refused choice if it has not.
ResultsAreTrue ==
  \A id \in Kept :
    /\ Status(id) = "confirmed" => id \in applied
    /\ Status(id) = "stale" \/ tokens[id].result = "rejected" => id \notin applied
    /\ Status(id) = "waiting" => id \notin applied

\* A used token has its result, or its tap is on the way, or a reset has
\* dropped it: no tap is swallowed, and one that was refused can be repeated.
TapsAccounted ==
  \A id \in Kept :
    tokens[id].used /\ tokens[id].result = "none" =>
      \/ hand[id].step \in {"send", "sendLate", "dropped"}
      \/ hand[id].step = "wait" /\ id \in ToSet(lane[Chat])
      \/ hand[id].step \in {"run", "won", "stale", "rejected"}

\* A result, once recorded, is never replaced: a second tap, or the same one
\* delivered again, does not turn a confirmed move into a stale one.
ResultStays ==
  [][\A id \in Kept :
       tokens[id].result # "none" /\ tokens'[id].here => tokens'[id].result = tokens[id].result]_vars

\* /entrar or a choice of the mode fails as stale only if the game was changed
\* twice since the command first found it: the change of one other person never
\* makes it fail.
StaleAfterTwoChanges ==
  [][\A c \in Commands :
       Verb(c) \in {"entrar", "modo"} /\ hand[c].answer # "stale" /\ hand'[c].answer = "stale" =>
         game[hand[c].game].rev >= hand[c].first + 2]_vars
=============================================================================
