---------------------------- MODULE GameService -----------------------------
(***************************************************************************)
(* internal/game: the service that keeps the games of all chats.  Every    *)
(* game has a mutex of its own (entry.mu); the indices share another one   *)
(* (indexMu), never held while waiting.  A goroutine looks a game up under *)
(* indexMu, lets it go, waits for entry.mu, works on the game and          *)
(* publishes under indexMu before it lets entry.mu go.  So a lookup is one *)
(* step and the locked section another, and anything may happen between.   *)
(* VoteRematch reads the indices twice inside its locked section: it is    *)
(* two steps, with entry.mu held in between.                               *)
(*                                                                         *)
(* The engine of a game is a round (RoundMoves, which UnoEngine            *)
(* implements).  A call that is refused or cancelled changes nothing.      *)
(***************************************************************************)
EXTENDS Naturals, FiniteSets, Sequences, Sifting

CONSTANTS
  Players, Games, None,
  Places,         \* where games are opened: chats, and None for a free room
  Callers,        \* goroutines inside the service
  ActionRequests, \* identifiers web clients give to their actions
  Acceptances, Withdrawals,  \* and to their rematch votes for and against
  LockRequests,   \* what owners may ask of the door: subsets of BOOLEAN
  Capacity,       \* seats of a game, maxPlayers in the code
  HistoryLimit,   \* closed games kept
  TurnTime,       \* how long a turn may take, in ticks; turnTimeout in the code
  MaxRevision     \* bound on the accepted actions of one game

VoteRequests == Acceptances \cup Withdrawals

ASSUME ServiceAssumption ==
  /\ None \notin Players \cup Games \cup Callers \cup ActionRequests \cup VoteRequests
  /\ Acceptances \cap Withdrawals = {}
  /\ HistoryLimit \in Nat /\ MaxRevision \in Nat /\ Capacity \in Nat /\ TurnTime \in Nat
  /\ IsFiniteSet(Players) /\ LockRequests \subseteq BOOLEAN

R == INSTANCE RoundMoves WITH People <- Players, Nobody <- None, FirstWins <- {FALSE}

VARIABLES
  games,            \* every game ever created, whether or not an index still leads to it
  byID,             \* the published summary of a game, None when it is not listed
  byChat, byPlayer, \* the open game of a chat, the open games of a seated player
  history,          \* closed games in the order they closed, oldest first
  pendingResults,   \* closed games whose result is not stored yet
  call,             \* what each goroutine is doing
  voted,            \* auxiliary: the ballots counted so far, which may arrive again
  purged,           \* auxiliary: the games a reset has taken out of the indices
  waited            \* auxiliary: how long each game has waited, TurnTime at most, for
                    \* the player on turn, anew for a turn after a choice

indices == <<byID, byChat, byPlayer, history, pendingResults>>
auxiliary == <<voted, purged, waited>>
vars == <<games, indices, call, auxiliary>>

Chats == Places \ {None}

\* A managedGame while it has an engine, with the time left until the deadline
\* of its turn.
OpenGame ==
  [ chat : Chats \cup {None}, creator : Players, owner : Players,
    locked : BOOLEAN, started : BOOLEAN, deadline : 0 .. TurnTime,
    revision : Nat, engine : R!Rounds, reset : {FALSE},
    receipts : SUBSET (Players \X ActionRequests),
    required : {{}}, accepted : {{}}, ballotReceipts : {{}}, next : {None} ]

\* And once it has none: its final view offers a rematch to the required
\* players, if any, unless a reset has taken the view too.
ClosedGame ==
  [ chat : Chats \cup {None}, creator : Players, owner : {None},
    locked : BOOLEAN, started : BOOLEAN, deadline : {0},
    revision : Nat, engine : {None}, reset : BOOLEAN,
    receipts : SUBSET (Players \X ActionRequests),
    required : SUBSET Players, accepted : SUBSET Players,
    ballotReceipts : SUBSET (Players \X VoteRequests),
    next : Games \cup {None} ]

Summaries == [chat : Chats \cup {None}, owner : Players \cup {None}, locked : BOOLEAN, revision : Nat, closed : BOOLEAN]

ASSUME NothingAssumption == None \notin R!Rounds \cup OpenGame \cup ClosedGame \cup Summaries

Calls ==
  [ op : {"idle", "action", "skip", "vote", "publish", "reset"},
    game : Games \cup {None}, player : Players \cup {None}, chat : Chats \cup {None},
    revision : Nat, request : ActionRequests \cup VoteRequests \cup {None},
    answer : {"none", "done", "late"} ]

Ballots == [game : Games, player : Players, request : VoteRequests]

Idle == [op |-> "idle", game |-> None, player |-> None, chat |-> None,
         revision |-> 0, request |-> None, answer |-> "none"]

NewGame(chat, owner, locked, engine, revision) ==
  [ chat |-> chat, creator |-> owner, owner |-> owner,
    locked |-> locked, started |-> engine.stage # "Lobby", deadline |-> TurnTime,
    revision |-> revision, engine |-> engine, reset |-> FALSE, receipts |-> {},
    required |-> {}, accepted |-> {}, ballotReceipts |-> {}, next |-> None ]

Summary(e) ==
  [chat |-> e.chat, owner |-> e.owner, locked |-> e.locked, revision |-> e.revision,
   closed |-> e.engine = None]

Exists(g) == games[g] # None
IsOpen(g) == Exists(g) /\ games[g].engine # None
IsFinal(g) == Exists(g) /\ games[g].engine = None /\ ~games[g].reset
Listed(g) == byID[g] # None

\* entry.mu is held across steps only by a rematch about to be published.
Unlocked(g) == ~\E c \in Callers : call[c].op = "publish" /\ call[c].game = g

Returns(c) == call' = [call EXCEPT ![c] = Idle]

Init ==
  /\ games = [g \in Games |-> None]
  /\ byID = [g \in Games |-> None]
  /\ byChat = [x \in Chats |-> None]
  /\ byPlayer = [p \in Players |-> {}]
  /\ history = <<>>
  /\ pendingResults = {}
  /\ call = [c \in Callers |-> Idle]
  /\ voted = {} /\ purged = {}
  /\ waited = [g \in Games |-> 0]

-----------------------------------------------------------------------------
(* Create *)

\* The entry is private until the one section that checks and lists it.
Create ==
  \E g \in Games, p \in Players, chat \in Places :
    /\ games[g] = None                       \* 128 random bits: never seen before
    /\ chat # None => byChat[chat] = None
    /\ LET e == NewGame(chat, p, FALSE, R!EmptyRound(FALSE), 0)
       IN  /\ games' = [games EXCEPT ![g] = e]
           /\ byID' = [byID EXCEPT ![g] = Summary(e)]
    /\ byChat' = IF chat = None THEN byChat ELSE [byChat EXCEPT ![chat] = g]
    /\ UNCHANGED <<byPlayer, history, pendingResults, call, auxiliary>>

-----------------------------------------------------------------------------
(* Publishing an accepted action *)

\* Mutant of Owners: a closed game keeps its owner.
OwnersForEver(e, after) == {e.owner}

\* A participating owner who loses the seat hands over to the player on turn,
\* or to a seated one in the lobby.
Owners(e, after) ==
  IF after.stage = "Over" THEN {None}
  ELSE IF e.owner \in e.engine.seated /\ e.owner \notin after.seated /\ after.seated # {}
       THEN IF after.turn # None THEN {after.turn} ELSE after.seated
       ELSE {e.owner}

\* Mutant of Deadline: only a change of player starts the clock again.
DeadlineOfPlayer(e, after) ==
  IF after.stage = "Over" THEN 0
  ELSE IF after.turn # e.engine.turn THEN TurnTime ELSE e.deadline

\* The clock of a turn starts when the player or the phase changes.
Deadline(e, after) ==
  IF after.stage = "Over" THEN 0
  ELSE IF <<after.turn, after.stage, after.choosing>> # <<e.engine.turn, e.engine.stage, e.engine.choosing>>
       THEN TurnTime ELSE e.deadline

\* Everybody ever registered must agree to a rematch.
Offered(kind, after) ==
  IF kind # "CancelGame" /\ Cardinality(after.roster) >= 2 THEN after.roster ELSE {}

Advanced(e, kind, after, owner) ==
  [ e EXCEPT
      !.engine = IF after.stage = "Over" THEN None ELSE after,
      !.revision = @ + 1,
      !.started = @ \/ kind = "StartGame",
      !.owner = owner,
      !.deadline = Deadline(e, after),
      !.required = IF after.stage = "Over" THEN Offered(kind, after) ELSE {} ]

\* Mutant of Routes: only the seats of the new state are visited.
RoutesOfSeated(g, before, after) ==
  [p \in Players |-> IF after # None /\ p \in after.seated THEN byPlayer[p] \cup {g} ELSE byPlayer[p]]

\* Every former player is dropped and the ones still seated are added.
Routes(g, before, after) ==
  [p \in Players |->
     IF after # None /\ p \in after.seated THEN byPlayer[p] \cup {g}
     ELSE IF p \in before.roster THEN byPlayer[p] \ {g} ELSE byPlayer[p]]

\* The wait for somebody begins with the turn, or with the turn after a choice.
Waited(g, e) ==
  IF /\ e.engine # None
     /\ e.engine.turn = games[g].engine.turn
     /\ games[g].engine.choosing => e.engine.choosing
  THEN waited[g] ELSE 0

\* publish, under indexMu: routes, result, summary, chat and bounded history.
Publish(g, e, owed) ==
  LET closes == e.engine = None
      closed == Append(history, g)
      evicted == IF closes /\ Len(closed) > HistoryLimit THEN {Head(closed)} ELSE {}
  IN  /\ games' = [games EXCEPT ![g] = e]
      /\ waited' = [waited EXCEPT ![g] = Waited(g, e)]
      /\ byPlayer' = Routes(g, games[g].engine, e.engine)
      /\ pendingResults' = pendingResults \cup (IF owed THEN {g} ELSE {})
      /\ byID' = [x \in Games |-> IF x \in evicted THEN None ELSE IF x = g THEN Summary(e) ELSE byID[x]]
      /\ byChat' = IF closes /\ e.chat # None THEN [byChat EXCEPT ![e.chat] = None] ELSE byChat
      /\ history' = IF ~closes THEN history ELSE IF evicted # {} THEN Tail(closed) ELSE closed

-----------------------------------------------------------------------------
(* Apply and ApplyWeb *)

\* A caller has read a view of an open game and looks the game up to act on it.
\* Only who makes an identified request matters before the game is locked.
Find(c) ==
  /\ call[c] = Idle
  /\ \E g \in Games :
       /\ Listed(g) /\ ~byID[g].closed
       /\ \E p \in Players \cup {None}, r \in ActionRequests \cup {None} :
            /\ p = None <=> r = None
            /\ call' = [call EXCEPT ![c] = [Idle EXCEPT !.op = "action", !.game = g, !.player = p,
                                                        !.revision = byID[g].revision, !.request = r]]
  /\ UNCHANGED <<games, indices, auxiliary>>

\* here: the actor speaks from the chat of the game; inline actions have none.
Authorized(e, p, here, admin, kind) ==
  IF e.chat = None
  THEN kind \in {"JoinGame", "LeaveGame", "TurnAction"} \/ p \in {e.owner, e.creator}
  ELSE CASE kind \in {"JoinGame", "LeaveGame", "StartGame"} -> here
         [] kind = "CancelGame" -> here /\ (admin \/ p \in {e.owner, e.creator})
         [] kind = "SetRules" -> here /\ p = e.owner
         [] kind = "TurnAction" -> TRUE

Permitted(e, p) ==
  {kind \in R!Kinds \ {"SkipTurn"} : \E here, admin \in BOOLEAN : Authorized(e, p, here, admin, kind)}

\* Mutant of Receipt: only an action of the chat leaves a receipt.
NoReceipt(k) == {}

Receipt(k) == IF k.request = None THEN {} ELSE {<<k.player, k.request>>}

Actors(k) == IF k.player = None THEN Players ELSE {k.player}

\* A request with a receipt gets its first answer again and changes nothing.
Answered(k) == k.request # None /\ <<k.player, k.request>> \in games[k.game].receipts

Apply(c) ==
  LET k == call[c]
      g == k.game
      e == games[g]
  IN  /\ k.op = "action"
      /\ Unlocked(g) /\ IsOpen(g)
      /\ ~Answered(k)
      /\ k.revision = e.revision /\ e.revision < MaxRevision
      /\ \E p \in Actors(k) : \E kind \in Permitted(e, p) :
           /\ kind = "JoinGame" => ~e.locked
           /\ \E after \in R!Moves(e.engine, kind, p) : \E owner \in Owners(e, after) :
                Publish(g,
                        [Advanced(e, kind, after, owner) EXCEPT !.receipts = @ \cup Receipt(k)],
                        after.stage = "Over" /\ kind # "CancelGame" /\ e.started)
      /\ call' = [call EXCEPT ![c] = IF k.request = None THEN Idle ELSE [k EXCEPT !.answer = "done"]]
      /\ UNCHANGED <<voted, purged>>

\* Somebody acted first or the game is over, and this is not a request already
\* answered.  A request made again looks the game up again.
RefuseLate(c) ==
  LET k == call[c]
      g == k.game
  IN  /\ k.op = "action" /\ k.request # None
      /\ k.answer # "none" => Listed(g)
      /\ Unlocked(g)
      /\ ~Answered(k)
      /\ IsFinal(g) \/ (IsOpen(g) /\ k.revision # games[g].revision)
      /\ call' = [call EXCEPT ![c] = [k EXCEPT !.answer = "late"]]
      /\ UNCHANGED <<games, indices, auxiliary>>

\* The owner opens or closes the door: no revision is checked or advanced.
SetLocked(c) ==
  LET k == call[c]
      g == k.game
  IN  /\ k.op = "action" /\ k.request = None
      /\ Unlocked(g) /\ IsOpen(g)
      /\ games[g].chat # None /\ games[g].owner \in Actors(k)
      /\ \E locked \in LockRequests :
         LET e == [games[g] EXCEPT !.locked = locked]
         IN  /\ games' = [games EXCEPT ![g] = e]
             /\ byID' = [byID EXCEPT ![g] = Summary(e)]
      /\ Returns(c)
      /\ UNCHANGED <<byChat, byPlayer, history, pendingResults, auxiliary>>

\* Any call may end without effect: refused, or its context cancelled.
GiveUp(c) ==
  /\ call[c].op \in {"action", "skip", "vote", "reset"}
  /\ Returns(c)
  /\ UNCHANGED <<games, indices, auxiliary>>

-----------------------------------------------------------------------------
(* Turn deadlines *)

\* Time passes.  Only a turn or a choice in play can be late.
Tick(g) ==
  /\ IsOpen(g) /\ games[g].chat # None
  /\ games[g].engine.stage = "Playing" /\ games[g].deadline > 0
  /\ games' = [games EXCEPT ![g].deadline = @ - 1]
  /\ waited' = [waited EXCEPT ![g] = IF @ < TurnTime THEN @ + 1 ELSE @]
  /\ UNCHANGED <<indices, call, voted, purged>>

Late(g) ==
  /\ IsOpen(g) /\ games[g].chat # None
  /\ games[g].engine.stage = "Playing" /\ ~games[g].engine.choosing
  /\ games[g].deadline = 0

\* The scheduler notes a late turn; it is skipped later, from the chat's queue.
Scan(c) ==
  /\ call[c] = Idle
  /\ \E g \in Games :
       /\ Listed(g) /\ Late(g)
       /\ call' = [call EXCEPT ![c] = [Idle EXCEPT !.op = "skip", !.game = g,
                                                   !.player = games[g].engine.turn,
                                                   !.revision = games[g].revision]]
  /\ UNCHANGED <<games, indices, auxiliary>>

\* Mutant of StillDue: the player is found on turn again and is skipped.
DueByPlayer(k) ==
  /\ IsOpen(k.game) /\ games[k.game].engine.stage = "Playing" /\ ~games[k.game].engine.choosing
  /\ games[k.game].engine.turn = k.player

\* Everything the scan found is asked again: the player may have acted since.
StillDue(k) ==
  /\ Late(k.game)
  /\ games[k.game].engine.turn = k.player
  /\ games[k.game].revision = k.revision

\* A game that is open is still listed: the lookup adds nothing here.
SkipTurn(c) ==
  LET k == call[c]
      g == k.game
      e == games[g]
  IN  /\ k.op = "skip"
      /\ Unlocked(g) /\ StillDue(k)
      /\ e.revision < MaxRevision
      /\ \E after \in R!Moves(e.engine, "SkipTurn", k.player) : \E owner \in Owners(e, after) :
           Publish(g, Advanced(e, "SkipTurn", after, owner), FALSE)
      /\ Returns(c)
      /\ UNCHANGED <<voted, purged>>

-----------------------------------------------------------------------------
(* Rematch *)

\* A participant of a closed game votes, or an earlier vote arrives again.
FindClosed(c) ==
  /\ call[c] = Idle
  /\ \E b \in Ballots :
       /\ Listed(b.game) /\ IsFinal(b.game)
       /\ b.player \in games[b.game].required
       /\ call' = [call EXCEPT ![c] = [Idle EXCEPT !.op = "vote", !.game = b.game,
                                                   !.player = b.player, !.request = b.request]]
  /\ UNCHANGED <<games, indices, auxiliary>>

BallotOf(k) == [game |-> k.game, player |-> k.player, request |-> k.request]

\* Mutant of ResultStored: nobody waits for the finalizer.
NoWaiting(g) == TRUE

ResultStored(g) == g \notin pendingResults

\* The vote is recorded; the last acceptance goes on to open the next game
\* without letting entry.mu go.
Vote(c) ==
  LET k == call[c]
      g == k.game
      e == games[g]
      accepted == IF k.request \in Acceptances THEN e.accepted \cup {k.player} ELSE e.accepted \ {k.player}
  IN  /\ k.op = "vote"
      /\ Unlocked(g) /\ IsFinal(g)
      /\ k.player \in e.required
      /\ <<k.player, k.request>> \notin e.ballotReceipts
      /\ e.next = None
      /\ ResultStored(g)
      /\ games' = [games EXCEPT ![g].accepted = accepted,
                                ![g].ballotReceipts = @ \cup {<<k.player, k.request>>}]
      /\ voted' = voted \cup {BallotOf(k)}
      /\ call' = [call EXCEPT ![c] = IF accepted = e.required THEN [k EXCEPT !.op = "publish"] ELSE Idle]
      /\ UNCHANGED <<indices, purged, waited>>

\* The next round: everybody joins and the first of them starts it.
FirstRounds(people) ==
  R!Begun([R!EmptyRound(FALSE) EXCEPT !.roster = people, !.seated = people])

VacantPlace(chat) == chat # None => byChat[chat] = None

\* All the checks again, and the new game listed, in one section.
PublishRematch(c) ==
  LET k == call[c]
      g == k.game
      e == games[g]
  IN  /\ k.op = "publish"
      /\ VacantPlace(e.chat)
      /\ ResultStored(g)
      /\ \E n \in Games, owner \in e.required, round \in FirstRounds(e.required) :
           /\ games[n] = None
           /\ LET fresh == NewGame(e.chat, owner, e.locked, round, Cardinality(e.required) + 1)
              IN  /\ games' = [games EXCEPT ![n] = fresh, ![g].next = n]
                  /\ byID' = [byID EXCEPT ![n] = Summary(fresh)]
           /\ byChat' = IF e.chat = None THEN byChat ELSE [byChat EXCEPT ![e.chat] = n]
           /\ byPlayer' = [p \in Players |-> IF p \in e.required THEN byPlayer[p] \cup {n} ELSE byPlayer[p]]
      /\ Returns(c)
      /\ UNCHANGED <<history, pendingResults, auxiliary>>

\* The chat is taken, a result is pending or the context is cancelled: the
\* votes stay, and the request may be made again.
FailRematch(c) ==
  LET k == call[c]
  IN  /\ k.op = "publish"
      /\ games' = [games EXCEPT ![k.game].ballotReceipts = @ \ {<<k.player, k.request>>}]
      /\ Returns(c)
      /\ UNCHANGED <<indices, auxiliary>>

\* The finalizer has stored the result of a game.
AcknowledgeResult(g) ==
  /\ g \in pendingResults
  /\ pendingResults' = pendingResults \ {g}
  /\ UNCHANGED <<games, byID, byChat, byPlayer, history, call, auxiliary>>

-----------------------------------------------------------------------------
(* Resetting a chat *)

\* The index is read before anybody's right to reset is judged.
ReadActive(c) ==
  /\ call[c] = Idle
  /\ \E chat \in Chats :
       call' = [call EXCEPT ![c] = [Idle EXCEPT !.op = "reset", !.chat = chat, !.game = byChat[chat]]]
  /\ UNCHANGED <<games, indices, auxiliary>>

\* Everything listed of the chat goes, open or closed.
Purge(chat) ==
  LET removed == {g \in Games : Listed(g) /\ byID[g].chat = chat}
  IN  /\ byID' = [g \in Games |-> IF g \in removed THEN None ELSE byID[g]]
      /\ byChat' = [byChat EXCEPT ![chat] = None]
      /\ byPlayer' = [p \in Players |-> byPlayer[p] \ removed]
      /\ history' = Sift(history, Games \ removed)
      /\ purged' = purged \cup removed

Resetters(k) ==
  {by \in [player : Players, admin : BOOLEAN] :
     by.admin \/ (k.game # None /\ by.player = games[k.game].owner)}

ResetActive(c) ==
  LET k == call[c]
      g == k.game
  IN  /\ k.op = "reset" /\ g # None
      /\ Unlocked(g)
      /\ Resetters(k) # {}
      /\ byChat[k.chat] = g
      /\ Purge(k.chat)
      /\ games' = [games EXCEPT ![g].reset = TRUE, ![g].engine = None, ![g].owner = None,
                                ![g].deadline = 0]
      /\ Returns(c)
      /\ UNCHANGED <<pendingResults, voted, waited>>

ResetIdle(c) ==
  LET k == call[c]
  IN  /\ k.op = "reset" /\ k.game = None
      /\ Resetters(k) # {}
      /\ byChat[k.chat] = None
      /\ Purge(k.chat)
      /\ Returns(c)
      /\ UNCHANGED <<games, pendingResults, voted, waited>>

\* The chat's game changed while the lock was awaited: start again.
ReadAgain(c) ==
  LET k == call[c]
  IN  /\ k.op = "reset"
      /\ k.game # None => Unlocked(k.game)
      /\ Resetters(k) # {}
      /\ byChat[k.chat] # k.game
      /\ call' = [call EXCEPT ![c].game = byChat[k.chat]]
      /\ UNCHANGED <<games, indices, auxiliary>>

-----------------------------------------------------------------------------

Next ==
  \/ Create
  \/ \E c \in Callers :
       \/ Find(c) \/ Apply(c) \/ RefuseLate(c) \/ SetLocked(c) \/ GiveUp(c)
       \/ Scan(c) \/ SkipTurn(c)
       \/ FindClosed(c) \/ Vote(c) \/ PublishRematch(c) \/ FailRematch(c)
       \/ ReadActive(c) \/ ResetActive(c) \/ ResetIdle(c) \/ ReadAgain(c)
  \/ \E g \in Games : Tick(g) \/ AcknowledgeResult(g)

Spec == Init /\ [][Next]_vars

-----------------------------------------------------------------------------
(* Properties *)

\* An open game has an owner, a closed one has none and no time left.
StateTypeOK ==
  /\ games \in [Games -> OpenGame \cup ClosedGame \cup {None}]
  /\ byID \in [Games -> Summaries \cup {None}]
  /\ byChat \in [Chats -> Games \cup {None}]
  /\ byPlayer \in [Players -> SUBSET Games]
  /\ history \in Seq(Games)
  /\ pendingResults \subseteq Games
  /\ call \in [Callers -> Calls]
  /\ voted \subseteq Ballots
  /\ purged \subseteq Games

ServiceTypeOK == StateTypeOK /\ waited \in [Games -> 0 .. TurnTime]

\* The open game of a chat is the one its index leads to, and no other.
ChatsAgree ==
  \A chat \in Chats, g \in Games :
    byChat[chat] = g <=> IsOpen(g) /\ games[g].chat = chat

\* A player is routed to exactly the open games where that player is seated.
PlayersAgree ==
  \A p \in Players, g \in Games :
    g \in byPlayer[p] <=> IsOpen(g) /\ p \in games[g].engine.seated

\* Summaries are the games they stand for; open games are always listed.
SummariesAgree ==
  \A g \in Games :
    /\ Listed(g) => Exists(g) /\ byID[g] = Summary(games[g]) /\ ~games[g].reset
    /\ IsOpen(g) => Listed(g)

\* The history holds each listed closed game once and never outgrows its limit.
HistoryAgrees ==
  /\ Len(history) <= HistoryLimit
  /\ \A i, j \in DOMAIN history : history[i] = history[j] => i = j
  /\ \A g \in Games : (\E i \in DOMAIN history : history[i] = g) <=> Listed(g) /\ ~IsOpen(g)

\* Whatever goroutines looked up before a game closed, was evicted or reset,
\* the indices and the games they lead to tell the same story.
IndicesAgree == ChatsAgree /\ PlayersAgree /\ SummariesAgree /\ HistoryAgrees

\* What the rooms are told of a game.
LifeOf(g) ==
  IF ~Exists(g) THEN "unborn"
  ELSE IF games[g].reset THEN "reset" ELSE IF IsOpen(g) THEN "open" ELSE "closed"
PlaceOf(g) == IF Exists(g) THEN games[g].chat ELSE None
HeirOf(g) == IF Exists(g) THEN games[g].next ELSE None
Lives == [g \in Games |-> LifeOf(g)]
Whereabouts == [g \in Games |-> PlaceOf(g)]
Heirs == [g \in Games |-> HeirOf(g)]

\* The service is the rooms ChatRooms promises: the checks made under two
\* locks, some of them twice, let a game into a chat only when it is vacant,
\* and let a closed game be followed once, after its result is stored.
Rooms == INSTANCE ChatRooms WITH
  life <- Lives, place <- Whereabouts, owed <- pendingResults, heir <- Heirs

RefinesRooms == Rooms!RoomsSpec

\* The goroutine skips the turn it was queued to skip.
Skips(c) ==
  call[c].op = "skip" /\ games'[call[c].game] # games[call[c].game] /\ call'[c] # call[c]

\* A turn is skipped only when its own time has run out, however long the skip
\* waited in the queue of the chat and whoever has moved in between.
SkipsOnlyTheLate ==
  [][ \A c \in Callers : Skips(c) => games[call[c].game].deadline = 0 ]_vars

\* Nobody is skipped whom the game has not waited for as long as a turn may
\* take, on turn all the while and, after a choice of theirs however late,
\* since that choice.  So skips never follow each other without that pause,
\* whatever skips are queued and whoever joins, leaves or plays in between.
\* A run of turns of one player is one wait, as it is in the code.
SkippedWereWaitedFor ==
  [][ \A c \in Callers : Skips(c) => waited[call[c].game] = TurnTime ]_vars

\* Whatever others do in between, the end of the game included, a web request
\* that succeeded is never told, when its client asks again, that it came late.
RetryKeepsAnswer ==
  [][ \A c \in Callers : call[c].answer = "done" => call'[c].answer # "late" ]_vars

\* docs/v2-application.md:198-201: what was looked up before a reset cannot
\* publish in the indices again.
ResetIsFinal ==
  [][ \A g \in purged : games'[g].next = games[g].next ]_vars

\* docs/miniapp-webapp.md:143: an acceptance delivered again does not count
\* again after it was withdrawn; only a vote never counted before can.
WithdrawalStands ==
  [][ \A g \in Games : Exists(g) /\ ~(games'[g].accepted \subseteq games[g].accepted) =>
        voted' # voted ]_vars
=============================================================================
