# UnoBotGO: a TLA+ model

This directory holds a model of the UNO bot of this repository: TLA+ modules
translated from the Go source, configurations that check them with TLC, and
proofs checked with TLAPS. `PROJECT.json` maps every definition to the lines of
source it stands for and lists runs, mutants, hazards and theorems.

## 1. The system

| Part | Source | State it keeps | Operations |
| --- | --- | --- | --- |
| UNO engine | `internal/uno` | one round: rules, players and their status, seating order and direction, hands, draw pile, discards, active colour, owed cards, pending choice, pending challenge, placements | `Apply`, `ApplyWeb`: set rules, join, leave, start, cancel, play, draw, pass, skip, choose colour, choose player, keep hand, call bluff |
| Game service and manager | `internal/game` | one entry per game under its own mutex (engine, owner, lock, deadline, receipts, votes); indices by game, chat and player under `indexMu`; history of closed games; pending results | create, apply (chat and web), publish, lock room, expire and skip a turn, reset a chat, vote a rematch |
| Finalization and ranking | `internal/game/finalization.go`, `results.go`, `internal/ranking`, `internal/storage/postgres` | pending results in memory; completed games, players and scores in the database | prepare, record, acknowledge, notify, retry |
| Dispatcher | `internal/telegram/dispatch.go` | bounded queues shared by the chats, an inline and a recovery queue; of each chat that was reset a generation with its context, queue and worker | enqueue, reset a chat, run a task, stop |
| Update intake | `internal/telegram/dedupe.go`, `bot.go` | pending and seen updates | reserve, commit, release; find expired turns |
| Action tokens | `internal/telegram/tokens.go` | one-shot tokens by name, in order of creation and by player | create, consume, release, record a result, invalidate, expire, evict |
| Commands and menus | `internal/telegram/commands.go`, `callbacks.go`, `inline.go` | nothing of their own: they read the service and act on what they read | inline menu, tap, status, /novo, /entrar, /iniciar, mode, /sair, /cancelar, /reset |
| HTTP API and live feed | `internal/httpapi` | receipts of created rooms; sockets per user; a coalescing signal and the view in the making per socket | create a room, enter by invitation, connect, project, command, heartbeat |
| Migrations | `internal/storage/postgres/migrations.go` | applied versions | apply under an advisory lock |

How they interact: updates from Telegram pass the deduper and are queued in the
dispatcher, one chat always on one worker; the task calls the service, which
takes the game's mutex, applies the action to the engine, and publishes the new
state to the indices under `indexMu`. A finished game leaves a result in
`pendingResults`; the finalizer stores it, acknowledges it, signals subscribers
and notifies. The web client goes through the same service with a request
identifier. A reset advances the chat's generation in the dispatcher and then
purges the chat from the service. Timeouts are discovered by polling and are
executed as tasks of the chat.

What is hard in this code: actions that wait for another one (a colour, a
player, a challenge) while people join and leave; a penalty that grows and must
be paid once; a pile that runs out in the middle of a draw; pointers to games
looked up before a reset; two locks and a list of indices; retries of requests
that did succeed; a database commit whose outcome is unknown; queues that are
full, replaced or closed; taps on menus of a table that has moved on; a screen whose signal
came while it was being drawn. `PROJECT.json` lists these under `hazards`, each at
its line, with the properties that watch it or the reason why none does.

What makes each part correct:

- engine: no card is lost or duplicated; a penalty is paid once; the turn is
  always with somebody seated; a handler never produces a state `Validate`
  refuses; the round ends exactly when its end policy says;
- service: at most one open game per chat, indices that agree with the games,
  no stale revision applied, nothing published after a reset, one rematch per
  closed game, a skipped turn is an expired one;
- finalization: each finished game is scored exactly once, whatever fails;
- dispatcher: the tasks of a chat that may still act run one at a time and in order, none of
  an old generation starts after a reset, a reset runs and frees its chat;
- intake: an update is handled at most once, and given back when it was refused;
- tokens and menus: a tap plays at most once, and what its player is told of it is true;
- HTTP: a repeated request finds the room it opened, each change reaches each open socket,
  a user's sockets are counted exactly.

## 2. The modules

| Module | Models | Role |
| --- | --- | --- |
| `UnoCards` | `card.go`, `rules.go` | ranks, colours, rule sets, the deck a rule set deals |
| `UnoEngine` | `game.go`, `state.go`, `deck.go`, `player.go` | one action per operation of the engine; its properties |
| `RoundMoves` | the same handlers, without cards | what each kind of action does to seats, turn, finishers, last place and the end of the round: a set of next rounds for each round |
| `UnoRound` | | those moves as a specification; `UnoEngine` implements it |
| `GameService` | `manager.go`, `service.go`, `rematch.go`, `results.go` | the games of all chats, their locks and their indices; the engine of each game is a round of `RoundMoves` |
| `ChatRooms` | | what the service promises of rooms; `GameService` implements it |
| `Finalization` | `finalization.go`, `storage/postgres/results.go`, `SetRankingSystem` | from the end of a game to its points in the database |
| `ChatLanes` | | what the dispatcher promises each chat: a bounded lane, one job at a time |
| `Dispatcher` | `dispatch.go`, `dedupe.go`, the webhook, the polling loop and the scheduler of `bot.go` | from an update to the worker that handles it; implements `ChatLanes` |
| `ActionTokens` | `tokens.go` | the token store, one operator per method |
| `InlinePlay` | `inline.go`, `commands.go`, the mode and status buttons of `callbacks.go` | menus, taps and commands of a chat, on the lane of `ChatLanes` and the tokens of `ActionTokens` |
| `WebRooms` | `rooms.go` | rooms opened and entered over HTTP, and the service's change signal |
| `LiveFeed` | `live.go` | the websocket of a room, on `WebRooms` |
| `Sifting` | `slices.DeleteFunc` on the history and on the token lists | the elements of a sequence that are in a set, in their order |
| `UnoEngineProofs`, `FinalizationProofs`, `DispatcherProofs`, `LiveFeedProofs`, `InlinePlayProofs` | | TLAPS proofs about the module of their name |
| `UnoValidProofs` | | what `UnoEngineProofs` makes possible to prove of `UnoEngine`: `Validate`, the order of turns, the places, the refinement of `UnoRound` |
| `GameServiceProofs` | | proofs about `GameService`: its invariant, then its steps and its refinement of `ChatRooms` |
| `SiftingProofs` | | what `Sift` returns and preserves |
| `MCUno`, `MCService`, `MCFinalization`, `MCDispatcher`, `MCInlinePlay`, `MCLiveFeed` | | small decks and rule sets, scripts of messages and symmetries, for TLC |

The engine is thus modelled twice, once with its cards and once as a round, and
`RefinesRound` is what allows the service to be checked with rounds: several games,
players and goroutines, without a deck in each of them. In the same way `InlinePlay` runs on the
promise of the dispatcher (`ChatLanes`) instead of its queues, `RefinesLanes` being what allows it.

### UnoEngine

`state` is `uno.State`: the fields have the names of the Go struct where TLA+
allows it (`rules`, `order`, `direction`, `current`, `hands`, `top`, `color`,
`drawCounter`, `drawnCard`, `pending`, `pendingBluff`, `challengeable`,
`placements`, `phase`, `reason`). `players` and `order` of the code are the
functions `status`, `hands` and the sequence `order`.

Actions and handlers:

| Action | Code |
| --- | --- |
| `SetRules`, `JoinLobby`, `JoinLate`, `LeaveGame`, `StartGame`, `CancelGame` | `SetRules`, `join`, `leave`, `start` and the cancel branch of `apply` |
| `PlayColored`, `PlayWild`, `PlaySwapHands` | the three ends of `play` with `completePlay` |
| `ChooseColor`, `ChoosePlayer`, `KeepHand` | `choose` and the swap branch of `applyTurn` |
| `DrawPenalty`, `DrawOne`, `DrawOneWeb` | the branches of DrawCard, `DrawOneWeb` being `ApplyWeb`'s automatic pass |
| `PassTurn`, `SkipTurn`, `CallBluff` | the same branches of `applyTurn` and `bluff` |

Abstractions, and why they keep the behaviour:

- Piles are sets. The code shuffles the draw pile with a random source each time
  it recycles it and deals from the end, so the next card may be any card of
  the pile; `Draws(s, n)` returns every outcome of a draw of n, the recycling of
  the discards included. Hands are sets: the code looks cards up by id.
- `Validate` runs at the end of every action in the code and turns a refused
  state into an internal error with a rollback. In the model it is not a guard: it
  is an invariant (`StateValid`), so TLC shows it never refuses anything.
- Actions that the code refuses with an error change nothing and are not steps.
- Revisions, event lists and the check that an action's revision is current
  belong to the caller and are left to the service's module.
- Penalties (two and four cards, two for a wrong challenge), hand size (7) and
  seats (10) are constants of the module; the code's values are one instance.
- The debug card injection exists only in builds with the `debugcards` tag.

### GameService

`games` holds every `managedGame` ever created, the ones no index leads to any
more included, since a goroutine may still hold a pointer to them; `byID`,
`byChat`, `byPlayer`, `history` and `pendingResults` are the manager's fields. `call`
is what each goroutine is doing. `voted`, `purged` and `waited` are auxiliary: they record
ballots, purges and how long a game has waited for whoever is on turn, for three properties, and enable nothing.

| Actions | Code |
| --- | --- |
| `Create` | `create` |
| `Find`, `Apply`, `RefuseLate` | lookup of `lockGame`; the locked section of `apply` with the whole of `publish`; its answers to requests that come late |
| `SetLocked` | `SetLocked` |
| `Tick`, `Scan`, `SkipTurn` | time, `expiredTurns`, `skipTurn` |
| `FindClosed`, `Vote`, `PublishRematch`, `FailRematch` | the parts of `VoteRematch`: lookup, the vote, the indices' section, the deferred undoing of the receipt |
| `AcknowledgeResult` | the finalizer's acknowledgement |
| `ReadActive`, `ResetActive`, `ResetIdle`, `ReadAgain` | `resetChat`: the first look at the index, the section of each case with `purgeChatLocked`, the `continue` |
| `GiveUp` | any error return, a cancelled context included |

Where a step begins and ends follows the locks. A lookup holds `indexMu` for
reading and releases it before it waits for the game's mutex, so it is a step of its own,
and the game may close, be evicted or be reset before the next one. The locked section
is one step although `publish` takes `indexMu` near its end: nobody else reads or
writes the fields it computes before, and what it publishes does not depend on the
indices. `VoteRematch` does read the indices, twice, so it is split and `Unlocked`
keeps the game's mutex between the two. `resetChat` purges closed games
without their mutex, and so does the model.

Abstractions: identifiers are fresh (128 random bits); the deadline of a turn is the time left, in ticks: `TurnTime`
when it is set and 0 when it has passed, which is all that is ever asked (with `TurnTime` 0 a turn may be
found late at once: the clock is left out); in the lobby
the new owner is any seated player, where the code takes the first in the order; a receipt remembers that an
action was accepted, not which; a request identifier belongs to one vote, for or
against; `SetRules` of the service, which reads the revision and may try a second time, is
one or two calls of `Apply`; `GiveUp` stands for every refusal, so it may also
happen where the code would succeed, which cannot hide a behaviour. The limits of 8192 receipts
and 128 buffered events, names, views and the change signal are left out. The
branch of `resetChat` for an index entry without a game (manager.go:277) cannot be
reached: `IndicesAgree` says a chat's index always leads to a listed game.

### Finalization

`pending` is the service's `pendingResults`, `holder` the mutex of the `Finalizer`, and
`work` where each adapter, and the retry loop, is in `Commit`. The database is `config`
(the system of each group), `stored` (`completed_games`), `awards` (how often the points of
a game entered the totals) and `limbo` (transactions whose COMMIT was sent and not answered).
`play` holds what a game's result will say: its group, the system of its snapshot and
whether it scores. `notices` counts announcements and `faults` bounds restarts and lost answers.

| Actions | Code |
| --- | --- |
| `ReadSettings`, `Start`, `Finish` | the snapshot of the settings before `Create`; `startedAt`; `finalResult` and the part of `publish` that stores it |
| `TakeList`, `Lock` | `Retry`, and the mutex of `Commit` |
| `Confirm`, `Recall`, `Refuse`, `Break`, `LoseAnswer` | the outcomes of `RecordCompletedGame`: recorded, already there, the system differs, an error before COMMIT, an error of COMMIT |
| `Acknowledge`, `Notify` | the rest of `Commit` |
| `Settle` | the database, which finishes a COMMIT nobody waits for |
| `SetRankingSystem`, `Crash` | the administrator's command; the process restarting |

The transaction holds the advisory lock of the game and the row of its group from before
it looks anything up until its end, so what it does is one step; what is not is the time
between COMMIT and its answer. An attempt that loses the answer fails while its transaction
still holds both locks, and the next attempt must wait for it or break down. The service
acknowledges and announces in steps of their own, still under the mutex, since a restart may
come between any two.

Abstractions: the rows a scored game adds to are one counter per game; whether a game
scores is chosen when it ends, as a matter of how many were placed; a cancelled game has no
result and just never ends here; a rematch, which keeps the snapshot of the game before, is a
game that read the settings long before it began; games of a group may overlap, which in the
service only those in `pending` can. Left out because no state reaches them: `Prepare` refusing
a result, and `ErrConflict`, since a retained result and therefore its hash never change. The
mismatch with the totals (results.go:137 and 150) needs scored games of two systems in a group,
which `OneSystemPerGroup` excludes, or totals brought in by `rankingimport`. An announcement
is a counter: whether Telegram delivers it is the transport's matter.

### Dispatcher

`backlog` is what Telegram holds until it is answered 200; `pending` and `seen` are the deduper;
`transport` is the configured one; `sender` is the task each webhook handler, the polling loop or the
scheduler has checked and not yet put in a queue. `epoch` is `chatStates` (0 while a chat has no entry), `cancelled` the generations whose
context a reset has cancelled, `queue` and `running` the queues and what their workers are doing,
`gone` the dedicated workers that have returned. `life` is "up", "stopping" once `Stop` has cancelled,
or "crashed"; `closed` are the channels it has closed. `starts` is auxiliary: it counts how often a
job was started.

| Actions | Code |
| --- | --- |
| `Deliver`, `DeliverAgain` | `webhookHandler` up to `submitUpdate`: reserve, the context check and the generation; a duplicate |
| `Poll` | `runPolling`: the loop takes an update, which Telegram then forgets, and submits it; it ignores the answer and calls `Stop` itself |
| `Tick` | `autoSkipLoop` with an expired turn |
| `Accept`, `Refuse`, `Panic` | the `select` of `EnqueueChat`, `EnqueueInline`, `EnqueueRecovery`, then `Commit` or release and the answer; the send on a channel closed meanwhile |
| `Take`, `Finish` | a worker takes a task, or drops one of an older generation; the task returns, times out or panics under `runSafely` |
| `ResetChat` | the handler of /reset calling `ResetChat` |
| `Leave` | `runDedicatedChat` seeing its context cancelled |
| `Cancel`, `Close` | `Stop`: the context, then the channels in their order |

The check and the send are steps apart, since nothing holds a lock between them: a reset or a stop
may come in between. Select chooses freely between a cancelled context and a task, hence `Take` after
`ResetChat`, and `Refuse` and `Accept` both after `Cancel`. A panic in a handler of the HTTP server is
recovered by the server, which leaves the update reserved; the scheduler's takes the process
down. A cancelled context does not end a task: `Live` tells the tasks that can still act on a game
from those whose every call the service refuses. Left out: the ten seconds after which `Stop`
gives up waiting, and the deduper forgetting updates after 24 hours or 10000 others.

### InlinePlay and ActionTokens

`made` says what each token stands for; `tokens`, `order` and `owned` are the three views the
store keeps. `game` has of each game the stage, the revision, who is to move and who is seated: any
accepted move may lead to any turn, a choice or the end, since which one is the engine's
matter. `menu` is what each inline worker is making, `lane`, `work` and `open` are the variables of
`ChatLanes`, `hand` is how far each tap, command or reset is, `due` the messages to come. `applied` is
auxiliary: the taps that moved a game.

| Actions | Code |
| --- | --- |
| `Look`, `Offer` | `buildPlayerHandResults`: the view, then one token per move under the revision of that view |
| `Tap`, `Queue`, `QueueLate`, `RefuseTap` | `HandleChosenInlineResult`: consume, then enqueue, or release when the queue is full |
| `Begin`, `Play`, `Refuse`, `Report`, `Purge` | its task: `Apply`, the result of the token, the invalidation when its own move (`closes`) has ended the game |
| `Find`, `FindNone`, `Act`, `ActLate`, `ActBarred`, `Novo`, `PurgeUser` | /entrar, /iniciar, /sair, /cancelar and the mode button, from `FindChatGame` to the answer; /novo |
| `Renew`, `Wipe`, `PurgeAll` | `HandleReset`: the dispatcher, the service, the tokens |
| `WebMove` | somebody acting in the browser |
| `TimePasses` | two minutes passing for the oldest token |

What runs in the lane runs alone unless a reset has disowned it; menus and the browser never wait
for it. A tap that was sent before a reset and reaches the queue after it is accepted into a queue
nobody serves (`sendLate`, `QueueLate`) or refused by it. A tap may be refused although the lane is not full
(`RefuseTap`), since other chats fill the same queue. The engine may refuse what is not late, as when no card is left to draw
(`Refuse`). A game opened from the web while a command looks twice is left out. A token whose tap was dropped by a reset stays
used: its player must ask for a new menu, as after any reset.

### WebRooms and LiveFeed

`rooms` is what the service shows of each room (who has entered it, its revision and then its rematch's, in one
number, whether it is open,
over, stored or gone), `receipts` the `createdRooms` of the API, `call` how far each HTTP request
is, `subscribers` and `changes` the finalizer's subscriptions: a channel of one holds a signal or does
not. `createRoom` is split where it calls the service (`MakeRoom`, `LookAtRoom`, `EnterRoom`) and
holds `roomMu` throughout; `OpenElsewhere`, `PlayElsewhere`, `VoteElsewhere`, `Forget`, `Store` and `Announce` are
the rest of the bot. Who has left stays on the list: an invitation lets such a player in again, with a
change (`JoinInvite`), while `createRoom` answers its creator. `Forget` does not signal: neither eviction nor `purgeChatLocked` does.

`LiveFeed` adds the sockets. A socket subscribes, then goes round: the public view (`ReadPublic`),
the hand or the stored result (`ReadRest`), the write, and the wait for a signal (`Wake`), the
client (`Command`), the heartbeat (`Beat`, with effect only while a result is unconfirmed) or the end
(`Close`). The room may change between any two of these. `effect` is auxiliary: the revision the
command being answered led to. Left out: sessions and their expiry (any `Close`), rate limits (a
refused command is answered with a view), the 2048 receipts (a small `ReceiptLimit`).

## 3. What TLC checks

The runs of the engine instantiate `MCUno`, the ones of the service `MCService`, the others the
MC module of their name; seats, and games and goroutines, are symmetric where no liveness is
asked. A finished game accepts no action, an instance of the service ends when its games are used up
and their revisions at the bound, and the others when their messages, requests and faults are,
so deadlock is not checked.

| Run | Instance | Properties |
| --- | --- | --- |
| `duel` | 2 seats, taken in the lobby by two of 3 people, the bot's rules with stacking and challenges, custom deck | `PenaltyStands`, `PenaltyPaidOnce`, `DebtInv` |
| `table` | 3 seats, the three rule sets switched in the lobby, hand swapping and late joins, a deck small enough to be recycled | `TypeOK`, `CardsConserved`, `StateValid`, `ChallengeSound`, `SeatingKeepsTurnOrder`, `HandsLoseCardsByRule`, `RefinesRound` |
| `rooms` | 1 chat, 2 games, 2 players, 2 goroutines, history of 1, no clock | `ServiceTypeOK`, `IndicesAgree`, `RefinesRooms` |
| `web` | 1 game in a chat or a free room, 2 goroutines, identified requests, 6 actions, turns of 2 ticks | `SkippedWereWaitedFor`, `SkipsOnlyTheLate`, `RetryKeepsAnswer` |
| `results` | 2 games, 1 group and free rooms, 2 systems, 1 adapter and the loop, 2 faults, with fairness | `FinalizationTypeOK`, `AwardedOnce`, `AnnouncedOnce`, `NothingForgotten`, `OneSystemPerGroup`, `PendingIsStored` |
| `dispatch` | 2 chats on one shared queue of 2, two messages, an expired turn and a reset, 2 handlers or the polling loop, with fairness | `DispatchTypeOK`, `HandledOnce`, `OneAtATime`, `RefinesLanes`, `ResetIsReached`, `ResetFreesChat` |
| `taps` | 2 games of a chat, 3 people, 3 tokens of which 2 are kept, any one command or reset, a game that ends at its second change | `InlineTypeOK`, `StoreAgrees`, `ResultsAreTrue`, `TapsAccounted`, `ResultStays`, `StaleAfterTwoChanges` |
| `live` | 2 rooms, 2 requests in hand with one identifier, 2 sockets of a user who may have 1, with fairness | `FeedTypeOK`, `RequestFindsItsRoom`, `SocketsAreCounted`, `AnswerShowsEffect`, `BoardsCatchUp`, `ResultIsShown` |
| `shutdown` | 2 chats, a message, a reset | `AdmittedIsDrained`, which the code violates |
| `settings` | 1 adapter, no faults | `SettingsSpareStartedGames`, which the code violates |
| `reset`, `votes` | the instance of `rooms`; one goroutine and withdrawals | `ResetIsFinal`, `WithdrawalStands`, which the code violates |

The bounds: three players are the fewest with a player who is neither author
nor target of a choice, with a direction that matters and with an order that
shrinks to two and to one; two seats are where Skip (`duel`) and Reverse (`table`, once one has left) return the turn
to the same player. Hands of one card make going out, the last place and empty
piles happen within a few moves; each deck holds the cards its run is about (a number, Skip, Draw Two, Wild
and Wild Draw Four in `duel`; a number, Draw Two, Reverse, Wild Draw Four and the swap card in `table`), few enough that a draw empties the pile and recycles
the discards. Hands grow by penalties, so larger hands are reached as well.

Two games in one chat are what a reset, an eviction from a history of one and a
rematch need to get in each other's way. A game with two players is played to its end in
four accepted actions, the bound on revisions (`MaxRevision`) there; in `web` it is six, so that
the turn comes back to a player whose skip is still waiting. A turn has two ticks in `web`, so that it can be
begun, half over and over; in `rooms`, which asks nothing of the clock, any turn may be late. Two goroutines are a
call that has looked a game up and another that changes it meanwhile; a third one
would only be between two more lookups. `rooms` explores more than 500 000 states.

For the results, two games of one group are what a change of its system can fall
between, and what a list of retries needs for one failure to be followed by something else; an
adapter and the loop compete for the mutex; two faults are a lost answer followed by a
restart, or by another lost answer of the same or of the other game. The proofs are for any number
of each.

For the dispatcher, two chats share a queue, so that one holds up the other; two handlers deliver
the same update at once; one reset (`MaxResets`) has every effect a reset has on a chat that was
never reset, and what a second one does to the queue of the first is the same step again. Queues of two
are full while a third job comes.

For the menus, a store that keeps two tokens evicts for the player's limit and for the common one
while a third is made; a lane of one is full at once; a game that has begun ends at its second change
(`MaxRevision`), so a menu, a command and a tap meet a game that has moved on, has closed, or is the next one; a
game in the lobby is still in the lobby after two, and a command that looks twice meets both. It starts
in the lobby or at the turn of one of its two players (`Starters`). Each
behaviour has one of the six commands, or a reset (`MaxMessages`), besides any number of
queries and taps; commands among themselves are in one lane and take turns.

For the live feed, one room goes through three changes and another is only opened, so that a socket can
watch either; two requests in hand repeat one identifier; two sockets of a user whose limit is one
collide and reconnect; one read of a result fails. All rooms of this run are of a group. Free rooms here, like the
queries of the inline lane in `dispatch` (`Queries` is empty there), are reached only by the theorems.

`RefinesRound` is the refinement `UnoEngine` => `UnoRound`: with the cards left out
the engine is a round of seats and turns. The abstract specification is short
enough to be read against `docs/v2-rules.md`.

`RefinesRooms` does the same for the service: under `ChatRooms` a game opens only in
a vacant chat, ends once, and is followed by one rematch after its result is stored,
although the code checks these under two locks, some of them twice.
`IndicesAgree` says that what the indices tell and what the games are never differ.
`SkippedWereWaitedFor` and `SkipsOnlyTheLate` are about the scheduler: nobody is skipped whom the
game has not waited for as long as a turn may take, and a skip that waited in a queue does not hit a
later turn. The first compares what the code goes by, one deadline that `publish` sets anew or not, with `waited`,
which counts from the moment the player came on turn or made a choice. A turn that returns to the
same player (two seats and a Skip) keeps the old deadline in the code, and no document says
otherwise: a run of turns of one player is one wait, and its last turn may be short.

`RetryKeepsAnswer` says that a web request which succeeded is never told, when repeated, that it came late, the
end of the game included. A repeat that does not find the game, after an eviction or a reset, is told so,
which the property leaves alone.

`AwardedOnce` relates the two things a retry can get wrong: a game is in the history and in
the totals, or in neither, although any commit may have happened unseen. `AnnouncedOnce`
depends on the mutex and on `AlreadyPersisted`; it is "at most", since a lost answer also
loses the announcement. `NothingForgotten` speaks of the living process: `pendingResults` is memory,
a restart before the commit does lose the points, and `docs/m7-persistence.md` accepts it. `OneSystemPerGroup`
needs the row lock of both transactions.

`HandledOnce` and `OneAtATime` are what is left of "one task of a chat at a time" when resets and
duplicates are taken seriously: a task that outlives a reset goes on running, but nothing it
calls has any effect. `RefinesLanes` says the rest: bounded, in order, nothing of an old
generation started. `ResetIsReached` and `ResetFreesChat` hold although the shared worker may be
busy for ever, which is what the recovery queue and the dedicated ones are for.

`ResultsAreTrue` compares what `handleStatusCheck` tells a player with what became of the tap;
`TapsAccounted` says a used token without a result is on its way or was dropped by a
reset; `ResultStays` that two deliveries of a tap do not report twice. `StaleAfterTwoChanges`
is about the second attempt of /entrar and of `SetRules`: one change by somebody else never
makes them fail. A move of another goroutine between each of the two reads and its attempt is what it takes, so the run
lets two changes leave the game in the lobby, where both commands act.

`RequestFindsItsRoom` depends on the order of `roomMu`, `Create` and the receipt.
`BoardsCatchUp` and `ResultIsShown` say that coalescing loses no change and that the heartbeat
makes up for a result that was stored late or could not be read. `SocketsAreCounted` is exact, so a
user who reconnects for ever is neither locked out nor let in twice.

Four runs are disagreements between documents and code:

- `reset`: `docs/v2-application.md:198-201` says references taken before a reset cannot
  publish in the indices again. Only the active game is marked as reset; a vote that had
  looked up a closed game of the chat opens its rematch after the reset;
- `votes`: `docs/miniapp-webapp.md:143` says receipts keep an acceptance delivered again
  from counting after it was withdrawn. The receipt of the last acceptance is
  deleted when the rematch cannot be opened, while its vote stays;
- `settings`: README.md:203 of the repository says a started game goes by the snapshot of its
  creation. Its result is refused when the group's system has changed meanwhile, which the
  command allows until something is scored; it stays pending, and the rematch waits for it;
- `shutdown`: `docs/v2-telegram.md:322` and the comment of `Stop` say what was admitted is
  drained. The worker of a chat that was reset returns when the context is cancelled, whatever its
  queue holds.

Smaller disagreements noticed while reading, which no run is about:
`docs/v2-rules.md:145` and `docs/v2-application.md:219-220` say a player who left a round is not let in
again, while `join` (game.go:158-202) seats that player with a new hand, a test
(`game_test.go:1139`) expects it and `docs/project-status.md:176-179` describes it;
README.md:72 of the repository says the tokens of a game that ended are invalidated, while an inline worker that
read it before may create tokens for it afterwards (they are refused when tapped, and expire);
the comment at `finalization.go:11-12` says subscribers recover every change, while neither a reset nor
`SetLocked` signals them; `handleStatusCheck` answers "processed" for a tap that a reset has dropped;
polling ignores a refusal (bot.go:347; `Refuse` after `Poll` loses the update), which `docs/v2-telegram.md:320` does say; receipts of rooms are never freed, so
after 2048 requests to create one each further request is refused (rooms.go:181); a room that closes between
the two reads of a view closes the socket instead of showing the end;
the comment at `renderer.go:476` says the panel formats the current configuration, while `scanGroup`
(`storage/postgres/groups.go:10-18`) never reads `ranking_private`;
`game.go:76-78` says a web draw passes the turn only for an unplayable card while
`game.go:409-413` always passes it; `docs/v2-rules.md:138-141` says `Rules` has two
fields; `docs/v2-application.md:17` says every new game starts unlocked, while a rematch
keeps the lock of the game before (rematch.go:108), as `docs/miniapp-webapp.md:147` says;
`docs/m7-persistence.md:46` and the comment at `results.go:104` say nothing retries a pending
result, while `Finalizer.Run` does.

Liveness is claimed of three specifications (`LiveSpec`), each with the fairness its code has.
Results: the loop runs as long as the process (`Run` returns only at shutdown); a Go mutex does not starve
it, hence strong fairness of its `Lock`; whoever holds the mutex ends within the ten seconds of `Commit`;
the database settles an open transaction; and, asked about the same game again and again, it
answers in the end - the one assumption about the outside, without which a retry
promises nothing. Dispatcher: a sender does not stay between its check and its send, a free worker takes
what is queued, and the tasks of the recovery, inline and dedicated queues end by their timeouts; of the tasks
of the shared workers nothing is assumed. Live feed: the loop of a socket goes on, its reads and writes
having deadlines; reads of a result fail finitely often. Nobody is obliged to play, to tap, to connect or
to finish a game, and faults are finitely many. Of the engine, the service and the menus no liveness is
claimed: nothing obliges a player to act.

Each property of a passing run has a mutant in `PROJECT.json`: an operator next to
the one it replaces (`DrawsWithoutRecycling`, `KeepSwap`, ...) that makes a
plausible mistake, and with which TLC finds the property violated.

## 4. What is proved

Each theorem is about every value of the constants that the named assumptions of the module allow;
TLC evaluates those assumptions in every run. An invariant has one lemma per helper, one per action
and a theorem that combines them; an invariant or a step property that a run checks then follows from it.

| Component | Inductive invariant | What follows |
| --- | --- | --- |
| `UnoEngine` | `EngineInvariant`, `DebtInvariant`, `ValidInvariant` | `TypeCorrect`, `CardsAreConserved`, `PenaltiesStand`, `ChallengesAreSound`, `PenaltiesPaidOnce`, `HandsLoseByRule`, `StatesAreValid`, `SeatingKeepsOrder`, `PlacesAreFinal`, `EngineRefinesRound` |
| `Finalization` | `FinalizationInvariant` | `FinalizationTypes`, `PointsAwardedOnce`, `PointsAnnouncedOnce`, `ResultsAreKept`, `SystemsDoNotMix` |
| `GameService` | `ServiceInvariant`, `WaitInvariant` | `ServiceTypes`, `IndicesTellTheTruth`, `ServiceRefinesRooms`, `SkipsLeaveTime`, `SkipsAreDue`, `AnswersAreKept` |
| `Dispatcher` | `DispatchInvariant` | `DispatchTypes`, `NothingTwice`, `OneLiveTask`, `DispatcherRefinesLanes` |
| `InlinePlay`, `ActionTokens` | `InlineInvariant` | `InlineTypes`, `ViewsAgree`, `TapsAreToldTheTruth`, `NoTapIsLost`, `ResultsStay`, `StaleMeansTwice` |
| `LiveFeed`, `WebRooms` | `FeedInvariant` | `FeedTypes`, `RequestsOpenOneRoom`, `CountsAreRight`, `AnswersShowEffects` |

**Engine** (`EngineAssumption`, `CardsAssumption`, `DeckAssumption`, `NothingAssumption`). Neither typing nor conservation is
inductive alone. Conservation is broken if a
draw is handed to a player who is not in the game, since vacated hands return to the
pile and would do so again; so the invariant must know that whoever has the turn
(`TurnSeated`), whoever is choosing or will be affected (`ChoiceSeated`) and a
bluffer who may be caught (`BlufferSeated`) is seated, through every
departure and late join. `SeatOrder` says the order lists exactly the players still
playing, once each, and `BareTable` that nothing is on the table before the deal.
The helpers have their lemmas: a draw partitions the piles, a successor is
seated, removing a seat keeps the others.

`DebtInv` adds what is owed. Between a Wild Draw Four and the choice of its colour nothing is owed
yet, so `PenaltyStands` and `ChallengeSound` need to know what the open choice will bring: `ChoiceOwes`
says it is between two people, that it adds cards, and opens a challenge, only over a Wild Draw Four, and that one
which swaps hands adds none. That a step pays a penalty once and takes cards from a hand only by rule is proved in the same
lemmas (`Lawful`): whoever plays a card loses that one because it is now on top, everybody else only
gains (`GrowsByRule`), and `DrawToCounts` counts the cards of a draw across a recycling of the discards.

`ValidInv` adds the whole of `Validate`, so the check and the rollback at the end of `apply` are never taken. Two things
`Validate` cannot see are needed with it. `Stocked`: the inventory is the deck of the rules in force, which
`SetRules` may have replaced, so it is never empty (`DeckAssumption`) and has no card the rules forbid. `OpenerHolds`:
whoever is asked for the colour of the opening card holds cards, for otherwise that choice would end the game before it
began. A finished game is the delicate part: hands, places and the reason must fit for each of the ways it may end
(`Ending`), and the lemmas go by what is true in the middle of a handler (`Ongoing`, `Going`, `Tinted`), before
`Finish` or `ChangeTurn` completes it.

`SeatingKeepsOrder` is about positions: `Upcoming` reads the seats from the current one on in the direction of
play, so a late join, which the code inserts at one of two indices, is shown to append to it, and a departure, which moves the
indices of others and perhaps the turn, to remove the one player. The other handlers do not seat or remove
anybody who stays in the game.

`EngineRefinesRound` classifies the handlers once: a draw, a pass or a play either keeps the roster and moves
the turn (`Stays`) or lets its player go out (`Outs`); a departure is from the lobby, leaves one over or leaves the
game going on; the rest are a join, a start, new rules or a cancellation. Each class is one move of
`RoundMoves`, and `SkipTurn` one of `TurnAction`'s. That needs `ValidInv`: until a game ends, its places are those who
went out and nobody else (`Placed`), as the finishers of a round are. `PlacesAreFinal` comes from the same classes: no place is changed
or taken back, and who went out never sits down again. No run checks that one.

**Results** (`FinalizationAssumption`). That the points enter the totals once is not
inductive: an open transaction may still record its game, so `LimboAgrees` says its game is
unrecorded, its system the one in force and its group locked by nobody else, and `RowFree` in
`SetRankingSystem` and in the next attempts keeps that true until it settles. That they are announced
once needs that whoever confirmed a result freshly has not announced it (`WorkAgrees`). `RowsAgree` and
`PendingAgrees` tie rows and memory to games that ended, whose result no longer changes. Two lemmas
(`RecordKept`, `FailsInv`) are for what several actions share.

**Service** (`ServiceAssumption`, `NothingAssumption`). `IndicesAgree` speaks of the indices, but every section
acts on a pointer read before. `CallsSound` says each call has what its operation needs (its game, player, request or
chat); `PublishHolds` that between the two sections of a vote the mutex keeps the game closed and its vote
as it was; `SeatsOnRoster` that a player of a round is one of the entry; `DoneHasReceipt` that a request
which was answered has left its receipt. The history is a sequence that loses elements anywhere (`Sift`).
The second half of `GameServiceProofs` reads each step as one of `ChatRooms`, or none, by what it does to the entry and to
the chat of one game: opening, ending, storing, a rematch that also opens the next game, a purge, an eviction. The same
classification gives `SkipsOnlyTheLate` and `RetryKeepsAnswer`, the latter with `DoneHasReceipt`. For
`SkippedWereWaitedFor` it gives `WaitSound`: the time left and the time waited make at least a turn, so nothing left
means waited in full.

**Dispatcher** (`DispatcherAssumption`). The queues, the workers and the senders hold
tasks; `InOnePlace` says a task is held once, queued once and started at most once, counting what the deduper has
reserved. `OldAreCancelled` says every generation but the latest is cancelled, and `OneWorkerEach` that no lane is
served by two workers. Then two live tasks of a chat would be of one lane, hence one worker's (`OneLiveTask`).
`DispatcherRefinesLanes` maps a queue shared by several chats to a lane for each of them: the lane is
the queue sifted for the chat's live tasks, so an `Append` or a `Tail` of the one is the same, or nothing, in the other.

**Menus and tokens** (`TokensAssumption`, `InlineAssumption`). `StoreSound` is `StoreAgrees` with the types of the three
views; `GamesSound` says one game at most is open, `LaneSound` that what waits in the lane waits there once,
`DueSound` that each message comes once, and `HandsSound`, for each stage of a tap
(`TapSound`) and of a command (`CommandSound`), what the token says meanwhile and which revision was read. A tap's job is in the
lane or at work from `Queue` to `Report` unless a reset renewed the lane, which is what makes
`TapsAccounted` and `ResultsAreTrue` inductive.

**HTTP** (`WebRoomsAssumption`, `NoRoomAssumption`, `LiveFeedAssumption`). `RoomMuIsMutex` says one request at a time opens a room, `MakesAreNew` that the one which found
no receipt still has none when it makes the room, hence
`RequestFindsItsRoom`. `SocketsAreCounted` equates a counter with the number of open sockets, through the connection
of one and the end of another. `SocketsFollow` and `EffectIsKnown` say that the view in the making is not older
than the command it answers.

Assumptions such as `NothingAssumption` say that the value standing for "none" is not a record, nor the reason of an end; the modules need
them because a pointer that may be nil is a record or `None`. `SiftingProofs` has no induction principle to
start from, as the provers cannot instantiate one: it derives what it needs from `<` being well founded on the
naturals, for a set of numbers instead of a predicate (`LeastElement`).

Only model-checked: `PendingIsStored`, `ResetIsReached`, `ResetFreesChat`, `BoardsCatchUp` and `ResultIsShown`, liveness being
out of the prover's reach. Every other property of a passing run, whether an invariant, an action property or a
refinement, is a theorem. The four properties the code violates are of course only runs.

## 5. What is not modelled, and the plan

The plan, in order:

1. `GameService` with `Finalization`: the service's `AcknowledgeResult` as the finalizer's.
2. `Migrations`: one migrator under the advisory lock, restarts between migrations.
3. `Ranking`: score deltas and validation as operators.
4. Group settings: who may change what, and the buttons of /config.

Not modelled of the parts that are: the trimming of the deduper, cursor and profile tokens;
/estado, the lock command (`SetLocked` itself is in `GameService`), /config, privacy and membership;
authentication, room references, rate limits and the rankings over HTTP; a third game that
takes a chat while an older closed one is voted on (two games are in `rooms`); the order in
which `app.go` stops its servers around `Stop`.

Left out for good: message texts, stickers and rendering, the media cache, configuration,
the simulator, the seeding and import tools, single SQL reads, and the web client,
which keeps no authoritative state.
